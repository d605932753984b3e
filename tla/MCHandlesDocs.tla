--------------------------- MODULE MCHandlesDocs ----------------------------
(* What the documents promise of files, over one file of two blocks.       *)
EXTENDS Handles

OneKey == {<<"a">>}
MCCell == {0, 1, 2}
(* A write inside a block, and one of the whole file.                      *)
PartAndWhole == {<<1, <<2>>>>, <<0, <<1, 2, 1, 2>>>>}
ReadAll == {<<0, 4>>}

VARIABLE broken   \* the promises that a step has broken so far

Promise == {"append", "fsync", "extend"}

MCInit == Init /\ broken = {}

MCNext ==
  /\ Next
  /\ broken' = broken \union
       (IF FlushKeepsOtherCells THEN {} ELSE {"append"}) \union
       (IF FsyncOkMeansStored THEN {} ELSE {"fsync"}) \union
       (IF ExtensionZeroFilled THEN {} ELSE {"extend"})

MCSpec == MCInit /\ [][MCNext]_<<vars, broken>>

(* The three promises, as weak as they can be: no behaviour breaks all of  *)
(* them.  One that does refutes each: the step that adds a promise to      *)
(* `broken` is its counterexample (the flush's upsert of a block begun     *)
(* empty, fsync after a read whose flush failed, truncate to a multiple of *)
(* the block size).                                                        *)
AFilePromiseHolds == broken # Promise
=============================================================================
