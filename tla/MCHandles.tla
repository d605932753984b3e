----------------------------- MODULE MCHandles ------------------------------
(***************************************************************************)
(* Handles for TLC: two blocks of two cells, keys of one component.  One   *)
(* run covers three ways of using the files, chosen at the start; each     *)
(* exhausts other bounds.                                                  *)
(***************************************************************************)
EXTENDS Handles, TLC

CONSTANTS k1, k2

TwoKeys == {<<k1>>, <<k2>>}
KeySymmetry == Permutations({k1, k2})
MCCell == {0, 1, 2}

WholeBlocks == {<<2, <<2, 1>>>>, <<0, <<2, 1, 1, 2>>>>}
(* Two overlapping writes, one of them over the block boundary.            *)
Overlapping == {<<2, <<2, 1>>>>, <<1, <<1, 2>>>>}
AllWrites == WholeBlocks \union Overlapping

ReadParts == {<<0, 4>>, <<1, 2>>}

VARIABLE use

Writing(W) ==
  reply'.op = "write" =>
    \E h \in DOMAIN files, w \in W, ok \in BOOLEAN : write(h, w[1], w[2], ok)

(* One handle at a time, whose file keeps its name; writes of whole        *)
(* blocks, no truncation, no failure.                                      *)
Tidy ==
  /\ Cardinality(DOMAIN files') <= 1 /\ fails' = 0
  /\ Writing(WholeBlocks) /\ reply'.op # "setattr"
  /\ \A k \in DOMAIN size : ~Closed(k) =>
       k \in DOMAIN size' /\ ino_by_path'[k] = ino_by_path[k]

(* Two handles, and anything done with them.                               *)
Free ==
  /\ next_fh' <= 3 /\ writes' <= 3
  /\ Writing(Overlapping)
  /\ reply'.op = "read" => reply'.len = 4

(* Many handles, three at once, and little done with them.                 *)
Many ==
  /\ Cardinality(DOMAIN files') <= 3 /\ writes' <= 1
  /\ Writing({<<2, <<2, 1>>>>}) /\ reply'.op \notin {"read", "setattr"}

MCInit == Init /\ use \in {"tidy", "free", "many"}

MCNext ==
  /\ Next
  /\ use = "tidy" => Tidy
  /\ use = "free" => Free
  /\ use = "many" => Many
  /\ UNCHANGED use

MCSpec == MCInit /\ [][MCNext]_<<vars, use>>

(* No action reads the last reply; TidyReadsSeeWrites does, and FlushLands *)
(* and SizeShrinksOnlyBySetattr are about steps.                           *)
ReplyOnlyTidy ==
  <<size, rows, ino_by_path, path_by_ino, next_ino, open_handles,
    open_handles_by_ino, next_fh, files, posix, pend, writes, fails, use,
    IF use = "tidy" THEN reply ELSE <<>>>>

(* In tidy use a closed file is, in the database, what POSIX says (the     *)
(* buffers, their flushes, and the renames and unlinks between them),      *)
TidyFilesArePosix == use = "tidy" => ClosedFileIsPosix

(* a read answers with all acknowledged writes, buffered or stored (read's *)
(* flush_handle before it asks the database),                              *)
TidyReadsSeeWrites == use = "tidy" => ReadsSeeAckedWrites

(* and no blocks are left under a key without a file (rename, unlink, and  *)
(* flushes that do not look whether their file is there).                  *)
TidyLeavesNoOrphans == use = "tidy" => NoOrphanRows
=============================================================================
