---------------------------- MODULE MCNamespace -----------------------------
(* Instances of Namespace for TLC. *)
EXTENDS Namespace, TLC

CONSTANTS n1, n2, n3

Names2 == {n1, n2}
Names3 == {n1, n2, n3}

(* No name contains a wildcard: a pattern matches itself only.             *)
Exact == {<<n, n>> : n \in Names2}
(* n2 contains "_" in the place of a character of n1.                      *)
Wild == Exact \union {<<n3, n3>>, <<n2, n1>>}

(* What TLC tells states apart by.  Nothing reads the last reply.  Rows    *)
(* and handles of a file that has strayed or is lost only ever add to the  *)
(* rows of such files, whose only effect is that a rename may reply EIO;   *)
(* that a file has strayed matters as long as it is linked.                *)
Live(rows) == {r \in rows : r[2] \notin lost \union strayed}

LiveView ==
  <<entries, Live(blocks), maps, Live(handles), known, next_id, lost, replaced,
    {id \in strayed : Linked(id)}>>

NameSymmetry == Permutations(Names2)
=============================================================================
