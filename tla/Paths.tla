------------------------------- MODULE Paths --------------------------------
(***************************************************************************)
(* Paths and the path/inode maps.  A path is the sequence of its           *)
(* components, the root is the empty sequence: names never contain '/'     *)
(* (db.rs 6-9), so a path string and its sequence determine each other,    *)
(* and the key (parent, name) of a row is the path Join(parent, name).     *)
(***************************************************************************)
EXTENDS Integers, Sequences

Root == <<>>

Join(parent, name) == Append(parent, name)

(* split_path: the parent part of a path; the root is its own parent.      *)
ParentOf(p) == IF p = Root THEN Root ELSE SubSeq(p, 1, Len(p) - 1)

(* path == old, or path.starts_with("{old}/").                             *)
Within(old, p) == Len(old) <= Len(p) /\ SubSeq(p, 1, Len(old)) = old

StrictlyWithin(old, p) == Within(old, p) /\ p # old

(* The path p with its prefix old replaced by new.                         *)
Rebase(old, new, p) == new \o SubSeq(p, Len(old) + 1, Len(p))

-----------------------------------------------------------------------------
(* Hash maps as functions on their key sets.                               *)
Put(f, k, v) == [x \in DOMAIN f \union {k} |-> IF x = k THEN v ELSE f[x]]
Drop(f, S) == [x \in DOMAIN f \ S |-> f[x]]

(* f with every key k of S replaced by to(k).                              *)
MoveKeys(f, S, to(_)) ==
  LET target == {to(k) : k \in S}
  IN  [x \in (DOMAIN f \ S) \union target |->
         IF x \in target THEN f[CHOOSE k \in S : to(k) = x] ELSE f[x]]

(* Moving S by to(_) needs no two rows under one key.                      *)
KeysCollide(keys, S, to(_)) ==
  \/ \E k \in S : to(k) \in keys \ S
  \/ \E j, k \in S : j # k /\ to(j) = to(k)

-----------------------------------------------------------------------------
(* rekey_maps.  Its loop visits the keys in hash order; the result does    *)
(* not depend on the order as long as new is neither inside old (rename    *)
(* refuses it with EINVAL) nor above it (refused with ENOTEMPTY).          *)
RekeyedSelfOnly(ino_by_path, old) == {old} \intersect DOMAIN ino_by_path

Rekeyed(ino_by_path, old) == {p \in DOMAIN ino_by_path : Within(old, p)}

RekeyInoByPath(ino_by_path, old, new) ==
  LET R(p) == Rebase(old, new, p)
  IN  MoveKeys(ino_by_path, Rekeyed(ino_by_path, old), R)

RekeyPathByIno(ino_by_path, path_by_ino, old, new) ==
  LET moved == Rekeyed(ino_by_path, old)
  IN  [i \in DOMAIN path_by_ino \union {ino_by_path[p] : p \in moved} |->
         IF \E p \in moved : ino_by_path[p] = i
           THEN Rebase(old, new, CHOOSE p \in moved : ino_by_path[p] = i)
           ELSE path_by_ino[i]]
=============================================================================
