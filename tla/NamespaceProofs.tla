-------------------------- MODULE NamespaceProofs ---------------------------
(***************************************************************************)
(* The namespace of fs.rs and db.rs after any sequence of callbacks, for   *)
(* any names, any depth and any number of inodes and objects, with and     *)
(* without failing statements.  First the two inode maps, which agree      *)
(* whatever the names are; then types; then the tree, the inodes the       *)
(* kernel holds and the blocks, which stay in step as long as LIKE takes   *)
(* the names of directories literally (no "_" or "%" in them).             *)
(*                                                                         *)
(* MapsAgree is inductive but for the arithmetic of next_ino, so Agree     *)
(* adds that inodes are numbers.  Each lemma takes one way the code        *)
(* changes the maps; the callbacks use no other.  The invariant of the     *)
(* tree is TInv.                                                           *)
(***************************************************************************)
EXTENDS Namespace, TLAPS, SequenceTheorems

(* MapsAgree of the maps f, g and the counter n, which are not yet known   *)
(* to be the current ones, with the type facts its step needs.             *)
Agree(f, g, n) ==
  /\ n \in Nat
  /\ \A i \in DOMAIN g : i \in Nat /\ i < n
  /\ \A p \in DOMAIN f : f[p] \in DOMAIN g /\ g[f[p]] = p

IInv == Agree(ino_by_path, path_by_ino, next_ino)

-----------------------------------------------------------------------------
(* ino_for of a path without an inode: the counter's value goes into both  *)
(* maps and the counter moves on.                                          *)
LEMMA FreshAgrees ==
  ASSUME NEW f, NEW g, NEW n, NEW p, Agree(f, g, n)
  PROVE  Agree(Put(f, p, n), Put(g, n, p), n + 1)
<1> DEFINE F == Put(f, p, n)
           G == Put(g, n, p)
<1>1. n + 1 \in Nat /\ n < n + 1
  BY DEF Agree
<1>2. ASSUME NEW i \in DOMAIN G PROVE i \in Nat /\ i < n + 1
  BY <1>2 DEF Agree, Put
<1>3. ASSUME NEW q \in DOMAIN F PROVE F[q] \in DOMAIN G /\ G[F[q]] = q
  <2>1. CASE q = p
    BY <1>3, <2>1 DEF Put
  <2>2. CASE q # p
    <3>1. q \in DOMAIN f /\ F[q] = f[q]
      BY <1>3, <2>2 DEF Put
    <3>2. f[q] \in DOMAIN g /\ g[f[q]] = q /\ f[q] # n
      BY <3>1 DEF Agree
    <3> QED
      BY <3>1, <3>2 DEF Put
  <2> QED
    BY <2>1, <2>2
<1> QED
  BY <1>1, <1>2, <1>3 DEF Agree

(* unlink and rmdir: a path and its inode leave both maps.                 *)
LEMMA ForgetAgrees ==
  ASSUME NEW f, NEW g, NEW n, NEW p, Agree(f, g, n)
  PROVE  Agree(Drop(f, {p}),
               IF p \in DOMAIN f THEN Drop(g, {f[p]}) ELSE g, n)
<1> DEFINE F == Drop(f, {p})
           G == IF p \in DOMAIN f THEN Drop(g, {f[p]}) ELSE g
<1>1. ASSUME NEW q \in DOMAIN F PROVE F[q] \in DOMAIN G /\ G[F[q]] = q
  <2>1. q \in DOMAIN f /\ q # p /\ F[q] = f[q]
    BY <1>1 DEF Drop
  <2>2. f[q] \in DOMAIN g /\ g[f[q]] = q
    BY <2>1 DEF Agree
  <2>3. p \in DOMAIN f => f[q] # f[p]
    BY <2>1, <2>2 DEF Agree
  <2> QED
    BY <2>1, <2>2, <2>3 DEF Drop
<1>2. ASSUME NEW i \in DOMAIN G PROVE i \in Nat /\ i < n
  BY <1>2 DEF Agree, Drop
<1> QED
  BY <1>1, <1>2 DEF Agree

(* rekey_maps: the paths within old move, their inodes stay.               *)
LEMMA RekeyAgrees ==
  ASSUME NEW f, NEW g, NEW n, NEW old, NEW new, Agree(f, g, n)
  PROVE  Agree(RekeyInoByPath(f, old, new), RekeyPathByIno(f, g, old, new), n)
<1> DEFINE S == Rekeyed(f, old)
           R(p) == Rebase(old, new, p)
           T == {R(k) : k \in S}
           F == RekeyInoByPath(f, old, new)
           G == RekeyPathByIno(f, g, old, new)
<1>1. S \subseteq DOMAIN f
  BY DEF Rekeyed
<1>2. F = [x \in (DOMAIN f \ S) \union T |->
             IF x \in T THEN f[CHOOSE k \in S : R(k) = x] ELSE f[x]]
  BY DEF RekeyInoByPath, MoveKeys
<1>3. G = [i \in DOMAIN g \union {f[p] : p \in S} |->
             IF \E p \in S : f[p] = i
               THEN R(CHOOSE p \in S : f[p] = i) ELSE g[i]]
  BY DEF RekeyPathByIno
<1> HIDE DEF S, F, G, R
<1>4. \A p, q \in DOMAIN f : f[p] = f[q] => p = q
  BY DEF Agree
<1>5. ASSUME NEW x \in DOMAIN F PROVE F[x] \in DOMAIN G /\ G[F[x]] = x
  <2>1. CASE x \in T
    <3>1. PICK k \in S : F[x] = f[k] /\ R(k) = x
      <4>1. F[x] = f[CHOOSE k \in S : R(k) = x]
        BY <1>2, <1>5, <2>1
      <4>2. \E k \in S : R(k) = x
        BY <2>1
      <4> QED
        BY <4>1, <4>2
    <3>2. (CHOOSE p \in S : f[p] = f[k]) = k
      BY <1>1, <1>4
    <3>3. f[k] \in DOMAIN G /\ G[f[k]] = R(CHOOSE p \in S : f[p] = f[k])
      BY <1>3
    <3> QED
      BY <3>1, <3>2, <3>3
  <2>2. CASE x \notin T
    <3>1. x \in DOMAIN f /\ x \notin S /\ F[x] = f[x]
      BY <1>2, <1>5, <2>2
    <3>2. ~ \E p \in S : f[p] = f[x]
      BY <1>1, <1>4, <3>1
    <3>3. f[x] \in DOMAIN g /\ g[f[x]] = x
      BY <3>1 DEF Agree
    <3> QED
      BY <1>3, <3>1, <3>2, <3>3
  <2> QED
    BY <2>1, <2>2
<1>6. ASSUME NEW i \in DOMAIN G PROVE i \in Nat /\ i < n
  BY <1>1, <1>3, <1>6 DEF Agree
<1> QED
  BY <1>5, <1>6 DEF Agree, F, G

-----------------------------------------------------------------------------
(* Each ingredient of the callbacks keeps the maps in agreement.           *)
LEMMA AnswerKeeps == ASSUME IInv, NEW r, Answer(r) PROVE IInv'
BY DEF IInv, Answer, maps

(* ino_for keeps the maps in agreement.                                    *)
LEMMA InoForKeeps == ASSUME IInv, NEW p, NEW id, InoFor(p, id) PROVE IInv'
<1>1. CASE UNCHANGED maps
  BY <1>1 DEF IInv, maps
<1>2. CASE /\ ino_by_path' = Put(ino_by_path, p, next_ino)
           /\ path_by_ino' = Put(path_by_ino, next_ino, p)
           /\ next_ino' = next_ino + 1
  <2>1. Agree(Put(ino_by_path, p, next_ino), Put(path_by_ino, next_ino, p), next_ino + 1)
    BY FreshAgrees DEF IInv
  <2> QED
    BY <1>2, <2>1 DEF IInv
<1> QED
  BY <1>1, <1>2 DEF InoFor

(* unlink and rmdir keep the maps in agreement.                            *)
LEMMA ForgetKeeps == ASSUME IInv, NEW p, Forget(p) PROVE IInv'
<1>1. Agree(Drop(ino_by_path, {p}),
            IF p \in DOMAIN ino_by_path THEN Drop(path_by_ino, {ino_by_path[p]})
                                        ELSE path_by_ino, next_ino)
  BY ForgetAgrees DEF IInv
<1> QED
  BY <1>1 DEF IInv, Forget

(* rename keeps the maps in agreement.                                     *)
LEMMA MoveEntryKeeps == ASSUME IInv, NEW old, NEW new, MoveEntry(old, new) PROVE IInv'
<1>1. CASE Answer("EIO")
  BY <1>1, AnswerKeeps
<1>2. CASE /\ ino_by_path' = RekeyInoByPath(ino_by_path, old, new)
           /\ path_by_ino' = RekeyPathByIno(ino_by_path, path_by_ino, old, new)
           /\ next_ino' = next_ino
  <2>1. Agree(RekeyInoByPath(ino_by_path, old, new),
              RekeyPathByIno(ino_by_path, path_by_ino, old, new), next_ino)
    BY RekeyAgrees DEF IInv
  <2> QED
    BY <1>2, <2>1 DEF IInv
<1> QED
  BY <1>1, <1>2 DEF MoveEntry

(* readdir hands out consecutive inodes, one to each child without one.    *)
LEMMA ReaddirKeeps == ASSUME IInv, NEW i, readdir(i) PROVE IInv'
<1> DEFINE p == PathOf(i)
           listed == {q \in DOMAIN entries : ParentOf(q) = p} \union {ParentOf(p)}
           fresh == listed \ DOMAIN ino_by_path
<1> HIDE DEF p, listed
<1>0. PICK n \in next_ino..(MaxIno + 1) : \E num \in [fresh -> next_ino..(n - 1)] :
        /\ \A q, r \in fresh : num[q] = num[r] => q = r
        /\ ino_by_path' = [q \in DOMAIN ino_by_path \union fresh |->
                             IF q \in fresh THEN num[q] ELSE ino_by_path[q]]
        /\ path_by_ino' = [k \in DOMAIN path_by_ino \union next_ino..(n - 1) |->
                             IF k \in next_ino..(n - 1)
                               THEN CHOOSE q \in fresh : num[q] = k
                               ELSE path_by_ino[k]]
        /\ next_ino' = n
  BY ZenonT(40) DEF readdir, p, listed
<1>1. PICK num \in [fresh -> next_ino..(n - 1)] :
        /\ \A q, r \in fresh : num[q] = num[r] => q = r
        /\ ino_by_path' = [q \in DOMAIN ino_by_path \union fresh |->
                             IF q \in fresh THEN num[q] ELSE ino_by_path[q]]
        /\ path_by_ino' = [k \in DOMAIN path_by_ino \union next_ino..(n - 1) |->
                             IF k \in next_ino..(n - 1)
                               THEN CHOOSE q \in fresh : num[q] = k
                               ELSE path_by_ino[k]]
        /\ next_ino' = n
  BY <1>0
<1> HIDE DEF fresh
<1>2. next_ino \in Nat /\ n \in Nat /\ next_ino <= n
  BY <1>1, BoundsAssumption DEF IInv, Agree
<1>3. ASSUME NEW k \in DOMAIN path_by_ino' PROVE k \in Nat /\ k < n
  BY <1>1, <1>2, <1>3 DEF IInv, Agree
<1>4. ASSUME NEW q \in DOMAIN ino_by_path'
      PROVE  ino_by_path'[q] \in DOMAIN path_by_ino' /\ path_by_ino'[ino_by_path'[q]] = q
  <2>1. CASE q \in fresh
    <3>1. ino_by_path'[q] = num[q] /\ num[q] \in next_ino..(n - 1)
      BY <1>1, <2>1
    <3>2. (CHOOSE r \in fresh : num[r] = num[q]) = q
      BY <1>1, <2>1
    <3> QED
      BY <1>1, <3>1, <3>2
  <2>2. CASE q \notin fresh
    <3>1. q \in DOMAIN ino_by_path /\ ino_by_path'[q] = ino_by_path[q]
      BY <1>1, <1>4, <2>2
    <3>2. /\ ino_by_path[q] \in DOMAIN path_by_ino
          /\ path_by_ino[ino_by_path[q]] = q
          /\ ino_by_path[q] \notin next_ino..(n - 1)
      BY <1>2, <3>1 DEF IInv, Agree
    <3> QED
      BY <1>1, <3>1, <3>2
  <2> QED
    BY <2>1, <2>2
<1> QED
  BY <1>1, <1>2, <1>3, <1>4 DEF IInv, Agree

-----------------------------------------------------------------------------
(* The maps of a fresh mount agree.                                        *)
LEMMA InitAgrees == Init => IInv
BY DEF Init, IInv, Agree, ROOT_INO

(* Every callback keeps the maps in agreement, and so does a remount.      *)
LEMMA StepAgrees == IInv /\ [Next]_vars => IInv'
<1> SUFFICES ASSUME IInv, [Next]_vars PROVE IInv'
  OBVIOUS
<1>1. ASSUME NEW i, NEW n, lookup(i, n) PROVE IInv'
  BY <1>1, AnswerKeeps, InoForKeeps DEF lookup
<1>2. ASSUME NEW i, NEW n, NEW kind, Make(i, n, kind) PROVE IInv'
  BY <1>2, AnswerKeeps, InoForKeeps DEF Make
<1>3. ASSUME NEW i, NEW n, unlink(i, n) PROVE IInv'
  BY <1>3, ForgetKeeps DEF unlink
<1>4. ASSUME NEW i, NEW n, unlinkHalfDone(i, n) PROVE IInv'
  BY <1>4 DEF unlinkHalfDone, maps, IInv
<1>5. ASSUME NEW i, NEW n, rmdir(i, n) PROVE IInv'
  BY <1>5, AnswerKeeps, ForgetKeeps DEF rmdir
<1>6. ASSUME NEW i, NEW n, NEW j, NEW m, rename(i, n, j, m) PROVE IInv'
  BY <1>6, AnswerKeeps, MoveEntryKeeps DEF rename
<1>7. ASSUME NEW i, NEW n, NEW j, NEW m, renameTargetUnseen(i, n, j, m) PROVE IInv'
  BY <1>7, AnswerKeeps, MoveEntryKeeps DEF renameTargetUnseen
<1>8. ASSUME NEW i, readdir(i) PROVE IInv'
  BY <1>8, ReaddirKeeps
<1>9. ASSUME NEW i, NEW h, open(i) \/ flush(h) \/ release(h) \/ store(h, i) PROVE IInv'
  <2>1. CASE UNCHANGED maps
    BY <2>1 DEF maps, IInv
  <2> QED
    BY <1>9, <2>1, AnswerKeeps DEF open, flush, release, store
<1>10. CASE remount
  BY <1>10 DEF remount, IInv, Agree, ROOT_INO
<1>11. CASE UNCHANGED vars
  BY <1>11 DEF vars, IInv
<1> QED
  BY <1>1, <1>2, <1>3, <1>4, <1>5, <1>6, <1>7, <1>8, <1>9, <1>10,
     <1>11
  DEF Next, create, mkdir

(* After any sequence of callbacks, failed ones included, the inode of     *)
(* every path maps back to that path and lies below next_ino, so no two    *)
(* paths share an inode and ino_for never hands out one in use (fs.rs      *)
(* ino_for, rekey_maps, unlink, rmdir, readdir).                           *)
THEOREM MapsAgreeTheorem == Spec => []MapsAgree
<1>1. IInv => MapsAgree
  BY DEF IInv, Agree, MapsAgree
<1> QED
  BY <1>1, InitAgrees, StepAgrees, PTL DEF Spec

-----------------------------------------------------------------------------

(* Every name, as an SQL pattern, matches itself only.                     *)
Literal == \A x, y \in Name : <<x, y>> \in Like => x = y

-----------------------------------------------------------------------------
(* Paths.                                                                  *)
Prefix(p, n) == SubSeq(p, 1, n)

(* A prefix of a path is a path.                                           *)
LEMMA PrefixPath ==
  ASSUME NEW p \in Seq(Name), NEW n \in 0..Len(p)
  PROVE  /\ Prefix(p, n) \in Seq(Name) /\ Len(Prefix(p, n)) = n
         /\ \A k \in 1..n : Prefix(p, n)[k] = p[k]
<1>1. \A k \in 1..n : p[k] \in Name
  BY ElementOfSeq
<1>2. n \in Int /\ n >= 0
  OBVIOUS
<1>3. /\ SubSeq(p, 1, n) \in Seq(Name)
      /\ Len(SubSeq(p, 1, n)) = IF 1 <= n THEN n - 1 + 1 ELSE 0
      /\ \A k \in 1..(n - 1 + 1) : SubSeq(p, 1, n)[k] = p[1 + k - 1]
  BY <1>1, <1>2, SubSeqProperties
<1>4. Len(SubSeq(p, 1, n)) = n
  BY <1>2, <1>3
<1>5. \A k \in 1..n : SubSeq(p, 1, n)[k] = p[k]
  BY <1>2, <1>3
<1> QED
  BY <1>3, <1>4, <1>5 DEF Prefix

(* A path is its own longest prefix.                                       *)
LEMMA PrefixSelf ==
  ASSUME NEW p \in Seq(Name)
  PROVE  Prefix(p, Len(p)) = p
BY SubSeqFull DEF Prefix

(* Within, name by name.                                                   *)
LEMMA WithinNames ==
  ASSUME NEW old \in Seq(Name), NEW p \in Seq(Name)
  PROVE  Within(old, p) <=> /\ Len(old) <= Len(p)
                            /\ \A k \in 1..Len(old) : p[k] = old[k]
<1>1. CASE ~(Len(old) <= Len(p))
  BY <1>1 DEF Within
<1>2. CASE Len(old) <= Len(p)
  <2>1. Len(old) \in 0..Len(p)
    BY <1>2
  <2>2. /\ Prefix(p, Len(old)) \in Seq(Name) /\ Len(Prefix(p, Len(old))) = Len(old)
        /\ \A k \in 1..Len(old) : Prefix(p, Len(old))[k] = p[k]
    BY <2>1, PrefixPath
  <2>3. Prefix(p, Len(old)) = old <=> \A k \in 1..Len(old) : p[k] = old[k]
    BY <2>2, SeqEqual
  <2> QED
    BY <1>2, <2>3 DEF Within, Prefix
<1> QED
  BY <1>1, <1>2

(* What lies within old and is as long as old is old.                      *)
LEMMA WithinSelf ==
  ASSUME NEW old \in Seq(Name), NEW p \in Seq(Name)
  PROVE  /\ Within(old, old)
         /\ Within(old, p) /\ Len(p) <= Len(old) => p = old
<1>1. Within(old, old)
  BY WithinNames
<1>2. ASSUME Within(old, p), Len(p) <= Len(old) PROVE p = old
  <2>1. Len(p) = Len(old) /\ \A k \in 1..Len(old) : p[k] = old[k]
    BY <1>2, WithinNames
  <2> QED
    BY <2>1, SeqEqual
<1> QED
  BY <1>1, <1>2

(* A path lies within each of its prefixes, and within what they lie in.   *)
LEMMA WithinPrefix ==
  ASSUME NEW old \in Seq(Name), NEW p \in Seq(Name), NEW n \in 0..Len(p)
  PROVE  /\ Within(Prefix(p, n), p)
         /\ Within(old, Prefix(p, n)) <=> Within(old, p) /\ Len(old) <= n
<1>1. /\ Prefix(p, n) \in Seq(Name) /\ Len(Prefix(p, n)) = n
      /\ \A k \in 1..n : Prefix(p, n)[k] = p[k]
  BY PrefixPath
<1>2. Within(Prefix(p, n), p)
  BY <1>1, WithinNames
<1>3. Within(old, Prefix(p, n)) <=> /\ Len(old) <= n
                                    /\ \A k \in 1..Len(old) : Prefix(p, n)[k] = old[k]
  BY <1>1, WithinNames
<1>4. Within(old, p) <=> Len(old) <= Len(p) /\ \A k \in 1..Len(old) : p[k] = old[k]
  BY WithinNames
<1>5. Len(old) <= n => \A k \in 1..Len(old) : Prefix(p, n)[k] = p[k]
  BY <1>1
<1>6. Len(old) <= n => Len(old) <= Len(p)
  OBVIOUS
<1> QED
  BY <1>2, <1>3, <1>4, <1>5, <1>6

(* Rebase, name by name: new, then what followed old.                      *)
LEMMA RebaseNames ==
  ASSUME NEW old \in Seq(Name), NEW new \in Seq(Name), NEW p \in Seq(Name),
         Len(old) <= Len(p)
  PROVE  /\ Rebase(old, new, p) \in Seq(Name)
         /\ Len(Rebase(old, new, p)) = Len(new) + (Len(p) - Len(old))
         /\ \A k \in 1..Len(new) : Rebase(old, new, p)[k] = new[k]
         /\ \A k \in (Len(new) + 1)..(Len(new) + (Len(p) - Len(old))) :
              Rebase(old, new, p)[k] = p[k - Len(new) + Len(old)]
<1> DEFINE t == SubSeq(p, Len(old) + 1, Len(p))
           m == Len(p) - Len(old)
<1>1. m \in Nat /\ Len(p) \in Nat /\ Len(old) \in Nat /\ Len(new) \in Nat
  OBVIOUS
<1>2. \A k \in (Len(old) + 1)..Len(p) : p[k] \in Name
  BY ElementOfSeq
<1>3. /\ t \in Seq(Name)
      /\ Len(t) = IF Len(old) + 1 <= Len(p) THEN Len(p) - (Len(old) + 1) + 1 ELSE 0
      /\ \A k \in 1..(Len(p) - (Len(old) + 1) + 1) : t[k] = p[(Len(old) + 1) + k - 1]
  BY <1>1, <1>2, SubSeqProperties
<1>4. Len(t) = m
  BY <1>1, <1>3
<1>5. \A k \in 1..m : t[k] = p[Len(old) + k]
  BY <1>1, <1>3
<1> HIDE DEF t
<1>6. /\ new \o t \in Seq(Name) /\ Len(new \o t) = Len(new) + Len(t)
      /\ \A k \in 1..(Len(new) + Len(t)) :
           (new \o t)[k] = IF k <= Len(new) THEN new[k] ELSE t[k - Len(new)]
  BY <1>3, ConcatProperties
<1>7. Rebase(old, new, p) = new \o t
  BY DEF Rebase, t
<1> HIDE DEF m
<1>8. \A k \in 1..Len(new) : (new \o t)[k] = new[k]
  BY <1>1, <1>4, <1>6
<1>9. ASSUME NEW k \in (Len(new) + 1)..(Len(new) + m)
      PROVE  (new \o t)[k] = p[k - Len(new) + Len(old)]
  <2>1. k \in 1..(Len(new) + Len(t)) /\ ~(k <= Len(new)) /\ k - Len(new) \in 1..m
        /\ Len(old) + (k - Len(new)) = k - Len(new) + Len(old)
    BY <1>1, <1>4
  <2>2. (new \o t)[k] = t[k - Len(new)]
    BY <1>6, <2>1
  <2> QED
    BY <1>5, <2>1, <2>2
<1> QED
  BY <1>4, <1>6, <1>7, <1>8, <1>9 DEF m

(* The paths of the model are the sequences of names up to MaxDepth.       *)
LEMMA PathSeq ==
  ASSUME NEW p
  PROVE  p \in Path <=> p \in Seq(Name) /\ Len(p) <= MaxDepth
<1>1. ASSUME p \in Path PROVE p \in Seq(Name) /\ Len(p) <= MaxDepth
  <2>1. PICK n \in 0..MaxDepth : p \in [1..n -> Name]
    BY <1>1 DEF Path
  <2>2. n \in Nat /\ n <= MaxDepth
    BY BoundsAssumption
  <2> QED
    BY <2>1, <2>2
<1>2. ASSUME p \in Seq(Name), Len(p) <= MaxDepth PROVE p \in Path
  <2>1. Len(p) \in 0..MaxDepth /\ p \in [1..Len(p) -> Name]
    BY <1>2, BoundsAssumption, LenProperties
  <2> QED
    BY <2>1 DEF Path
<1> QED
  BY <1>1, <1>2

(* An entry of a directory lies one level below it.                        *)
LEMMA JoinPath ==
  ASSUME NEW q \in Seq(Name), NEW n \in Name
  PROVE  /\ Join(q, n) \in Seq(Name) /\ Len(Join(q, n)) = Len(q) + 1
         /\ Join(q, n) # Root
         /\ \A k \in 1..Len(q) : Join(q, n)[k] = q[k]
<1>1. /\ Join(q, n) \in Seq(Name) /\ Len(Join(q, n)) = Len(q) + 1
      /\ \A k \in 1..Len(q) : Join(q, n)[k] = q[k]
  BY DEF Join
<1>2. Len(q) \in Nat /\ Len(Root) = 0
  BY EmptySeq, LenProperties DEF Root
<1> QED
  BY <1>1, <1>2

(* The same within the model's bounds.                                     *)
LEMMA JoinInPath ==
  ASSUME NEW q \in Path, NEW n \in Name, Len(q) < MaxDepth
  PROVE  Join(q, n) \in Path \ {Root}
<1>1. q \in Seq(Name) /\ Len(q) \in Nat
  BY PathSeq
<1>2. Join(q, n) \in Seq(Name) /\ Len(Join(q, n)) <= MaxDepth /\ Join(q, n) # Root
  BY <1>1, JoinPath, BoundsAssumption
<1> QED
  BY <1>2, PathSeq

(* The parent of a path is its longest proper prefix.                      *)
LEMMA ParentPrefix ==
  ASSUME NEW p \in Seq(Name), p # Root
  PROVE  /\ Len(p) \in Nat \ {0} /\ Len(p) - 1 \in 0..Len(p)
         /\ ParentOf(p) = Prefix(p, Len(p) - 1)
         /\ ParentOf(p) \in Seq(Name) /\ Len(ParentOf(p)) = Len(p) - 1
<1>1. Len(p) \in Nat \ {0}
  BY EmptySeq DEF Root
<1>2. Len(p) - 1 \in 0..Len(p)
  BY <1>1
<1>3. ParentOf(p) = Prefix(p, Len(p) - 1)
  BY DEF ParentOf, Prefix
<1> QED
  BY <1>1, <1>2, <1>3, PrefixPath

(* The parent of a path, and the root's own, are in the model.             *)
LEMMA ParentInPath ==
  ASSUME NEW p \in Path
  PROVE  ParentOf(p) \in Path
<1>1. p \in Seq(Name) /\ Len(p) <= MaxDepth
  BY PathSeq
<1>2. CASE p = Root
  BY <1>2 DEF ParentOf
<1>3. CASE p # Root
  BY <1>1, <1>3, ParentPrefix, PathSeq, BoundsAssumption
<1> QED
  BY <1>2, <1>3

-----------------------------------------------------------------------------
(* Type correctness, part by part: the tables, the maps with what the      *)
(* kernel knows of them, and the handles with the history.                 *)
DbType(e, b) ==
  /\ DOMAIN e \subseteq Path \ {Root}
  /\ \A p \in DOMAIN e : e[p] \in [kind : Kind, id : Id]
  /\ b \subseteq Seq(Name) \X Id

MapsType(f, g, n, told) ==
  /\ DOMAIN f \subseteq Path
  /\ \A p \in DOMAIN f : f[p] \in Ino
  /\ DOMAIN g \subseteq Ino
  /\ \A i \in DOMAIN g : g[i] \in Path
  /\ n \in 2..(MaxIno + 1)
  /\ told \subseteq Ino \X Id

HistoryType ==
  /\ next_id \in 1..(MaxId + 1)
  /\ lost \subseteq Id /\ replaced \subseteq Id /\ strayed \subseteq Id
  /\ handles \subseteq Path \X Id
  /\ reply \in Errno

(* TypeOK in three parts, now and after a step.                            *)
LEMMA TypeParts ==
  /\ TypeOK <=> /\ DbType(entries, blocks)
                /\ MapsType(ino_by_path, path_by_ino, next_ino, known)
                /\ HistoryType
  /\ TypeOK' <=> /\ DbType(entries', blocks')
                 /\ MapsType(ino_by_path', path_by_ino', next_ino', known')
                 /\ HistoryType'
BY DEF TypeOK, DbType, MapsType, HistoryType

(* The root is a path of the model.                                        *)
LEMMA RootPath == Root \in Path /\ ROOT_INO \in Ino /\ ROOT_ID \in Id
<1>1. Root \in Seq(Name) /\ Len(Root) = 0
  BY EmptySeq DEF Root
<1>2. Root \in [1..0 -> Name] /\ 0 \in 0..MaxDepth
  BY <1>1, LenProperties, BoundsAssumption
<1>3. Root \in Path
  BY <1>2 DEF Path
<1>4. ROOT_INO \in Ino /\ ROOT_ID \in Id
  BY BoundsAssumption DEF ROOT_INO, ROOT_ID, Ino, Id
<1> QED
  BY <1>3, <1>4

(* The paths a callback works on are paths of the model.                   *)
LEMMA KernelPath ==
  ASSUME TypeOK, NEW i \in DOMAIN path_by_ino
  PROVE  PathOf(i) \in Path
BY RootPath DEF TypeOK, PathOf

(* A rebased path is a path, if it is short enough.                        *)
LEMMA RebaseInPath ==
  ASSUME NEW old \in Path, NEW new \in Path \ {Root}, NEW p \in Path,
         Len(old) <= Len(p), Len(Rebase(old, new, p)) <= MaxDepth
  PROVE  Rebase(old, new, p) \in Path \ {Root}
<1>1. old \in Seq(Name) /\ new \in Seq(Name) /\ p \in Seq(Name) /\ new # Root
  BY PathSeq
<1>2. Len(new) \in Nat \ {0} /\ Len(Root) = 0 /\ Len(old) \in Nat /\ Len(p) \in Nat
  BY <1>1, EmptySeq, LenProperties DEF Root
<1>3. /\ Rebase(old, new, p) \in Seq(Name)
      /\ Len(Rebase(old, new, p)) = Len(new) + (Len(p) - Len(old))
  BY <1>1, RebaseNames
<1>4. Rebase(old, new, p) # Root
  BY <1>2, <1>3
<1>5. Rebase(old, new, p) \in Path
  BY <1>3, PathSeq
<1> QED
  BY <1>4, <1>5

(* ino_for and unlink keep the types of the maps.                          *)
LEMMA InoForType ==
  ASSUME TypeOK, NEW p \in Path, NEW id \in Id, InoFor(p, id)
  PROVE  MapsType(ino_by_path', path_by_ino', next_ino', known')
<1>1. /\ MapsType(ino_by_path, path_by_ino, next_ino, known)
      /\ \A q \in DOMAIN ino_by_path : ino_by_path[q] \in Ino
  BY TypeParts DEF MapsType
<1>2. CASE p \in DOMAIN ino_by_path /\ UNCHANGED maps
           /\ known' = known \union {<<ino_by_path[p], id>>}
  BY <1>1, <1>2 DEF MapsType, maps
<1>3. CASE /\ next_ino <= MaxIno
           /\ ino_by_path' = Put(ino_by_path, p, next_ino)
           /\ path_by_ino' = Put(path_by_ino, next_ino, p)
           /\ known' = known \union {<<next_ino, id>>}
           /\ next_ino' = next_ino + 1
  <2>1. next_ino \in Ino /\ next_ino' \in 2..(MaxIno + 1)
    BY <1>1, <1>3, BoundsAssumption DEF MapsType, Ino
  <2>2. DOMAIN ino_by_path' \subseteq Path
        /\ \A q \in DOMAIN ino_by_path' : ino_by_path'[q] \in Ino
    BY <1>1, <1>3, <2>1 DEF MapsType, Put
  <2>3. DOMAIN path_by_ino' \subseteq Ino
        /\ \A i \in DOMAIN path_by_ino' : path_by_ino'[i] \in Path
    BY <1>1, <1>3, <2>1 DEF MapsType, Put
  <2>4. known' \subseteq Ino \X Id
    BY <1>1, <1>3, <2>1 DEF MapsType
  <2> QED
    BY <2>1, <2>2, <2>3, <2>4 DEF MapsType
<1> QED
  BY <1>2, <1>3 DEF InoFor

(* unlink and rmdir drop an inode.                                         *)
LEMMA ForgetType ==
  ASSUME TypeOK, NEW p, Forget(p), known' = known
  PROVE  MapsType(ino_by_path', path_by_ino', next_ino', known')
BY TypeParts DEF MapsType, Forget, Drop

(* A table without some of its rows, or with new ones, keeps its type.     *)
LEMMA TablesType ==
  ASSUME NEW e, NEW b, DbType(e, b)
  PROVE  /\ \A S : DbType(Drop(e, S), b)
         /\ \A c : c \subseteq b => DbType(e, c)
         /\ \A p \in Path \ {Root}, kind \in Kind, id \in Id :
              DbType(Put(e, p, [kind |-> kind, id |-> id]), b)
         /\ \A p \in Path, id \in Id : DbType(e, b \union {<<p, id>>})
<1>1. \A p \in Path : p \in Seq(Name)
  BY PathSeq
<1>2. \A p \in Path, id \in Id : DbType(e, b \union {<<p, id>>})
  BY <1>1 DEF DbType
<1> QED
  BY <1>2 DEF DbType, Drop, Put

(* A key whose file is not under it is astray: its handle wrote it down    *)
(* before the file went.                                                   *)
LEMMA AstrayIds ==
  ASSUME NEW e
  PROVE  /\ handles \subseteq Path \X Id => Astray(e) \subseteq Id
         /\ \A h \in handles :
              h[2] \in Astray(e) \/ (h[1] \in DOMAIN e /\ e[h[1]].id = h[2])
BY DEF Astray

(* An unchanged state keeps its type, whatever the reply.                  *)
LEMMA AnswerType == ASSUME TypeOK, NEW r \in Errno, Answer(r) PROVE TypeOK'
BY DEF TypeOK, Answer, db, maps, history

(* MoveKeys and KeysCollide with Rebase for the new keys.                  *)
Moved(f, S, old, new) ==
  LET target == {Rebase(old, new, k) : k \in S}
  IN  [x \in (DOMAIN f \ S) \union target |->
         IF x \in target THEN f[CHOOSE k \in S : Rebase(old, new, k) = x] ELSE f[x]]

Collide(keys, S, old, new) ==
  \/ \E k \in S : Rebase(old, new, k) \in keys \ S
  \/ \E j, k \in S : j # k /\ Rebase(old, new, j) = Rebase(old, new, k)

(* What is left of the tables when a rename has deleted its target.        *)
EntriesBut(new) == Drop(entries, {new})
BlocksBut(new) == IF Exists(new) THEN {r \in blocks : r[1] # new} ELSE blocks

(* c are the rows b of blocks, those with a key in S under their new key.  *)
MovedBlocks(c, b, S, old, new) ==
  c = {<<IF r[1] \in S THEN Rebase(old, new, r[1]) ELSE r[1], r[2]>> : r \in b}

(* MoveEntry, its target's rows gone, either fails or moves rows and maps. *)
LEMMA MoveEntryCases ==
  ASSUME NEW old, NEW new, MoveEntry(old, new)
  PROVE  LET e == EntriesBut(new)
             b == BlocksBut(new)
             eS == RowsMoved(DOMAIN e, entries[old].kind, old)
             bS == RowsMoved(KeysOf(b), entries[old].kind, old)
         IN  \/ Answer("EIO")
             \/ /\ \A p \in eS \union Rekeyed(ino_by_path, old) :
                     Len(Rebase(old, new, p)) <= MaxDepth
                /\ ~Collide(DOMAIN e, eS, old, new)
                /\ entries' = Moved(e, eS, old, new)
                /\ MovedBlocks(blocks', b, bS, old, new)
                /\ ino_by_path' = Moved(ino_by_path, Rekeyed(ino_by_path, old), old, new)
                /\ path_by_ino' = RekeyPathByIno(ino_by_path, path_by_ino, old, new)
                /\ replaced' = replaced \union
                                {entries[p].id : p \in {new} \intersect DOMAIN entries}
                /\ strayed' = strayed \union Astray(entries')
                /\ reply' = "OK"
                /\ UNCHANGED <<next_ino, handles, known, next_id, lost>>
BY DEF MoveEntry, MoveKeys, KeysCollide, RekeyInoByPath, Moved, Collide, EntriesBut, BlocksBut,
       MovedBlocks

(* Moving keys gives every value a key it had or one of the new ones.      *)
LEMMA MovedValues ==
  ASSUME NEW f, NEW S, S \subseteq DOMAIN f, NEW old, NEW new
  PROVE  /\ \A x \in DOMAIN f \ S : x \in DOMAIN Moved(f, S, old, new)
         /\ \A k \in S : Rebase(old, new, k) \in DOMAIN Moved(f, S, old, new)
         /\ \A x \in DOMAIN Moved(f, S, old, new) :
              \/ x \in DOMAIN f \ S /\ Moved(f, S, old, new)[x] = f[x]
              \/ \E k \in S : Rebase(old, new, k) = x /\ Moved(f, S, old, new)[x] = f[k]
<1> DEFINE R(k) == Rebase(old, new, k)
           target == {R(k) : k \in S}
           F == [x \in (DOMAIN f \ S) \union target |->
                   IF x \in target THEN f[CHOOSE k \in S : R(k) = x] ELSE f[x]]
<1>1. Moved(f, S, old, new) = F
  BY DEF Moved
<1> HIDE DEF R
<1>2. \A x \in target : (CHOOSE k \in S : R(k) = x) \in S
                        /\ R(CHOOSE k \in S : R(k) = x) = x
  OBVIOUS
<1>3. ASSUME NEW x \in DOMAIN F
      PROVE  \/ x \in DOMAIN f \ S /\ F[x] = f[x]
             \/ \E k \in S : R(k) = x /\ F[x] = f[k]
  <2>1. CASE x \in target
    BY <1>2, <2>1
  <2>2. CASE x \notin target
    BY <1>3, <2>2
  <2> QED
    BY <2>1, <2>2
<1>4. DOMAIN F = (DOMAIN f \ S) \union target
  OBVIOUS
<1> HIDE DEF F
<1> QED
  BY <1>1, <1>3, <1>4 DEF R

(* What a rename moves lies at or below old.                               *)
LEMMA MovedLonger ==
  ASSUME NEW K, K \subseteq Seq(Name), NEW old \in Path, NEW kind
  PROVE  /\ RowsMoved(K, kind, old) \subseteq K
         /\ \A p \in RowsMoved(K, kind, old) : Len(old) <= Len(p)
<1>1. RowsMoved(K, kind, old) \subseteq K
  BY DEF RowsMoved, RowsUnder
<1>2. ASSUME NEW p \in RowsMoved(K, kind, old) PROVE Len(old) <= Len(p)
  <2>1. old \in Seq(Name) /\ p \in Seq(Name)
    BY <1>1, PathSeq
  <2>2. CASE p = old
    BY <2>1, <2>2, LenProperties
  <2>3. CASE p # Root /\ ParentOf(p) = old
    BY <2>1, <2>3, ParentPrefix, LenProperties
  <2>4. CASE p # Root /\ LikeBelow(old, ParentOf(p))
    <3>1. Len(ParentOf(p)) > Len(old) /\ Len(ParentOf(p)) = Len(p) - 1 /\ Len(p) \in Nat
          /\ Len(old) \in Nat
      BY <2>1, <2>4, ParentPrefix, LenProperties DEF LikeBelow
    <3> QED
      BY <3>1
  <2> QED
    BY <2>2, <2>3, <2>4 DEF RowsMoved, RowsUnder
<1> QED
  BY <1>1, <1>2

(* The tables and maps a rename leaves are well typed.                     *)
LEMMA MovedType ==
  ASSUME NEW f, DOMAIN f \subseteq Path, NEW S, S \subseteq DOMAIN f,
         NEW old \in Path, NEW new \in Path \ {Root},
         \A p \in S : Len(old) <= Len(p) /\ Len(Rebase(old, new, p)) <= MaxDepth
  PROVE  \A x \in DOMAIN Moved(f, S, old, new) :
           /\ x \in DOMAIN f \/ x \in Path \ {Root}
           /\ \E k \in DOMAIN f : Moved(f, S, old, new)[x] = f[k]
<1>1. \A p \in S : Rebase(old, new, p) \in Path \ {Root}
  BY RebaseInPath
<1>2. \A x \in DOMAIN Moved(f, S, old, new) :
        \/ x \in DOMAIN f \ S /\ Moved(f, S, old, new)[x] = f[x]
        \/ \E k \in S : Rebase(old, new, k) = x /\ Moved(f, S, old, new)[x] = f[k]
  BY MovedValues
<1> QED
  BY <1>1, <1>2

(* So are the rows of blocks, which the model's depth does not bound.      *)
LEMMA MovedBlocksType ==
  ASSUME NEW b, b \subseteq Seq(Name) \X Id, NEW S, NEW c,
         NEW old \in Path, NEW new \in Path,
         \A p \in S : p \in Seq(Name) /\ Len(old) <= Len(p),
         MovedBlocks(c, b, S, old, new)
  PROVE  c \subseteq Seq(Name) \X Id
<1>1. old \in Seq(Name) /\ new \in Seq(Name)
  BY PathSeq
<1>2. \A p \in S : Rebase(old, new, p) \in Seq(Name)
  BY <1>1, RebaseNames
<1>3. ASSUME NEW r \in b
      PROVE  <<IF r[1] \in S THEN Rebase(old, new, r[1]) ELSE r[1], r[2]>> \in Seq(Name) \X Id
  BY <1>2
<1> QED
  BY <1>3 DEF MovedBlocks

(* A rename keeps the types.                                               *)
LEMMA MoveEntryType ==
  ASSUME TypeOK, NEW old \in Path \ {Root}, NEW new \in Path \ {Root}, MoveEntry(old, new)
  PROVE  TypeOK'
<1> DEFINE e == EntriesBut(new)
           b == BlocksBut(new)
           kind == entries[old].kind
           eS == RowsMoved(DOMAIN e, kind, old)
           bS == RowsMoved(KeysOf(b), kind, old)
           iS == Rekeyed(ino_by_path, old)
<1>1. CASE Answer("EIO")
  BY <1>1, AnswerType DEF Errno
<1>2. CASE /\ \A p \in eS \union iS : Len(Rebase(old, new, p)) <= MaxDepth
           /\ entries' = Moved(e, eS, old, new)
           /\ MovedBlocks(blocks', b, bS, old, new)
           /\ ino_by_path' = Moved(ino_by_path, iS, old, new)
           /\ path_by_ino' = RekeyPathByIno(ino_by_path, path_by_ino, old, new)
           /\ replaced' = replaced \union
                            {entries[p].id : p \in {new} \intersect DOMAIN entries}
           /\ strayed' = strayed \union Astray(entries')
           /\ reply' = "OK"
           /\ UNCHANGED <<next_ino, handles, known, next_id, lost>>
  <2>1. DbType(e, b)
    BY TypeParts, TablesType DEF EntriesBut, BlocksBut
  <2>9. DOMAIN e \subseteq Path \ {Root} /\ DOMAIN e \subseteq Seq(Name)
        /\ b \subseteq Seq(Name) \X Id /\ KeysOf(b) \subseteq Seq(Name)
    BY <2>1, PathSeq DEF DbType, KeysOf
  <2>2. /\ eS \subseteq DOMAIN e /\ \A p \in eS : Len(old) <= Len(p)
        /\ bS \subseteq KeysOf(b) /\ \A p \in bS : Len(old) <= Len(p)
        /\ iS \subseteq DOMAIN ino_by_path /\ \A p \in iS : Len(old) <= Len(p)
    BY <2>9, MovedLonger DEF Rekeyed, Within
  <2>3. DbType(entries', blocks')
    <3>2. DOMAIN entries' \subseteq Path \ {Root}
          /\ \A p \in DOMAIN entries' : entries'[p] \in [kind : Kind, id : Id]
      BY <1>2, <2>1, <2>2, <2>9, MovedType DEF DbType
    <3> HIDE DEF b, bS
    <3>3. blocks' \subseteq Seq(Name) \X Id
      BY <1>2, <2>2, <2>9, MovedBlocksType
    <3> QED
      BY <3>2, <3>3 DEF DbType
  <2>4. MapsType(ino_by_path, path_by_ino, next_ino, known)
    BY TypeParts
  <2>5. DOMAIN ino_by_path' \subseteq Path
        /\ \A p \in DOMAIN ino_by_path' : ino_by_path'[p] \in Ino
    BY <1>2, <2>2, <2>4, MovedType DEF MapsType
  <2>6. DOMAIN path_by_ino' \subseteq Ino
        /\ \A i \in DOMAIN path_by_ino' : path_by_ino'[i] \in Path
    <3>1. path_by_ino' =
            [i \in DOMAIN path_by_ino \union {ino_by_path[p] : p \in iS} |->
               IF \E p \in iS : ino_by_path[p] = i
                 THEN Rebase(old, new, CHOOSE p \in iS : ino_by_path[p] = i)
                 ELSE path_by_ino[i]]
      BY <1>2 DEF RekeyPathByIno
    <3>2. \A p \in iS : Rebase(old, new, p) \in Path
      BY <1>2, <2>2, <2>4, RebaseInPath DEF MapsType
    <3> HIDE DEF iS
    <3>3. ASSUME NEW i \in DOMAIN path_by_ino' PROVE i \in Ino /\ path_by_ino'[i] \in Path
      <4>1. CASE \E p \in iS : ino_by_path[p] = i
        <5>1. (CHOOSE p \in iS : ino_by_path[p] = i) \in iS
          BY <4>1
        <5> QED
          BY <2>2, <2>4, <3>1, <3>2, <3>3, <4>1, <5>1 DEF MapsType
      <4>2. CASE ~ \E p \in iS : ino_by_path[p] = i
        BY <2>4, <3>1, <3>3, <4>2 DEF MapsType
      <4> QED
        BY <4>1, <4>2
    <3> QED
      BY <3>3
  <2>7. MapsType(ino_by_path', path_by_ino', next_ino', known')
    BY <1>2, <2>4, <2>5, <2>6 DEF MapsType
  <2>8. HistoryType'
    BY <1>2, AstrayIds DEF TypeOK, HistoryType, Errno
  <2> QED
    BY <2>3, <2>7, <2>8, TypeParts
<1> QED
  BY <1>1, <1>2, MoveEntryCases

(* readdir hands out consecutive inodes, one to each child without one.    *)
Listed(i) == {q \in DOMAIN entries : ParentOf(q) = PathOf(i)} \union {ParentOf(PathOf(i))}
Fresh(i) == Listed(i) \ DOMAIN ino_by_path

Numbered(fresh, n, num) ==
  /\ \A k \in next_ino..(n - 1) : \E q \in fresh : num[q] = k
  /\ ino_by_path' = [q \in DOMAIN ino_by_path \union fresh |->
                       IF q \in fresh THEN num[q] ELSE ino_by_path[q]]
  /\ path_by_ino' = [k \in DOMAIN path_by_ino \union next_ino..(n - 1) |->
                       IF k \in next_ino..(n - 1)
                         THEN CHOOSE q \in fresh : num[q] = k
                         ELSE path_by_ino[k]]
  /\ next_ino' = n

(* readdir numbers what has no inode yet and changes nothing else.         *)
LEMMA ReaddirCases ==
  ASSUME NEW i, readdir(i)
  PROVE  /\ \E n \in next_ino..(MaxIno + 1) : \E num \in [Fresh(i) -> next_ino..(n - 1)] :
              Numbered(Fresh(i), n, num)
         /\ reply' = "OK" /\ UNCHANGED <<db, handles, known, history>>
<1> DEFINE p == PathOf(i)
           listed == {q \in DOMAIN entries : ParentOf(q) = p} \union {ParentOf(p)}
           fresh == listed \ DOMAIN ino_by_path
<1>1. fresh = Fresh(i)
  BY DEF Fresh, Listed
<1> HIDE DEF p, listed
<1>2. \E n \in next_ino..(MaxIno + 1) : \E num \in [fresh -> next_ino..(n - 1)] :
        /\ \A k \in next_ino..(n - 1) : \E q \in fresh : num[q] = k
        /\ ino_by_path' = [q \in DOMAIN ino_by_path \union fresh |->
                             IF q \in fresh THEN num[q] ELSE ino_by_path[q]]
        /\ path_by_ino' = [k \in DOMAIN path_by_ino \union next_ino..(n - 1) |->
                             IF k \in next_ino..(n - 1)
                               THEN CHOOSE q \in fresh : num[q] = k
                               ELSE path_by_ino[k]]
        /\ next_ino' = n
  BY ZenonT(40) DEF readdir, p, listed
<1>3. \E n \in next_ino..(MaxIno + 1) : \E num \in [fresh -> next_ino..(n - 1)] :
        Numbered(fresh, n, num)
  BY <1>2, Zenon DEF Numbered
<1>4. reply' = "OK" /\ UNCHANGED <<db, handles, known, history>>
  BY DEF readdir
<1> QED
  BY <1>1, <1>3, <1>4

(* What readdir numbers are entries, or the parent of its directory.       *)
LEMMA ReaddirType == ASSUME TypeOK, NEW i \in DOMAIN path_by_ino, readdir(i) PROVE TypeOK'
<1> DEFINE fresh == Fresh(i)
<1>2. fresh \subseteq Path
  BY KernelPath, ParentInPath DEF TypeOK, Fresh, Listed
<1>3. PICK n \in next_ino..(MaxIno + 1) : \E num \in [fresh -> next_ino..(n - 1)] :
        Numbered(fresh, n, num)
  BY ReaddirCases
<1> HIDE DEF fresh
<1>4. PICK num \in [fresh -> next_ino..(n - 1)] : Numbered(fresh, n, num)
  BY <1>3
<1> USE DEF Numbered
<1>11. reply' = "OK" /\ UNCHANGED <<db, handles, known, history>> /\ next_ino' = n
  BY <1>4, ReaddirCases
<1>5. MapsType(ino_by_path, path_by_ino, next_ino, known)
  BY TypeParts
<1>6. n \in 2..(MaxIno + 1) /\ next_ino..(n - 1) \subseteq Ino
  BY <1>5, BoundsAssumption DEF MapsType, Ino
<1>7. DOMAIN ino_by_path' \subseteq Path
      /\ \A q \in DOMAIN ino_by_path' : ino_by_path'[q] \in Ino
  BY <1>2, <1>4, <1>5, <1>6 DEF MapsType
<1>8. ASSUME NEW k \in DOMAIN path_by_ino' PROVE k \in Ino /\ path_by_ino'[k] \in Path
  <2>1. CASE k \in next_ino..(n - 1)
    <3>1. (CHOOSE q \in fresh : num[q] = k) \in fresh
      BY <1>4, <2>1
    <3> QED
      BY <1>2, <1>4, <1>6, <2>1, <3>1
  <2>2. CASE k \notin next_ino..(n - 1)
    BY <1>4, <1>5, <1>8, <2>2 DEF MapsType
  <2> QED
    BY <2>1, <2>2
<1>9. MapsType(ino_by_path', path_by_ino', next_ino', known')
  BY <1>11, <1>5, <1>6, <1>7, <1>8 DEF MapsType
<1>10. DbType(entries', blocks') /\ HistoryType'
  BY <1>11, TypeParts DEF db, history, HistoryType, Errno
<1> QED
  BY <1>9, <1>10, TypeParts

(* lookup makes a known inode of a row.                                    *)
LEMMA LookupType ==
  ASSUME TypeOK, NEW i \in DOMAIN path_by_ino, Len(PathOf(i)) < MaxDepth, NEW n \in Name,
         lookup(i, n)
  PROVE  TypeOK'
<1> DEFINE p == Join(PathOf(i), n)
<1>1. p \in Path \ {Root}
  BY KernelPath, JoinInPath
<1>2. CASE Answer("ENOENT")
  BY <1>2, AnswerType DEF Errno
<1>3. CASE /\ Exists(p) /\ InoFor(p, entries[p].id)
           /\ reply' = "OK" /\ UNCHANGED <<db, handles, history>>
  <2>1. entries[p].id \in Id
    BY <1>3 DEF TypeOK, Exists
  <2>2. MapsType(ino_by_path', path_by_ino', next_ino', known')
    BY <1>1, <1>3, <2>1, InoForType
  <2> QED
    BY <1>3, <2>2, TypeParts DEF db, history, HistoryType, Errno
<1> QED
  BY <1>2, <1>3 DEF lookup

(* create and mkdir add one row with the next object id.                   *)
LEMMA MakeType ==
  ASSUME TypeOK, NEW i \in DOMAIN path_by_ino, Len(PathOf(i)) < MaxDepth, NEW n \in Name,
         NEW kind \in Kind, Make(i, n, kind)
  PROVE  TypeOK'
<1> DEFINE p == Join(PathOf(i), n)
<1>1. p \in Path \ {Root}
  BY KernelPath, JoinInPath
<1>2. CASE Answer("EEXIST")
  BY <1>2, AnswerType DEF Errno
<1>3. CASE /\ next_id <= MaxId
           /\ entries' = Put(entries, p, [kind |-> kind, id |-> next_id])
           /\ next_id' = next_id + 1
           /\ handles' = IF kind = "file" THEN handles \union {<<p, next_id>>} ELSE handles
           /\ InoFor(p, next_id)
           /\ reply' = "OK"
           /\ UNCHANGED <<blocks, lost, replaced, strayed>>
  <2> HIDE DEF p
  <2>4. next_id \in Id
    BY <1>3, BoundsAssumption DEF TypeOK, Id
  <2>5. handles' \subseteq Path \X Id
    BY <1>1, <1>3, <2>4 DEF TypeOK
  <2>6. next_id' \in 1..(MaxId + 1)
    BY <1>3, BoundsAssumption DEF TypeOK
  <2>1. next_id \in Id /\ HistoryType'
    BY <1>3, <2>4, <2>5, <2>6 DEF TypeOK, HistoryType, Errno
  <2>2. MapsType(ino_by_path', path_by_ino', next_ino', known')
    BY <1>1, <1>3, <2>1, InoForType
  <2>3. DbType(entries', blocks')
    BY <1>1, <1>3, <2>1, TypeParts, TablesType
  <2> QED
    BY <2>1, <2>2, <2>3, TypeParts
<1> QED
  BY <1>2, <1>3 DEF Make

(* The callbacks that remove an entry.                                     *)
LEMMA UnlinkType == ASSUME TypeOK, NEW i, NEW n, unlink(i, n) PROVE TypeOK'
<1> DEFINE p == Join(PathOf(i), n)
<1>1. DbType(entries', blocks')
  <2>1. PICK c : c = {r \in blocks : r[1] # p}
    OBVIOUS
  <2>2. c \subseteq blocks /\ blocks' = c /\ entries' = Drop(entries, {p})
    BY <2>1 DEF unlink
  <2>3. DbType(entries, blocks)
    BY TypeParts
  <2>4. DbType(entries, c)
    BY <2>2, <2>3, TablesType
  <2>5. DbType(Drop(entries, {p}), c)
    BY <2>4, TablesType
  <2> QED
    BY <2>2, <2>5
<1>2. HistoryType'
  BY AstrayIds DEF unlink, TypeOK, HistoryType, Errno
<1>3. MapsType(ino_by_path', path_by_ino', next_ino', known')
  BY ForgetType DEF unlink
<1> QED
  BY <1>1, <1>2, <1>3, TypeParts

(* An unlink that failed after its first statement.                        *)
LEMMA UnlinkHalfDoneType == ASSUME TypeOK, NEW i, NEW n, unlinkHalfDone(i, n) PROVE TypeOK'
<1>1. DbType(entries', blocks')
  BY TypeParts, TablesType DEF unlinkHalfDone
<1>2. HistoryType'
  BY DEF unlinkHalfDone, TypeOK, HistoryType, Exists, Errno
<1> QED
  BY <1>1, <1>2, TypeParts DEF unlinkHalfDone, maps

(* rmdir drops one row, or answers an error.                               *)
LEMMA RmdirType == ASSUME TypeOK, NEW i, NEW n, rmdir(i, n) PROVE TypeOK'
<1> DEFINE p == Join(PathOf(i), n)
<1>1. CASE \E r \in {"ENOENT", "ENOTEMPTY"} : Answer(r)
  BY <1>1, AnswerType DEF Errno
<1>2. CASE /\ entries' = Drop(entries, {p}) /\ Forget(p) /\ reply' = "OK"
           /\ UNCHANGED <<blocks, handles, known, history>>
  <2>1. DbType(entries', blocks') /\ HistoryType'
    BY <1>2, TypeParts, TablesType DEF history, HistoryType, Errno
  <2>2. MapsType(ino_by_path', path_by_ino', next_ino', known')
    BY <1>2, ForgetType
  <2> QED
    BY <2>1, <2>2, TypeParts
<1> QED
  BY <1>1, <1>2 DEF rmdir

(* The callbacks on open files: handles and rows of blocks under paths.    *)
LEMMA OpenType == ASSUME TypeOK, NEW i \in DOMAIN path_by_ino, open(i) PROVE TypeOK'
<1>1. PICK p \in DOMAIN entries :
        /\ handles' = handles \union {<<PathOf(i), entries[p].id>>}
        /\ reply' = "OK"
        /\ UNCHANGED <<db, maps, known, history>>
  BY DEF open
<1>2. entries[p].id \in Id /\ PathOf(i) \in Path
  BY KernelPath DEF TypeOK
<1>3. handles' \subseteq Path \X Id
  BY <1>1, <1>2 DEF TypeOK
<1> QED
  BY <1>1, <1>3, TypeParts DEF db, maps, history, HistoryType, Errno

(* A flush puts rows of blocks under the handle's key, and so does the     *)
(* write past a dropped handle, under the inode's path.                    *)
LEMMA FlushType ==
  ASSUME TypeOK, NEW h \in handles, flush(h) \/ release(h) \/ \E i : store(h, i)
  PROVE  TypeOK'
<1>1. h \in Path \X Id /\ h[1] \in Path /\ h[2] \in Id /\ h = <<h[1], h[2]>>
  BY DEF TypeOK
<1>2. ASSUME blocks' = blocks \/ \E p \in Path : blocks' = blocks \union {<<p, h[2]>>},
             handles' \subseteq handles, reply' \in Errno,
             UNCHANGED <<entries, maps, known, history>>
      PROVE  TypeOK'
  <2>1. DbType(entries', blocks')
    BY <1>1, <1>2, TypeParts, TablesType
  <2>2. HistoryType'
    BY <1>2 DEF TypeOK, HistoryType, history
  <2> QED
    BY <1>2, <2>1, <2>2, TypeParts DEF maps
<1>3. CASE flush(h)
  BY <1>1, <1>2, <1>3 DEF flush, Errno
<1>4. CASE release(h)
  BY <1>1, <1>2, <1>4 DEF release, Errno
<1>5. ASSUME NEW i, store(h, i) PROVE TypeOK'
  <2>1. CASE Answer("ENOENT")
    BY <2>1, AnswerType DEF Errno
  <2>2. CASE /\ i \in DOMAIN path_by_ino
             /\ blocks' = blocks \union {<<path_by_ino[i], h[2]>>}
             /\ reply' = "OK"
             /\ UNCHANGED <<entries, maps, handles, known, history>>
    <3>1. path_by_ino[i] \in Path
      BY <2>2 DEF TypeOK
    <3> QED
      BY <1>2, <2>2, <3>1 DEF Errno
  <2> QED
    BY <1>5, <2>1, <2>2 DEF store
<1> QED
  BY <1>3, <1>4, <1>5

(* A remount starts the maps over.                                         *)
LEMMA FreshMapsType ==
  MapsType([p \in {Root} |-> ROOT_INO], [i \in {ROOT_INO} |-> Root], ROOT_INO + 1,
           {<<ROOT_INO, ROOT_ID>>})
BY RootPath, BoundsAssumption DEF MapsType, ROOT_INO

(* The empty database and the maps of a mount.                             *)
LEMMA InitType == Init => TypeOK
<1> SUFFICES ASSUME Init PROVE TypeOK
  OBVIOUS
<1>1. DbType(entries, blocks)
  BY DEF Init, DbType
<1>2. HistoryType
  BY BoundsAssumption DEF Init, HistoryType, Errno, ROOT_ID
<1>3. MapsType(ino_by_path, path_by_ino, next_ino, known)
  BY FreshMapsType DEF Init
<1> QED
  BY <1>1, <1>2, <1>3, TypeParts

(* Every callback keeps the types.                                         *)
LEMMA StepType == TypeOK /\ [Next]_vars => TypeOK'
<1> SUFFICES ASSUME TypeOK, [Next]_vars PROVE TypeOK'
  OBVIOUS
<1>1. ASSUME NEW i \in KernelDirs, NEW n \in Name, Len(PathOf(i)) < MaxDepth,
             \/ lookup(i, n) \/ create(i, n) \/ mkdir(i, n)
             \/ unlink(i, n) \/ unlinkHalfDone(i, n) \/ rmdir(i, n)
      PROVE  TypeOK'
  <2>1. i \in DOMAIN path_by_ino
    BY DEF KernelDirs
  <2>2. "file" \in Kind /\ "dir" \in Kind
    BY DEF Kind
  <2> QED
    BY <1>1, <2>1, <2>2, LookupType, MakeType, UnlinkType, UnlinkHalfDoneType, RmdirType
    DEF create, mkdir
<1>2. ASSUME NEW i \in KernelDirs, NEW j \in KernelDirs, NEW n \in Name, NEW m \in Name,
             Len(PathOf(i)) < MaxDepth, Len(PathOf(j)) < MaxDepth,
             rename(i, n, j, m) \/ renameTargetUnseen(i, n, j, m)
      PROVE  TypeOK'
  <2> DEFINE old == Join(PathOf(i), n)
             new == Join(PathOf(j), m)
  <2>1. i \in DOMAIN path_by_ino /\ j \in DOMAIN path_by_ino
    BY DEF KernelDirs
  <2>2. old \in Path \ {Root} /\ new \in Path \ {Root}
    BY <1>2, <2>1, KernelPath, JoinInPath
  <2>3. (\E r \in Errno : Answer(r)) \/ MoveEntry(old, new)
    BY <1>2 DEF rename, renameTargetUnseen, Errno
  <2> QED
    BY <2>2, <2>3, AnswerType, MoveEntryType
<1>3. ASSUME NEW i \in KernelDirs, readdir(i) PROVE TypeOK'
  BY <1>3, ReaddirType DEF KernelDirs
<1>4. ASSUME NEW i \in KernelFiles, open(i) PROVE TypeOK'
  BY <1>4, OpenType DEF KernelFiles
<1>7. ASSUME NEW h \in handles, flush(h) \/ release(h) \/ \E i \in Ino : store(h, i)
      PROVE  TypeOK'
  BY <1>7, FlushType
<1>5. CASE remount
  <2>1. MapsType(ino_by_path', path_by_ino', next_ino', known')
    BY <1>5, FreshMapsType DEF remount
  <2> QED
    BY <1>5, <2>1, TypeParts DEF remount, db, HistoryType, Errno
<1>6. CASE UNCHANGED vars
  BY <1>6 DEF vars, TypeOK
<1> QED
  BY <1>1, <1>2, <1>3, <1>4, <1>5, <1>6, <1>7 DEF Next

(* The tables and the maps only ever hold paths, inodes and kinds of the   *)
(* right form, within the model's bounds.                                  *)
THEOREM TypeCorrect == Spec => []TypeOK
BY InitType, StepType, PTL DEF Spec

-----------------------------------------------------------------------------
(* The invariant of the tree.  Rows: object ids are never given twice, and *)
(* what is lost or replaced is not linked.                                 *)
Gone == lost \union replaced

Rows ==
  /\ \A p \in DOMAIN entries :
       ROOT_ID < entries[p].id /\ entries[p].id < next_id /\ entries[p].id \notin Gone
  /\ \A p, q \in DOMAIN entries : entries[p].id = entries[q].id => p = q
  /\ \A x \in Gone : x < next_id

(* TreeClosed for every ancestor, not only the parent.                     *)
Ancestors == \A p \in DOMAIN entries : \A n \in 1..(Len(p) - 1) : IsDir(Prefix(p, n))

RootKept == Root \in DOMAIN ino_by_path /\ ino_by_path[Root] = ROOT_INO

(* What an inode the kernel holds still tells: the object's path, while it *)
(* is linked; afterwards nothing, or another object's path if a rename     *)
(* replaced it or its unlink failed half way.                              *)
ToldOf(k) ==
  /\ k[1] < next_ino /\ k[2] < next_id
  /\ k[1] = ROOT_INO <=> k[2] = ROOT_ID
  /\ \A p \in DOMAIN entries :
       entries[p].id = k[2] => p \in DOMAIN ino_by_path /\ ino_by_path[p] = k[1]
  /\ k[1] \in DOMAIN path_by_ino =>
       \/ k[2] = ROOT_ID
       \/ k[2] \in Gone
       \/ Exists(path_by_ino[k[1]]) /\ entries[path_by_ino[k[1]]].id = k[2]
  /\ k[2] \in replaced => \A p \in DOMAIN ino_by_path : ino_by_path[p] # k[1]

Told == \A k \in known : ToldOf(k)

(* BlocksFollowEntries, and the same for what the handles may yet write.   *)
Placed(r) ==
  \/ Exists(r[1]) /\ entries[r[1]].kind = "file" /\ entries[r[1]].id = r[2]
  \/ r[2] \in lost \union strayed

Content == (\A r \in blocks : Placed(r)) /\ (\A h \in handles : Placed(h))

TInv ==
  /\ TypeOK /\ IInv
  /\ Rows /\ Ancestors /\ RootKept /\ Told
  /\ Content /\ InodeNeverReused

(* The numbers among them are numbers.                                     *)
LEMMA Numbers ==
  ASSUME TypeOK
  PROVE  /\ next_id \in Nat /\ next_id > ROOT_ID /\ next_ino \in Nat /\ next_ino > ROOT_INO
         /\ \A p \in DOMAIN entries : entries[p].id \in Nat
         /\ \A k \in known : k = <<k[1], k[2]>> /\ k[1] \in Nat /\ k[2] \in Nat
         /\ \A p \in DOMAIN ino_by_path : ino_by_path[p] \in Nat
         /\ lost \subseteq Nat /\ replaced \subseteq Nat
         /\ \A p \in DOMAIN entries : p \in Seq(Name) /\ p # Root
<1>1. Id \subseteq Nat /\ Ino \subseteq Nat
  BY BoundsAssumption DEF Id, Ino
<1>2. next_id \in Nat /\ next_id > ROOT_ID /\ next_ino \in Nat /\ next_ino > ROOT_INO
  BY BoundsAssumption DEF TypeOK, ROOT_ID, ROOT_INO
<1>3. \A p \in DOMAIN entries : entries[p].id \in Nat
  BY <1>1 DEF TypeOK
<1>4. \A k \in known : k = <<k[1], k[2]>> /\ k[1] \in Nat /\ k[2] \in Nat
  <2>1. known \subseteq Nat \X Nat
    BY <1>1 DEF TypeOK
  <2> QED
    BY <2>1
<1>5. \A p \in DOMAIN entries : p \in Seq(Name) /\ p # Root
  BY PathSeq DEF TypeOK
<1> QED
  BY <1>1, <1>2, <1>3, <1>4, <1>5 DEF TypeOK

(* The four properties follow.                                             *)
LEMMA TInvResolves == TInv => KnownInodeResolves
<1> SUFFICES ASSUME TInv, NEW k \in known
    PROVE  /\ \A p \in DOMAIN entries :
                entries[p].id = k[2] => k[1] \in DOMAIN path_by_ino /\ path_by_ino[k[1]] = p
           /\ k[1] \in DOMAIN path_by_ino /\ Exists(path_by_ino[k[1]]) =>
                entries[path_by_ino[k[1]]].id = k[2] \/ k[2] \in lost \union replaced
  BY DEF KnownInodeResolves
<1>1. ToldOf(k) /\ IInv /\ RootKept
  BY DEF TInv, Told
<1>2. ASSUME NEW p \in DOMAIN entries, entries[p].id = k[2]
      PROVE  k[1] \in DOMAIN path_by_ino /\ path_by_ino[k[1]] = p
  <2>1. p \in DOMAIN ino_by_path /\ ino_by_path[p] = k[1]
    BY <1>1, <1>2 DEF ToldOf
  <2> QED
    BY <1>1, <2>1 DEF IInv, Agree
<1>3. ASSUME k[1] \in DOMAIN path_by_ino, Exists(path_by_ino[k[1]])
      PROVE  entries[path_by_ino[k[1]]].id = k[2] \/ k[2] \in lost \union replaced
  <2>1. CASE k[2] = ROOT_ID
    <3>1. k[1] = ROOT_INO /\ path_by_ino[ROOT_INO] = Root
      BY <1>1, <2>1 DEF ToldOf, RootKept, IInv, Agree
    <3>2. Root \notin DOMAIN entries
      BY DEF TInv, TypeOK
    <3> QED
      BY <1>3, <3>1, <3>2 DEF Exists
  <2>2. CASE k[2] # ROOT_ID
    BY <1>1, <1>3, <2>2 DEF ToldOf, Gone
  <2> QED
    BY <2>1, <2>2
<1> QED
  BY <1>2, <1>3

(* An entry's parent is its last proper prefix.                            *)
LEMMA TInvTree == TInv => TreeClosed
<1> SUFFICES ASSUME TInv, NEW p \in DOMAIN entries, ParentOf(p) # Root
    PROVE  IsDir(ParentOf(p))
  BY DEF TreeClosed
<1>1. p \in Seq(Name) /\ p # Root
  BY Numbers DEF TInv
<1>2. /\ Len(p) - 1 \in Nat /\ ParentOf(p) = Prefix(p, Len(p) - 1)
      /\ ParentOf(p) \in Seq(Name) /\ Len(ParentOf(p)) = Len(p) - 1
  BY <1>1, ParentPrefix
<1>3. Len(ParentOf(p)) \in Nat \ {0}
  BY <1>2, EmptySeq DEF Root
<1>4. Len(p) - 1 \in 1..(Len(p) - 1)
  BY <1>2, <1>3
<1> QED
  BY <1>2, <1>4 DEF TInv, Ancestors

-----------------------------------------------------------------------------
(* What lies below an entry makes it a directory with children.            *)
LEMMA BelowEntry ==
  ASSUME TypeOK, Ancestors, NEW p \in Seq(Name), p # Root,
         NEW q \in DOMAIN entries, Within(p, q), q # p
  PROVE  IsDir(p) /\ HasChildren(p)
<1> DEFINE c == Prefix(q, Len(p) + 1)
<1>1. q \in Seq(Name) /\ q # Root /\ Len(p) \in Nat \ {0} /\ Len(q) \in Nat
  BY Numbers, EmptySeq, LenProperties DEF Root
<1>2. Len(p) < Len(q)
  BY <1>1, WithinSelf DEF Within
<1>3. IsDir(p)
  <2>1. Prefix(q, Len(p)) = p /\ Len(p) \in 1..(Len(q) - 1)
    BY <1>1, <1>2 DEF Within, Prefix
  <2> QED
    BY <2>1 DEF Ancestors
<1>4. Len(p) + 1 \in 0..Len(q) /\ Len(p) <= Len(p) + 1
  BY <1>1, <1>2
<1>5. c \in Seq(Name) /\ Len(c) = Len(p) + 1 /\ Within(p, c)
  BY <1>1, <1>4, PrefixPath, WithinPrefix
<1>6. c \in DOMAIN entries
  <2>1. CASE Len(p) + 1 = Len(q)
    BY <1>1, <2>1, PrefixSelf
  <2>2. CASE Len(p) + 1 # Len(q)
    <3>1. Len(p) + 1 \in 1..(Len(q) - 1)
      BY <1>1, <1>2, <2>2
    <3> QED
      BY <3>1 DEF Ancestors, IsDir, Exists
  <2> QED
    BY <2>1, <2>2
<1> HIDE DEF c
<1>7. c # Root
  BY <1>1, <1>5, EmptySeq DEF Root
<1>8. ParentOf(c) = p
  <2>1. ParentOf(c) = SubSeq(c, 1, Len(p))
    BY <1>1, <1>5, <1>7 DEF ParentOf
  <2> QED
    BY <1>5, <2>1 DEF Within
<1> QED
  BY <1>3, <1>6, <1>7, <1>8 DEF HasChildren

(* A directory the kernel passes as a parent is the root or an entry.      *)
LEMMA KernelDirPath ==
  ASSUME TInv, NEW i \in KernelDirs
  PROVE  PathOf(i) = Root \/ IsDir(PathOf(i))
<1>1. PICK id \in Id : <<i, id>> \in known
                       /\ (id = ROOT_ID \/ \E p \in DOMAIN entries : IsDir(p) /\ entries[p].id = id)
  BY DEF KernelDirs
<1>2. ToldOf(<<i, id>>)
  BY <1>1 DEF TInv, Told
<1>3. CASE i = ROOT_INO
  BY <1>3 DEF PathOf
<1>4. CASE i # ROOT_INO
  <2>1. id # ROOT_ID
    BY <1>2, <1>4 DEF ToldOf
  <2>2. PICK p \in DOMAIN entries : IsDir(p) /\ entries[p].id = id
    BY <1>1, <2>1
  <2>3. p \in DOMAIN ino_by_path /\ ino_by_path[p] = i
    BY <1>2, <2>2 DEF ToldOf
  <2>4. path_by_ino[i] = p
    BY <2>3 DEF TInv, IInv, Agree
  <2> QED
    BY <1>4, <2>2, <2>4 DEF PathOf
<1> QED
  BY <1>3, <1>4

(* Above every name the kernel passes there are directories only.          *)
LEMMA AboveName ==
  ASSUME TInv, NEW i \in KernelDirs, NEW n \in Name
  PROVE  /\ Join(PathOf(i), n) \in Seq(Name) /\ Join(PathOf(i), n) # Root
         /\ \A m \in 1..(Len(Join(PathOf(i), n)) - 1) : IsDir(Prefix(Join(PathOf(i), n), m))
<1> DEFINE q == PathOf(i)
           p == Join(q, n)
<1>1. q \in Seq(Name) /\ Len(q) \in Nat
  BY KernelPath, PathSeq, LenProperties DEF TInv, KernelDirs
<1>2. q = Root \/ IsDir(q)
  BY KernelDirPath
<1> HIDE DEF q
<1>3. /\ p \in Seq(Name) /\ Len(p) = Len(q) + 1 /\ p # Root
      /\ \A k \in 1..Len(q) : p[k] = q[k]
  BY <1>1, JoinPath
<1> HIDE DEF p
<1>4. ASSUME NEW m \in 1..(Len(p) - 1) PROVE IsDir(Prefix(p, m))
  <2>1. m \in 1..Len(q) /\ m \in 0..Len(q) /\ m \in 0..Len(p)
    BY <1>1, <1>3
  <2>2. /\ Prefix(p, m) \in Seq(Name) /\ Len(Prefix(p, m)) = m
        /\ \A k \in 1..m : Prefix(p, m)[k] = p[k]
    BY <1>3, <2>1, PrefixPath
  <2>3. /\ Prefix(q, m) \in Seq(Name) /\ Len(Prefix(q, m)) = m
        /\ \A k \in 1..m : Prefix(q, m)[k] = q[k]
    BY <1>1, <2>1, PrefixPath
  <2>4. \A k \in 1..m : Prefix(p, m)[k] = Prefix(q, m)[k]
    BY <1>3, <2>1, <2>2, <2>3
  <2>5. Prefix(p, m) = Prefix(q, m)
    BY <2>2, <2>3, <2>4, SeqEqual
  <2>6. IsDir(q)
    BY <1>1, <1>2, <2>1, EmptySeq DEF Root
  <2>7. CASE m = Len(q)
    BY <1>1, <2>5, <2>6, <2>7, PrefixSelf
  <2>8. CASE m # Len(q)
    <3>1. m \in 1..(Len(q) - 1)
      BY <1>1, <2>1, <2>8
    <3> QED
      BY <2>5, <2>6, <3>1 DEF TInv, Ancestors, IsDir, Exists
  <2> QED
    BY <2>7, <2>8
<1> QED
  BY <1>3, <1>4 DEF p, q

(* ino_for, in lookup and in create: what the kernel knew stays true, and  *)
(* what it is told now is true.                                            *)
LEMMA InoForTold ==
  ASSUME TInv, TypeOK', IInv', Rows',
         NEW p \in Seq(Name), p # Root, NEW id, InoFor(p, id),
         p \in DOMAIN entries', entries'[p].id = id,
         p \in DOMAIN entries \/ id = next_id,
         \A q \in DOMAIN entries : q \in DOMAIN entries' /\ entries'[q] = entries[q],
         \A q \in DOMAIN entries' : q \in DOMAIN entries \/ q = p,
         lost' = lost, replaced' = replaced, next_id <= next_id'
  PROVE  RootKept' /\ Told' /\ InodeNeverReused'
<1>0. PICK i : i = IF p \in DOMAIN ino_by_path THEN ino_by_path[p] ELSE next_ino
  OBVIOUS
<1> DEFINE l == <<i, id>>
<1>1. /\ known' = known \union {l}
      /\ next_ino \in Nat /\ next_ino' \in Nat /\ next_ino <= next_ino' /\ i < next_ino'
      /\ \A k \in known : k[1] < next_ino /\ k[1] \in Nat /\ k[2] \in Nat /\ k[2] < next_id
      /\ next_id \in Nat /\ next_id' \in Nat
      /\ i \in Nat /\ i # ROOT_INO
  <2>1. /\ next_ino \in Nat /\ next_ino > ROOT_INO /\ next_id \in Nat
        /\ \A q \in DOMAIN ino_by_path : ino_by_path[q] \in Nat
    BY Numbers DEF TInv
  <2>2. next_ino' \in Nat
    BY <2>1 DEF InoFor, maps
  <2>3. \A k \in known : k[1] < next_ino /\ k[1] \in Nat /\ k[2] \in Nat /\ k[2] < next_id
    BY Numbers DEF TInv, Told, ToldOf
  <2>4. p \in DOMAIN ino_by_path => ino_by_path[p] < next_ino /\ ino_by_path[p] # ROOT_INO
    BY DEF TInv, RootKept, IInv, Agree
  <2>5. next_id' \in Nat
    BY BoundsAssumption DEF TypeOK
  <2>6. ROOT_INO \in Nat
    BY DEF ROOT_INO
  <2>7. CASE p \in DOMAIN ino_by_path
    BY <1>0, <2>1, <2>2, <2>3, <2>4, <2>5, <2>7 DEF InoFor, maps
  <2>8. CASE p \notin DOMAIN ino_by_path
    BY <1>0, <2>1, <2>2, <2>3, <2>5, <2>6, <2>8 DEF InoFor, maps
  <2> QED
    BY <2>7, <2>8
<1>2. /\ p \in DOMAIN ino_by_path' /\ ino_by_path'[p] = i
      /\ i \in DOMAIN path_by_ino' /\ path_by_ino'[i] = p
      /\ \A q \in DOMAIN ino_by_path : q \in DOMAIN ino_by_path' /\ ino_by_path'[q] = ino_by_path[q]
      /\ \A q \in DOMAIN ino_by_path' : q \in DOMAIN ino_by_path \/ (q = p /\ i = next_ino)
      /\ \A k \in known : k[1] \in DOMAIN path_by_ino' =>
           k[1] \in DOMAIN path_by_ino /\ path_by_ino'[k[1]] = path_by_ino[k[1]]
  <2>1. CASE p \in DOMAIN ino_by_path
    <3>1. UNCHANGED maps
      BY <2>1 DEF InoFor
    <3> QED
      BY <1>0, <2>1, <3>1 DEF maps, TInv, IInv, Agree
  <2>2. CASE p \notin DOMAIN ino_by_path
    <3>1. /\ ino_by_path' = Put(ino_by_path, p, next_ino)
          /\ path_by_ino' = Put(path_by_ino, next_ino, p)
      BY <2>2 DEF InoFor
    <3>2. \A k \in known : k[1] # next_ino
      BY <1>1
    <3> QED
      BY <1>0, <2>2, <3>1, <3>2 DEF Put
  <2> QED
    BY <2>1, <2>2
<1>3. RootKept'
  BY <1>2 DEF TInv, RootKept
<1>4. ASSUME NEW k \in known PROVE ToldOf(k)'
  <2>1. ToldOf(k) /\ k[1] < next_ino'
    BY <1>1 DEF TInv, Told
  <2>2. k[2] < next_id' /\ k[2] # next_id
    BY <1>1
  <2>3. ASSUME NEW q \in DOMAIN entries', entries'[q].id = k[2]
        PROVE  q \in DOMAIN ino_by_path' /\ ino_by_path'[q] = k[1]
    <3>1. q \in DOMAIN entries /\ entries[q].id = k[2]
      BY <2>2, <2>3
    <3> QED
      BY <1>2, <2>1, <3>1 DEF ToldOf
  <2>4. ASSUME k[1] \in DOMAIN path_by_ino'
        PROVE  \/ k[2] = ROOT_ID
               \/ k[2] \in Gone'
               \/ Exists(path_by_ino[k[1]])' /\ entries'[path_by_ino'[k[1]]].id = k[2]
    BY <1>2, <2>1, <2>4 DEF ToldOf, Gone, Exists
  <2>5. ASSUME k[2] \in replaced', NEW q \in DOMAIN ino_by_path' PROVE ino_by_path'[q] # k[1]
    BY <1>1, <1>2, <2>1, <2>5 DEF ToldOf
  <2> QED
    BY <2>1, <2>2, <2>3, <2>4, <2>5 DEF ToldOf, Exists
<1>5. ToldOf(l)'
  <2>1. id < next_id' /\ id # ROOT_ID /\ id \notin Gone'
    BY DEF Rows, ROOT_ID
  <2>2. \A q \in DOMAIN entries' : entries'[q].id = id => q = p
    BY DEF Rows
  <2>3. l[1] = i /\ l[2] = id
    OBVIOUS
  <2> HIDE DEF l
  <2>4. l[1] < next_ino' /\ l[2] < next_id' /\ (l[1] = ROOT_INO <=> l[2] = ROOT_ID)
    BY <1>1, <2>1, <2>3
  <2>5. \A q \in DOMAIN entries' :
          entries'[q].id = l[2] => q \in DOMAIN ino_by_path' /\ ino_by_path'[q] = l[1]
    BY <1>2, <2>2, <2>3
  <2>6. path_by_ino'[l[1]] \in DOMAIN entries' /\ entries'[path_by_ino'[l[1]]].id = l[2]
    BY <1>2, <2>3
  <2>7. l[2] \notin replaced'
    BY <2>1, <2>3 DEF Gone
  <2> QED
    BY <2>4, <2>5, <2>6, <2>7 DEF ToldOf, Exists
<1> HIDE DEF l
<1>6. Told'
  BY <1>1, <1>4, <1>5 DEF Told
<1>7. ASSUME NEW k \in known, k[1] = i, k[2] \notin lost PROVE k[2] = id
  <2>1. i # next_ino
    BY <1>1, <1>7
  <2>2. p \in DOMAIN ino_by_path /\ ino_by_path[p] = k[1]
    BY <1>0, <1>7, <2>1
  <2>3. k[1] \in DOMAIN path_by_ino /\ path_by_ino[k[1]] = p
    BY <2>2 DEF TInv, IInv, Agree
  <2>4. ToldOf(k)
    BY DEF TInv, Told
  <2>5. k[2] # ROOT_ID /\ k[2] \notin replaced
    BY <1>1, <1>7, <2>2, <2>4 DEF ToldOf
  <2> QED
    BY <1>7, <2>3, <2>4, <2>5 DEF ToldOf, Gone, Exists
<1>8. InodeNeverReused'
  BY <1>1, <1>7 DEF InodeNeverReused, TInv, l
<1> QED
  BY <1>3, <1>6, <1>8

-----------------------------------------------------------------------------
(* A callback that changes nothing but the reply keeps the invariant.      *)
LEMMA AnswerTree == ASSUME TInv, TypeOK', IInv', NEW r, Answer(r) PROVE TInv'
<1>1. UNCHANGED <<entries, blocks, ino_by_path, path_by_ino, next_ino, handles, known,
                  next_id, lost, replaced, strayed>>
  BY DEF Answer, db, maps, history
<1>2. Rows' /\ Ancestors' /\ RootKept' /\ InodeNeverReused'
  BY <1>1 DEF TInv, Rows, Ancestors, RootKept, InodeNeverReused, Gone, IsDir, Exists
<1>3. Told'
  BY <1>1 DEF TInv, Told, ToldOf, Gone, Exists
<1>4. Content'
  BY <1>1 DEF TInv, Content, Placed, Exists
<1> QED
  BY <1>2, <1>3, <1>4 DEF TInv

(* lookup tells the kernel the inode of an entry.                          *)
LEMMA LookupTree ==
  ASSUME TInv, TypeOK', IInv', NEW i \in KernelDirs, NEW n \in Name, lookup(i, n)
  PROVE  TInv'
<1> DEFINE p == Join(PathOf(i), n)
<1>1. CASE Answer("ENOENT")
  BY <1>1, AnswerTree
<1>2. CASE Exists(p) /\ InoFor(p, entries[p].id) /\ UNCHANGED <<db, handles, history>>
  <2>1. p \in Seq(Name) /\ p # Root
    BY AboveName
  <2> HIDE DEF p
  <2>2. PICK id : id = entries[p].id
    OBVIOUS
  <2>3. /\ entries' = entries /\ blocks' = blocks /\ next_id' = next_id
        /\ lost' = lost /\ replaced' = replaced /\ strayed' = strayed /\ handles' = handles
    BY <1>2 DEF db, history
  <2>4. next_id <= next_id'
    BY <2>3, Numbers DEF TInv
  <2>5. Rows' /\ Ancestors' /\ Content'
    BY <2>3 DEF TInv, Rows, Ancestors, Content, Placed, Gone, IsDir, Exists
  <2>6. p \in DOMAIN entries
    BY <1>2 DEF Exists
  <2>7. RootKept' /\ Told' /\ InodeNeverReused'
    BY <1>2, <2>1, <2>2, <2>3, <2>4, <2>5, <2>6, InoForTold
  <2> QED
    BY <2>5, <2>7 DEF TInv
<1> QED
  BY <1>1, <1>2 DEF lookup

(* create and mkdir hang a new object into a directory that exists.        *)
LEMMA MakeTree ==
  ASSUME TInv, TypeOK', IInv', NEW i \in KernelDirs, NEW n \in Name,
         NEW kind \in Kind, Make(i, n, kind)
  PROVE  TInv'
<1> DEFINE p == Join(PathOf(i), n)
<1>1. CASE Answer("EEXIST")
  BY <1>1, AnswerTree
<1>2. CASE /\ ~Exists(p)
           /\ entries' = Put(entries, p, [kind |-> kind, id |-> next_id])
           /\ next_id' = next_id + 1
           /\ handles' = IF kind = "file" THEN handles \union {<<p, next_id>>} ELSE handles
           /\ InoFor(p, next_id)
           /\ UNCHANGED <<blocks, lost, replaced, strayed>>
  <2>1. p \in Seq(Name) /\ p # Root /\ \A m \in 1..(Len(p) - 1) : IsDir(Prefix(p, m))
    BY AboveName
  <2> HIDE DEF p
  <2>2. PICK id : id = next_id
    OBVIOUS
  <2>3. /\ next_id \in Nat /\ next_id > ROOT_ID /\ ROOT_ID \in Nat
        /\ \A q \in DOMAIN entries : entries[q].id \in Nat
        /\ lost \subseteq Nat /\ replaced \subseteq Nat
    BY Numbers DEF TInv, ROOT_ID
  <2>4. /\ p \notin DOMAIN entries
        /\ p \in DOMAIN entries' /\ entries'[p].id = id /\ entries'[p].kind = kind
        /\ \A q \in DOMAIN entries : q \in DOMAIN entries' /\ entries'[q] = entries[q]
        /\ \A q \in DOMAIN entries' : q \in DOMAIN entries \/ q = p
    BY <1>2, <2>2 DEF Put, Exists
  <2>5. Gone' = Gone /\ next_id' = next_id + 1
    BY <1>2 DEF Gone
  <2>6. Rows'
    <3>1. \A x \in Gone : x < next_id /\ x \in Nat
      BY <2>3 DEF TInv, Rows, Gone
    <3>2. ASSUME NEW q \in DOMAIN entries'
          PROVE  ROOT_ID < entries'[q].id /\ entries'[q].id < next_id' /\ entries'[q].id \notin Gone'
      BY <2>2, <2>3, <2>4, <2>5, <3>1 DEF TInv, Rows
    <3>3. ASSUME NEW q \in DOMAIN entries', NEW r \in DOMAIN entries', entries'[q].id = entries'[r].id
          PROVE  q = r
      <4>1. \A x \in DOMAIN entries : entries'[x].id # id
        BY <2>2, <2>3, <2>4 DEF TInv, Rows
      <4> QED
        BY <2>4, <3>3, <4>1 DEF TInv, Rows
    <3>4. \A x \in Gone' : x < next_id'
      BY <2>3, <2>5, <3>1
    <3> QED
      BY <3>2, <3>3, <3>4 DEF Rows
  <2>7. Ancestors'
    <3>1. \A q : IsDir(q) => IsDir(q)'
      BY <2>4 DEF IsDir, Exists
    <3> QED
      BY <2>1, <2>4, <3>1 DEF TInv, Ancestors, Prefix
  <2>8. Content'
    <3>1. \A r : Placed(r) => Placed(r)'
      BY <1>2, <2>4 DEF Placed, Exists
    <3>2. PICK g : g = <<p, id>>
      OBVIOUS
    <3>3. kind = "file" => Placed(g)'
      BY <2>4, <3>2 DEF Placed, Exists
    <3>4. handles' = handles \/ (kind = "file" /\ handles' = handles \union {g})
      BY <1>2, <2>2, <3>2
    <3> QED
      BY <1>2, <3>1, <3>3, <3>4 DEF TInv, Content
  <2>9. next_id <= next_id'
    BY <2>3, <2>5
  <2>10. RootKept' /\ Told' /\ InodeNeverReused'
    BY <1>2, <2>1, <2>2, <2>4, <2>6, <2>9, InoForTold
  <2> QED
    BY <2>6, <2>7, <2>8, <2>10 DEF TInv
<1> QED
  BY <1>1, <1>2 DEF Make

(* The tables after an entry without children is removed.                  *)
LEMMA RemoveRows ==
  ASSUME TInv, NEW p \in DOMAIN entries, ~(IsDir(p) /\ HasChildren(p)),
         entries' = Drop(entries, {p}), next_id' = next_id, replaced' = replaced,
         lost' = lost \/ lost' = lost \union {entries[p].id}
  PROVE  Rows' /\ Ancestors'
<1>1. /\ \A q \in DOMAIN entries' : q \in DOMAIN entries /\ q # p /\ entries'[q] = entries[q]
      /\ \A q \in DOMAIN entries : q # p => q \in DOMAIN entries'
      /\ \A x \in Gone' : x \in Gone \/ x = entries[p].id
  BY DEF Drop, Gone
<1>2. Rows'
  BY <1>1 DEF TInv, Rows
<1>3. ASSUME NEW q \in DOMAIN entries', NEW m \in 1..(Len(q) - 1)
      PROVE  IsDir(Prefix(q, m))'
  <2>1. IsDir(Prefix(q, m))
    BY <1>1 DEF TInv, Ancestors
  <2>2. p \in Seq(Name) /\ p # Root /\ q \in Seq(Name) /\ Len(q) \in Nat
    BY <1>1, Numbers, LenProperties DEF TInv
  <2>3. m \in 0..Len(q) /\ m # Len(q)
    BY <2>2
  <2>4. Within(Prefix(q, m), q)
    BY <2>2, <2>3, WithinPrefix
  <2>5. Prefix(q, m) # p
    BY <1>1, <2>2, <2>4, BelowEntry DEF TInv
  <2> QED
    BY <1>1, <2>1, <2>5 DEF IsDir, Exists, Prefix
<1> QED
  BY <1>2, <1>3 DEF Ancestors, Prefix

(* The maps after its path and inode are forgotten.                        *)
LEMMA ForgetTold ==
  ASSUME TInv, NEW p \in DOMAIN entries, Forget(p), entries' = Drop(entries, {p}),
         known' = known, next_id' = next_id, lost' = lost, replaced' = replaced
  PROVE  RootKept' /\ Told' /\ InodeNeverReused'
<1>1. InodeNeverReused'
  BY DEF TInv, InodeNeverReused
<1>2. p # Root
  BY Numbers DEF TInv
<1>3. RootKept'
  BY <1>2 DEF TInv, RootKept, Forget, Drop
<1>4. ASSUME NEW k \in known PROVE ToldOf(k)'
  <2>1. ToldOf(k) /\ next_ino' = next_ino /\ Gone' = Gone
    BY DEF TInv, Told, Forget, Gone
  <2>2. ASSUME NEW q \in DOMAIN entries', entries'[q].id = k[2]
        PROVE  q \in DOMAIN ino_by_path' /\ ino_by_path'[q] = k[1]
    BY <2>1, <2>2 DEF ToldOf, Forget, Drop
  <2>3. ASSUME k[1] \in DOMAIN path_by_ino', k[2] # ROOT_ID, k[2] \notin Gone
        PROVE  path_by_ino'[k[1]] \in DOMAIN entries' /\ entries'[path_by_ino'[k[1]]].id = k[2]
    <3>1. /\ k[1] \in DOMAIN path_by_ino /\ path_by_ino'[k[1]] = path_by_ino[k[1]]
          /\ p \in DOMAIN ino_by_path => k[1] # ino_by_path[p]
      BY <2>3 DEF Forget, Drop
    <3>2. path_by_ino[k[1]] \in DOMAIN entries /\ entries[path_by_ino[k[1]]].id = k[2]
      BY <2>1, <2>3, <3>1 DEF ToldOf, Exists
    <3>3. path_by_ino[k[1]] # p
      BY <2>1, <3>1, <3>2 DEF ToldOf
    <3> QED
      BY <3>1, <3>2, <3>3 DEF Drop
  <2>4. ASSUME k[2] \in replaced', NEW q \in DOMAIN ino_by_path' PROVE ino_by_path'[q] # k[1]
    BY <2>1, <2>4 DEF ToldOf, Forget, Drop
  <2> QED
    BY <2>1, <2>2, <2>3, <2>4 DEF ToldOf, Exists
<1> QED
  BY <1>1, <1>3, <1>4 DEF Told

(* unlink takes a leaf of the tree, with its blocks and its inode.         *)
LEMMA UnlinkTree ==
  ASSUME TInv, TypeOK', IInv', NEW i, NEW n, unlink(i, n)
  PROVE  TInv'
<1> DEFINE p == Join(PathOf(i), n)
<1>1. /\ p \in DOMAIN entries /\ ~IsDir(p)
      /\ entries' = Drop(entries, {p}) /\ blocks' = {r \in blocks : r[1] # p} /\ Forget(p)
      /\ strayed' = strayed \union Astray(entries') /\ handles' = handles
      /\ known' = known /\ next_id' = next_id /\ lost' = lost /\ replaced' = replaced
  BY DEF unlink, Exists
<1> HIDE DEF p
<1>2. Rows' /\ Ancestors'
  BY <1>1, RemoveRows
<1>3. RootKept' /\ Told' /\ InodeNeverReused'
  BY <1>1, ForgetTold
<1>4. Content'
  <2>1. \A r : Placed(r) /\ r[1] # p => Placed(r)'
    BY <1>1 DEF Placed, Exists, Drop
  <2>2. \A r \in blocks' : r \in blocks /\ r[1] # p
    BY <1>1
  <2>3. ASSUME NEW h \in handles, h[1] = p PROVE Placed(h)'
    <3>1. h[2] \in Astray(entries') \/ h[1] \in DOMAIN entries'
      BY AstrayIds
    <3>2. h[1] \notin DOMAIN entries'
      BY <1>1, <2>3 DEF Drop
    <3> QED
      BY <1>1, <3>1, <3>2 DEF Placed
  <2> QED
    BY <1>1, <2>1, <2>2, <2>3 DEF TInv, Content
<1> QED
  BY <1>2, <1>3, <1>4 DEF TInv

(* The half-done unlink leaves the maps, and rows of blocks of a lost file.*)
LEMMA UnlinkHalfDoneTree ==
  ASSUME TInv, TypeOK', IInv', NEW i, NEW n, unlinkHalfDone(i, n)
  PROVE  TInv'
<1> DEFINE p == Join(PathOf(i), n)
<1>1. /\ p \in DOMAIN entries /\ ~IsDir(p)
      /\ entries' = Drop(entries, {p}) /\ lost' = lost \union {entries[p].id}
      /\ UNCHANGED <<blocks, ino_by_path, path_by_ino, next_ino, handles, known, next_id,
                     replaced, strayed>>
  BY DEF unlinkHalfDone, Exists, maps
<1> HIDE DEF p
<1>2. Rows' /\ Ancestors'
  BY <1>1, RemoveRows
<1>3. RootKept' /\ InodeNeverReused'
  BY <1>1 DEF TInv, RootKept, InodeNeverReused
<1>4. Content'
  <2>1. \A r : Placed(r) => Placed(r)'
    BY <1>1 DEF Placed, Exists, Drop
  <2> QED
    BY <1>1, <2>1 DEF TInv, Content
<1>5. ASSUME NEW k \in known PROVE ToldOf(k)'
  <2>1. ToldOf(k)
    BY DEF TInv, Told
  <2>2. ASSUME NEW q \in DOMAIN entries', entries'[q].id = k[2]
        PROVE  q \in DOMAIN ino_by_path' /\ ino_by_path'[q] = k[1]
    BY <1>1, <2>1, <2>2 DEF ToldOf, Drop
  <2>3. ASSUME k[1] \in DOMAIN path_by_ino', k[2] # ROOT_ID, k[2] \notin Gone'
        PROVE  path_by_ino'[k[1]] \in DOMAIN entries' /\ entries'[path_by_ino'[k[1]]].id = k[2]
    BY <1>1, <2>1, <2>3 DEF ToldOf, Exists, Drop, Gone
  <2> QED
    BY <1>1, <2>1, <2>2, <2>3 DEF ToldOf, Exists
<1> QED
  BY <1>1, <1>2, <1>3, <1>4, <1>5 DEF TInv, Told

(* rmdir takes a directory nothing hangs in.                               *)
LEMMA RmdirTree ==
  ASSUME TInv, TypeOK', IInv', NEW i, NEW n, rmdir(i, n)
  PROVE  TInv'
<1> DEFINE p == Join(PathOf(i), n)
<1>1. CASE \E r : Answer(r)
  BY <1>1, AnswerTree
<1>2. CASE /\ IsDir(p) /\ ~HasChildren(p)
           /\ entries' = Drop(entries, {p}) /\ Forget(p)
           /\ UNCHANGED <<blocks, handles, known, history>>
  <2> HIDE DEF p
  <2>1. /\ p \in DOMAIN entries /\ entries[p].kind = "dir"
        /\ blocks' = blocks /\ handles' = handles /\ known' = known /\ strayed' = strayed
        /\ next_id' = next_id /\ lost' = lost /\ replaced' = replaced
    BY <1>2 DEF IsDir, Exists, history
  <2>2. Rows' /\ Ancestors'
    BY <1>2, <2>1, RemoveRows
  <2>3. RootKept' /\ Told' /\ InodeNeverReused'
    BY <1>2, <2>1, ForgetTold
  <2>4. Content'
    <3>1. \A r : Placed(r) => Placed(r)'
      BY <1>2, <2>1 DEF Placed, Exists, Drop
    <3> QED
      BY <2>1, <3>1 DEF TInv, Content
  <2> QED
    BY <2>2, <2>3, <2>4 DEF TInv
<1> QED
  BY <1>1, <1>2 DEF rmdir

(* What concerns neither open files nor rows of blocks.                    *)
LEMMA ContentOnly ==
  ASSUME TInv, TypeOK', IInv', UNCHANGED <<entries, maps, known, history>>,
         \A r \in blocks' : r \in blocks \/ Placed(r),
         \A h \in handles' : h \in handles \/ Placed(h)
  PROVE  TInv'
<1>1. UNCHANGED <<entries, ino_by_path, path_by_ino, next_ino, known, next_id,
                  lost, replaced, strayed>>
  BY DEF maps, history
<1>2. Rows' /\ Ancestors' /\ RootKept' /\ InodeNeverReused'
  BY <1>1 DEF TInv, Rows, Ancestors, RootKept, InodeNeverReused, Gone, IsDir, Exists
<1>3. Told'
  BY <1>1 DEF TInv, Told, ToldOf, Gone, Exists
<1>4. \A r : Placed(r) => Placed(r)'
  BY <1>1 DEF Placed, Exists
<1>5. Content'
  BY <1>4 DEF TInv, Content
<1> QED
  BY <1>2, <1>3, <1>5 DEF TInv

(* The key a handle takes is its file's.                                   *)
LEMMA OpenTree ==
  ASSUME TInv, TypeOK', IInv', NEW i, open(i)
  PROVE  TInv'
<1>1. PICK p \in DOMAIN entries :
        /\ entries[p].kind = "file" /\ <<i, entries[p].id>> \in known
        /\ handles' = handles \union {<<PathOf(i), entries[p].id>>}
        /\ UNCHANGED <<db, maps, known, history>>
  BY DEF open
<1>2. ToldOf(<<i, entries[p].id>>) /\ entries[p].id # ROOT_ID
  BY <1>1, Numbers DEF TInv, Told, Rows
<1>3. i # ROOT_INO /\ p \in DOMAIN ino_by_path /\ ino_by_path[p] = i
  BY <1>2 DEF ToldOf
<1>4. PathOf(i) = p
  BY <1>3 DEF PathOf, TInv, IInv, Agree
<1>5. PICK g : g = <<p, entries[p].id>>
  OBVIOUS
<1>6. Placed(g)
  BY <1>1, <1>5 DEF Placed, Exists
<1>7. handles' = handles \union {g} /\ blocks' = blocks /\ entries' = entries
  BY <1>1, <1>4, <1>5 DEF db
<1> QED
  BY <1>1, <1>6, <1>7, ContentOnly

(* Content lands under the key of its file: a handle's key is that, and so *)
(* is the path of the file's inode.                                        *)
LEMMA FlushTree ==
  ASSUME TInv, TypeOK', IInv', NEW h \in handles, flush(h) \/ release(h) \/ \E i : store(h, i)
  PROVE  TInv'
<1>1. Placed(h)
  BY DEF TInv, Content
<1>2. CASE flush(h)
  BY <1>1, <1>2, ContentOnly DEF flush
<1>3. CASE release(h)
  BY <1>1, <1>3, ContentOnly DEF release
<1>4. ASSUME NEW i, store(h, i) PROVE TInv'
  <2>1. CASE Answer("ENOENT")
    BY <2>1, AnswerTree
  <2>2. CASE /\ i \in DOMAIN path_by_ino
             /\ blocks' = blocks \union {<<path_by_ino[i], h[2]>>}
             /\ UNCHANGED <<entries, maps, handles, known, history>>
    <3>1. PICK g : g = <<path_by_ino[i], h[2]>>
      OBVIOUS
    <3>2. g[1] = path_by_ino[i] /\ g[2] = h[2]
      BY <3>1
    <3>3. Placed(g)
      <4>1. CASE h[2] \in lost \union strayed
        BY <3>2, <4>1 DEF Placed
      <4>2. CASE /\ h[1] \in DOMAIN entries /\ entries[h[1]].kind = "file"
                 /\ entries[h[1]].id = h[2]
        <5>1. ToldOf(<<i, h[2]>>)
          BY <1>4 DEF store, TInv, Told
        <5>2. h[1] \in DOMAIN ino_by_path /\ ino_by_path[h[1]] = i
          BY <4>2, <5>1 DEF ToldOf
        <5>3. path_by_ino[i] = h[1]
          BY <5>2 DEF TInv, IInv, Agree
        <5> QED
          BY <3>2, <4>2, <5>3 DEF Placed, Exists
      <4> QED
        BY <1>1, <4>1, <4>2 DEF Placed, Exists
    <3> QED
      BY <2>2, <3>1, <3>3, ContentOnly
  <2> QED
    BY <1>4, <2>1, <2>2 DEF store
<1> QED
  BY <1>2, <1>3, <1>4

(* readdir adds fresh inodes only, which the kernel does not hold.         *)
LEMMA ReaddirTree ==
  ASSUME TInv, TypeOK', IInv', NEW i, readdir(i)
  PROVE  TInv'
<1>1. PICK n \in next_ino..(MaxIno + 1) : \E num \in [Fresh(i) -> next_ino..(n - 1)] :
        Numbered(Fresh(i), n, num)
  BY ReaddirCases
<1>2. PICK num \in [Fresh(i) -> next_ino..(n - 1)] : Numbered(Fresh(i), n, num)
  BY <1>1
<1>3. /\ UNCHANGED <<entries, blocks, handles, known, next_id, lost, replaced, strayed>>
      /\ next_ino' = n
  BY <1>2, ReaddirCases DEF db, history, Numbered
<1>4. next_ino \in Nat /\ n \in Nat /\ next_ino <= n
      /\ \A k \in known : k[1] \in Nat /\ k[1] < next_ino
  BY Numbers, BoundsAssumption DEF TInv, Told, ToldOf
<1>5. /\ \A q \in DOMAIN ino_by_path :
           q \in DOMAIN ino_by_path' /\ ino_by_path'[q] = ino_by_path[q]
      /\ \A q \in DOMAIN ino_by_path' :
           q \in DOMAIN ino_by_path \/ ino_by_path'[q] \in next_ino..(n - 1)
  BY <1>2 DEF Numbered, Fresh
<1>6. \A k \in known : k[1] \in DOMAIN path_by_ino' =>
        k[1] \in DOMAIN path_by_ino /\ path_by_ino'[k[1]] = path_by_ino[k[1]]
  BY <1>2, <1>4 DEF Numbered
<1>7. Rows' /\ Ancestors' /\ RootKept' /\ InodeNeverReused' /\ Content'
  BY <1>3, <1>5 DEF TInv, Rows, Ancestors, RootKept, InodeNeverReused, Gone, IsDir, Exists,
                    Content, Placed
<1>8. ASSUME NEW k \in known PROVE ToldOf(k)'
  <2>1. ToldOf(k) /\ k[1] < next_ino'
    BY <1>3, <1>4 DEF TInv, Told
  <2>2. \A q \in DOMAIN entries' : entries'[q].id = k[2] =>
          q \in DOMAIN ino_by_path' /\ ino_by_path'[q] = k[1]
    BY <1>3, <1>5, <2>1 DEF ToldOf
  <2>3. k[1] \in DOMAIN path_by_ino' =>
          \/ k[2] = ROOT_ID
          \/ k[2] \in Gone'
          \/ path_by_ino'[k[1]] \in DOMAIN entries' /\ entries'[path_by_ino'[k[1]]].id = k[2]
    BY <1>3, <1>6, <2>1 DEF ToldOf, Gone, Exists
  <2>4. ASSUME k[2] \in replaced', NEW q \in DOMAIN ino_by_path' PROVE ino_by_path'[q] # k[1]
    BY <1>3, <1>4, <1>5, <2>1, <2>4 DEF ToldOf
  <2> QED
    BY <1>3, <2>1, <2>2, <2>3, <2>4 DEF ToldOf, Exists
<1> QED
  BY <1>3, <1>7, <1>8 DEF TInv, Told

(* A fresh mount knows the root only.                                      *)
LEMMA RemountTree == ASSUME TInv, TypeOK', IInv', remount PROVE TInv'
<1>1. /\ entries' = entries /\ blocks' = blocks /\ next_id' = next_id /\ lost' = lost
      /\ replaced' = {} /\ strayed' = strayed /\ handles' = {}
      /\ known' = {<<ROOT_INO, ROOT_ID>>}
      /\ ino_by_path' = [p \in {Root} |-> ROOT_INO] /\ next_ino' = ROOT_INO + 1
  BY DEF remount, db
<1>2. Rows' /\ Ancestors' /\ Content'
  BY <1>1 DEF TInv, Rows, Ancestors, Gone, IsDir, Exists, Content, Placed
<1>3. RootKept' /\ InodeNeverReused'
  BY <1>1 DEF RootKept, InodeNeverReused
<1>4. ASSUME NEW k, k = <<ROOT_INO, ROOT_ID>> PROVE ToldOf(k)'
  <2>1. k[1] = ROOT_INO /\ k[2] = ROOT_ID
    BY <1>4
  <2>2. k[1] < next_ino' /\ k[2] < next_id' /\ k[2] \notin replaced'
    BY <1>1, <2>1, Numbers DEF TInv, ROOT_INO
  <2>3. \A p \in DOMAIN entries' : entries'[p].id # k[2]
    BY <1>1, <2>1, Numbers DEF TInv, Rows, ROOT_ID
  <2> QED
    BY <2>1, <2>2, <2>3 DEF ToldOf
<1> QED
  BY <1>1, <1>2, <1>3, <1>4 DEF TInv, Told

(* A mount of an empty database.                                           *)
LEMMA InitTree == Init => TInv
<1> SUFFICES ASSUME Init PROVE TInv
  OBVIOUS
<1>1. TypeOK /\ IInv
  BY InitType, InitAgrees
<1>2. /\ entries = [p \in {} |-> [kind |-> "file", id |-> 0]] /\ blocks = {} /\ handles = {}
      /\ next_id = ROOT_ID + 1 /\ lost = {} /\ replaced = {}
      /\ known = {<<ROOT_INO, ROOT_ID>>}
      /\ ino_by_path = [p \in {Root} |-> ROOT_INO] /\ next_ino = ROOT_INO + 1
  BY DEF Init
<1>3. Rows /\ Ancestors /\ Content
  BY <1>2 DEF Rows, Ancestors, Gone, Content
<1>4. RootKept /\ InodeNeverReused
  BY <1>2 DEF RootKept, InodeNeverReused
<1>5. ASSUME NEW k, k = <<ROOT_INO, ROOT_ID>> PROVE ToldOf(k)
  <2>1. k[1] = ROOT_INO /\ k[2] = ROOT_ID
    BY <1>5
  <2>2. k[1] < next_ino /\ k[2] < next_id /\ k[2] \notin replaced
    BY <1>2, <2>1 DEF ROOT_INO, ROOT_ID
  <2>3. \A p \in DOMAIN entries : FALSE
    BY <1>2
  <2> QED
    BY <2>1, <2>2, <2>3 DEF ToldOf
<1> QED
  BY <1>1, <1>2, <1>3, <1>4, <1>5 DEF TInv, Told

-----------------------------------------------------------------------------
(* rename.  With literal names LIKE finds exactly what lies below old.     *)
LEMMA LiteralBelow ==
  ASSUME Literal, NEW old \in Seq(Name), NEW q \in Seq(Name), q # Root
  PROVE  (ParentOf(q) = old \/ LikeBelow(old, ParentOf(q))) <=> Within(old, q) /\ q # old
<1> DEFINE r == ParentOf(q)
<1>1. /\ Len(q) \in Nat \ {0} /\ Len(q) - 1 \in 0..Len(q) /\ r = Prefix(q, Len(q) - 1)
      /\ r \in Seq(Name) /\ Len(r) = Len(q) - 1
  BY ParentPrefix
<1>2. Within(old, r) <=> Within(old, q) /\ Len(old) <= Len(q) - 1
  BY <1>1, WithinPrefix
<1> HIDE DEF r
<1>3. Len(old) \in Nat /\ Len(r) \in Nat
  BY <1>1, LenProperties
<1>4. LikeBelow(old, r) <=> Len(r) > Len(old) /\ Within(old, r)
  <2>1. ASSUME Len(old) <= Len(r), NEW k \in 1..Len(old)
        PROVE  <<old[k], r[k]>> \in Like <=> r[k] = old[k]
    <3>1. old[k] \in Name /\ r[k] \in Name
      BY <1>1, <1>3, <2>1, ElementOfSeq
    <3> QED
      BY <3>1, LikeAssumption DEF Literal
  <2>2. Within(old, r) <=> Len(old) <= Len(r) /\ \A k \in 1..Len(old) : r[k] = old[k]
    BY <1>1, WithinNames
  <2>3. LikeBelow(old, r) <=>
          Len(r) > Len(old) /\ \A k \in 1..Len(old) : <<old[k], r[k]>> \in Like
    BY DEF LikeBelow
  <2>4. Len(r) > Len(old) => Len(old) <= Len(r)
    BY <1>3
  <2>5. Len(r) > Len(old) =>
          ((\A k \in 1..Len(old) : <<old[k], r[k]>> \in Like)
             <=> \A k \in 1..Len(old) : r[k] = old[k])
    BY <2>1, <2>4
  <2> QED
    BY <2>2, <2>3, <2>4, <2>5
<1>5. r = old <=> Len(r) = Len(old) /\ Within(old, r)
  BY <1>1, <1>3, WithinSelf
<1>6. Within(old, r) => Len(old) <= Len(r)
  BY DEF Within
<1>7. (r = old \/ LikeBelow(old, r)) <=> Within(old, r)
  BY <1>3, <1>4, <1>5, <1>6
<1>8. Within(old, q) => (q # old <=> Len(old) <= Len(q) - 1)
  <2>1. Within(old, q) => Len(old) <= Len(q)
    BY DEF Within
  <2>2. Within(old, q) /\ Len(q) <= Len(old) => q = old
    BY WithinSelf
  <2> QED
    BY <1>1, <1>3, <2>1, <2>2
<1> QED
  BY <1>2, <1>7, <1>8 DEF r

(* Rebase puts what lies within old within new, keeps paths apart, and     *)
(* commutes with going up.                                                 *)
LEMMA RebaseWithin ==
  ASSUME NEW old \in Seq(Name), NEW new \in Seq(Name), NEW p \in Seq(Name), Within(old, p)
  PROVE  Within(new, Rebase(old, new, p)) /\ Rebase(old, new, old) = new
<1>1. Len(old) <= Len(p)
  BY DEF Within
<1>2. /\ Rebase(old, new, p) \in Seq(Name)
      /\ Len(Rebase(old, new, p)) = Len(new) + (Len(p) - Len(old))
      /\ \A k \in 1..Len(new) : Rebase(old, new, p)[k] = new[k]
  BY <1>1, RebaseNames
<1>3. Len(new) <= Len(Rebase(old, new, p))
  BY <1>1, <1>2, LenProperties
<1>4. Within(new, Rebase(old, new, p))
  BY <1>2, <1>3, WithinNames
<1>5. /\ Rebase(old, new, old) \in Seq(Name)
      /\ Len(Rebase(old, new, old)) = Len(new) + (Len(old) - Len(old))
      /\ \A k \in 1..Len(new) : Rebase(old, new, old)[k] = new[k]
  <2>1. Len(old) <= Len(old)
    BY LenProperties
  <2> QED
    BY <2>1, RebaseNames
<1>6. Len(Rebase(old, new, old)) = Len(new)
  BY <1>5, LenProperties
<1>7. Rebase(old, new, old) = new
  BY <1>5, <1>6, SeqEqual
<1> QED
  BY <1>4, <1>7

(* Two paths below old stay two.                                           *)
LEMMA RebaseInjective ==
  ASSUME NEW old \in Seq(Name), NEW new \in Seq(Name), NEW p \in Seq(Name), NEW q \in Seq(Name),
         Within(old, p), Within(old, q), Rebase(old, new, p) = Rebase(old, new, q)
  PROVE  p = q
<1>1. /\ Len(old) <= Len(p) /\ \A k \in 1..Len(old) : p[k] = old[k]
      /\ Len(old) <= Len(q) /\ \A k \in 1..Len(old) : q[k] = old[k]
  BY WithinNames
<1>2. /\ Len(Rebase(old, new, p)) = Len(new) + (Len(p) - Len(old))
      /\ \A k \in (Len(new) + 1)..(Len(new) + (Len(p) - Len(old))) :
           Rebase(old, new, p)[k] = p[k - Len(new) + Len(old)]
  BY <1>1, RebaseNames
<1>3. /\ Len(Rebase(old, new, q)) = Len(new) + (Len(q) - Len(old))
      /\ \A k \in (Len(new) + 1)..(Len(new) + (Len(q) - Len(old))) :
           Rebase(old, new, q)[k] = q[k - Len(new) + Len(old)]
  BY <1>1, RebaseNames
<1>4. Len(p) \in Nat /\ Len(q) \in Nat /\ Len(old) \in Nat /\ Len(new) \in Nat
  BY LenProperties
<1>5. Len(p) = Len(q)
  BY <1>2, <1>3, <1>4
<1>6. ASSUME NEW k \in 1..Len(p) PROVE p[k] = q[k]
  <2>1. CASE k <= Len(old)
    BY <1>1, <2>1
  <2>2. CASE k > Len(old)
    <3>1. PICK x : x = k - Len(old) + Len(new)
      OBVIOUS
    <3>2. x \in (Len(new) + 1)..(Len(new) + (Len(p) - Len(old))) /\ x - Len(new) + Len(old) = k
      BY <1>4, <2>2, <3>1
    <3> QED
      BY <1>2, <1>3, <1>5, <3>2
  <2> QED
    BY <1>4, <2>1, <2>2
<1> QED
  BY <1>5, <1>6, SeqEqual

(* The directories above a moved path: those above new, and those that     *)
(* moved with it.                                                          *)
LEMMA RebasePrefix ==
  ASSUME NEW old \in Seq(Name), NEW new \in Seq(Name), NEW p \in Seq(Name), Within(old, p),
         NEW n \in 0..Len(Rebase(old, new, p))
  PROVE  /\ n <= Len(new) => Prefix(Rebase(old, new, p), n) = Prefix(new, n)
         /\ n >= Len(new) =>
              /\ n - Len(new) + Len(old) \in Len(old)..Len(p)
              /\ Within(old, Prefix(p, n - Len(new) + Len(old)))
              /\ Prefix(Rebase(old, new, p), n)
                   = Rebase(old, new, Prefix(p, n - Len(new) + Len(old)))
<1> DEFINE t == Rebase(old, new, p)
<1>1. Len(old) <= Len(p)
  BY DEF Within
<1>2. /\ t \in Seq(Name) /\ Len(t) = Len(new) + (Len(p) - Len(old))
      /\ \A k \in 1..Len(new) : t[k] = new[k]
      /\ \A k \in (Len(new) + 1)..(Len(new) + (Len(p) - Len(old))) :
           t[k] = p[k - Len(new) + Len(old)]
  BY <1>1, RebaseNames
<1>3. n \in 0..Len(t)
  OBVIOUS
<1> HIDE DEF t
<1>4. Len(p) \in Nat /\ Len(old) \in Nat /\ Len(new) \in Nat /\ n \in Nat /\ n <= Len(t)
  BY <1>2, <1>3, LenProperties
<1>5. /\ Prefix(t, n) \in Seq(Name) /\ Len(Prefix(t, n)) = n
      /\ \A k \in 1..n : Prefix(t, n)[k] = t[k]
  BY <1>2, <1>3, PrefixPath
<1>6. ASSUME n <= Len(new) PROVE Prefix(t, n) = Prefix(new, n)
  <2>1. n \in 0..Len(new)
    BY <1>4, <1>6
  <2>2. /\ Prefix(new, n) \in Seq(Name) /\ Len(Prefix(new, n)) = n
        /\ \A k \in 1..n : Prefix(new, n)[k] = new[k]
    BY <2>1, PrefixPath
  <2>3. ASSUME NEW k \in 1..n PROVE Prefix(t, n)[k] = Prefix(new, n)[k]
    <3>1. k \in 1..Len(new)
      BY <1>4, <1>6
    <3>2. t[k] = new[k]
      BY <1>2, <3>1
    <3> QED
      BY <1>5, <2>2, <3>2
  <2> QED
    BY <1>5, <2>2, <2>3, SeqEqual
<1>7. ASSUME n >= Len(new)
      PROVE  /\ n - Len(new) + Len(old) \in Len(old)..Len(p)
             /\ Within(old, Prefix(p, n - Len(new) + Len(old)))
             /\ Prefix(t, n) = Rebase(old, new, Prefix(p, n - Len(new) + Len(old)))
  <2>1. PICK m : m = n - Len(new) + Len(old)
    OBVIOUS
  <2>2. m \in Len(old)..Len(p) /\ m \in 0..Len(p) /\ Len(old) <= m /\ m \in Nat
    BY <1>2, <1>4, <1>7, <2>1
  <2>3. /\ Prefix(p, m) \in Seq(Name) /\ Len(Prefix(p, m)) = m
        /\ \A k \in 1..m : Prefix(p, m)[k] = p[k]
    BY <2>2, PrefixPath
  <2>4. Within(old, Prefix(p, m))
    BY <2>2, WithinPrefix
  <2> DEFINE u == Prefix(p, m)
  <2> HIDE DEF u
  <2>9. u \in Seq(Name) /\ Len(u) = m /\ Len(old) <= Len(u)
    BY <2>2, <2>3 DEF u
  <2>10. /\ Rebase(old, new, u) \in Seq(Name)
         /\ Len(Rebase(old, new, u)) = Len(new) + (Len(u) - Len(old))
         /\ \A k \in 1..Len(new) : Rebase(old, new, u)[k] = new[k]
         /\ \A k \in (Len(new) + 1)..(Len(new) + (Len(u) - Len(old))) :
              Rebase(old, new, u)[k] = u[k - Len(new) + Len(old)]
    BY <2>9, RebaseNames
  <2>5. /\ Rebase(old, new, Prefix(p, m)) \in Seq(Name)
        /\ Len(Rebase(old, new, Prefix(p, m))) = Len(new) + (m - Len(old))
        /\ \A k \in 1..Len(new) : Rebase(old, new, Prefix(p, m))[k] = new[k]
        /\ \A k \in (Len(new) + 1)..(Len(new) + (m - Len(old))) :
             Rebase(old, new, Prefix(p, m))[k] = Prefix(p, m)[k - Len(new) + Len(old)]
    BY <2>9, <2>10 DEF u
  <2>6. ASSUME NEW k \in 1..n PROVE Prefix(t, n)[k] = Rebase(old, new, Prefix(p, m))[k]
    <3>1. CASE k <= Len(new)
      <4>1. k \in 1..Len(new)
        BY <1>4, <3>1
      <4>2. t[k] = new[k] /\ Rebase(old, new, Prefix(p, m))[k] = new[k]
        BY <1>2, <2>5, <4>1
      <4> QED
        BY <1>5, <4>2
    <3>2. CASE k > Len(new)
      <4>1. PICK x : x = k - Len(new) + Len(old)
        OBVIOUS
      <4>2. /\ k \in (Len(new) + 1)..(Len(new) + (m - Len(old)))
            /\ k \in (Len(new) + 1)..(Len(new) + (Len(p) - Len(old)))
            /\ x \in 1..m
        BY <1>4, <2>1, <2>2, <3>2, <4>1
      <4>3. Rebase(old, new, Prefix(p, m))[k] = p[x]
        BY <2>3, <2>5, <4>1, <4>2
      <4>4. t[k] = p[x]
        BY <1>2, <4>1, <4>2
      <4> QED
        BY <1>5, <4>3, <4>4
    <3> QED
      BY <1>4, <3>1, <3>2
  <2>7. Len(new) + (m - Len(old)) = n
    BY <1>4, <2>1
  <2>8. Prefix(t, n) = Rebase(old, new, Prefix(p, m))
    BY <1>5, <2>5, <2>6, <2>7, SeqEqual
  <2> QED
    BY <2>1, <2>2, <2>4, <2>8
<1> QED
  BY <1>6, <1>7 DEF t

(* Rows that do not collide keep their values under the new keys.          *)
KeepsRows(g, f, S, old, new) ==
  /\ \A k \in S : Rebase(old, new, k) \in DOMAIN g /\ g[Rebase(old, new, k)] = f[k]
  /\ \A x \in DOMAIN f \ S : x \in DOMAIN g /\ g[x] = f[x]
  /\ \A x \in DOMAIN g : x \in DOMAIN f \ S \/ \E k \in S : Rebase(old, new, k) = x

(* The UPDATEs of rename over one table (no primary key violated).         *)
LEMMA MovedRows ==
  ASSUME NEW f, NEW S, S \subseteq DOMAIN f, NEW old, NEW new, ~Collide(DOMAIN f, S, old, new)
  PROVE  KeepsRows(Moved(f, S, old, new), f, S, old, new)
<1> DEFINE R(k) == Rebase(old, new, k)
           target == {R(k) : k \in S}
           F == [x \in (DOMAIN f \ S) \union target |->
                   IF x \in target THEN f[CHOOSE k \in S : R(k) = x] ELSE f[x]]
<1>1. Moved(f, S, old, new) = F
  BY DEF Moved
<1>2. /\ \A k \in S : R(k) \notin DOMAIN f \ S
      /\ \A j, k \in S : R(j) = R(k) => j = k
  BY DEF Collide
<1> HIDE DEF R
<1>3. ASSUME NEW k \in S PROVE R(k) \in DOMAIN F /\ F[R(k)] = f[k]
  <2>1. R(k) \in target
    OBVIOUS
  <2>2. (CHOOSE j \in S : R(j) = R(k)) = k
    BY <1>2
  <2> QED
    BY <2>1, <2>2
<1>4. ASSUME NEW x \in DOMAIN f \ S PROVE x \in DOMAIN F /\ F[x] = f[x]
  BY <1>2
<1>5. ASSUME NEW x \in DOMAIN F PROVE x \in DOMAIN f \ S \/ \E k \in S : R(k) = x
  OBVIOUS
<1> HIDE DEF F
<1> QED
  BY <1>1, <1>3, <1>4, <1>5 DEF R, KeepsRows

(* The inode map: what a moved path overwrites lies within new.            *)
KeepsInodes(g, f, old, new) ==
  /\ \A k \in DOMAIN f : Within(old, k) =>
       Rebase(old, new, k) \in DOMAIN g /\ g[Rebase(old, new, k)] = f[k]
  /\ \A x \in DOMAIN f : ~Within(old, x) /\ ~Within(new, x) => x \in DOMAIN g /\ g[x] = f[x]
  /\ \A x \in DOMAIN g :
       \/ x \in DOMAIN f /\ ~Within(old, x) /\ g[x] = f[x]
            /\ ~ \E k \in DOMAIN f : Within(old, k) /\ Rebase(old, new, k) = x
       \/ \E k \in DOMAIN f : Within(old, k) /\ g[x] = f[k]

(* rekey_maps over ino_by_path.                                            *)
LEMMA MovedMap ==
  ASSUME NEW f, DOMAIN f \subseteq Seq(Name), NEW old \in Seq(Name), NEW new \in Seq(Name)
  PROVE  KeepsInodes(Moved(f, Rekeyed(f, old), old, new), f, old, new)
<1> DEFINE S == Rekeyed(f, old)
           R(k) == Rebase(old, new, k)
           target == {R(k) : k \in S}
           F == [x \in (DOMAIN f \ S) \union target |->
                   IF x \in target THEN f[CHOOSE k \in S : R(k) = x] ELSE f[x]]
<1>1. Moved(f, S, old, new) = F
  BY DEF Moved
<1>2. /\ S \subseteq DOMAIN f
      /\ \A k \in DOMAIN f : k \in S <=> Within(old, k)
  BY DEF Rekeyed
<1>3. \A k \in S : Within(new, R(k))
  BY <1>2, RebaseWithin
<1>4. \A j, k \in S : R(j) = R(k) => j = k
  BY <1>2, RebaseInjective
<1> HIDE DEF R, S
<1>5. ASSUME NEW k \in S PROVE R(k) \in DOMAIN F /\ F[R(k)] = f[k]
  <2>1. R(k) \in target
    OBVIOUS
  <2>2. (CHOOSE j \in S : R(j) = R(k)) = k
    BY <1>4
  <2> QED
    BY <2>1, <2>2
<1>6. ASSUME NEW x \in DOMAIN f \ S, ~Within(new, x) PROVE x \in DOMAIN F /\ F[x] = f[x]
  BY <1>3, <1>6
<1>7. ASSUME NEW x \in DOMAIN F
      PROVE  \/ x \in DOMAIN f \ S /\ F[x] = f[x] /\ ~ \E k \in S : R(k) = x
             \/ \E k \in S : F[x] = f[k]
  <2>1. CASE x \in target
    <3>1. PICK k \in S : R(k) = x
      BY <2>1
    <3> QED
      BY <1>5, <3>1
  <2>2. CASE x \notin target
    BY <2>2
  <2> QED
    BY <2>1, <2>2
<1> HIDE DEF F
<1>8. KeepsInodes(F, f, old, new)
  BY <1>2, <1>5, <1>6, <1>7 DEF R, KeepsInodes
<1> QED
  BY <1>1, <1>8 DEF S

(* Where a rename puts a path.                                             *)
Dest(old, new, p) == IF Within(old, p) THEN Rebase(old, new, p) ELSE p

(* The rows a rename moves are those at and below old; a file has none     *)
(* below it.                                                               *)
LEMMA MovedIsWithin ==
  ASSUME Literal, TInv, NEW old \in DOMAIN entries, NEW K,
         NEW q \in DOMAIN entries, q \in K
  PROVE  q \in RowsMoved(K, entries[old].kind, old) <=> Within(old, q)
<1>1. /\ old \in Seq(Name) /\ old # Root /\ q \in Seq(Name) /\ q # Root
      /\ entries[old].kind \in {"file", "dir"}
  BY Numbers DEF TInv, TypeOK, Kind
<1>2. q \in RowsUnder(K, old) <=> Within(old, q) /\ q # old
  BY <1>1, LiteralBelow DEF RowsUnder
<1>3. Within(old, old)
  BY <1>1, WithinSelf
<1>4. CASE entries[old].kind = "dir"
  BY <1>2, <1>3, <1>4 DEF RowsMoved
<1>5. CASE entries[old].kind = "file"
  <2>1. Within(old, q) => q = old
    <3>1. ~IsDir(old)
      BY <1>5 DEF IsDir
    <3> QED
      BY <1>1, <3>1, BelowEntry DEF TInv
  <2>2. RowsMoved(K, entries[old].kind, old) = {old} \intersect K
    BY <1>5 DEF RowsMoved
  <2> QED
    BY <1>3, <2>1, <2>2
<1> QED
  BY <1>1, <1>4, <1>5

(* The tables of a rename that does not fail: every row but the target's   *)
(* goes where Dest says, and there are no others; rows of blocks go with   *)
(* their files.                                                            *)
Relocated(old, new) ==
  /\ \A p \in DOMAIN entries : p # new =>
       Dest(old, new, p) \in DOMAIN entries' /\ entries'[Dest(old, new, p)] = entries[p]
  /\ \A y \in DOMAIN entries' : \E p \in DOMAIN entries : p # new /\ y = Dest(old, new, p)

(* The rows of entries after a rename.                                     *)
LEMMA RenamedRows ==
  ASSUME Literal, TInv, NEW old \in DOMAIN entries, NEW new \in Seq(Name),
         ~Collide(DOMAIN EntriesBut(new),
                  RowsMoved(DOMAIN EntriesBut(new), entries[old].kind, old), old, new),
         ~Within(old, new),
         entries' = Moved(EntriesBut(new),
                          RowsMoved(DOMAIN EntriesBut(new), entries[old].kind, old), old, new)
  PROVE  Relocated(old, new)
<1> DEFINE e == EntriesBut(new)
           eS == RowsMoved(DOMAIN e, entries[old].kind, old)
<1>1. /\ DOMAIN e = DOMAIN entries \ {new}
      /\ \A p \in DOMAIN entries : p # new => e[p] = entries[p]
  BY DEF EntriesBut, Drop
<1>2. eS \subseteq DOMAIN e
  BY DEF RowsMoved, RowsUnder
<1>3. \A p \in DOMAIN e : p \in eS <=> Within(old, p)
  BY <1>1, MovedIsWithin
<1> HIDE DEF e, eS
<1>4. entries' = Moved(e, eS, old, new) /\ ~Collide(DOMAIN e, eS, old, new)
  BY DEF e, eS
<1>5. KeepsRows(entries', e, eS, old, new)
  BY <1>2, <1>4, MovedRows
<1> QED
  BY <1>1, <1>2, <1>3, <1>5 DEF Dest, KeepsRows, Relocated

(* What rename checks before it moves anything.                            *)
Movable(old, new) ==
  /\ old \in DOMAIN entries
  /\ new \in Seq(Name) /\ new # Root
  /\ ~Within(old, new) /\ ~(IsDir(new) /\ HasChildren(new))
  /\ \A m \in 1..(Len(new) - 1) : IsDir(Prefix(new, m))
  /\ old \in DOMAIN ino_by_path

(* The tree after a rename: ids stay unique, and every ancestor of a moved *)
(* row is a moved directory or one above the target.                       *)
LEMMA RenameTree ==
  ASSUME TInv, TypeOK', NEW old, NEW new, Movable(old, new), Relocated(old, new),
         next_id' = next_id, lost' = lost,
         replaced' = replaced \union {entries[p].id : p \in {new} \intersect DOMAIN entries}
  PROVE  Rows' /\ Ancestors'
<1>1. \A x \in Gone' : x \in Gone \/ (new \in DOMAIN entries /\ x = entries[new].id)
  BY DEF Gone
<1>2. Rows'
  <2>1. \A y \in DOMAIN entries' :
          \E p \in DOMAIN entries : p # new /\ y = Dest(old, new, p) /\ entries'[y] = entries[p]
    BY DEF Relocated
  <2> QED
    BY <1>1, <2>1 DEF TInv, Rows
<1>3. \A q \in DOMAIN entries : Within(new, q) => q = new
  BY BelowEntry DEF TInv, Movable
<1>4. ASSUME NEW x, IsDir(x), x # new PROVE IsDir(Dest(old, new, x))'
  <2>1. Dest(old, new, x) \in DOMAIN entries' /\ entries'[Dest(old, new, x)] = entries[x]
    BY <1>4 DEF Relocated, IsDir, Exists
  <2> QED
    BY <1>4, <2>1 DEF IsDir, Exists, Dest, Within, Rebase
<1>5. ASSUME NEW y \in DOMAIN entries', NEW n \in 1..(Len(y) - 1)
      PROVE  IsDir(Prefix(y, n))'
  <2>1. PICK p \in DOMAIN entries : p # new /\ y = Dest(old, new, p)
    BY DEF Relocated
  <2>2. /\ p \in Seq(Name) /\ y \in Seq(Name) /\ new \in Seq(Name) /\ old \in Seq(Name)
        /\ Len(p) \in Nat /\ Len(y) \in Nat /\ Len(old) \in Nat /\ Len(new) \in Nat
        /\ n \in 0..Len(y) /\ n \in Nat /\ old # Root
    <3>1. p \in Seq(Name) /\ new \in Seq(Name) /\ old \in Seq(Name) /\ old # Root
      BY Numbers DEF TInv, Movable
    <3>2. y \in Seq(Name)
      BY PathSeq DEF TypeOK
    <3>3. Len(p) \in Nat /\ Len(y) \in Nat /\ Len(old) \in Nat /\ Len(new) \in Nat
      BY <3>1, <3>2, LenProperties
    <3> QED
      BY <3>1, <3>2, <3>3
  <2>3. CASE ~Within(old, p)
    <3>1. y = p
      BY <2>1, <2>3 DEF Dest
    <3>2. IsDir(Prefix(p, n))
      BY <3>1 DEF TInv, Ancestors
    <3>3. Within(Prefix(p, n), p) /\ ~Within(old, Prefix(p, n))
      BY <2>2, <2>3, <3>1, WithinPrefix
    <3>4. Prefix(p, n) # new
      BY <1>3, <2>1, <3>3
    <3>5. Dest(old, new, Prefix(p, n)) = Prefix(y, n)
      BY <3>1, <3>3 DEF Dest
    <3>6. PICK x : x = Prefix(p, n)
      OBVIOUS
    <3>7. IsDir(Dest(old, new, x))'
      BY <1>4, <3>2, <3>4, <3>6
    <3> QED
      BY <3>5, <3>6, <3>7 DEF IsDir, Exists, Dest, Within, Rebase, Prefix
  <2>4. CASE Within(old, p) /\ n < Len(new)
    <3>1. y = Rebase(old, new, p)
      BY <2>1, <2>4 DEF Dest
    <3>2. Prefix(y, n) = Prefix(new, n)
      BY <2>2, <2>4, <3>1, RebasePrefix
    <3>3. n \in 1..(Len(new) - 1) /\ n \in 0..Len(new)
      BY <2>2, <2>4
    <3>4. IsDir(Prefix(new, n))
      BY <3>3 DEF Movable
    <3>5. ~Within(old, Prefix(new, n))
      BY <2>2, <3>3, WithinPrefix DEF Movable
    <3>6. PICK x : x = Prefix(new, n)
      OBVIOUS
    <3>7. x # new
      BY <2>2, <2>4, <3>3, <3>6, PrefixPath
    <3>8. IsDir(Dest(old, new, x))' /\ Dest(old, new, x) = x
      BY <1>4, <3>4, <3>5, <3>6, <3>7 DEF Dest
    <3> QED
      BY <3>2, <3>6, <3>8 DEF IsDir, Exists, Prefix
  <2>5. CASE Within(old, p) /\ n >= Len(new)
    <3>1. y = Rebase(old, new, p)
      BY <2>1, <2>5 DEF Dest
    <3>2. PICK m : m = n - Len(new) + Len(old)
      OBVIOUS
    <3>3. PICK x : x = Prefix(p, m)
      OBVIOUS
    <3>4. m \in Len(old)..Len(p) /\ Within(old, x) /\ Prefix(y, n) = Rebase(old, new, x)
      BY <2>2, <2>5, <3>1, <3>2, <3>3, RebasePrefix
    <3>5. Len(old) <= Len(p) /\ Len(y) = Len(new) + (Len(p) - Len(old))
      BY <2>2, <2>5, <3>1, RebaseNames DEF Within
    <3>6. Len(old) # 0
      BY <2>2, EmptySeq DEF Root
    <3>7. m \in 1..(Len(p) - 1)
      BY <2>2, <3>2, <3>4, <3>5, <3>6
    <3>8. IsDir(x)
      BY <3>3, <3>7 DEF TInv, Ancestors
    <3>9. x # new
      BY <3>4 DEF Movable
    <3>10. IsDir(Dest(old, new, x))' /\ Dest(old, new, x) = Prefix(y, n)
      BY <1>4, <3>4, <3>8, <3>9 DEF Dest
    <3> QED
      BY <3>10 DEF IsDir, Exists, Prefix, Dest, Within, Rebase
  <2> QED
    BY <2>2, <2>3, <2>4, <2>5
<1> QED
  BY <1>2, <1>5 DEF Ancestors, Prefix

(* What the kernel knows after a rename: the inodes went with their paths, *)
(* and the one of a replaced target is on no path any more.                *)
LEMMA RenameTold ==
  ASSUME TInv, NEW old, NEW new, Movable(old, new), Relocated(old, new),
         ino_by_path' = Moved(ino_by_path, Rekeyed(ino_by_path, old), old, new),
         path_by_ino' = RekeyPathByIno(ino_by_path, path_by_ino, old, new),
         next_ino' = next_ino, known' = known, next_id' = next_id, lost' = lost,
         replaced' = replaced \union {entries[p].id : p \in {new} \intersect DOMAIN entries}
  PROVE  RootKept' /\ Told' /\ InodeNeverReused'
<1>1. InodeNeverReused'
  BY DEF TInv, InodeNeverReused
<1>2. /\ old \in Seq(Name) /\ old # Root /\ new \in Seq(Name) /\ new # Root
      /\ ~Within(old, new) /\ old \in DOMAIN ino_by_path
      /\ DOMAIN ino_by_path \subseteq Seq(Name)
      /\ \A q \in DOMAIN entries : q \in Seq(Name)
      /\ \A q \in DOMAIN entries : Within(new, q) => q = new
  <2>1. \A q \in DOMAIN entries : q \in Seq(Name) /\ q # Root
    BY Numbers DEF TInv
  <2>2. DOMAIN ino_by_path \subseteq Seq(Name)
    BY PathSeq DEF TInv, TypeOK
  <2> QED
    BY <2>1, <2>2, BelowEntry DEF TInv, Movable
<1>3. KeepsInodes(ino_by_path', ino_by_path, old, new)
  BY <1>2, MovedMap
<1>4. /\ \A x \in replaced' : x \in replaced \/ (new \in DOMAIN entries /\ x = entries[new].id)
      /\ \A x \in Gone : x \in Gone'
      /\ new \in DOMAIN entries => entries[new].id \in Gone'
  BY DEF Gone
<1>5. \A p, q \in DOMAIN ino_by_path : ino_by_path[p] = ino_by_path[q] => p = q
  BY DEF TInv, IInv, Agree
<1>6. RootKept'
  <2>1. ~Within(old, Root) /\ ~Within(new, Root)
    <3>1. Root \in Seq(Name) /\ Len(Root) = 0 /\ Len(old) \in Nat \ {0} /\ Len(new) \in Nat \ {0}
      BY <1>2, EmptySeq DEF Root
    <3> QED
      BY <3>1 DEF Within
  <2> QED
    BY <1>3, <2>1 DEF KeepsInodes, TInv, RootKept
<1>7. ASSUME NEW p \in DOMAIN entries, p # new, p \in DOMAIN ino_by_path
      PROVE  /\ Dest(old, new, p) \in DOMAIN ino_by_path'
             /\ ino_by_path'[Dest(old, new, p)] = ino_by_path[p]
             /\ path_by_ino'[ino_by_path[p]] = Dest(old, new, p)
  <2>1. CASE Within(old, p)
    <3>1. Dest(old, new, p) = Rebase(old, new, p)
      BY <2>1 DEF Dest
    <3>2. p \in Rekeyed(ino_by_path, old)
      BY <1>7, <2>1 DEF Rekeyed
    <3>3. (CHOOSE q \in Rekeyed(ino_by_path, old) : ino_by_path[q] = ino_by_path[p]) = p
      BY <1>5, <1>7, <3>2 DEF Rekeyed
    <3>4. path_by_ino'[ino_by_path[p]] = Rebase(old, new, p)
      BY <3>2, <3>3 DEF RekeyPathByIno
    <3> QED
      BY <1>3, <1>7, <2>1, <3>1, <3>4 DEF KeepsInodes
  <2>2. CASE ~Within(old, p)
    <3>1. Dest(old, new, p) = p /\ ~Within(new, p)
      BY <1>2, <1>7, <2>2 DEF Dest
    <3>2. ~ \E q \in Rekeyed(ino_by_path, old) : ino_by_path[q] = ino_by_path[p]
      BY <1>5, <1>7, <2>2 DEF Rekeyed
    <3>3. ino_by_path[p] \in DOMAIN path_by_ino /\ path_by_ino[ino_by_path[p]] = p
      BY <1>7 DEF TInv, IInv, Agree
    <3>4. path_by_ino'[ino_by_path[p]] = p
      BY <3>2, <3>3 DEF RekeyPathByIno
    <3> QED
      BY <1>3, <1>7, <2>2, <3>1, <3>4 DEF KeepsInodes
  <2> QED
    BY <2>1, <2>2
<1>8. DOMAIN path_by_ino' = DOMAIN path_by_ino
  BY DEF RekeyPathByIno, Rekeyed, TInv, IInv, Agree
<1>9. ASSUME NEW k \in known PROVE ToldOf(k)'
  <2>1. ToldOf(k)
    BY DEF TInv, Told
  <2>2. ASSUME NEW y \in DOMAIN entries', entries'[y].id = k[2]
        PROVE  y \in DOMAIN ino_by_path' /\ ino_by_path'[y] = k[1]
    <3>1. PICK p \in DOMAIN entries : p # new /\ y = Dest(old, new, p) /\ entries[p].id = k[2]
      BY <2>2 DEF Relocated
    <3>2. p \in DOMAIN ino_by_path /\ ino_by_path[p] = k[1]
      BY <2>1, <3>1 DEF ToldOf
    <3> QED
      BY <1>7, <3>1, <3>2
  <2>3. ASSUME k[1] \in DOMAIN path_by_ino', k[2] # ROOT_ID, k[2] \notin Gone'
        PROVE  path_by_ino'[k[1]] \in DOMAIN entries' /\ entries'[path_by_ino'[k[1]]].id = k[2]
    <3>1. PICK p \in DOMAIN entries : p = path_by_ino[k[1]] /\ entries[p].id = k[2]
      BY <1>4, <1>8, <2>1, <2>3 DEF ToldOf, Exists
    <3>2. p # new
      BY <1>4, <2>3, <3>1
    <3>3. p \in DOMAIN ino_by_path /\ ino_by_path[p] = k[1]
      BY <2>1, <3>1 DEF ToldOf
    <3>4. path_by_ino'[k[1]] = Dest(old, new, p)
      BY <1>7, <3>2, <3>3
    <3> QED
      BY <3>1, <3>2, <3>4 DEF Relocated
  <2>4. ASSUME k[2] \in replaced', NEW y \in DOMAIN ino_by_path' PROVE ino_by_path'[y] # k[1]
    <3>1. CASE k[2] \in replaced
      BY <1>3, <2>1, <2>4, <3>1 DEF ToldOf, KeepsInodes
    <3>2. CASE new \in DOMAIN entries /\ k[2] = entries[new].id
      <4>1. new \in DOMAIN ino_by_path /\ ino_by_path[new] = k[1]
        BY <2>1, <3>2 DEF ToldOf
      <4>2. Within(old, old) /\ Rebase(old, new, old) = new
        BY <1>2, WithinSelf, RebaseWithin
      <4>3. CASE y = new
        <5>1. PICK q \in DOMAIN ino_by_path : Within(old, q) /\ ino_by_path'[y] = ino_by_path[q]
          BY <1>2, <1>3, <2>4, <4>2, <4>3 DEF KeepsInodes
        <5> QED
          BY <1>2, <1>5, <4>1, <5>1
      <4>4. CASE y # new
        BY <1>2, <1>3, <1>5, <2>4, <4>1, <4>4 DEF KeepsInodes
      <4> QED
        BY <4>3, <4>4
    <3> QED
      BY <1>4, <2>4, <3>1, <3>2
  <2> QED
    BY <2>1, <2>2, <2>3, <2>4 DEF ToldOf, Exists
<1> QED
  BY <1>1, <1>6, <1>9 DEF Told

(* The content goes with its file, and a handle whose key does not is     *)
(* astray from now on.                                                     *)
LEMMA RenameContent ==
  ASSUME Literal, TInv, NEW old, NEW new, Movable(old, new), Relocated(old, new),
         MovedBlocks(blocks', BlocksBut(new),
                     RowsMoved(KeysOf(BlocksBut(new)), entries[old].kind, old), old, new),
         handles' = handles, lost' = lost, strayed' = strayed \union Astray(entries')
  PROVE  Content'
<1> DEFINE b == BlocksBut(new)
           bS == RowsMoved(KeysOf(b), entries[old].kind, old)
<1>1. \A r \in b : r \in blocks /\ (new \in DOMAIN entries => r[1] # new) /\ r[1] \in KeysOf(b)
  BY DEF BlocksBut, Exists, KeysOf
<1>2. \A p \in DOMAIN entries : p \in KeysOf(b) => (p \in bS <=> Within(old, p))
  BY MovedIsWithin DEF Movable
<1> HIDE DEF b, bS
<1>3. ASSUME NEW s \in blocks' PROVE Placed(s)'
  <2>1. PICK r \in b : s = <<IF r[1] \in bS THEN Rebase(old, new, r[1]) ELSE r[1], r[2]>>
    BY DEF MovedBlocks, b, bS
  <2>2. s[1] = (IF r[1] \in bS THEN Rebase(old, new, r[1]) ELSE r[1]) /\ s[2] = r[2]
    BY <2>1
  <2>3. Placed(r)
    BY <1>1 DEF TInv, Content
  <2>4. CASE r[2] \in lost \union strayed
    BY <2>2, <2>4 DEF Placed
  <2>5. CASE Exists(r[1]) /\ entries[r[1]].kind = "file" /\ entries[r[1]].id = r[2]
    <3>1. PICK p : p = r[1]
      OBVIOUS
    <3>2. p \in DOMAIN entries /\ p # new /\ s[1] = Dest(old, new, p)
      BY <1>1, <1>2, <2>2, <2>5, <3>1 DEF Dest, Exists
    <3>3. s[1] \in DOMAIN entries' /\ entries'[s[1]] = entries[p]
      BY <3>2 DEF Relocated
    <3> QED
      BY <2>2, <2>5, <3>1, <3>3 DEF Placed, Exists
  <2> QED
    BY <2>3, <2>4, <2>5 DEF Placed
<1>4. ASSUME NEW h \in handles PROVE Placed(h)'
  <2>1. Placed(h)
    BY DEF TInv, Content
  <2>2. CASE h[2] \in lost \union strayed \union Astray(entries')
    BY <2>2 DEF Placed
  <2>3. CASE h[2] \notin lost \union strayed \union Astray(entries')
    <3>1. h[1] \in DOMAIN entries' /\ entries'[h[1]].id = h[2]
      BY <2>3, AstrayIds
    <3>2. h[1] \in DOMAIN entries /\ entries[h[1]].kind = "file" /\ entries[h[1]].id = h[2]
      BY <2>1, <2>3 DEF Placed, Exists
    <3>3. PICK p \in DOMAIN entries : p # new /\ h[1] = Dest(old, new, p)
      BY <3>1 DEF Relocated
    <3>4. entries'[h[1]] = entries[p]
      BY <3>3 DEF Relocated
    <3>5. p = h[1]
      BY <3>1, <3>2, <3>4 DEF TInv, Rows
    <3> QED
      BY <3>1, <3>2, <3>4, <3>5 DEF Placed, Exists
  <2> QED
    BY <2>2, <2>3
<1> QED
  BY <1>3, <1>4 DEF Content

(* A rename, failed or not.                                                *)
LEMMA MoveEntryTree ==
  ASSUME Literal, TInv, TypeOK', IInv', NEW old, NEW new, Movable(old, new), MoveEntry(old, new)
  PROVE  TInv'
<1> DEFINE e == EntriesBut(new)
           b == BlocksBut(new)
           eS == RowsMoved(DOMAIN e, entries[old].kind, old)
           bS == RowsMoved(KeysOf(b), entries[old].kind, old)
<1>1. CASE Answer("EIO")
  BY <1>1, AnswerTree
<1>2. CASE /\ ~Collide(DOMAIN e, eS, old, new)
           /\ entries' = Moved(e, eS, old, new)
           /\ MovedBlocks(blocks', b, bS, old, new)
           /\ ino_by_path' = Moved(ino_by_path, Rekeyed(ino_by_path, old), old, new)
           /\ path_by_ino' = RekeyPathByIno(ino_by_path, path_by_ino, old, new)
           /\ replaced' = replaced \union {entries[p].id : p \in {new} \intersect DOMAIN entries}
           /\ strayed' = strayed \union Astray(entries')
           /\ UNCHANGED <<next_ino, handles, known, next_id, lost>>
  <2>1. Relocated(old, new)
    BY <1>2, RenamedRows DEF Movable
  <2>2. Rows' /\ Ancestors'
    BY <1>2, <2>1, RenameTree
  <2>3. RootKept' /\ Told' /\ InodeNeverReused'
    BY <1>2, <2>1, RenameTold
  <2>4. Content'
    BY <1>2, <2>1, RenameContent
  <2> QED
    BY <2>2, <2>3, <2>4 DEF TInv
<1> QED
  BY <1>1, <1>2, MoveEntryCases

(* Every callback keeps TInv.                                              *)
LEMMA StepTree == Literal /\ TInv /\ [Next]_vars => TInv'
<1> SUFFICES ASSUME Literal, TInv, [Next]_vars PROVE TInv'
  OBVIOUS
<1> USE DEF TInv
<1>0. TypeOK' /\ IInv'
  BY StepType, StepAgrees
<1> HIDE DEF TInv
<1>1. ASSUME NEW i \in KernelDirs, NEW n \in Name,
             \/ lookup(i, n) \/ create(i, n) \/ mkdir(i, n)
             \/ unlink(i, n) \/ unlinkHalfDone(i, n) \/ rmdir(i, n)
      PROVE  TInv'
  <2>1. "file" \in Kind /\ "dir" \in Kind
    BY DEF Kind
  <2> QED
    BY <1>0, <1>1, <2>1, LookupTree, MakeTree, UnlinkTree, UnlinkHalfDoneTree, RmdirTree
    DEF create, mkdir
<1>2. ASSUME NEW i \in KernelDirs, NEW j \in KernelDirs, NEW n \in Name, NEW m \in Name,
             Looked(Join(PathOf(i), n)),
             rename(i, n, j, m) \/ renameTargetUnseen(i, n, j, m)
      PROVE  TInv'
  <2>0. PICK old, new : old = Join(PathOf(i), n) /\ new = Join(PathOf(j), m)
    OBVIOUS
  <2>1. \/ \E r : Answer(r)
        \/ /\ MoveEntry(old, new) /\ Exists(old) /\ ~Within(old, new)
           /\ ~(IsDir(new) /\ HasChildren(new))
    <3>1. CASE rename(i, n, j, m)
      <4>1. (\E r : Answer(r)) \/ (Renamable(old, new) /\ MoveEntry(old, new))
        BY <2>0, <3>1 DEF rename
      <4> QED
        BY <4>1 DEF Renamable, IsDir
    <3>2. CASE renameTargetUnseen(i, n, j, m)
      BY <2>0, <3>2 DEF renameTargetUnseen
    <3> QED
      BY <1>2, <3>1, <3>2
  <2>2. ASSUME Exists(old) PROVE old \in DOMAIN ino_by_path
    <3>1. PICK x \in Ino : <<x, entries[old].id>> \in known
      BY <1>2, <2>0, <2>2 DEF Looked
    <3>2. ToldOf(<<x, entries[old].id>>)
      BY <3>1 DEF TInv, Told
    <3> QED
      BY <2>2, <3>2 DEF ToldOf, Exists
  <2>3. new \in Seq(Name) /\ new # Root /\ \A k \in 1..(Len(new) - 1) : IsDir(Prefix(new, k))
    BY <2>0, AboveName
  <2>4. CASE \E r : Answer(r)
    BY <1>0, <2>4, AnswerTree
  <2>5. CASE /\ MoveEntry(old, new) /\ Exists(old) /\ ~Within(old, new)
             /\ ~(IsDir(new) /\ HasChildren(new))
    <3>1. Movable(old, new)
      BY <2>2, <2>3, <2>5 DEF Movable, Exists
    <3> QED
      BY <1>0, <2>5, <3>1, MoveEntryTree
  <2> QED
    BY <2>1, <2>4, <2>5
<1>3. ASSUME NEW i \in KernelDirs, readdir(i) PROVE TInv'
  BY <1>0, <1>3, ReaddirTree
<1>4. ASSUME NEW i, open(i) PROVE TInv'
  BY <1>0, <1>4, OpenTree
<1>7. ASSUME NEW h \in handles, flush(h) \/ release(h) \/ \E i \in Ino : store(h, i)
      PROVE  TInv'
  BY <1>0, <1>7, FlushTree
<1>5. CASE remount
  BY <1>0, <1>5, RemountTree
<1>6. CASE UNCHANGED vars
  <2>1. Rows' /\ Ancestors' /\ RootKept' /\ Content' /\ InodeNeverReused'
    BY <1>6 DEF vars, TInv, Rows, Ancestors, RootKept, Content, Placed, InodeNeverReused,
                Gone, IsDir, Exists
  <2>2. Told'
    BY <1>6 DEF vars, TInv, Told, ToldOf, Gone, Exists
  <2> QED
    BY <1>0, <2>1, <2>2 DEF TInv
<1> QED
  BY <1>1, <1>2, <1>3, <1>4, <1>5, <1>6, <1>7 DEF Next

(* TInv holds in every state of a mount.                                   *)
LEMMA AlwaysTree == ASSUME Literal PROVE Spec => []TInv
<1>1. TInv /\ [Next]_vars => TInv'
  BY StepTree
<1> QED
  BY <1>1, InitTree, PTL DEF Spec

(* Renames move the inode the kernel holds for a linked object exactly as  *)
(* they move the object's row: it always resolves to that row, and an      *)
(* inode left over resolves to another's row only after a replacement or a *)
(* half-done unlink (rename, rekey_maps, ino_for).                         *)
THEOREM ResolvesTheorem == ASSUME Literal PROVE Spec => []KnownInodeResolves
BY AlwaysTree, TInvResolves, PTL

(* Every entry always hangs in a directory that exists, whatever is        *)
(* created, removed and renamed in which order (mkdir, rmdir's ENOTEMPTY,  *)
(* rename's EINVAL and ENOTEMPTY, and its three UPDATEs).                  *)
THEOREM TreeClosedTheorem == ASSUME Literal PROVE Spec => []TreeClosed
BY AlwaysTree, TInvTree, PTL

(* Rows of blocks stay with the file they belong to through every rename,  *)
(* and go with it, save after a half-done unlink and for the files that    *)
(* left an open handle's key (Db::rename, Db::unlink, flush_handle).       *)
THEOREM BlocksTheorem == ASSUME Literal PROVE Spec => []BlocksFollowEntries
<1>1. TInv => BlocksFollowEntries
  BY DEF TInv, Content, Placed, BlocksFollowEntries
<1> QED
  BY <1>1, AlwaysTree, PTL

(* An inode number stands for one object for the life of the mount, save   *)
(* after a half-done unlink (ino_for, next_ino).                           *)
THEOREM NeverReusedTheorem == ASSUME Literal PROVE Spec => []InodeNeverReused
<1>1. TInv => InodeNeverReused
  BY DEF TInv
<1> QED
  BY <1>1, AlwaysTree, PTL
=============================================================================
