---------------------------- MODULE BlocksProofs ----------------------------
(* What the operators of Blocks compute, for every block size: the lemmas  *)
(* that the proofs about the block store and the write buffers rest on.    *)
EXTENDS Blocks, SequenceTheorems, TLAPS

(* A block holds at least one byte (db.rs takes BLOCK_SIZE from the schema).*)
LEMMA BSFact == BS \in Nat /\ BS > 0
BY BlockSizeAssumption

(* An offset is a block number and a place in the block.                   *)
LEMMA DivMod ==
  ASSUME NEW i \in Nat
  PROVE  /\ i \div BS \in Nat
         /\ i % BS \in Nat /\ i % BS < BS
         /\ i % BS = i - (i \div BS) * BS
<1>1. i \div BS \in Nat
  BY BSFact
<1>2. i % BS \in Nat /\ i % BS < BS
  BY BSFact
<1>3. i % BS = i - (i \div BS) * BS
  BY BSFact, <1>1, <1>2, SMTT(30)
<1> QED
  BY <1>1, <1>2, <1>3

(* A block starts at a multiple of the block size.                         *)
LEMMA BlockStart ==
  ASSUME NEW b \in Nat
  PROVE  b * BS \in Nat /\ (b + 1) * BS = b * BS + BS
BY BSFact

(* The place of an offset is determined by the block that holds it.        *)
LEMMA InBlock ==
  ASSUME NEW i \in Nat, NEW b \in Nat, b * BS <= i, i < b * BS + BS
  PROVE  i \div BS = b /\ i % BS = i - b * BS
<1>1. i \div BS = b
  BY BSFact, BlockStart
<1> QED
  BY <1>1, DivMod

(* A block ends before the next begins.                                    *)
LEMMA BlocksApart ==
  ASSUME NEW a \in Nat, NEW b \in Nat, a < b
  PROVE  a * BS + BS <= b * BS
BY BSFact

-----------------------------------------------------------------------------
(* Patch overwrites a part of a row and fills the gap before it with zeros.*)
LEMMA PatchCells ==
  ASSUME NEW S, 0 \in S, NEW old \in Seq(S), NEW chunk \in Seq(S), NEW at \in Nat
  PROVE  /\ Patch(old, at, chunk) \in Seq(S)
         /\ Len(Patch(old, at, chunk)) = Larger(Len(old), at + Len(chunk))
         /\ \A i \in 1..Len(Patch(old, at, chunk)) :
              Patch(old, at, chunk)[i] =
                IF i > at /\ i <= at + Len(chunk) THEN chunk[i - at]
                ELSE IF i <= Len(old) THEN old[i] ELSE 0
<1> DEFINE n == Larger(Len(old), at + Len(chunk))
           e(i) == CASE i - at \in DOMAIN chunk -> chunk[i - at]
                     [] i - at \notin DOMAIN chunk /\ i <= Len(old) -> old[i]
                     [] OTHER -> 0
<1>1. n \in Nat
  BY DEF Larger
<1>2. \A i \in 1..n : e(i) = IF i > at /\ i <= at + Len(chunk) THEN chunk[i - at]
                             ELSE IF i <= Len(old) THEN old[i] ELSE 0
  OBVIOUS
<1>3. \A i \in 1..n : e(i) \in S
  BY <1>1, <1>2
<1> HIDE DEF n, e
<1>4. [i \in 1..n |-> e(i)] \in Seq(S)
  BY <1>1, <1>3
<1>5. Patch(old, at, chunk) = [i \in 1..n |-> e(i)]
  BY Zenon DEF Patch, n, e
<1>6. Len([i \in 1..n |-> e(i)]) = n
  BY <1>1, <1>3, <1>4
<1>7. n = Larger(Len(old), at + Len(chunk))
  BY DEF n
<1> QED
  BY <1>1, <1>2, <1>4, <1>5, <1>6, <1>7

(* The part of a write that falls into a touched block: where it starts,   *)
(* that it stays in the block, and the cells it holds.                     *)
LEMMA ChunkCells ==
  ASSUME NEW S, NEW off \in Nat, NEW data \in Seq(S), data # <<>>,
         NEW b \in Nat, b \in Touched(off, data)
  PROVE  /\ WriteStart(off, b) - b * BS \in Nat
         /\ Chunk(off, data, b) \in Seq(S)
         /\ Len(Chunk(off, data, b)) > 0
         /\ WriteStart(off, b) + Len(Chunk(off, data, b))
              = Smaller(off + Len(data), b * BS + BS)
         /\ \A k \in 1..Len(Chunk(off, data, b)) :
              Chunk(off, data, b)[k] = data[WriteStart(off, b) - off + k]
<1> DEFINE s == WriteStart(off, b)
           t == Smaller(off + Len(data), (b + 1) * BS)
<1>1. Len(data) \in Nat /\ Len(data) > 0
  BY EmptySeq
<1>2. b * BS \in Nat /\ (b + 1) * BS = b * BS + BS
  BY BlockStart
<1>3. off < b * BS + BS
  <2>1. off \div BS <= b /\ off \div BS \in Nat /\ off % BS < BS
        /\ off % BS = off - (off \div BS) * BS
    BY DivMod DEF Touched
  <2>2. CASE off \div BS = b
    BY <2>1, <2>2, <1>2, BSFact
  <2>3. CASE off \div BS < b
    <3>1. (off \div BS) * BS + BS <= b * BS /\ (off \div BS) * BS \in Nat
      BY <2>1, <2>3, BlocksApart, BlockStart
    <3> QED
      BY <2>1, <3>1, <1>2, BSFact
  <2> QED
    BY <2>1, <2>2, <2>3
<1>4. b * BS < off + Len(data)
  <2> DEFINE last == off + Len(data) - 1
  <2>1. last \in Nat
    BY <1>1
  <2>2. b <= last \div BS /\ last \div BS \in Nat /\ last % BS \in Nat
        /\ last % BS = last - (last \div BS) * BS
    BY <2>1, DivMod DEF Touched
  <2>3. b * BS <= (last \div BS) * BS
    <3>1. CASE b < last \div BS
      BY <2>2, <3>1, BlocksApart, BlockStart, BSFact
    <3> QED
      BY <2>2, <3>1, BlockStart
  <2>4. (last \div BS) * BS \in Nat
    BY <2>2, BlockStart
  <2> QED
    BY <1>1, <1>2, <2>1, <2>2, <2>3, <2>4
<1>5. /\ s \in Nat /\ t \in Nat
      /\ s >= off /\ s >= b * BS /\ t <= off + Len(data) /\ s < t
      /\ t = Smaller(off + Len(data), b * BS + BS)
  BY <1>1, <1>2, <1>3, <1>4, BSFact DEF WriteStart, Larger, Smaller
<1> HIDE DEF s, t
<1>6. Chunk(off, data, b) = SubSeq(data, s - off + 1, t - off)
  BY DEF Chunk, s, t
<1>7. \A i \in (s - off + 1)..(t - off) : data[i] \in S
  BY <1>1, <1>5
<1>8. /\ SubSeq(data, s - off + 1, t - off) \in Seq(S)
      /\ Len(SubSeq(data, s - off + 1, t - off)) = t - s
      /\ \A k \in 1..(t - s) : SubSeq(data, s - off + 1, t - off)[k] = data[s - off + k]
  BY <1>5, <1>7, SubSeqProperties
<1>9. s = WriteStart(off, b)
  BY DEF s
<1>10. Len(Chunk(off, data, b)) = t - s /\ t - s > 0
  BY <1>5, <1>6, <1>8
<1>11. \A k \in 1..Len(Chunk(off, data, b)) : Chunk(off, data, b)[k] = data[s - off + k]
  BY <1>6, <1>8, <1>10
<1>12. s - b * BS \in Nat /\ s + Len(Chunk(off, data, b)) = t
  BY <1>2, <1>5, <1>10
<1> QED
  BY <1>5, <1>6, <1>8, <1>9, <1>10, <1>11, <1>12

(* What a touched block holds after a write: the data where it was aimed,  *)
(* the old cells elsewhere, zeros where the old row was too short; and how *)
(* far it reaches.                                                         *)
LEMMA PatchInCells ==
  ASSUME NEW S, 0 \in S, NEW off \in Nat, NEW data \in Seq(S), data # <<>>,
         NEW b \in Nat, b \in Touched(off, data),
         NEW old \in Seq(S), Len(old) <= BS
  PROVE  /\ PatchIn(old, off, data, b) \in Seq(S)
         /\ Len(PatchIn(old, off, data, b)) \in 1..BS
         /\ Len(PatchIn(old, off, data, b)) >= Len(old)
         /\ b * BS + Len(PatchIn(old, off, data, b))
              <= Larger(b * BS + Len(old), off + Len(data))
         /\ \A r \in 0..(BS - 1), i \in Nat : i = b * BS + r =>
              /\ off <= i /\ i < off + Len(data) =>
                   /\ r < Len(PatchIn(old, off, data, b))
                   /\ PatchIn(old, off, data, b)[r + 1] = data[i - off + 1]
              /\ ~(off <= i /\ i < off + Len(data)) /\ r < Len(PatchIn(old, off, data, b)) =>
                   PatchIn(old, off, data, b)[r + 1] = IF r < Len(old) THEN old[r + 1] ELSE 0
<1> DEFINE B == b * BS
           s == WriteStart(off, b)
           c == Chunk(off, data, b)
           at == s - B
           p == Patch(old, at, c)
           In(i) == off <= i /\ i < off + Len(data)
<1>1. p = PatchIn(old, off, data, b)
  BY DEF PatchIn
<1>2. B \in Nat /\ Len(data) \in Nat /\ Len(old) \in Nat /\ BS \in Nat /\ BS > 0
  BY BlockStart, BSFact
<1>3. /\ at \in Nat /\ c \in Seq(S) /\ Len(c) \in Nat /\ Len(c) > 0
      /\ s + Len(c) = Smaller(off + Len(data), B + BS)
      /\ \A k \in 1..Len(c) : c[k] = data[s - off + k]
  BY ChunkCells
<1>4. s = Larger(off, B)
  BY DEF WriteStart
<1> HIDE DEF B, s, c
<1>5. /\ p \in Seq(S)
      /\ Len(p) = Larger(Len(old), at + Len(c))
      /\ \A i \in 1..Len(p) : p[i] = IF i > at /\ i <= at + Len(c) THEN c[i - at]
                                    ELSE IF i <= Len(old) THEN old[i] ELSE 0
  BY <1>3, PatchCells
<1>6. s \in Nat /\ at = s - B
  BY <1>2, <1>4 DEF Larger
<1> HIDE DEF p, at
<1>7. /\ Len(p) \in 1..BS /\ Len(p) >= Len(old) /\ Len(p) >= at + Len(c)
      /\ B + Len(p) <= Larger(B + Len(old), off + Len(data))
  <2>1. at + Len(c) = Smaller(off + Len(data) - B, BS) /\ Len(c) \in Nat /\ at \in Nat
    BY <1>2, <1>3, <1>6 DEF Smaller
  <2>2. Len(p) = Larger(Len(old), at + Len(c)) /\ Len(c) > 0
    BY <1>3, <1>5
  <2> QED
    BY <2>1, <2>2, <1>2 DEF Larger, Smaller
<1>8. ASSUME NEW r \in 0..(BS - 1), NEW i \in Nat, i = B + r
      PROVE  /\ In(i) <=> r + 1 > at /\ r + 1 <= at + Len(c)
             /\ s - off + (r + 1 - at) = i - off + 1
  <2>1. s + Len(c) = Smaller(off + Len(data), B + BS) /\ Len(c) \in Nat
    BY <1>3
  <2> QED
    BY <2>1, <1>2, <1>4, <1>6, <1>8 DEF Larger, Smaller
<1>9. ASSUME NEW r \in 0..(BS - 1), NEW i \in Nat, i = B + r, In(i)
      PROVE  r < Len(p) /\ p[r + 1] = data[i - off + 1]
  <2>1. r \in Int /\ r + 1 > at /\ r + 1 <= at + Len(c)
    <3>1. r \in Int
      BY <1>2
    <3> QED
      BY <3>1, <1>8, <1>9
  <2>2. r + 1 - at \in 1..Len(c) /\ r + 1 \in 1..Len(p)
    BY <2>1, <1>2, <1>3, <1>7
  <2>3. PICK k \in 1..Len(c), q \in 1..Len(p) : k = r + 1 - at /\ q = r + 1
    BY <2>2
  <2>4. p[q] = c[q - at] /\ q - at = k
    <3>1. at \in Int /\ Len(c) \in Int /\ k \in Int /\ q \in Int
      BY <1>3, <1>5, <2>3
    <3>2. q > at /\ q <= at + Len(c) /\ q - at = k
      BY <2>1, <2>3, <3>1
    <3> QED
      BY <3>2, <1>5
  <2>5. c[k] = data[s - off + k] /\ s - off + k = i - off + 1
    BY <2>3, <1>3, <1>8, <1>9
  <2> QED
    BY <2>3, <2>4, <2>5, <1>5, <1>7
<1>10. ASSUME NEW r \in 0..(BS - 1), NEW i \in Nat, i = B + r, ~In(i), r < Len(p)
       PROVE  p[r + 1] = IF r < Len(old) THEN old[r + 1] ELSE 0
  <2>1. ~(r + 1 > at /\ r + 1 <= at + Len(c)) /\ r + 1 \in 1..Len(p) /\ r \in Int
    BY <1>2, <1>5, <1>8, <1>10
  <2>2. p[r + 1] = IF r + 1 <= Len(old) THEN old[r + 1] ELSE 0
    BY <2>1, <1>5
  <2> QED
    BY <2>1, <2>2, <1>2
<1>11. \A r \in 0..(BS - 1), i \in Nat : i = B + r =>
         /\ In(i) => r < Len(p) /\ p[r + 1] = data[i - off + 1]
         /\ ~In(i) /\ r < Len(p) => p[r + 1] = IF r < Len(old) THEN old[r + 1] ELSE 0
  BY <1>9, <1>10
<1> QED
  BY <1>1, <1>5, <1>7, <1>11 DEF B

-----------------------------------------------------------------------------
(* The rows a block can store.                                             *)
RowOf(S) == {r \in Seq(S) : Len(r) <= BS}

(* A row fits its block, and only the empty one has no cell.               *)
LEMMA RowLen ==
  ASSUME NEW S, NEW r \in RowOf(S)
  PROVE  r \in Seq(S) /\ Len(r) \in 0..BS /\ (Len(r) = 0 <=> r = <<>>)
BY EmptySeq DEF RowOf

(* A block without a row is stored as the empty row.                       *)
LEMMA EmptyRow ==
  ASSUME NEW S
  PROVE  <<>> \in RowOf(S) /\ Len(<<>>) = 0
BY BSFact, EmptySeq DEF RowOf

(* A later offset never lies in an earlier block.                          *)
LEMMA DivMono ==
  ASSUME NEW i \in Nat, NEW j \in Nat, i <= j
  PROVE  i \div BS <= j \div BS
<1>1. SUFFICES ASSUME j \div BS < i \div BS PROVE FALSE
  BY DivMod
<1>2. (j \div BS) * BS + BS <= (i \div BS) * BS
  BY <1>1, DivMod, BlocksApart
<1>3. (i \div BS) * BS <= i /\ j < (j \div BS) * BS + BS
  <2>1. (i \div BS) * BS \in Nat /\ (j \div BS) * BS \in Nat
    BY DivMod, BlockStart
  <2> QED
    BY <2>1, DivMod, BSFact
<1>4. (i \div BS) * BS \in Nat /\ (j \div BS) * BS \in Nat
  BY DivMod, BlockStart
<1> QED
  BY <1>2, <1>3, <1>4, BSFact

(* An offset of the file lies in one of its blocks.                        *)
LEMMA OffsetBlock ==
  ASSUME NEW i \in Offset
  PROVE  /\ i \in Nat
         /\ \E b \in BlockNo, r \in 0..(BS - 1) :
              i \div BS = b /\ i % BS = r /\ i = b * BS + r
<1>1. i \in Nat /\ i < (LastBlock + 1) * BS
  BY BSFact, LastBlockAssumption, BlockStart DEF Offset, MaxFileSize
<1>2. PICK b \in Nat, r \in Nat : b = i \div BS /\ r = i % BS /\ r < BS /\ r = i - b * BS
  BY <1>1, DivMod
<1>3. b * BS \in Nat /\ (LastBlock + 1) * BS = LastBlock * BS + BS /\ LastBlock * BS \in Nat
  BY BlockStart, LastBlockAssumption
<1>4. b <= LastBlock
  <2>1. SUFFICES ASSUME LastBlock < b PROVE FALSE
    BY LastBlockAssumption
  <2>2. LastBlock * BS + BS <= b * BS
    BY <2>1, BlocksApart, LastBlockAssumption
  <2> DEFINE B == b * BS
             L == LastBlock * BS
  <2>3. B \in Nat /\ L \in Nat /\ L + BS <= B /\ i < L + BS /\ r = i - B
    BY <1>1, <1>2, <1>3, <2>2
  <2> HIDE DEF B, L
  <2> QED
    BY <1>1, <1>2, <2>3, BSFact
<1>5. i = b * BS + r
  BY <1>1, <1>2, <1>3
<1>6. b \in BlockNo /\ r \in 0..(BS - 1)
  BY <1>2, <1>4, BSFact, LastBlockAssumption DEF BlockNo
<1> QED
  BY <1>1, <1>2, <1>5, <1>6

(* A block that a write does not touch has no offset of the write.         *)
LEMMA UntouchedOutside ==
  ASSUME NEW off \in Nat, NEW S, NEW data \in Seq(S), NEW i \in Nat,
         off <= i, i < off + Len(data)
  PROVE  i \div BS \in Touched(off, data)
<1>1. Len(data) \in Nat /\ off + Len(data) - 1 \in Nat /\ i <= off + Len(data) - 1
  OBVIOUS
<1>2. off \div BS <= i \div BS /\ i \div BS <= (off + Len(data) - 1) \div BS
  BY <1>1, DivMono
<1> QED
  BY <1>1, <1>2, DivMod DEF Touched

(* Db::write_range on the rows and cells of a file: the new size, rows     *)
(* that fit their blocks, no row past the size m that the old rows respect *)
(* or the write's end, and every cell either written or as it was.         *)
LEMMA WriteRangeCells ==
  ASSUME NEW S, 0 \in S, NEW f, f.size \in Nat, f.rows \in [BlockNo -> RowOf(S)],
         NEW off \in Nat, NEW data \in Seq(S), data # <<>>,
         NEW g, g = WriteRange(f, off, data)
  PROVE  /\ g = [size |-> Larger(f.size, off + Len(data)), rows |-> g.rows]
         /\ g.rows \in [BlockNo -> RowOf(S)]
         /\ \A b \in BlockNo, m \in Nat :
              /\ f.rows[b] # <<>> => b * BS + Len(f.rows[b]) <= m
              /\ g.rows[b] # <<>>
              => b * BS + Len(g.rows[b]) <= Larger(m, off + Len(data))
         /\ \A i \in Offset : RowCell(g.rows, i) =
              IF off <= i /\ i < off + Len(data) THEN data[i - off + 1]
              ELSE RowCell(f.rows, i)
<1> DEFINE base(b) == IF Len(Chunk(off, data, b)) < BS THEN f.rows[b] ELSE <<>>
           T == Touched(off, data)
           In(i) == off <= i /\ i < off + Len(data)
<1>1. g = [size |-> Larger(f.size, off + Len(data)),
           rows |-> [b \in BlockNo |-> IF b \in T THEN PatchIn(base(b), off, data, b)
                                       ELSE f.rows[b]]]
  BY Zenon DEF WriteRange
<1>2. \A b \in BlockNo : g.rows[b] = IF b \in T THEN PatchIn(base(b), off, data, b)
                                     ELSE f.rows[b]
  BY <1>1
<1>3. Len(data) \in Nat /\ Len(data) > 0 /\ BS \in Nat /\ BS > 0
  BY EmptySeq, BSFact
<1> HIDE DEF T
<1>4. ASSUME NEW b \in BlockNo, b \in T
      PROVE  /\ base(b) \in RowOf(S)
             /\ \/ base(b) = f.rows[b]
                \/ base(b) = <<>>
                   /\ \A r \in 0..(BS - 1), i \in Nat : i = b * BS + r => In(i)
  <2>1. b \in Nat /\ b * BS \in Nat /\ (b + 1) * BS = b * BS + BS
    BY BlockStart DEF BlockNo
  <2>2. CASE Len(Chunk(off, data, b)) < BS
    BY <2>2
  <2>3. CASE ~(Len(Chunk(off, data, b)) < BS)
    <3>1. /\ WriteStart(off, b) - b * BS \in Nat
          /\ WriteStart(off, b) + Len(Chunk(off, data, b))
               = Smaller(off + Len(data), b * BS + BS)
          /\ Len(Chunk(off, data, b)) \in Nat
          /\ WriteStart(off, b) = Larger(off, b * BS)
      BY <1>4, <2>1, ChunkCells DEF T, WriteStart
    <3>2. off <= b * BS /\ b * BS + BS <= off + Len(data)
      BY <1>3, <2>1, <2>3, <3>1 DEF Larger, Smaller
    <3>3. \A r \in 0..(BS - 1), i \in Nat : i = b * BS + r => In(i)
      BY <1>3, <2>1, <3>2
    <3> QED
      BY <2>3, <3>3, EmptyRow
  <2> QED
    BY <2>2, <2>3
<1> HIDE DEF base
<1>5. ASSUME NEW b \in BlockNo, b \in T
      PROVE  LET p == PatchIn(base(b), off, data, b)
             IN  /\ p \in RowOf(S) /\ Len(p) > 0
                 /\ Len(p) >= Len(base(b))
                 /\ b * BS + Len(p) <= Larger(b * BS + Len(base(b)), off + Len(data))
                 /\ \A r \in 0..(BS - 1), i \in Nat : i = b * BS + r =>
                      /\ In(i) => r < Len(p) /\ p[r + 1] = data[i - off + 1]
                      /\ ~In(i) /\ r < Len(p) =>
                           p[r + 1] = IF r < Len(base(b)) THEN base(b)[r + 1] ELSE 0
  <2>1. base(b) \in Seq(S) /\ Len(base(b)) <= BS /\ b \in Nat
    BY <1>4, <1>5, RowLen, <1>3 DEF BlockNo
  <2> QED
    BY <1>5, <2>1, <1>3, PatchInCells DEF T, RowOf
<1>6. \A b \in BlockNo : g.rows[b] \in RowOf(S)
  BY <1>2, <1>5
<1>7. ASSUME NEW b \in BlockNo, NEW m \in Nat,
             f.rows[b] # <<>> => b * BS + Len(f.rows[b]) <= m, g.rows[b] # <<>>
      PROVE  b * BS + Len(g.rows[b]) <= Larger(m, off + Len(data))
  <2> DEFINE B == b * BS
  <2>1. b \in Nat /\ B \in Nat
    BY BlockStart DEF BlockNo
  <2>4. f.rows[b] # <<>> => B + Len(f.rows[b]) <= m
    BY <1>7
  <2> SUFFICES B + Len(g.rows[b]) <= Larger(m, off + Len(data))
    OBVIOUS
  <2> HIDE DEF B
  <2>2. CASE b \notin T
    <3>1. g.rows[b] = f.rows[b] /\ Len(f.rows[b]) \in Nat
      BY <1>2, <2>2, RowLen
    <3> QED
      BY <1>3, <1>7, <2>1, <2>4, <3>1 DEF Larger
  <2>3. CASE b \in T
    <3>1. B + Len(g.rows[b]) <= Larger(B + Len(base(b)), off + Len(data))
      BY <1>2, <1>5, <2>3 DEF B
    <3>2. /\ WriteStart(off, b) - B \in Nat /\ WriteStart(off, b) \in Nat
          /\ WriteStart(off, b) + Len(Chunk(off, data, b))
               = Smaller(off + Len(data), B + BS)
          /\ Len(Chunk(off, data, b)) \in Nat
      BY <2>1, <2>3, ChunkCells DEF T, WriteStart, Larger, B
    <3>3. B <= off + Len(data)
      BY <1>3, <2>1, <3>2 DEF Smaller
    <3>4. base(b) = <<>> \/ (base(b) # <<>> /\ base(b) = f.rows[b])
      BY <1>4, <2>3
    <3>5. Len(base(b)) \in Nat /\ Len(g.rows[b]) \in Nat
      BY <1>4, <1>6, <2>3, RowLen
    <3>6. CASE base(b) = <<>>
      <4>1. Len(base(b)) = 0
        BY <3>6, EmptyRow
      <4> QED
        BY <4>1, <3>1, <3>3, <3>5, <1>3, <2>1 DEF Larger
    <3>7. CASE base(b) # <<>> /\ base(b) = f.rows[b]
      <4>1. B + Len(base(b)) <= m
        BY <3>7, <2>4
      <4> QED
        BY <4>1, <3>1, <3>5, <1>3, <2>1 DEF Larger
    <3> QED
      BY <3>4, <3>6, <3>7
  <2> QED
    BY <2>2, <2>3 DEF B
<1>8. ASSUME NEW i \in Offset
      PROVE  RowCell(g.rows, i) = IF In(i) THEN data[i - off + 1] ELSE RowCell(f.rows, i)
  <2>1. PICK b \in BlockNo, r \in 0..(BS - 1) :
          i \div BS = b /\ i % BS = r /\ i = b * BS + r
    BY OffsetBlock
  <2> DEFINE p == g.rows[b]
             o == f.rows[b]
  <2>2. In(i) => b \in T
    BY <2>1, OffsetBlock, UntouchedOutside DEF T
  <2>3. /\ RowCell(g.rows, i) = IF r < Len(p) THEN p[r + 1] ELSE 0
        /\ RowCell(f.rows, i) = IF r < Len(o) THEN o[r + 1] ELSE 0
    BY <2>1 DEF RowCell
  <2>4. CASE b \notin T
    BY <1>2, <2>1, <2>2, <2>3, <2>4
  <2>5. CASE b \in T
    <3>1. /\ In(i) => r < Len(p) /\ p[r + 1] = data[i - off + 1]
          /\ ~In(i) /\ r < Len(p) => p[r + 1] = IF r < Len(base(b)) THEN base(b)[r + 1] ELSE 0
          /\ Len(p) >= Len(base(b)) /\ Len(p) \in Nat /\ Len(base(b)) \in Nat
      <4>1. p = PatchIn(base(b), off, data, b)
        BY <1>2, <2>1, <2>5
      <4>2. Len(p) \in Nat /\ Len(base(b)) \in Nat
        BY <1>4, <1>6, <2>1, <2>5, RowLen
      <4>3. Len(p) >= Len(base(b))
        BY <1>5, <2>1, <2>5, <4>1
      <4>4. /\ In(i) => r < Len(p) /\ p[r + 1] = data[i - off + 1]
            /\ ~In(i) /\ r < Len(p) =>
                 p[r + 1] = IF r < Len(base(b)) THEN base(b)[r + 1] ELSE 0
        BY <1>5, <2>1, <2>5, <4>1, OffsetBlock
      <4> QED
        BY <4>2, <4>3, <4>4
    <3>2. ~In(i) => base(b) = o
      <4>1. i \in Nat
        BY OffsetBlock
      <4> QED
        BY <1>4, <2>1, <2>5, <4>1
    <3>3. CASE In(i)
      BY <3>1, <3>3, <2>3
    <3>4. CASE ~In(i)
      <4>1. base(b) = o
        BY <3>2, <3>4
      <4>2. CASE r < Len(p)
        BY <4>1, <4>2, <3>1, <3>4, <2>3
      <4>3. CASE ~(r < Len(p))
        <5>1. ~(r < Len(o))
          <6>1. Len(p) >= Len(o) /\ Len(p) \in Nat /\ Len(o) \in Nat /\ r \in Int
            BY <4>1, <3>1, <1>3
          <6> HIDE DEF p, o
          <6> QED
            BY <4>3, <6>1
        <5> QED
          BY <5>1, <4>3, <3>4, <2>3
      <4> QED
        BY <4>2, <4>3
    <3> QED
      BY <3>3, <3>4
  <2> QED
    BY <2>4, <2>5
<1>9. g.rows \in [BlockNo -> RowOf(S)]
  BY <1>1, <1>6
<1>10. g = [size |-> Larger(f.size, off + Len(data)), rows |-> g.rows]
  BY <1>1
<1> QED
  BY <1>7, <1>8, <1>9, <1>10

(* Db::truncate on the rows and cells of a file: rows that fit their       *)
(* blocks, every cell below the new size as it was, and after a cut no row *)
(* past the size, except a row that starts at a size on a block boundary.  *)
LEMMA TruncateCells ==
  ASSUME NEW S, NEW f, f.size \in Nat, f.rows \in [BlockNo -> RowOf(S)],
         NEW n \in Nat, NEW g, g = Truncate(f, n)
  PROVE  /\ g = [size |-> n, rows |-> g.rows]
         /\ g.rows \in [BlockNo -> RowOf(S)]
         /\ ~(n < f.size) => g.rows = f.rows
         /\ \A i \in Offset : i < n => RowCell(g.rows, i) = RowCell(f.rows, i)
         /\ n < f.size => \A b \in BlockNo : g.rows[b] # <<>> =>
              \/ b * BS + Len(g.rows[b]) <= n
              \/ b = n \div BS /\ n % BS = 0 /\ g.rows[b] = f.rows[b]
<1>1. PICK last \in Nat, rem \in Nat :
        last = n \div BS /\ rem = n % BS /\ rem < BS /\ rem = n - last * BS
  BY DivMod
<1> DEFINE cut == SubSeq(f.rows[last], 1, Smaller(rem, Len(f.rows[last])))
           Kept(b) == IF b > last THEN <<>>
                      ELSE IF b = last /\ rem > 0 THEN cut ELSE f.rows[b]
<1>2. g = [size |-> n,
           rows |-> IF n < f.size THEN [b \in BlockNo |-> Kept(b)] ELSE f.rows]
  <2>1. g = [size |-> n,
             rows |-> IF n < f.size
                        THEN [b \in BlockNo |->
                               CASE b > n \div BS -> <<>>
                                 [] b = n \div BS /\ n % BS > 0 ->
                                      SubSeq(f.rows[b], 1, Smaller(n % BS, Len(f.rows[b])))
                                 [] OTHER -> f.rows[b]]
                        ELSE f.rows]
    BY Zenon DEF Truncate
  <2>2. ASSUME NEW b \in BlockNo
        PROVE  (CASE b > n \div BS -> <<>>
                  [] b = n \div BS /\ n % BS > 0 ->
                       SubSeq(f.rows[b], 1, Smaller(n % BS, Len(f.rows[b])))
                  [] OTHER -> f.rows[b]) = Kept(b)
    <3>1. b \in Int /\ last \in Int /\ (b > last => b # last)
      BY <1>1 DEF BlockNo
    <3> QED
      BY <1>1, <3>1
  <2> QED
    BY <2>1, <2>2, Zenon
<1>3. last \in BlockNo =>
        /\ cut \in RowOf(S) /\ Len(cut) = Smaller(rem, Len(f.rows[last]))
        /\ \A k \in 1..Len(cut) : cut[k] = f.rows[last][k]
  <2> SUFFICES ASSUME last \in BlockNo
               PROVE  /\ cut \in RowOf(S) /\ Len(cut) = Smaller(rem, Len(f.rows[last]))
                      /\ \A k \in 1..Len(cut) : cut[k] = f.rows[last][k]
    OBVIOUS
  <2> DEFINE o == f.rows[last]
             m == Smaller(rem, Len(o))
  <2>1. o \in Seq(S) /\ Len(o) \in 0..BS
    BY RowLen
  <2>2. m \in 0..BS /\ m <= Len(o)
    BY <2>1, BSFact DEF Smaller
  <2>3. \A k \in 1..m : o[k] \in S
    BY <2>1, <2>2
  <2> HIDE DEF o, m
  <2>4. /\ SubSeq(o, 1, m) \in Seq(S) /\ Len(SubSeq(o, 1, m)) = m
        /\ \A k \in 1..m : SubSeq(o, 1, m)[k] = o[k]
    BY <2>2, <2>3, SubSeqProperties
  <2> QED
    BY <2>2, <2>4, BSFact DEF o, m, RowOf
<1>4. ASSUME NEW b \in BlockNo
      PROVE  Kept(b) \in RowOf(S)
  BY <1>3, EmptyRow
<1>5. g.rows \in [BlockNo -> RowOf(S)]
  BY <1>2, <1>4
<1> HIDE DEF cut
<1>8. \A b \in BlockNo : g.rows[b] = IF n < f.size THEN Kept(b) ELSE f.rows[b]
  BY <1>2
<1>9. \A b \in BlockNo : Len(f.rows[b]) \in Nat
  BY RowLen
<1>10. last \in BlockNo => /\ Len(cut) \in Nat
                           /\ Len(cut) = Smaller(rem, Len(f.rows[last]))
  BY <1>3, RowLen
<1>11. g = [size |-> n, rows |-> g.rows] /\ (~(n < f.size) => g.rows = f.rows)
  BY <1>2
<1>6. ASSUME NEW i \in Offset, i < n
      PROVE  RowCell(g.rows, i) = RowCell(f.rows, i)
  <2>1. PICK b \in BlockNo, r \in 0..(BS - 1) :
          i \div BS = b /\ i % BS = r /\ i = b * BS + r
    BY OffsetBlock
  <2>2. i \in Nat /\ b \in Nat /\ r \in Nat
    BY OffsetBlock, BSFact DEF BlockNo
  <2>3. b <= last
    BY <1>1, <1>6, <2>1, <2>2, DivMono
  <2>4. CASE g.rows[b] = f.rows[b]
    BY <2>1, <2>4 DEF RowCell
  <2>5. CASE g.rows[b] # f.rows[b]
    <3>1. g.rows[b] = cut /\ b = last /\ rem > 0
      <4>1. ~(b > last)
        BY <2>2, <2>3
      <4> QED
        BY <4>1, <1>8, <2>5
    <3>2. r < rem
      <4> DEFINE B == last * BS
      <4>1. i = B + r /\ rem = n - B /\ B \in Nat
        BY <1>1, <2>1, <3>1, BlockStart
      <4> HIDE DEF B
      <4> QED
        BY <1>6, <2>2, <4>1
    <3>3. Len(f.rows[b]) \in Nat /\ Len(cut) = Smaller(rem, Len(f.rows[b]))
      BY <1>9, <1>10, <3>1
    <3>4. r < Len(cut) <=> r < Len(f.rows[b])
      BY <1>1, <2>2, <3>2, <3>3 DEF Smaller
    <3>5. r < Len(cut) => cut[r + 1] = f.rows[b][r + 1]
      <4> SUFFICES ASSUME r < Len(cut)
                   PROVE  cut[r + 1] = f.rows[b][r + 1]
        OBVIOUS
      <4>1. Len(cut) \in Nat
        BY <1>10, <3>1
      <4>2. r + 1 \in 1..Len(cut)
        BY <2>2, <4>1
      <4> QED
        BY <4>2, <1>3, <3>1
    <3> QED
      BY <2>1, <3>1, <3>4, <3>5 DEF RowCell
  <2> QED
    BY <2>4, <2>5
<1>7. ASSUME n < f.size, NEW b \in BlockNo, g.rows[b] # <<>>
      PROVE  \/ b * BS + Len(g.rows[b]) <= n
             \/ b = n \div BS /\ n % BS = 0 /\ g.rows[b] = f.rows[b]
  <2>1. b \in Nat /\ g.rows[b] = Kept(b) /\ b <= last
    BY <1>1, <1>2, <1>7 DEF BlockNo
  <2> DEFINE B == b * BS
             L == last * BS
  <2>2. B \in Nat /\ L \in Nat /\ rem = n - L
    BY <1>1, <2>1, BlockStart
  <2>3. b < last => B + BS <= L
    BY <2>1, BlocksApart
  <2>4. Len(g.rows[b]) \in 0..BS
    BY <1>5, RowLen
  <2>5. CASE b < last
    <3> HIDE DEF B, L
    <3>1. B + Len(g.rows[b]) <= n
      BY <1>1, <2>2, <2>3, <2>4, <2>5, BSFact
    <3> QED
      BY <3>1 DEF B
  <2>6. CASE b = last /\ rem > 0
    <3>1. B = L /\ Len(g.rows[b]) <= rem
      <4>1. g.rows[b] = cut
        BY <2>1, <2>6
      <4>2. Len(cut) = Smaller(rem, Len(f.rows[b])) /\ Len(f.rows[b]) \in Nat
        BY <1>9, <1>10, <2>6
      <4> QED
        BY <4>1, <4>2, <1>1, <2>6 DEF Smaller
    <3> HIDE DEF B, L
    <3>2. B + Len(g.rows[b]) <= n
      BY <1>1, <2>2, <2>4, <3>1, BSFact
    <3> QED
      BY <3>2 DEF B
  <2>7. CASE b = last /\ ~(rem > 0)
    BY <1>1, <2>1, <2>7
  <2>8. b < last \/ b = last
    BY <1>1, <2>1
  <2> QED
    BY <2>5, <2>6, <2>7, <2>8
<1> QED
  BY <1>5, <1>6, <1>7, <1>11
=============================================================================
