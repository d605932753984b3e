--------------------------- MODULE HandlesProofs ----------------------------
(***************************************************************************)
(* The write buffers lose nothing, for any block size, any writes and any  *)
(* number of handles: what a handle acknowledged and has not stored is in  *)
(* its buffer, and a successful flush puts it where a reader finds it.     *)
(* Then the types; that nothing is stored under a path without a file; and *)
(* that files used with discipline are what POSIX says they are.           *)
(***************************************************************************)
EXTENDS Handles, BlocksProofs, FiniteSetTheorems

(* A buffer whose rows fit their blocks and end by max_size.               *)
BufOK(b) ==
  /\ b.max_size \in Nat
  /\ DOMAIN b.dirty \subseteq BlockNo
  /\ \A c \in DOMAIN b.dirty :
       b.dirty[c] \in RowOf(Cell) /\ c * BS + Len(b.dirty[c]) <= b.max_size

(* The buffer b holds the cells p, in the words of BufferHoldsPending.     *)
HoldsCell(b, i, v) ==
  /\ i < b.max_size
  /\ i \div BS \in DOMAIN b.dirty
  /\ i % BS < Len(b.dirty[i \div BS])
  /\ b.dirty[i \div BS][(i % BS) + 1] = v

Holds(b, p) ==
  /\ p = [i \in DOMAIN p |-> p[i]]
  /\ DOMAIN p \subseteq Offset
  /\ \A i \in DOMAIN p : HoldsCell(b, i, p[i])

(* The cells a handle has pending after one more write.                    *)
PendWrite(p, off, data) ==
  [i \in DOMAIN p \union off..(off + Len(data) - 1) |->
     IF i - off + 1 \in DOMAIN data THEN data[i - off + 1] ELSE p[i]]

(* A write of the model stays inside the file, and so do its blocks.       *)
LEMMA TouchedBlocks ==
  ASSUME NEW off \in Nat, NEW data \in Seq(Cell), data # <<>>,
         off + Len(data) <= MaxFileSize
  PROVE  Touched(off, data) \subseteq BlockNo
<1> DEFINE last == off + Len(data) - 1
<1>1. Len(data) \in Nat /\ Len(data) > 0
  BY EmptySeq
<1>2. MaxFileSize \in Nat
  BY BSFact, LastBlockAssumption, BlockStart DEF MaxFileSize
<1>3. last \in Offset
  BY <1>1, <1>2 DEF Offset
<1>4. last \div BS \in BlockNo /\ last \in Nat
  BY <1>3, OffsetBlock
<1>5. off \div BS \in Nat
  BY DivMod
<1> QED
  BY <1>4, <1>5, LastBlockAssumption DEF Touched, BlockNo

(* HandleBuffer::write keeps the buffer well formed, and the buffer holds  *)
(* the new cells and the cells it held before, whatever they overlap.      *)
LEMMA BufferedHolds ==
  ASSUME NEW h, BufOK(h), NEW p, Holds(h, p),
         NEW off \in Nat, NEW data \in Seq(Cell), data # <<>>,
         off + Len(data) <= MaxFileSize
  PROVE  /\ BufOK(Buffered(h, off, data))
         /\ Holds(Buffered(h, off, data), PendWrite(p, off, data))
<1> DEFINE g == Buffered(h, off, data)
           T == Touched(off, data)
           end == off + Len(data)
           In(i) == off <= i /\ i < end
           held(b) == IF b \in DOMAIN h.dirty THEN h.dirty[b] ELSE <<>>
           new(b) == PatchIn(held(b), off, data, b)
           q == PendWrite(p, off, data)
<1>1. /\ g.max_size = Larger(h.max_size, end)
      /\ g.dirty = [b \in DOMAIN h.dirty \union T |-> IF b \in T THEN new(b) ELSE h.dirty[b]]
  BY DEF Buffered, BufferWrite
<1>2. Len(data) \in Nat /\ Len(data) > 0 /\ DOMAIN data = 1..Len(data)
  BY EmptySeq
<1>3. h.max_size \in Nat /\ DOMAIN h.dirty \subseteq BlockNo
  BY DEF BufOK
<1>4. T \subseteq BlockNo
  BY TouchedBlocks
<1>5. 0 \in Cell
  BY CellAssumption
<1>6. \A b \in BlockNo : held(b) \in RowOf(Cell)
  BY EmptyRow DEF BufOK
<1> HIDE DEF g, T, held, q
<1>7. ASSUME NEW b \in T
      PROVE  /\ new(b) \in RowOf(Cell)
             /\ Len(new(b)) >= Len(held(b))
             /\ b * BS + Len(new(b)) <= Larger(b * BS + Len(held(b)), end)
             /\ \A r \in 0..(BS - 1), i \in Nat : i = b * BS + r =>
                  /\ In(i) => r < Len(new(b)) /\ new(b)[r + 1] = data[i - off + 1]
                  /\ ~In(i) /\ r < Len(new(b)) =>
                       new(b)[r + 1] = IF r < Len(held(b)) THEN held(b)[r + 1] ELSE 0
  <2>1. b \in BlockNo /\ b \in Nat /\ b \in Touched(off, data)
    BY <1>4, LastBlockAssumption DEF BlockNo, T
  <2>2. held(b) \in Seq(Cell) /\ Len(held(b)) <= BS
    BY <1>6, <2>1, RowLen, BSFact
  <2> QED
    BY <2>1, <2>2, <1>5, PatchInCells, BSFact DEF RowOf
<1> HIDE DEF new
<1>8. ASSUME NEW b \in DOMAIN g.dirty
      PROVE  g.dirty[b] \in RowOf(Cell) /\ b * BS + Len(g.dirty[b]) <= g.max_size
  <2> DEFINE B == b * BS
  <2>1. b \in BlockNo /\ B \in Nat
    <3>1. DOMAIN g.dirty = DOMAIN h.dirty \union T
      BY <1>1
    <3>2. b \in BlockNo
      BY <1>3, <1>4, <3>1
    <3>3. b \in Nat
      BY <3>2, LastBlockAssumption DEF BlockNo
    <3> QED
      BY <3>2, <3>3, BlockStart
  <2>2. b \in DOMAIN h.dirty =>
          h.dirty[b] \in RowOf(Cell) /\ B + Len(h.dirty[b]) <= h.max_size
    BY DEF BufOK
  <2>3. CASE b \notin T
    <3>1. g.dirty[b] = h.dirty[b] /\ b \in DOMAIN h.dirty
      BY <1>1, <2>3
    <3>2. Len(h.dirty[b]) \in Nat
      BY <2>2, <3>1, RowLen, BSFact
    <3> HIDE DEF B
    <3>3. B + Len(g.dirty[b]) <= g.max_size
      BY <1>1, <1>2, <1>3, <2>1, <2>2, <3>1, <3>2 DEF Larger
    <3> QED
      BY <2>2, <3>1, <3>3 DEF B
  <2>4. CASE b \in T
    <3>1. g.dirty[b] = new(b) /\ new(b) \in RowOf(Cell)
          /\ B + Len(new(b)) <= Larger(B + Len(held(b)), end)
      BY <1>1, <1>7, <2>4
    <3>2. Len(new(b)) \in Nat /\ Len(held(b)) \in Nat
      BY <1>6, <2>1, <3>1, RowLen, BSFact
    <3>3. B < end
      <4>1. /\ WriteStart(off, b) - B \in Nat /\ Len(Chunk(off, data, b)) > 0
            /\ Len(Chunk(off, data, b)) \in Nat
            /\ WriteStart(off, b) + Len(Chunk(off, data, b)) = Smaller(end, B + BS)
        BY <2>1, <2>4, ChunkCells DEF T, BlockNo
      <4>2. WriteStart(off, b) = Larger(off, B)
        BY DEF WriteStart
      <4> HIDE DEF B
      <4> QED
        BY <1>2, <2>1, <4>1, <4>2, BSFact DEF Larger, Smaller
    <3>4. b \notin DOMAIN h.dirty => Len(held(b)) = 0
      BY EmptyRow DEF held
    <3>5. b \in DOMAIN h.dirty => held(b) = h.dirty[b]
      BY DEF held
    <3> HIDE DEF B
    <3>6. B + Len(held(b)) <= Larger(h.max_size, end)
      BY <1>2, <1>3, <2>1, <2>2, <3>2, <3>3, <3>4, <3>5 DEF Larger
    <3>7. B + Len(g.dirty[b]) <= g.max_size
      BY <1>1, <1>2, <1>3, <2>1, <3>1, <3>2, <3>6 DEF Larger
    <3> QED
      BY <3>1, <3>7 DEF B
  <2> QED
    BY <2>3, <2>4
<1>9. BufOK(g)
  <2>1. g.max_size \in Nat
    BY <1>1, <1>2, <1>3 DEF Larger
  <2>2. DOMAIN g.dirty \subseteq BlockNo
    BY <1>1, <1>3, <1>4
  <2> QED
    BY <1>8, <2>1, <2>2 DEF BufOK
<1>10. ASSUME NEW i \in DOMAIN q
       PROVE  i \in Offset /\ HoldsCell(g, i, q[i])
  <2>1. MaxFileSize \in Nat
    BY BSFact, LastBlockAssumption, BlockStart DEF MaxFileSize
  <2>2. /\ i \in DOMAIN p \/ i \in off..(end - 1)
        /\ q[i] = IF i - off + 1 \in DOMAIN data THEN data[i - off + 1] ELSE p[i]
    BY <1>10 DEF q, PendWrite
  <2>3. i \in Offset
    BY <1>2, <2>1, <2>2 DEF Holds, Offset
  <2>4. PICK b \in BlockNo, r \in 0..(BS - 1) :
          i \div BS = b /\ i % BS = r /\ i = b * BS + r
    BY <2>3, OffsetBlock
  <2>5. i \in Nat
    BY <2>3, OffsetBlock
  <2>6. CASE In(i)
    <3>1. b \in T
      BY <2>4, <2>5, <2>6, UntouchedOutside DEF T
    <3>2. g.dirty[b] = new(b) /\ b \in DOMAIN g.dirty
      BY <1>1, <3>1
    <3>3. r < Len(new(b)) /\ new(b)[r + 1] = data[i - off + 1]
      BY <1>7, <2>4, <2>5, <2>6, <3>1
    <3>4. i - off + 1 \in DOMAIN data
      BY <1>2, <2>5, <2>6
    <3>5. i < g.max_size
      BY <1>1, <1>2, <1>3, <2>5, <2>6 DEF Larger
    <3> QED
      BY <2>2, <2>3, <2>4, <3>2, <3>3, <3>4, <3>5 DEF HoldsCell
  <2>7. CASE ~In(i)
    <3>1. i \in DOMAIN p /\ q[i] = p[i]
      BY <1>2, <2>2, <2>5, <2>7
    <3>2. /\ i < h.max_size /\ b \in DOMAIN h.dirty
          /\ r < Len(h.dirty[b]) /\ h.dirty[b][r + 1] = p[i]
      BY <2>4, <3>1 DEF Holds, HoldsCell
    <3>3. i < g.max_size
      BY <1>1, <1>2, <1>3, <2>5, <3>2 DEF Larger
    <3>4. CASE b \in T
      <4>1. g.dirty[b] = new(b) /\ b \in DOMAIN g.dirty /\ held(b) = h.dirty[b]
        BY <1>1, <3>2, <3>4 DEF held
      <4>2. Len(new(b)) >= Len(held(b)) /\ Len(new(b)) \in Nat /\ Len(held(b)) \in Nat
        BY <1>6, <1>7, <3>4, RowLen, BSFact
      <4>3. r < Len(new(b)) /\ r < Len(held(b))
        BY <3>2, <4>1, <4>2, BSFact
      <4>4. new(b)[r + 1] = held(b)[r + 1]
        BY <1>7, <2>4, <2>5, <2>7, <3>4, <4>3
      <4> QED
        BY <2>3, <2>4, <3>1, <3>2, <3>3, <4>1, <4>3, <4>4 DEF HoldsCell
    <3>5. CASE b \notin T
      <4>1. g.dirty[b] = h.dirty[b] /\ b \in DOMAIN g.dirty
        BY <1>1, <3>2, <3>5
      <4> QED
        BY <2>3, <2>4, <3>1, <3>2, <3>3, <4>1 DEF HoldsCell
    <3> QED
      BY <3>4, <3>5
  <2> QED
    BY <2>6, <2>7
<1>11. q = [i \in DOMAIN q |-> q[i]]
  BY DEF q, PendWrite
<1>12. Holds(g, q)
  BY <1>10, <1>11 DEF Holds
<1> QED
  BY <1>9, <1>12 DEF g, q

(* A new handle, and one a flush has put back, is clean.                   *)
LEMMA NewHandleHolds ==
  ASSUME NEW k
  PROVE  BufOK(NewHandle(k)) /\ Holds(NewHandle(k), NothingPending)
BY DEF NewHandle, CleanBuffer, NothingPending, BufOK, Holds

-----------------------------------------------------------------------------
(* The tables of handles agree: the kernel's open files, the handles and   *)
(* what they have pending are numbered below next_fh.                      *)
Tables ==
  /\ next_fh \in Nat
  /\ \A h \in DOMAIN files : h \in Nat /\ h < next_fh
  /\ DOMAIN pend = DOMAIN files
  /\ DOMAIN open_handles \subseteq DOMAIN files

Buffers ==
  \A h \in DOMAIN open_handles : BufOK(open_handles[h]) /\ Holds(open_handles[h], pend[h])

(* What a flush needs of the database: a size and rows for its key.        *)
Stored ==
  /\ DOMAIN rows = Key
  /\ DOMAIN size \subseteq Key
  /\ \A k \in DOMAIN size : size[k] \in Nat

IInv == Tables /\ Buffers /\ Stored /\ ByInoIsOpenHere /\ fails \in Nat

(* No handle is open, so the initial state satisfies the invariant.        *)
LEMMA InitIInv == Init => IInv
BY DEF Init, IInv, Tables, Buffers, Stored, ByInoIsOpenHere

(* A database call ends well or not, and a failed one is counted.          *)
LEMMA Counted ==
  ASSUME fails \in Nat, NEW ok, Count(ok)
  PROVE  fails' \in Nat /\ (fails' = fails <=> ok)
BY DEF Count

(* create and open: a fresh handle and a fresh open file.                  *)
LEMMA AddKeeps ==
  ASSUME IInv, NEW k, NEW i,
         open_handles' = Put(open_handles, next_fh, NewHandle(k)),
         files' = Put(files, next_fh, i),
         pend' = Put(pend, next_fh, NothingPending),
         next_fh' = next_fh + 1,
         \/ open_handles_by_ino' = open_handles_by_ino
         \/ open_handles_by_ino' = Put(open_handles_by_ino, i, next_fh)
  PROVE  Tables' /\ Buffers' /\ ByInoIsOpenHere'
<1>1. /\ next_fh \in Nat /\ next_fh \notin DOMAIN files
      /\ \A h \in DOMAIN files : h \in Nat /\ h < next_fh
      /\ DOMAIN pend = DOMAIN files /\ DOMAIN open_handles \subseteq DOMAIN files
  BY DEF IInv, Tables
<1>2. Tables'
  BY <1>1 DEF Tables, Put
<1>3. ASSUME NEW h \in DOMAIN open_handles'
      PROVE  BufOK(open_handles'[h]) /\ Holds(open_handles'[h], pend'[h])
  <2>1. CASE h = next_fh
    BY <1>3, <2>1, NewHandleHolds DEF Put
  <2>2. CASE h # next_fh
    <3>1. h \in DOMAIN open_handles /\ open_handles'[h] = open_handles[h]
      BY <1>3, <2>2 DEF Put
    <3>2. pend'[h] = pend[h]
      BY <1>1, <2>2, <3>1 DEF Put
    <3> QED
      BY <3>1, <3>2 DEF IInv, Buffers
  <2> QED
    BY <2>1, <2>2
<1>4. ByInoIsOpenHere'
  <2>1. \A j \in DOMAIN open_handles_by_ino :
          /\ open_handles_by_ino[j] \in DOMAIN files'
          /\ files'[open_handles_by_ino[j]] = j
    BY <1>1 DEF IInv, ByInoIsOpenHere, Put
  <2>2. next_fh \in DOMAIN files' /\ files'[next_fh] = i
    BY DEF Put
  <2> QED
    BY <2>1, <2>2 DEF ByInoIsOpenHere, Put
<1>5. Buffers'
  BY <1>3 DEF Buffers
<1> QED
  BY <1>2, <1>4, <1>5

(* flush_handle: the handle comes back clean, or is gone, or had nothing.  *)
LEMMA FlushKeeps ==
  ASSUME IInv, NEW h \in DOMAIN files, NEW ok
  PROVE  /\ DOMAIN HandlesAfterFlush(h, ok) \subseteq DOMAIN open_handles
         /\ DOMAIN PendAfterFlush(h, ok) = DOMAIN pend
         /\ \A g \in DOMAIN HandlesAfterFlush(h, ok) :
              /\ BufOK(HandlesAfterFlush(h, ok)[g])
              /\ Holds(HandlesAfterFlush(h, ok)[g], PendAfterFlush(h, ok)[g])
<1>1. /\ \A g \in DOMAIN open_handles :
           BufOK(open_handles[g]) /\ Holds(open_handles[g], pend[g])
      /\ DOMAIN open_handles \subseteq DOMAIN pend
  BY DEF IInv, Buffers, Tables
<1>2. CASE ~Dirty(h)
  <2>1. HandlesAfterFlush(h, ok) = open_handles /\ PendAfterFlush(h, ok) = pend
    BY <1>2 DEF HandlesAfterFlush, PendAfterFlush
  <2> QED
    BY <1>1, <2>1
<1>3. CASE Dirty(h) /\ ~ok
  <2>1. HandlesAfterFlush(h, ok) = Drop(open_handles, {h}) /\ PendAfterFlush(h, ok) = pend
    BY <1>3 DEF HandlesAfterFlush, PendAfterFlush
  <2> QED
    BY <1>1, <2>1 DEF Drop
<1>4. CASE Dirty(h) /\ ok
  <2>1. /\ HandlesAfterFlush(h, ok)
             = [open_handles EXCEPT ![h] = NewHandle(open_handles[h].key)]
        /\ PendAfterFlush(h, ok) = [pend EXCEPT ![h] = NothingPending]
    BY <1>4 DEF HandlesAfterFlush, PendAfterFlush
  <2> DEFINE H == [open_handles EXCEPT ![h] = NewHandle(open_handles[h].key)]
             P == [pend EXCEPT ![h] = NothingPending]
  <2>2. ASSUME NEW g \in DOMAIN H
        PROVE  BufOK(H[g]) /\ Holds(H[g], P[g])
    <3>1. CASE g = h
      <4>1. H[g] = NewHandle(open_handles[h].key) /\ P[g] = NothingPending
        BY <1>1, <1>4, <2>2, <3>1 DEF Dirty
      <4> QED
        BY <4>1, NewHandleHolds
    <3>2. CASE g # h
      <4>1. g \in DOMAIN open_handles /\ H[g] = open_handles[g] /\ P[g] = pend[g]
        BY <1>1, <2>2, <3>2
      <4> QED
        BY <1>1, <4>1
    <3> QED
      BY <3>1, <3>2
  <2> QED
    BY <2>1, <2>2
<1> QED
  BY <1>2, <1>3, <1>4

(* Storing a handle's blocks leaves every size a number.                   *)
LEMMA StoreKeeps ==
  ASSUME IInv, NEW h, NEW ok, StoreBlocks(h, ok)
  PROVE  Stored'
<1>1. CASE Dirty(h) /\ ok
  <2>1. open_handles[h].max_size \in Nat
    BY <1>1 DEF Dirty, IInv, Buffers, BufOK
  <2>2. DOMAIN rows' = Key
    BY <1>1 DEF StoreBlocks, IInv, Stored
  <2>3. /\ DOMAIN size' = DOMAIN size
        /\ \A k \in DOMAIN size : size'[k] \in {size[k], BatchSize(size[k], open_handles[h].max_size)}
    BY <1>1 DEF StoreBlocks
  <2> QED
    BY <2>1, <2>2, <2>3 DEF IInv, Stored, BatchSize, Larger
<1>2. CASE ~(Dirty(h) /\ ok)
  BY <1>2 DEF StoreBlocks, db, IInv, Stored
<1> QED
  BY <1>1, <1>2

(* write: into the buffer, or by write_range when the handle is gone.      *)
LEMMA WriteKeeps ==
  ASSUME IInv, NEW h \in DOMAIN files, NEW w \in Writes, NEW ok, write(h, w[1], w[2], ok)
  PROVE  IInv'
<1> DEFINE off == w[1]
           data == w[2]
<1>1. /\ off \in Nat /\ data \in Seq(Cell) /\ data # <<>>
      /\ off + Len(data) <= MaxFileSize /\ Len(data) \in Nat
  BY WritesAssumption, OffsetBlock
<1>2. /\ files' = files /\ open_handles_by_ino' = open_handles_by_ino
      /\ next_fh' = next_fh /\ Count(ok)
  BY DEF write, handles
<1>3. fails' \in Nat
  BY <1>2, Counted DEF IInv
<1>4. ByInoIsOpenHere'
  BY <1>2 DEF IInv, ByInoIsOpenHere
<1>5. CASE h \in DOMAIN open_handles
  <2>1. /\ open_handles' = [open_handles EXCEPT ![h] = Buffered(open_handles[h], off, data)]
        /\ pend' = [pend EXCEPT ![h] = PendWrite(pend[h], off, data)]
        /\ rows' = rows /\ size' = size
    BY <1>5 DEF write, db, PendWrite
  <2>2. Tables'
    BY <1>2, <2>1 DEF IInv, Tables
  <2>3. ASSUME NEW g \in DOMAIN open_handles'
        PROVE  BufOK(open_handles'[g]) /\ Holds(open_handles'[g], pend'[g])
    <3>1. g \in DOMAIN open_handles /\ g \in DOMAIN pend
          /\ BufOK(open_handles[g]) /\ Holds(open_handles[g], pend[g])
      BY <2>1, <2>3 DEF IInv, Buffers, Tables
    <3>2. CASE g = h
      <4>1. /\ open_handles'[g] = Buffered(open_handles[g], off, data)
            /\ pend'[g] = PendWrite(pend[g], off, data)
        BY <2>1, <3>1, <3>2
      <4> QED
        BY <1>1, <3>1, <4>1, BufferedHolds
    <3>3. CASE g # h
      BY <2>1, <3>1, <3>3
    <3> QED
      BY <3>2, <3>3
  <2>4. Stored'
    BY <2>1 DEF IInv, Stored
  <2>5. Buffers'
    BY <2>3 DEF Buffers
  <2> QED
    BY <1>3, <1>4, <2>2, <2>4, <2>5 DEF IInv
<1>6. CASE h \notin DOMAIN open_handles
  <2>1. open_handles' = open_handles /\ pend' = pend
    BY <1>6 DEF write, handles
  <2>2. Tables' /\ Buffers'
    BY <1>2, <2>1 DEF IInv, Tables, Buffers
  <2>3. Stored'
    <3>1. CASE rows' = rows /\ size' = size
      BY <3>1 DEF IInv, Stored
    <3>2. ASSUME NEW f, NEW k,
                 f = WriteRange([size |-> IF k \in DOMAIN size THEN size[k] ELSE 0,
                                 rows |-> rows[k]], off, data),
                 rows' = [rows EXCEPT ![k] = f.rows],
                 size' = IF k \in DOMAIN size THEN [size EXCEPT ![k] = f.size] ELSE size
          PROVE  Stored'
      <4>1. f.size = Larger(IF k \in DOMAIN size THEN size[k] ELSE 0, off + Len(data))
        BY <1>1, <3>2 DEF WriteRange
      <4>2. k \in DOMAIN size => f.size \in Nat
        BY <1>1, <4>1 DEF IInv, Stored, Larger
      <4> QED
        BY <3>2, <4>2 DEF IInv, Stored
    <3> QED
      BY <1>6, <3>1, <3>2 DEF write, db
  <2> QED
    BY <1>3, <1>4, <2>2, <2>3 DEF IInv
<1> QED
  BY <1>5, <1>6

(* flush, fsync and read.                                                  *)
LEMMA SyncKeeps ==
  ASSUME IInv, NEW h \in DOMAIN files, NEW ok, StoreBlocks(h, ok),
         open_handles' = HandlesAfterFlush(h, ok), pend' = PendAfterFlush(h, ok),
         Count(ok), files' = files, next_fh' = next_fh,
         open_handles_by_ino' = open_handles_by_ino
  PROVE  IInv'
<1>1. Stored' /\ fails' \in Nat
  BY StoreKeeps, Counted DEF IInv
<1>2. Tables' /\ Buffers'
  BY FlushKeeps DEF IInv, Tables, Buffers
<1>3. ByInoIsOpenHere'
  BY DEF IInv, ByInoIsOpenHere
<1> QED
  BY <1>1, <1>2, <1>3 DEF IInv

(* release: the handle, its buffer and every mapping to it go.             *)
LEMMA ReleaseKeeps ==
  ASSUME IInv, NEW h \in DOMAIN files, NEW ok, release(h, ok)
  PROVE  IInv'
<1> DEFINE H == HandlesAfterFlush(h, ok)
<1>1. /\ StoreBlocks(h, ok) /\ Count(ok)
      /\ open_handles' = Drop(H, {h})
      /\ open_handles_by_ino' = Released(files[h], h)
      /\ pend' = Drop(pend, {h}) /\ files' = Drop(files, {h}) /\ next_fh' = next_fh
  BY DEF release
<1>2. Stored' /\ fails' \in Nat
  BY <1>1, StoreKeeps, Counted DEF IInv
<1>3. /\ DOMAIN H \subseteq DOMAIN open_handles
      /\ \A g \in DOMAIN H : BufOK(H[g]) /\ Holds(H[g], PendAfterFlush(h, ok)[g])
  BY FlushKeeps
<1>4. \A g \in DOMAIN pend : g # h => PendAfterFlush(h, ok)[g] = pend[g]
  BY DEF PendAfterFlush
<1> HIDE DEF H
<1>5. Tables'
  BY <1>1, <1>3 DEF IInv, Tables, Drop
<1>6. Buffers'
  <2> SUFFICES ASSUME NEW g \in DOMAIN open_handles'
               PROVE  BufOK(open_handles'[g]) /\ Holds(open_handles'[g], pend'[g])
    BY DEF Buffers
  <2>1. g \in DOMAIN H /\ g # h /\ open_handles'[g] = H[g]
    BY <1>1 DEF Drop
  <2>2. g \in DOMAIN pend /\ pend'[g] = pend[g]
    BY <1>1, <1>3, <2>1 DEF IInv, Tables, Drop
  <2> QED
    BY <1>3, <1>4, <2>1, <2>2
<1>7. ByInoIsOpenHere'
  BY <1>1 DEF IInv, ByInoIsOpenHere, Released, Drop
<1> QED
  BY <1>2, <1>5, <1>6, <1>7 DEF IInv

(* The callbacks that touch no handle.                                     *)
LEMMA OtherKeeps ==
  ASSUME IInv, UNCHANGED <<handles, files, pend>>, Stored', fails' \in Nat
  PROVE  IInv'
<1>1. /\ open_handles' = open_handles /\ open_handles_by_ino' = open_handles_by_ino
      /\ next_fh' = next_fh /\ files' = files /\ pend' = pend
  BY DEF handles
<1> QED
  BY <1>1 DEF IInv, Tables, Buffers, ByInoIsOpenHere

(* Every callback preserves the inductive invariant.                       *)
LEMMA NextIInv == IInv /\ [Next]_vars => IInv'
<1> SUFFICES ASSUME IInv, [Next]_vars
             PROVE  IInv'
  OBVIOUS
<1>1. ASSUME NEW k \in Key, create(k)
      PROVE  IInv'
  <2>1. Tables' /\ Buffers' /\ ByInoIsOpenHere'
    BY <1>1, AddKeeps DEF create
  <2>2. Stored' /\ fails' \in Nat
    BY <1>1 DEF create, IInv, Stored, Put
  <2> QED
    BY <2>1, <2>2 DEF IInv
<1>2. ASSUME NEW k \in Key, open(k)
      PROVE  IInv'
  <2>1. Tables' /\ Buffers' /\ ByInoIsOpenHere'
    BY <1>2, AddKeeps DEF open
  <2>2. Stored' /\ fails' \in Nat
    BY <1>2 DEF open, db, IInv, Stored
  <2> QED
    BY <2>1, <2>2 DEF IInv
<1>3. ASSUME NEW k \in Key, unlink(k)
      PROVE  IInv'
  <2>1. Stored' /\ fails' \in Nat
    BY <1>3 DEF unlink, IInv, Stored, Drop
  <2> QED
    BY <1>3, <2>1, OtherKeeps DEF unlink
<1>4. ASSUME NEW k \in Key, NEW l \in Key, rename(k, l)
      PROVE  IInv'
  <2>1. UNCHANGED <<handles, files, pend>> /\ fails' = fails
    BY <1>4 DEF rename
  <2>2. DOMAIN rows' = Key
    BY <1>4 DEF rename, db, IInv, Stored
  <2>3. \/ size' = size
        \/ size' = Put(Drop(size, {k}), l, size[k]) /\ k \in DOMAIN size
    BY <1>4 DEF rename, db
  <2>4. Stored'
    BY <2>2, <2>3 DEF IInv, Stored, Put, Drop
  <2> QED
    BY <2>1, <2>4, OtherKeeps DEF IInv
<1>5. ASSUME NEW h \in DOMAIN files, NEW w \in Writes, NEW ok, write(h, w[1], w[2], ok)
      PROVE  IInv'
  BY <1>5, WriteKeeps
<1>6. ASSUME NEW h \in DOMAIN files, NEW ok, NEW r, read(h, r[1], r[2], ok)
      PROVE  IInv'
  BY <1>6, SyncKeeps DEF read
<1>7. ASSUME NEW h \in DOMAIN files, NEW ok, flush(h, ok) \/ fsync(h, ok)
      PROVE  IInv'
  BY <1>7, SyncKeeps DEF flush, fsync, Sync
<1>8. ASSUME NEW h \in DOMAIN files, NEW ok, release(h, ok)
      PROVE  IInv'
  BY <1>8, ReleaseKeeps
<1>9. ASSUME NEW i, NEW n \in Sizes, NEW ok, setattr(i, n, ok)
      PROVE  IInv'
  <2>1. UNCHANGED <<handles, files, pend>> /\ Count(ok)
    BY <1>9 DEF setattr
  <2>2. n \in Nat
    <3>1. MaxFileSize \in Nat
      BY BSFact, LastBlockAssumption, BlockStart DEF MaxFileSize
    <3> QED
      BY <3>1, SizesAssumption
  <2>3. \/ UNCHANGED db
        \/ \E k \in DOMAIN size :
             /\ DOMAIN rows' = DOMAIN rows
             /\ size' = [size EXCEPT ![k] = Truncate([size |-> size[k], rows |-> rows[k]], n).size]
    BY <1>9 DEF setattr
  <2>4. Stored'
    BY <2>2, <2>3 DEF IInv, Stored, Truncate, db
  <2> QED
    BY <2>1, <2>4, OtherKeeps, Counted DEF IInv
<1>10. CASE UNCHANGED vars
  <2>1. Stored' /\ fails' \in Nat
    BY <1>10 DEF vars, db, IInv, Stored
  <2> QED
    BY <1>10, <2>1, OtherKeeps DEF vars, handles
<1> QED
  BY <1>1, <1>2, <1>3, <1>4, <1>5, <1>6, <1>7, <1>8, <1>9, <1>10 DEF Next

(* The inductive invariant holds after any sequence of callbacks.          *)
LEMMA AlwaysIInv == Spec => []IInv
BY InitIInv, NextIInv, PTL DEF Spec

(* A handle's buffer holds, cell for cell, what the handle acknowledged    *)
(* and has not stored, whatever the order and overlap of the writes        *)
(* (HandleBuffer::write, flush_handle).                                    *)
THEOREM BufferTheorem == Spec => []BufferHoldsPending
<1>1. IInv => BufferHoldsPending
  BY DEF IInv, Buffers, Holds, HoldsCell, BufferHoldsPending
<1> QED
  BY <1>1, AlwaysIInv, PTL

(* No buffered block reaches past the size its flush will record           *)
(* (HandleBuffer::write keeps max_size, write_blocks_batch stores it).     *)
THEOREM MaxSizeTheorem == Spec => []BufferBelowMaxSize
<1>1. IInv => BufferBelowMaxSize
  BY DEF IInv, Buffers, BufOK, BufferBelowMaxSize
<1> QED
  BY <1>1, AlwaysIInv, PTL

(* open_handles_by_ino only names open files of the inode it is asked for  *)
(* (open adds, release retains).                                           *)
THEOREM ByInoTheorem == Spec => []ByInoIsOpenHere
<1>1. IInv => ByInoIsOpenHere
  BY DEF IInv
<1> QED
  BY <1>1, AlwaysIInv, PTL

-----------------------------------------------------------------------------
(* A successful flush of a dirty handle whose key names a file: every cell *)
(* it had pending is below the file's size and reads back.                 *)
LEMMA StoreLands ==
  ASSUME IInv, NEW h \in DOMAIN open_handles, Dirty(h), NEW ok, ok, StoreBlocks(h, ok),
         open_handles[h].key \in DOMAIN size, NEW i \in DOMAIN pend[h]
  PROVE  /\ i < size'[open_handles[h].key]
         /\ RowCell(rows'[open_handles[h].key], i) = pend[h][i]
<1> DEFINE k == open_handles[h].key
           d == open_handles[h].dirty
<1>1. /\ rows' = [rows EXCEPT ![k] = UpsertRows(rows[k], d)]
      /\ size' = [size EXCEPT ![k] = BatchSize(size[k], open_handles[h].max_size)]
  BY DEF StoreBlocks
<1>2. /\ i \in Offset /\ i < open_handles[h].max_size
      /\ i \div BS \in DOMAIN d /\ i % BS < Len(d[i \div BS])
      /\ d[i \div BS][(i % BS) + 1] = pend[h][i]
  BY DEF IInv, Buffers, Holds, HoldsCell
<1>3. open_handles[h].max_size \in Nat /\ DOMAIN d \subseteq BlockNo
  BY DEF IInv, Buffers, BufOK
<1>4. k \in Key /\ k \in DOMAIN rows /\ size[k] \in Nat
  BY DEF IInv, Stored
<1>5. i \in Nat
  BY <1>2, OffsetBlock
<1>6. i < size'[k]
  BY <1>1, <1>2, <1>3, <1>4, <1>5 DEF BatchSize, Larger
<1>7. rows'[k][i \div BS] = d[i \div BS]
  <2>1. rows'[k] = UpsertRows(rows[k], d)
    BY <1>1, <1>4
  <2> QED
    BY <2>1, <1>2, <1>3 DEF UpsertRows
<1>8. RowCell(rows'[k], i) = pend[h][i]
  BY <1>2, <1>7 DEF RowCell
<1> QED
  BY <1>6, <1>8

(* Only a handle with pending cells can have some flushed.                 *)
LEMMA PendingIsDirty ==
  ASSUME IInv, NEW h \in DOMAIN open_handles, pend[h] # NothingPending
  PROVE  Dirty(h)
<1>1. Holds(open_handles[h], pend[h]) /\ open_handles[h].max_size \in Nat
  BY DEF IInv, Buffers, BufOK
<1>2. PICK i \in DOMAIN pend[h] : TRUE
  BY <1>1 DEF Holds, NothingPending
<1>3. i < open_handles[h].max_size /\ i \in Nat
  BY <1>1, <1>2, OffsetBlock DEF Holds, HoldsCell
<1> QED
  BY <1>1, <1>3 DEF Dirty

(* Only a callback that has stored a handle's buffer takes its pending     *)
(* cells away without an error.                                            *)
LEMMA FlushLandsStep ==
  ASSUME IInv, [Next]_vars, NEW h \in DOMAIN open_handles,
         pend[h] # NothingPending, fails' = fails,
         h \notin DOMAIN pend' \/ pend'[h] = NothingPending,
         open_handles[h].key \in DOMAIN size
  PROVE  \E ok : ok /\ StoreBlocks(h, ok)
<1>1. h \in DOMAIN pend /\ h # next_fh
  BY DEF IInv, Tables
<1>2. pend' # pend
  BY <1>1
<1>3. ASSUME NEW g, NEW ok, Count(ok), StoreBlocks(g, ok),
             pend' = PendAfterFlush(g, ok)
      PROVE  ok /\ StoreBlocks(h, ok)
  <2>1. ok /\ Dirty(g)
    BY <1>2, <1>3 DEF PendAfterFlush
  <2>2. g = h
    BY <1>1, <1>3, <2>1 DEF PendAfterFlush
  <2> QED
    BY <1>3, <2>1, <2>2
<1>4. ASSUME NEW k, create(k) \/ open(k) PROVE FALSE
  BY <1>1, <1>4 DEF create, open, Put
<1>5. ASSUME NEW g \in DOMAIN files, NEW w \in Writes, NEW ok, write(g, w[1], w[2], ok)
      PROVE  FALSE
  <2>1. PICK i : i \in w[1]..(w[1] + Len(w[2]) - 1)
    BY WritesAssumption, OffsetBlock, EmptySeq
  <2>2. pend' = [pend EXCEPT ![g] = PendWrite(pend[g], w[1], w[2])]
    BY <1>2, <1>5 DEF write, PendWrite
  <2>3. i \in DOMAIN PendWrite(pend[g], w[1], w[2])
    BY <2>1 DEF PendWrite
  <2>4. PendWrite(pend[g], w[1], w[2]) # NothingPending
    BY <2>3 DEF NothingPending
  <2> QED
    BY <1>1, <2>2, <2>4
<1>6. ASSUME NEW g \in DOMAIN files, NEW ok, release(g, ok)
      PROVE  ok /\ StoreBlocks(h, ok)
  <2>1. g = h
    BY <1>1, <1>6 DEF release, Drop
  <2>2. ok
    BY <1>6, Counted DEF release, IInv
  <2> QED
    BY <1>6, <2>1, <2>2 DEF release
<1>7. ASSUME NEW g \in DOMAIN files, NEW ok, flush(g, ok) \/ fsync(g, ok)
      PROVE  ok /\ StoreBlocks(h, ok)
  BY <1>3, <1>7 DEF flush, fsync, Sync
<1>8. ASSUME NEW g \in DOMAIN files, NEW ok, NEW r, read(g, r[1], r[2], ok)
      PROVE  ok /\ StoreBlocks(h, ok)
  BY <1>3, <1>8 DEF read
<1>9. ASSUME NEW k, unlink(k) PROVE FALSE
  BY <1>2, <1>9 DEF unlink
<1>10. ASSUME NEW k, NEW l, rename(k, l) PROVE FALSE
  BY <1>2, <1>10 DEF rename
<1>11. ASSUME NEW i, NEW n, NEW ok, setattr(i, n, ok) PROVE FALSE
  BY <1>2, <1>11 DEF setattr
<1>12. CASE UNCHANGED vars
  BY <1>2, <1>12 DEF vars
<1> QED
  BY <1>4, <1>5, <1>6, <1>7, <1>8, <1>9, <1>10, <1>11, <1>12 DEF Next

(* Whenever flush, fsync, read or release stores a buffer and its key      *)
(* still names a file, every pending cell reads back from that file, below *)
(* its size (flush_handle, write_blocks_batch).                            *)
THEOREM FlushLandsTheorem == Spec => FlushLands
<1> DEFINE Lands ==
      \A h \in DOMAIN open_handles :
        /\ pend[h] # NothingPending /\ fails' = fails
        /\ h \notin DOMAIN pend' \/ pend'[h] = NothingPending
        /\ open_handles[h].key \in DOMAIN size
        => \A i \in DOMAIN pend[h] :
             LET k == open_handles[h].key
             IN  i < size'[k] /\ RowCell(rows'[k], i) = pend[h][i]
<1>1. IInv /\ [Next]_vars => Lands
  <2> SUFFICES ASSUME IInv, [Next]_vars, NEW h \in DOMAIN open_handles,
                      pend[h] # NothingPending, fails' = fails,
                      h \notin DOMAIN pend' \/ pend'[h] = NothingPending,
                      open_handles[h].key \in DOMAIN size, NEW i \in DOMAIN pend[h]
               PROVE  /\ i < size'[open_handles[h].key]
                      /\ RowCell(rows'[open_handles[h].key], i) = pend[h][i]
    BY Zenon
  <2>1. PICK ok : ok /\ StoreBlocks(h, ok)
    BY FlushLandsStep
  <2>2. Dirty(h)
    BY PendingIsDirty
  <2> QED
    BY <2>1, <2>2, StoreLands
<1>2. FlushLands <=> [][Lands]_vars
  BY DEF FlushLands
<1> HIDE DEF Lands
<1>3. IInv /\ [Next]_vars => [Lands]_vars
  BY <1>1
<1>4. Spec => [][Lands]_vars
  BY <1>3, AlwaysIInv, PTL DEF Spec
<1> QED
  BY <1>2, <1>4

-----------------------------------------------------------------------------
(* Every file has an inode, and no two share one.                          *)
Names ==
  /\ DOMAIN ino_by_path = DOMAIN size
  /\ next_ino \in Nat
  /\ \A k \in DOMAIN ino_by_path : ino_by_path[k] \in Nat /\ ino_by_path[k] < next_ino
  /\ \A k, l \in DOMAIN ino_by_path : ino_by_path[k] = ino_by_path[l] => k = l

(* A key lies within another only when it is that key.                     *)
LEMMA KeysApart ==
  ASSUME NEW k \in Key, NEW l \in Key
  PROVE  /\ Within(k, l) <=> l = k
         /\ Rebase(k, l, k) = l
<1> DEFINE a == k[1]
           b == l[1]
<1>1. k = <<a>> /\ l = <<b>>
  BY KeyAssumption
<1> HIDE DEF a, b
<1>2. k \in Seq({a}) /\ l \in Seq({b}) /\ Len(k) = 1 /\ Len(l) = 1
  BY <1>1
<1>3. SubSeq(l, 1, 1) = l
  <2>1. l[1] \in {b}
    BY <1>1
  <2>2. /\ SubSeq(l, 1, 1) \in Seq({b}) /\ Len(SubSeq(l, 1, 1)) = 1
        /\ SubSeq(l, 1, 1)[1] = l[1]
    BY <2>1, SubSeqProperties
  <2> QED
    BY <1>2, <2>2
<1>4. SubSeq(k, Len(k) + 1, Len(k)) = <<>>
  BY <1>2, SubSeqEmpty
<1>5. Rebase(k, l, k) = l
  <2>1. Rebase(k, l, k) = l \o <<>>
    BY <1>4, Zenon DEF Rebase
  <2> QED
    BY <1>2, <2>1, ConcatEmptySeq
<1> QED
  BY <1>2, <1>3, <1>5 DEF Within

(* The map f with one key replaced by another.                             *)
OneRekeyed(f, k, l) ==
  [x \in (DOMAIN f \ {k}) \union {l} |-> IF x = l THEN f[k] ELSE f[x]]

(* rekey_maps for a file: its key is replaced, its inode stays.            *)
LEMMA RekeyOne ==
  ASSUME NEW f, DOMAIN f \subseteq Key, NEW k \in DOMAIN f, NEW l \in Key
  PROVE  RekeyInoByPath(f, k, l) = OneRekeyed(f, k, l)
<1> DEFINE R(p) == Rebase(k, l, p)
           T == {R(p) : p \in Rekeyed(f, k)}
<1>1. Rekeyed(f, k) = {k}
  BY KeysApart DEF Rekeyed
<1>2. R(k) = l
  BY KeysApart
<1>3. RekeyInoByPath(f, k, l) = [x \in (DOMAIN f \ Rekeyed(f, k)) \union T |->
        IF x \in T THEN f[CHOOSE p \in Rekeyed(f, k) : R(p) = x] ELSE f[x]]
  BY DEF RekeyInoByPath, MoveKeys
<1> HIDE DEF R
<1>4. T = {l} /\ (CHOOSE p \in {k} : R(p) = l) = k
  BY <1>1, <1>2
<1> HIDE DEF T
<1> QED
  BY <1>1, <1>3, <1>4 DEF OneRekeyed

(* Every callback keeps names and inodes together.                         *)
LEMMA NextNames == IInv /\ Names /\ [Next]_vars => Names'
<1> SUFFICES ASSUME IInv, Names, [Next]_vars
             PROVE  Names'
  OBVIOUS
<1>1. CASE ino_by_path' = ino_by_path /\ next_ino' = next_ino /\ DOMAIN size' = DOMAIN size
  BY <1>1 DEF Names
<1>2. ASSUME NEW k \in Key, create(k)
      PROVE  Names'
  BY <1>2 DEF create, Names, Put
<1>3. ASSUME NEW k \in Key, unlink(k)
      PROVE  Names'
  BY <1>3 DEF unlink, Names, Drop
<1>4. ASSUME NEW k \in Key, NEW l \in Key, rename(k, l)
      PROVE  Names'
  <2>1. CASE UNCHANGED <<db, maps>>
    BY <1>1, <2>1 DEF db, maps
  <2>2. CASE /\ k \in DOMAIN size /\ k # l
             /\ size' = Put(Drop(size, {k}), l, size[k])
             /\ ino_by_path' = RekeyInoByPath(ino_by_path, k, l)
             /\ next_ino' = next_ino
    <3> DEFINE f == ino_by_path
    <3>1. ino_by_path' = OneRekeyed(f, k, l)
      <4>1. DOMAIN f \subseteq Key /\ k \in DOMAIN f
        BY <2>2 DEF IInv, Stored, Names
      <4>2. RekeyInoByPath(f, k, l) = OneRekeyed(f, k, l)
        BY <4>1, RekeyOne, Zenon
      <4> QED
        BY <2>2, <4>2
    <3>2. DOMAIN size' = (DOMAIN size \ {k}) \union {l}
      BY <2>2 DEF Put, Drop
    <3> QED
      BY <2>2, <3>1, <3>2 DEF Names, OneRekeyed
  <2> QED
    BY <1>4, <2>1, <2>2 DEF rename
<1>5. ASSUME NEW h, NEW ok, StoreBlocks(h, ok)
      PROVE  DOMAIN size' = DOMAIN size
  BY <1>5 DEF StoreBlocks, db
<1>6. ASSUME NEW k, open(k)
      PROVE  Names'
  BY <1>1, <1>6 DEF open, db, maps
<1>7. ASSUME NEW h, NEW w, NEW ok, write(h, w[1], w[2], ok)
      PROVE  Names'
  <2>1. DOMAIN size' = DOMAIN size
    BY <1>7 DEF write, db
  <2> QED
    BY <1>1, <1>7, <2>1 DEF write, maps
<1>8. ASSUME NEW h, NEW ok, NEW r,
             read(h, r[1], r[2], ok) \/ flush(h, ok) \/ fsync(h, ok) \/ release(h, ok)
      PROVE  Names'
  BY <1>1, <1>5, <1>8 DEF read, flush, fsync, Sync, release, maps
<1>9. ASSUME NEW i, NEW n, NEW ok, setattr(i, n, ok)
      PROVE  Names'
  <2>1. DOMAIN size' = DOMAIN size
    BY <1>9 DEF setattr, db
  <2> QED
    BY <1>1, <1>9, <2>1 DEF setattr, maps
<1>10. CASE UNCHANGED vars
  BY <1>1, <1>10 DEF vars
<1> QED
  BY <1>2, <1>3, <1>4, <1>6, <1>7, <1>8, <1>9, <1>10 DEF Next

(* A step makes a file that keeps its inode shorter only in setattr.       *)
LEMMA ShrinkStep ==
  ASSUME IInv, Names, [Next]_vars, NEW k \in DOMAIN size \intersect DOMAIN size',
         ino_by_path'[k] = ino_by_path[k], reply'.op # "setattr"
  PROVE  size'[k] >= size[k]
<1>1. size[k] \in Nat
  BY DEF IInv, Stored
<1>2. CASE size' = size
  BY <1>1, <1>2
<1>3. ASSUME NEW j, create(j) \/ unlink(j)
      PROVE  size'[k] >= size[k]
  <2>1. size'[k] = size[k]
    BY <1>3 DEF create, unlink, Put, Drop
  <2> QED
    BY <1>1, <2>1
<1>4. ASSUME NEW j \in Key, NEW l \in Key, rename(j, l)
      PROVE  size'[k] >= size[k]
  <2>1. CASE size' = size
    BY <1>2, <2>1
  <2>2. CASE /\ j \in DOMAIN size /\ j # l
             /\ size' = Put(Drop(size, {j}), l, size[j])
             /\ ino_by_path' = RekeyInoByPath(ino_by_path, j, l)
    <3> DEFINE f == ino_by_path
    <3>1. ino_by_path' = OneRekeyed(f, j, l)
      <4>1. DOMAIN f \subseteq Key /\ j \in DOMAIN f
        BY <2>2 DEF IInv, Stored, Names
      <4>2. RekeyInoByPath(f, j, l) = OneRekeyed(f, j, l)
        BY <4>1, RekeyOne, Zenon
      <4> QED
        BY <2>2, <4>2
    <3>2. k # l
      BY <2>2, <3>1 DEF Names, OneRekeyed
    <3>3. size'[k] = size[k]
      BY <2>2, <3>2 DEF Put, Drop
    <3> QED
      BY <1>1, <3>3
  <2> QED
    BY <1>4, <2>1, <2>2 DEF rename, db
<1>5. ASSUME NEW h, NEW ok, StoreBlocks(h, ok)
      PROVE  size'[k] >= size[k]
  <2>1. CASE Dirty(h) /\ ok
    <3>1. open_handles[h].max_size \in Nat
      BY <2>1 DEF Dirty, IInv, Buffers, BufOK
    <3>2. size'[k] \in {size[k], BatchSize(size[k], open_handles[h].max_size)}
      BY <1>5, <2>1 DEF StoreBlocks
    <3> QED
      BY <1>1, <3>1, <3>2 DEF BatchSize, Larger
  <2>2. CASE ~(Dirty(h) /\ ok)
    BY <1>2, <1>5, <2>2 DEF StoreBlocks, db
  <2> QED
    BY <2>1, <2>2
<1>6. ASSUME NEW h, NEW w \in Writes, NEW ok, write(h, w[1], w[2], ok)
      PROVE  size'[k] >= size[k]
  <2>1. /\ w[1] \in Nat /\ w[2] # <<>> /\ Len(w[2]) \in Nat
    BY WritesAssumption, OffsetBlock
  <2>2. CASE h \in DOMAIN open_handles
    BY <1>2, <1>6, <2>2 DEF write, db
  <2>3. ASSUME NEW p, NEW f,
               f = WriteRange([size |-> IF p \in DOMAIN size THEN size[p] ELSE 0,
                               rows |-> rows[p]], w[1], w[2]),
               size' = IF p \in DOMAIN size THEN [size EXCEPT ![p] = f.size] ELSE size
        PROVE  size'[k] >= size[k]
    <3>1. f.size = Larger(IF p \in DOMAIN size THEN size[p] ELSE 0, w[1] + Len(w[2]))
      BY <2>1, <2>3 DEF WriteRange
    <3>2. CASE p = k
      <4>1. size'[k] = Larger(size[k], w[1] + Len(w[2]))
        BY <2>3, <3>1, <3>2
      <4> QED
        BY <1>1, <2>1, <4>1 DEF Larger
    <3>3. CASE p # k
      BY <1>1, <2>3, <3>3
    <3> QED
      BY <3>2, <3>3
  <2> QED
    BY <1>2, <1>6, <2>2, <2>3 DEF write, db
<1>7. ASSUME NEW h, NEW ok, NEW r,
             read(h, r[1], r[2], ok) \/ flush(h, ok) \/ fsync(h, ok) \/ release(h, ok)
      PROVE  size'[k] >= size[k]
  BY <1>5, <1>7 DEF read, flush, fsync, Sync, release
<1>8. ASSUME NEW j, open(j)
      PROVE  size'[k] >= size[k]
  BY <1>2, <1>8 DEF open, db
<1>9. ASSUME NEW i, NEW n, NEW ok, setattr(i, n, ok)
      PROVE  FALSE
  BY <1>9 DEF setattr
<1>10. CASE UNCHANGED vars
  BY <1>2, <1>10 DEF vars
<1> QED
  BY <1>3, <1>4, <1>6, <1>7, <1>8, <1>9, <1>10 DEF Next

(* Flushes of several handles, late or repeated, never shorten a file: as  *)
(* long as a name keeps its inode, only setattr makes its size smaller     *)
(* (write_blocks_batch, write_range, rename).                              *)
THEOREM ShrinkTheorem == Spec => SizeShrinksOnlyBySetattr
<1> DEFINE Grows ==
      \A k \in DOMAIN size \intersect DOMAIN size' :
        ino_by_path'[k] = ino_by_path[k] /\ reply'.op # "setattr" => size'[k] >= size[k]
<1>1. Init => Names
  BY DEF Init, Names
<1>2. IInv /\ Names /\ [Next]_vars => Grows
  BY ShrinkStep
<1>3. SizeShrinksOnlyBySetattr <=> [][Grows]_vars
  BY DEF SizeShrinksOnlyBySetattr
<1> HIDE DEF Grows
<1>4. IInv /\ Names /\ [Next]_vars => [Grows]_vars
  BY <1>2
<1>5. Spec => []Names
  BY <1>1, NextNames, AlwaysIInv, PTL DEF Spec
<1>6. Spec => [][Grows]_vars
  BY <1>4, <1>5, AlwaysIInv, PTL DEF Spec
<1> QED
  BY <1>3, <1>6

-----------------------------------------------------------------------------
(* Types.  What the database stores, the inode maps, and the handles; what *)
(* a buffer holds is in Buffers.                                           *)
StoreType ==
  /\ DOMAIN size \subseteq Key
  /\ \A k \in DOMAIN size : size[k] \in 0..MaxFileSize
  /\ rows \in [Key -> [BlockNo -> RowOf(Cell)]]

(* The inode numbers and keys of the two maps, within their bounds.        *)
MapType ==
  /\ DOMAIN ino_by_path \subseteq Key
  /\ \A k \in DOMAIN ino_by_path : ino_by_path[k] \in 2..MaxIno
  /\ DOMAIN path_by_ino \subseteq 2..MaxIno
  /\ \A i \in DOMAIN path_by_ino : path_by_ino[i] \in Key
  /\ next_ino \in 2..(MaxIno + 1)

(* The open handles: numbers, inodes, keys, and buffers inside the file.   *)
HandleType ==
  /\ next_fh \in 1..(MaxFh + 1)
  /\ DOMAIN files \subseteq 1..MaxFh
  /\ \A h \in DOMAIN files : files[h] \in 2..MaxIno
  /\ \A h \in DOMAIN open_handles :
       open_handles[h].key \in Key /\ open_handles[h].max_size <= MaxFileSize

(* The inode of every path leads back to it.                               *)
Linked ==
  \A k \in DOMAIN ino_by_path :
    ino_by_path[k] \in DOMAIN path_by_ino /\ path_by_ino[ino_by_path[k]] = k

(* Everything that holds of the types, and the three facts that a type     *)
(* step needs: buffers hold what is pending, names are distinct, maps      *)
(* agree.                                                                  *)
TInv == /\ IInv /\ Names /\ Linked
        /\ StoreType /\ MapType /\ HandleType /\ reply.res \in Res

(* The rows of the type invariant are the rows of the block lemmas.        *)
LEMMA RowIsRowOf == Row = RowOf(Cell)
<1>1. ASSUME NEW r \in Row PROVE r \in RowOf(Cell)
  <2>1. PICK n \in 0..BS : r \in [1..n -> Cell]
    BY DEF Row
  <2>2. n \in Nat /\ n <= BS
    BY <2>1, BSFact
  <2>3. r \in Seq(Cell) /\ Len(r) = n
    BY <2>1, <2>2
  <2> QED
    BY <2>2, <2>3 DEF RowOf
<1>2. ASSUME NEW r \in RowOf(Cell) PROVE r \in Row
  <2>1. r \in Seq(Cell) /\ Len(r) \in 0..BS
    BY RowLen
  <2>2. r \in [1..Len(r) -> Cell]
    BY <2>1
  <2> QED
    BY <2>1, <2>2 DEF Row
<1> QED
  BY <1>1, <1>2

(* The size of the largest file is a number.                               *)
LEMMA SizeNat == MaxFileSize \in Nat
BY BSFact, LastBlockAssumption, BlockStart DEF MaxFileSize

(* The strengthened invariant has the type invariant as a consequence.     *)
LEMMA TInvType == TInv => TypeOK
<1> SUFFICES ASSUME TInv PROVE TypeOK
  OBVIOUS
<1>1. ASSUME NEW h \in DOMAIN open_handles
      PROVE  /\ open_handles[h].key \in Key
             /\ DOMAIN open_handles[h].dirty \subseteq BlockNo
             /\ \A b \in DOMAIN open_handles[h].dirty : open_handles[h].dirty[b] \in Row
             /\ open_handles[h].max_size \in 0..MaxFileSize
  <2>1. BufOK(open_handles[h]) /\ open_handles[h].key \in Key
        /\ open_handles[h].max_size <= MaxFileSize
    BY <1>1 DEF TInv, IInv, Buffers, HandleType
  <2> QED
    BY <2>1, RowIsRowOf, SizeNat DEF BufOK
<1>2. /\ DOMAIN size \subseteq Key /\ \A k \in DOMAIN size : size[k] \in 0..MaxFileSize
      /\ rows \in [Key -> [BlockNo -> Row]]
  BY RowIsRowOf DEF TInv, StoreType
<1>3. DOMAIN open_handles \subseteq DOMAIN files /\ DOMAIN files \subseteq 1..MaxFh
  BY DEF TInv, HandleType, IInv, Tables
<1>4. \A i \in DOMAIN open_handles_by_ino : open_handles_by_ino[i] \in 1..MaxFh
  BY <1>3 DEF TInv, IInv, ByInoIsOpenHere
<1> QED
  BY <1>1, <1>2, <1>3, <1>4 DEF TInv, TypeOK, MapType, HandleType

(* rekey_maps for a file: its inode leads to the new key.                  *)
LEMMA RekeyOneIno ==
  ASSUME NEW f, DOMAIN f \subseteq Key, NEW k \in DOMAIN f, NEW l \in Key, NEW g
  PROVE  RekeyPathByIno(f, g, k, l) = Put(g, f[k], l)
<1>1. Rekeyed(f, k) = {k}
  BY KeysApart DEF Rekeyed
<1>2. Rebase(k, l, k) = l
  BY KeysApart
<1>3. RekeyPathByIno(f, g, k, l)
        = [i \in DOMAIN g \union {f[p] : p \in {k}} |->
             IF \E p \in {k} : f[p] = i
               THEN Rebase(k, l, CHOOSE p \in {k} : f[p] = i) ELSE g[i]]
  BY <1>1 DEF RekeyPathByIno
<1>4. {f[p] : p \in {k}} = {f[k]}
  OBVIOUS
<1>5. ASSUME NEW i, f[k] = i
      PROVE  (CHOOSE p \in {k} : f[p] = i) = k
  BY <1>5
<1>6. ASSUME NEW i
      PROVE  (\E p \in {k} : f[p] = i) <=> i = f[k]
  OBVIOUS
<1>7. ASSUME NEW i
      PROVE  (IF \E p \in {k} : f[p] = i
                THEN Rebase(k, l, CHOOSE p \in {k} : f[p] = i) ELSE g[i])
             = (IF i = f[k] THEN l ELSE g[i])
  BY <1>2, <1>5, <1>6
<1> QED
  BY <1>3, <1>4, <1>7 DEF Put

(* What a renaming step does.                                              *)
Moves(k, l) ==
  /\ k \in DOMAIN size /\ k # l
  /\ size' = Put(Drop(size, {k}), l, size[k])
  /\ ino_by_path' = OneRekeyed(ino_by_path, k, l)
  /\ path_by_ino' = Put(path_by_ino, ino_by_path[k], l)
  /\ rows' = [rows EXCEPT ![k] = NoRows,
       ![l] = [b \in BlockNo |->
                 IF HasRow(k, b) THEN rows[k][b]
                 ELSE IF l \in DOMAIN size THEN <<>> ELSE rows[l][b]]]
  /\ Nameable(k) /\ (l \in DOMAIN size => Nameable(l))

(* rename either changes no name or moves size, rows and inode from k to   *)
(* l.                                                                      *)
LEMMA RenameMoves ==
  ASSUME Names, Stored, NEW k \in Key, NEW l \in Key, rename(k, l)
  PROVE  /\ UNCHANGED <<db, maps>> \/ Moves(k, l)
         /\ next_ino' = next_ino /\ UNCHANGED <<handles, files, posix, pend>>
         /\ reply'.res \in Res /\ reply'.op = "rename"
<1>1. /\ next_ino' = next_ino /\ UNCHANGED <<handles, files, posix, pend>>
      /\ reply'.res \in Res /\ reply'.op = "rename"
  BY DEF rename, maps, Res
<1>2. CASE UNCHANGED <<db, maps>>
  BY <1>1, <1>2
<1>3. CASE ~UNCHANGED <<db, maps>>
  <2>1. /\ k \in DOMAIN size /\ k # l
        /\ size' = Put(Drop(size, {k}), l, size[k])
        /\ ino_by_path' = RekeyInoByPath(ino_by_path, k, l)
        /\ path_by_ino' = RekeyPathByIno(ino_by_path, path_by_ino, k, l)
        /\ rows' = [rows EXCEPT ![k] = NoRows,
             ![l] = [b \in BlockNo |->
                       IF HasRow(k, b) THEN rows[k][b]
                       ELSE IF l \in DOMAIN size THEN <<>> ELSE rows[l][b]]]
        /\ Nameable(k) /\ (l \in DOMAIN size => Nameable(l))
    BY <1>3 DEF rename
  <2>2. DOMAIN ino_by_path \subseteq Key /\ k \in DOMAIN ino_by_path
    BY <2>1 DEF Names, Stored
  <2>3. RekeyInoByPath(ino_by_path, k, l) = OneRekeyed(ino_by_path, k, l)
    BY <2>2, RekeyOne, Zenon
  <2>4. RekeyPathByIno(ino_by_path, path_by_ino, k, l) = Put(path_by_ino, ino_by_path[k], l)
    BY <2>2, RekeyOneIno, Zenon
  <2> QED
    BY <1>1, <2>1, <2>3, <2>4 DEF Moves
<1> QED
  BY <1>2, <1>3

(* Maps.                                                                   *)
LEMMA NextMap ==
  ASSUME IInv, Names, Linked, MapType, [Next]_vars
  PROVE  Linked' /\ MapType'
<1>1. CASE UNCHANGED maps
  BY <1>1 DEF maps, Linked, MapType
<1>2. ASSUME NEW k \in Key, create(k)
      PROVE  Linked' /\ MapType'
  <2>1. /\ ino_by_path' = Put(ino_by_path, k, next_ino)
        /\ path_by_ino' = Put(path_by_ino, next_ino, k)
        /\ next_ino' = next_ino + 1 /\ next_ino <= MaxIno
    BY <1>2 DEF create
  <2>2. next_ino \in 2..MaxIno /\ next_ino' \in 2..(MaxIno + 1)
    BY <2>1, BoundsAssumption DEF MapType
  <2>3. \A j \in DOMAIN ino_by_path : ino_by_path[j] # next_ino
    BY DEF Names
  <2>4. Linked'
    BY <2>1, <2>3 DEF Linked, Put
  <2> QED
    BY <2>1, <2>2, <2>4 DEF MapType, Put
<1>3. ASSUME NEW k \in Key, unlink(k)
      PROVE  Linked' /\ MapType'
  <2>1. /\ ino_by_path' = Drop(ino_by_path, {k})
        /\ path_by_ino' = Drop(path_by_ino, {ino_by_path[k]})
        /\ next_ino' = next_ino /\ k \in DOMAIN ino_by_path
    BY <1>3 DEF unlink, Names
  <2>2. \A j \in DOMAIN ino_by_path : j # k => ino_by_path[j] # ino_by_path[k]
    BY <2>1 DEF Names
  <2>3. Linked'
    BY <2>1, <2>2 DEF Linked, Drop
  <2> QED
    BY <2>1, <2>3 DEF MapType, Drop
<1>4. ASSUME NEW k \in Key, NEW l \in Key, Moves(k, l), next_ino' = next_ino
      PROVE  Linked' /\ MapType'
  <2>1. /\ ino_by_path' = OneRekeyed(ino_by_path, k, l)
        /\ path_by_ino' = Put(path_by_ino, ino_by_path[k], l)
        /\ k \in DOMAIN ino_by_path
    BY <1>4 DEF Moves, Names
  <2>2. \A j \in DOMAIN ino_by_path : j # k => ino_by_path[j] # ino_by_path[k]
    BY <2>1 DEF Names
  <2>3. Linked'
    BY <2>1, <2>2 DEF Linked, Put, OneRekeyed
  <2>4. ino_by_path[k] \in 2..MaxIno
    BY <2>1 DEF MapType
  <2> QED
    BY <1>4, <2>1, <2>3, <2>4 DEF MapType, Put, OneRekeyed
<1>5. ASSUME NEW k \in Key, NEW l \in Key, rename(k, l)
      PROVE  Linked' /\ MapType'
  <2>1. (UNCHANGED <<db, maps>> \/ Moves(k, l)) /\ next_ino' = next_ino
    BY <1>5, RenameMoves DEF IInv
  <2> QED
    BY <1>1, <1>4, <2>1
<1>6. ASSUME NEW k, open(k)
      PROVE  UNCHANGED maps
  BY <1>6 DEF open
<1>7. ASSUME NEW h, NEW w, NEW ok, write(h, w[1], w[2], ok)
      PROVE  UNCHANGED maps
  BY <1>7 DEF write
<1>8. ASSUME NEW h, NEW ok, NEW r,
             read(h, r[1], r[2], ok) \/ flush(h, ok) \/ fsync(h, ok) \/ release(h, ok)
      PROVE  UNCHANGED maps
  BY <1>8 DEF read, flush, fsync, Sync, release
<1>9. ASSUME NEW i, NEW n, NEW ok, setattr(i, n, ok)
      PROVE  UNCHANGED maps
  BY <1>9 DEF setattr
<1>10. CASE UNCHANGED vars
  BY <1>1, <1>10 DEF vars, maps
<1> QED
  BY <1>1, <1>2, <1>3, <1>5, <1>6, <1>7, <1>8, <1>9, <1>10 DEF Next

(* Handles.                                                                *)
LEMMA WriteInFile ==
  ASSUME NEW w \in Writes
  PROVE  /\ w[1] \in Nat /\ w[2] \in Seq(Cell) /\ w[2] # <<>> /\ Len(w[2]) \in Nat \ {0}
         /\ w[1] + Len(w[2]) <= MaxFileSize
<1>1. w[1] \in Nat /\ w[2] \in Seq(Cell) /\ w[2] # <<>> /\ w[1] + Len(w[2]) <= MaxFileSize
  BY WritesAssumption, OffsetBlock
<1> QED
  BY <1>1, EmptySeq

(* What a write into a buffer keeps of it, and which blocks it dirties.    *)
LEMMA BufferedIs ==
  ASSUME NEW b, NEW off, NEW data, data # <<>>
  PROVE  /\ Buffered(b, off, data).key = b.key
         /\ Buffered(b, off, data).max_size = Larger(b.max_size, off + Len(data))
         /\ DOMAIN Buffered(b, off, data).dirty = DOMAIN b.dirty \union Touched(off, data)
BY DEF Buffered, BufferWrite

(* A flush takes no handle a new key and no buffer a larger size.          *)
LEMMA FlushedHandles ==
  ASSUME NEW h, NEW ok, DOMAIN open_handles \subseteq DOMAIN files
  PROVE  /\ DOMAIN HandlesAfterFlush(h, ok) \subseteq DOMAIN open_handles
         /\ \A g \in DOMAIN HandlesAfterFlush(h, ok) :
              /\ HandlesAfterFlush(h, ok)[g].key = open_handles[g].key
              /\ HandlesAfterFlush(h, ok)[g].max_size \in {0, open_handles[g].max_size}
<1>1. CASE ~Dirty(h)
  BY <1>1 DEF HandlesAfterFlush
<1>2. CASE Dirty(h) /\ ~ok
  <2>1. HandlesAfterFlush(h, ok) = Drop(open_handles, {h})
    BY <1>2 DEF HandlesAfterFlush
  <2> QED
    BY <2>1 DEF Drop
<1>3. CASE Dirty(h) /\ ok
  <2>1. HandlesAfterFlush(h, ok) = [open_handles EXCEPT ![h] = NewHandle(open_handles[h].key)]
    BY <1>3 DEF HandlesAfterFlush
  <2> QED
    BY <2>1 DEF NewHandle
<1> QED
  BY <1>1, <1>2, <1>3

(* Every callback keeps the types of the handles.                          *)
LEMMA NextHandle ==
  ASSUME IInv, Names, Linked, MapType, HandleType, [Next]_vars
  PROVE  HandleType'
<1> USE SizeNat
<1>1. CASE UNCHANGED <<open_handles, next_fh, files>>
  BY <1>1 DEF HandleType
<1>2. ASSUME NEW k \in Key, NEW i \in 2..MaxIno, next_fh <= MaxFh,
             open_handles' = Put(open_handles, next_fh, NewHandle(k)),
             next_fh' = next_fh + 1, files' = Put(files, next_fh, i)
      PROVE  HandleType'
  <2>1. next_fh \in 1..MaxFh /\ next_fh' \in 1..(MaxFh + 1)
    BY <1>2, BoundsAssumption DEF HandleType
  <2>2. NewHandle(k).key = k /\ NewHandle(k).max_size = 0
    BY DEF NewHandle
  <2> QED
    BY <1>2, <2>1, <2>2 DEF HandleType, Put
<1>3. ASSUME NEW k \in Key, create(k)
      PROVE  HandleType'
  <2>1. next_ino \in 2..MaxIno
    BY <1>3, BoundsAssumption DEF create, MapType
  <2> QED
    BY <1>2, <1>3, <2>1 DEF create
<1>4. ASSUME NEW k \in Key, open(k)
      PROVE  HandleType'
  <2>1. ino_by_path[k] \in 2..MaxIno /\ path_by_ino[ino_by_path[k]] = k
    BY <1>4 DEF open, Names, Linked, MapType
  <2> QED
    BY <1>2, <1>4, <2>1 DEF open
<1>5. ASSUME NEW h, NEW w \in Writes, NEW ok, write(h, w[1], w[2], ok)
      PROVE  HandleType'
  <2>1. files' = files /\ next_fh' = next_fh
    BY <1>5 DEF write, handles
  <2>2. CASE h \in DOMAIN open_handles
    <3>1. open_handles' = [open_handles EXCEPT ![h] = Buffered(open_handles[h], w[1], w[2])]
      BY <1>5, <2>2 DEF write
    <3>2. /\ Buffered(open_handles[h], w[1], w[2]).key = open_handles[h].key
          /\ Buffered(open_handles[h], w[1], w[2]).max_size
               = Larger(open_handles[h].max_size, w[1] + Len(w[2]))
      BY WriteInFile, BufferedIs
    <3>3. Larger(open_handles[h].max_size, w[1] + Len(w[2])) <= MaxFileSize
      BY <2>2, WriteInFile DEF Larger, HandleType
    <3> QED
      BY <2>1, <3>1, <3>2, <3>3 DEF HandleType
  <2>3. CASE h \notin DOMAIN open_handles
    BY <1>1, <1>5, <2>1, <2>3 DEF write, handles
  <2> QED
    BY <2>2, <2>3
<1>6. ASSUME NEW h, NEW ok,
             \/ open_handles' = HandlesAfterFlush(h, ok) /\ files' = files
             \/ /\ open_handles' = Drop(HandlesAfterFlush(h, ok), {h})
                /\ files' = Drop(files, {h}),
             next_fh' = next_fh
      PROVE  HandleType'
  <2>1. DOMAIN open_handles \subseteq DOMAIN files
    BY DEF IInv, Tables
  <2>2. ASSUME NEW g \in DOMAIN open_handles'
        PROVE  open_handles'[g].key \in Key /\ open_handles'[g].max_size <= MaxFileSize
    <3>1. g \in DOMAIN HandlesAfterFlush(h, ok) /\ open_handles'[g] = HandlesAfterFlush(h, ok)[g]
      BY <1>6, <2>2 DEF Drop
    <3>2. g \in DOMAIN open_handles /\ open_handles'[g].key = open_handles[g].key
          /\ open_handles'[g].max_size \in {0, open_handles[g].max_size}
      BY <2>1, <3>1, FlushedHandles
    <3> QED
      BY <3>2 DEF HandleType
  <2> QED
    BY <1>6, <2>2 DEF HandleType, Drop
<1>7. ASSUME NEW h, NEW ok, NEW r,
             read(h, r[1], r[2], ok) \/ flush(h, ok) \/ fsync(h, ok) \/ release(h, ok)
      PROVE  HandleType'
  BY <1>6, <1>7 DEF read, flush, fsync, Sync, release
<1>8. ASSUME NEW k, NEW l, NEW i, NEW n, NEW ok, unlink(k) \/ rename(k, l) \/ setattr(i, n, ok)
      PROVE  UNCHANGED <<open_handles, next_fh, files>>
  BY <1>8 DEF unlink, rename, setattr, handles
<1>9. CASE UNCHANGED vars
  BY <1>1, <1>9 DEF vars
<1> QED
  BY <1>1, <1>3, <1>4, <1>5, <1>7, <1>8, <1>9 DEF Next

(* A handle's write past its failed flush, by write_range.                 *)
DirectWrite(h, w) ==
  /\ files[h] \in DOMAIN path_by_ino
  /\ LET k == path_by_ino[files[h]]
         f == WriteRange([size |-> IF k \in DOMAIN size THEN size[k] ELSE 0,
                          rows |-> rows[k]], w[1], w[2])
     IN  /\ rows' = [rows EXCEPT ![k] = f.rows]
         /\ size' = IF k \in DOMAIN size THEN [size EXCEPT ![k] = f.size] ELSE size

(* write changes the database only when the handle has no buffer.          *)
LEMMA WriteCases ==
  ASSUME NEW h, NEW w, NEW ok, write(h, w[1], w[2], ok)
  PROVE  UNCHANGED db \/ (h \notin DOMAIN open_handles /\ DirectWrite(h, w))
<1>1. CASE h \in DOMAIN open_handles
  BY <1>1 DEF write
<1>2. CASE h \notin DOMAIN open_handles
  BY <1>2 DEF write, DirectWrite
<1> QED
  BY <1>1, <1>2

(* setattr changes the database only by truncating one file.               *)
LEMMA SetattrCases ==
  ASSUME NEW i, NEW n, NEW ok, setattr(i, n, ok)
  PROVE  \/ UNCHANGED db
         \/ \E k \in DOMAIN size :
              LET g == Truncate([size |-> size[k], rows |-> rows[k]], n)
              IN  size' = [size EXCEPT ![k] = g.size] /\ rows' = [rows EXCEPT ![k] = g.rows]
BY DEF setattr

(* Rows that fit their blocks stay so when a buffer replaces some.         *)
LEMMA UpsertFits ==
  ASSUME NEW r \in [BlockNo -> RowOf(Cell)], NEW b, BufOK(b)
  PROVE  UpsertRows(r, b.dirty) \in [BlockNo -> RowOf(Cell)]
BY DEF UpsertRows, BufOK

(* Storing a buffer keeps sizes in the file and rows in their blocks.      *)
LEMMA StoreBlocksType ==
  ASSUME IInv, StoreType, HandleType, NEW h, NEW ok, StoreBlocks(h, ok)
  PROVE  StoreType'
<1>1. CASE Dirty(h) /\ ok
  <2> DEFINE b == open_handles[h]
  <2>1. BufOK(b) /\ b.max_size <= MaxFileSize
    BY <1>1 DEF Dirty, IInv, Buffers, HandleType
  <2>2. /\ rows' = [rows EXCEPT ![b.key] = UpsertRows(rows[b.key], b.dirty)]
        /\ size' = IF b.key \in DOMAIN size
                     THEN [size EXCEPT ![b.key] = BatchSize(size[b.key], b.max_size)]
                     ELSE size
    BY <1>1 DEF StoreBlocks
  <2> HIDE DEF b
  <2>3. rows' \in [Key -> [BlockNo -> RowOf(Cell)]]
    <3>1. b.key \in Key => UpsertRows(rows[b.key], b.dirty) \in [BlockNo -> RowOf(Cell)]
      BY <2>1, UpsertFits DEF StoreType
    <3> QED
      BY <2>2, <3>1 DEF StoreType
  <2>4. b.key \in DOMAIN size => BatchSize(size[b.key], b.max_size) \in 0..MaxFileSize
    BY <2>1, SizeNat DEF StoreType, BatchSize, Larger, BufOK
  <2> QED
    BY <2>2, <2>3, <2>4 DEF StoreType
<1>2. CASE ~(Dirty(h) /\ ok)
  BY <1>2 DEF StoreBlocks, db, StoreType
<1> QED
  BY <1>1, <1>2

(* Every callback keeps the types of the database.                         *)
LEMMA NextStore ==
  ASSUME IInv, Names, StoreType, MapType, HandleType, [Next]_vars
  PROVE  StoreType'
<1> USE SizeNat
<1>1. CASE UNCHANGED db
  BY <1>1 DEF db, StoreType
<1>2. ASSUME NEW k \in Key, create(k)
      PROVE  StoreType'
  BY <1>2 DEF create, StoreType, Put
<1>3. ASSUME NEW k \in Key, unlink(k)
      PROVE  StoreType'
  <2>1. NoRows \in [BlockNo -> RowOf(Cell)]
    BY EmptyRow DEF NoRows
  <2> QED
    BY <1>3, <2>1 DEF unlink, StoreType, Drop
<1>4. ASSUME NEW k \in Key, NEW l \in Key, Moves(k, l)
      PROVE  StoreType'
  <2> DEFINE R == [b \in BlockNo |->
                    IF HasRow(k, b) THEN rows[k][b]
                    ELSE IF l \in DOMAIN size THEN <<>> ELSE rows[l][b]]
  <2>1. NoRows \in [BlockNo -> RowOf(Cell)]
    BY EmptyRow DEF NoRows
  <2>2. R \in [BlockNo -> RowOf(Cell)]
    BY EmptyRow DEF StoreType
  <2>3. rows' = [rows EXCEPT ![k] = NoRows, ![l] = R]
    BY <1>4 DEF Moves
  <2> HIDE DEF R
  <2>4. rows' \in [Key -> [BlockNo -> RowOf(Cell)]]
    BY <2>1, <2>2, <2>3 DEF StoreType
  <2>5. size' = Put(Drop(size, {k}), l, size[k]) /\ k \in DOMAIN size
    BY <1>4 DEF Moves
  <2> QED
    BY <2>4, <2>5 DEF StoreType, Put, Drop
<1>5. ASSUME NEW k \in Key, NEW l \in Key, rename(k, l)
      PROVE  StoreType'
  <2>1. UNCHANGED <<db, maps>> \/ Moves(k, l)
    BY <1>5, RenameMoves DEF IInv
  <2> QED
    BY <1>1, <1>4, <2>1
<1>6. ASSUME NEW h \in DOMAIN files, NEW w \in Writes, DirectWrite(h, w)
      PROVE  StoreType'
  <2> DEFINE k == path_by_ino[files[h]]
             n == IF k \in DOMAIN size THEN size[k] ELSE 0
             f == WriteRange([size |-> n, rows |-> rows[k]], w[1], w[2])
  <2>1. /\ rows' = [rows EXCEPT ![k] = f.rows]
        /\ size' = IF k \in DOMAIN size THEN [size EXCEPT ![k] = f.size] ELSE size
        /\ k \in Key
    BY <1>6 DEF DirectWrite, MapType
  <2>2. n \in 0..MaxFileSize /\ rows[k] \in [BlockNo -> RowOf(Cell)]
    BY <2>1 DEF StoreType
  <2>3. f = [size |-> Larger(n, w[1] + Len(w[2])), rows |-> f.rows]
        /\ f.rows \in [BlockNo -> RowOf(Cell)]
    <3> DEFINE g == [size |-> n, rows |-> rows[k]]
    <3>1. g.size = n /\ g.rows = rows[k] /\ n \in Nat
      BY <2>2
    <3> HIDE DEF g, n, k
    <3>2. LET u == WriteRange(g, w[1], w[2])
          IN  u = [size |-> Larger(g.size, w[1] + Len(w[2])), rows |-> u.rows]
              /\ u.rows \in [BlockNo -> RowOf(Cell)]
      BY <2>2, <3>1, WriteInFile, CellAssumption, WriteRangeCells
    <3> QED
      BY <3>1, <3>2 DEF g
  <2>4. f.size \in 0..MaxFileSize
    BY <2>2, <2>3, WriteInFile DEF Larger
  <2> HIDE DEF f, k, n
  <2> QED
    BY <2>1, <2>3, <2>4 DEF StoreType
<1>7. ASSUME NEW h \in DOMAIN files, NEW w \in Writes, NEW ok, write(h, w[1], w[2], ok)
      PROVE  StoreType'
  BY <1>1, <1>6, <1>7, WriteCases
<1>8. ASSUME NEW h, NEW ok, NEW r,
             read(h, r[1], r[2], ok) \/ flush(h, ok) \/ fsync(h, ok) \/ release(h, ok)
      PROVE  StoreType'
  BY <1>8, StoreBlocksType DEF read, flush, fsync, Sync, release
<1>9. ASSUME NEW i, NEW n \in Sizes, NEW ok, setattr(i, n, ok)
      PROVE  StoreType'
  <2>1. ASSUME NEW k \in DOMAIN size, NEW g,
               g = Truncate([size |-> size[k], rows |-> rows[k]], n),
               size' = [size EXCEPT ![k] = g.size], rows' = [rows EXCEPT ![k] = g.rows]
        PROVE  StoreType'
    <3> DEFINE f == [size |-> size[k], rows |-> rows[k]]
    <3>1. k \in Key /\ size[k] \in Nat /\ rows[k] \in [BlockNo -> RowOf(Cell)] /\ n \in 0..MaxFileSize
      BY SizesAssumption DEF StoreType
    <3>2. f.size \in Nat /\ f.rows \in [BlockNo -> RowOf(Cell)] /\ g = Truncate(f, n)
      BY <2>1, <3>1
    <3> HIDE DEF f
    <3>3. g = [size |-> n, rows |-> g.rows] /\ g.rows \in [BlockNo -> RowOf(Cell)]
      BY <3>1, <3>2, TruncateCells
    <3> QED
      BY <2>1, <3>1, <3>3 DEF StoreType
  <2>2. ASSUME ~UNCHANGED db PROVE StoreType'
    <3>1. PICK k \in DOMAIN size :
            LET g == Truncate([size |-> size[k], rows |-> rows[k]], n)
            IN  size' = [size EXCEPT ![k] = g.size] /\ rows' = [rows EXCEPT ![k] = g.rows]
      BY <1>9, <2>2, SetattrCases
    <3> QED
      BY <2>1, <3>1
  <2> QED
    BY <1>1, <2>2
<1>10. ASSUME NEW k, open(k)
       PROVE  UNCHANGED db
  BY <1>10 DEF open
<1>11. CASE UNCHANGED vars
  BY <1>1, <1>11 DEF vars, db
<1> QED
  BY <1>1, <1>2, <1>3, <1>5, <1>7, <1>8, <1>9, <1>10, <1>11 DEF Next

(* Every callback answers with one of the results the code has.            *)
LEMMA NextReply == ASSUME reply.res \in Res, [Next]_vars PROVE reply'.res \in Res
<1> USE DEF Res
<1>1. ASSUME NEW k, create(k) \/ open(k) \/ unlink(k) PROVE reply'.res \in Res
  BY <1>1 DEF create, open, unlink
<1>2. ASSUME NEW k, NEW l, rename(k, l) PROVE reply'.res \in Res
  BY <1>2 DEF rename
<1>3. ASSUME NEW h, NEW w, NEW ok, write(h, w[1], w[2], ok) PROVE reply'.res \in Res
  BY <1>3 DEF write, Acknowledge
<1>4. ASSUME NEW h, NEW ok, NEW r, read(h, r[1], r[2], ok) PROVE reply'.res \in Res
  BY <1>4 DEF read, ReadReply
<1>5. ASSUME NEW h, NEW ok, flush(h, ok) \/ fsync(h, ok) \/ release(h, ok) PROVE reply'.res \in Res
  BY <1>5 DEF flush, fsync, Sync, release
<1>6. ASSUME NEW i, NEW n, NEW ok, setattr(i, n, ok) PROVE reply'.res \in Res
  BY <1>6 DEF setattr
<1>7. CASE UNCHANGED vars
  BY <1>7 DEF vars
<1> QED
  BY <1>1, <1>2, <1>3, <1>4, <1>5, <1>6, <1>7 DEF Next

(* The types hold at mount, with nothing open and nothing stored.          *)
LEMMA InitTInv == Init => TInv
<1> SUFFICES ASSUME Init PROVE TInv
  OBVIOUS
<1>1. StoreType
  BY EmptyRow DEF Init, StoreType, NoRows
<1>2. MapType /\ HandleType /\ Linked /\ Names
  BY BoundsAssumption DEF Init, MapType, HandleType, Linked, Names
<1>3. reply.res \in Res
  BY DEF Init, Res
<1> QED
  BY <1>1, <1>2, <1>3, InitIInv DEF TInv

(* Every callback keeps the types.                                         *)
LEMMA NextTInv == TInv /\ [Next]_vars => TInv'
BY NextIInv, NextNames, NextMap, NextHandle, NextStore, NextReply DEF TInv

(* The types hold in every reachable state.                                *)
LEMMA AlwaysTInv == Spec => []TInv
BY InitTInv, NextTInv, PTL DEF Spec

(* The inode maps, buffers, handles, sizes and rows of PgFilesystem keep   *)
(* their types, with partial writes, failing flushes and any renames.      *)
THEOREM TypeCorrect == Spec => []TypeOK
BY AlwaysTInv, TInvType, PTL

-----------------------------------------------------------------------------
(* The key of an open file, as long as open files keep their names: a name *)
(* of the file, and the one its handle was opened with.                    *)
KeyOf(h) == path_by_ino[files[h]]

(* The inode of the handle h has a path, the path a file of that inode,    *)
(* and the buffer of h is for that path.                                   *)
AtHome(h) ==
  /\ files[h] \in DOMAIN path_by_ino
  /\ KeyOf(h) \in DOMAIN size
  /\ ino_by_path[KeyOf(h)] = files[h]
  /\ h \in DOMAIN open_handles => open_handles[h].key = KeyOf(h)

(* Every open file is where its handle expects it.                         *)
OpenAtHome == \A h \in DOMAIN files : AtHome(h)

(* Callbacks that change no name.                                          *)
LEMMA HomeKeeps ==
  ASSUME OpenAtHome, UNCHANGED maps, DOMAIN size' = DOMAIN size,
         DOMAIN files' \subseteq DOMAIN files, \A h \in DOMAIN files' : files'[h] = files[h],
         \A h \in DOMAIN open_handles' :
           h \in DOMAIN open_handles /\ open_handles'[h].key = open_handles[h].key
  PROVE  OpenAtHome'
<1> SUFFICES ASSUME NEW h \in DOMAIN files' PROVE AtHome(h)'
  BY DEF OpenAtHome
<1>1. h \in DOMAIN files /\ files'[h] = files[h] /\ AtHome(h)
  BY DEF OpenAtHome
<1> QED
  BY <1>1 DEF AtHome, KeyOf, maps

(* A flush creates and removes no file.                                    *)
LEMMA StoreDomain ==
  ASSUME NEW h, NEW ok, StoreBlocks(h, ok)
  PROVE  DOMAIN size' = DOMAIN size
BY DEF StoreBlocks, db

(* Every callback keeps open files at home, unless it renames or unlinks   *)
(* one.                                                                    *)
LEMMA NextHome ==
  ASSUME ~NameOpsOnOpenFiles, TInv, OpenAtHome, [Next]_vars
  PROVE  OpenAtHome'
<1>1. /\ DOMAIN ino_by_path = DOMAIN size
      /\ \A k \in DOMAIN size : /\ ino_by_path[k] < next_ino /\ ino_by_path[k] \in Nat
                                /\ ino_by_path[k] \in DOMAIN path_by_ino
                                /\ path_by_ino[ino_by_path[k]] = k
      /\ next_ino \in Nat
      /\ DOMAIN open_handles \subseteq DOMAIN files /\ next_fh \notin DOMAIN files
  BY DEF TInv, Names, Linked, IInv, Tables
<1>2. ASSUME NEW h \in DOMAIN files PROVE AtHome(h) /\ files[h] # next_ino
  BY <1>1, <1>2 DEF OpenAtHome, AtHome
<1>3. ASSUME NEW k \in Key, create(k)
      PROVE  OpenAtHome'
  <2>1. /\ ino_by_path' = Put(ino_by_path, k, next_ino)
        /\ path_by_ino' = Put(path_by_ino, next_ino, k)
        /\ size' = Put(size, k, 0) /\ k \notin DOMAIN size
        /\ files' = Put(files, next_fh, next_ino)
        /\ open_handles' = Put(open_handles, next_fh, NewHandle(k))
    BY <1>3 DEF create
  <2>2. ASSUME NEW h \in DOMAIN files' PROVE AtHome(h)'
    <3>1. CASE h = next_fh
      <4>1. files'[h] = next_ino /\ path_by_ino'[next_ino] = k /\ next_ino \in DOMAIN path_by_ino'
            /\ k \in DOMAIN size' /\ ino_by_path'[k] = next_ino
        BY <2>1, <3>1 DEF Put
      <4>2. h \in DOMAIN open_handles' /\ open_handles'[h].key = k
        BY <2>1, <3>1 DEF Put, NewHandle
      <4> QED
        BY <4>1, <4>2 DEF AtHome, KeyOf
    <3>2. CASE h # next_fh
      <4>1. h \in DOMAIN files /\ files'[h] = files[h] /\ AtHome(h) /\ files[h] # next_ino
        BY <1>2, <2>1, <2>2, <3>2 DEF Put
      <4>2. path_by_ino'[files[h]] = KeyOf(h) /\ files[h] \in DOMAIN path_by_ino'
            /\ KeyOf(h) \in DOMAIN size' /\ ino_by_path'[KeyOf(h)] = files[h]
        BY <1>1, <2>1, <4>1 DEF Put, AtHome, KeyOf
      <4>3. h \in DOMAIN open_handles' => h \in DOMAIN open_handles /\ open_handles'[h] = open_handles[h]
        BY <2>1, <3>2 DEF Put
      <4> QED
        BY <4>1, <4>2, <4>3 DEF AtHome, KeyOf
    <3> QED
      BY <3>1, <3>2
  <2> QED
    BY <2>2 DEF OpenAtHome
<1>4. ASSUME NEW k \in Key, open(k)
      PROVE  OpenAtHome'
  <2> DEFINE i == ino_by_path[k]
  <2>1. /\ ino_by_path' = ino_by_path /\ path_by_ino' = path_by_ino /\ size' = size
        /\ k \in DOMAIN size
        /\ files' = Put(files, next_fh, i)
        /\ open_handles' = Put(open_handles, next_fh, NewHandle(path_by_ino[i]))
    BY <1>4 DEF open, db, maps
  <2>2. ASSUME NEW h \in DOMAIN files' PROVE AtHome(h)'
    <3>1. CASE h = next_fh
      <4>1. files'[h] = i /\ path_by_ino'[i] = k /\ i \in DOMAIN path_by_ino'
            /\ k \in DOMAIN size' /\ ino_by_path'[k] = i
        BY <1>1, <2>1, <3>1 DEF Put
      <4>2. h \in DOMAIN open_handles' /\ open_handles'[h].key = path_by_ino[i]
        BY <2>1, <3>1 DEF Put, NewHandle
      <4> QED
        BY <2>1, <4>1, <4>2 DEF AtHome, KeyOf
    <3>2. CASE h # next_fh
      <4>1. h \in DOMAIN files /\ files'[h] = files[h] /\ AtHome(h)
        BY <1>2, <2>1, <2>2, <3>2 DEF Put
      <4>3. h \in DOMAIN open_handles' => h \in DOMAIN open_handles /\ open_handles'[h] = open_handles[h]
        BY <2>1, <3>2 DEF Put
      <4> QED
        BY <2>1, <4>1, <4>3 DEF AtHome, KeyOf
    <3> QED
      BY <3>1, <3>2
  <2> QED
    BY <2>2 DEF OpenAtHome
<1>5. ASSUME NEW k \in Key, unlink(k)
      PROVE  OpenAtHome'
  <2>1. /\ ino_by_path' = Drop(ino_by_path, {k})
        /\ path_by_ino' = Drop(path_by_ino, {ino_by_path[k]})
        /\ size' = Drop(size, {k}) /\ k \in DOMAIN size
        /\ files' = files /\ open_handles' = open_handles
        /\ \A h \in DOMAIN files : files[h] # ino_by_path[k]
    BY <1>5 DEF unlink, handles, Nameable, Closed, IsOpen
  <2>2. ASSUME NEW h \in DOMAIN files PROVE AtHome(h)'
    <3>1. AtHome(h) /\ files[h] # ino_by_path[k] /\ KeyOf(h) # k
      BY <1>2, <2>1 DEF AtHome
    <3> QED
      BY <1>1, <2>1, <3>1 DEF AtHome, KeyOf, Drop
  <2> QED
    BY <2>1, <2>2 DEF OpenAtHome
<1>6. ASSUME NEW k \in Key, NEW l \in Key, Moves(k, l), UNCHANGED <<handles, files>>
      PROVE  OpenAtHome'
  <2>1. /\ ino_by_path' = OneRekeyed(ino_by_path, k, l)
        /\ path_by_ino' = Put(path_by_ino, ino_by_path[k], l)
        /\ size' = Put(Drop(size, {k}), l, size[k]) /\ k \in DOMAIN size
        /\ files' = files /\ open_handles' = open_handles
        /\ \A h \in DOMAIN files : files[h] # ino_by_path[k]
        /\ l \in DOMAIN size => \A h \in DOMAIN files : files[h] # ino_by_path[l]
    BY <1>6 DEF Moves, handles, Nameable, Closed, IsOpen
  <2>2. ASSUME NEW h \in DOMAIN files PROVE AtHome(h)'
    <3>1. AtHome(h) /\ files[h] # ino_by_path[k] /\ KeyOf(h) # k /\ KeyOf(h) # l
      BY <1>2, <2>1 DEF AtHome
    <3>2. path_by_ino'[files[h]] = KeyOf(h) /\ files[h] \in DOMAIN path_by_ino'
      BY <2>1, <3>1 DEF AtHome, KeyOf, Put
    <3>3. KeyOf(h) \in DOMAIN size' /\ ino_by_path'[KeyOf(h)] = files[h]
      BY <1>1, <2>1, <3>1 DEF AtHome, Put, Drop, OneRekeyed
    <3> QED
      BY <2>1, <3>1, <3>2, <3>3 DEF AtHome, KeyOf
  <2> QED
    BY <2>1, <2>2 DEF OpenAtHome
<1>7. ASSUME NEW k \in Key, NEW l \in Key, rename(k, l)
      PROVE  OpenAtHome'
  <2>1. (UNCHANGED <<db, maps>> \/ Moves(k, l)) /\ UNCHANGED <<handles, files>>
    BY <1>7, RenameMoves DEF TInv, IInv
  <2>2. CASE UNCHANGED <<db, maps>>
    BY <2>1, <2>2, HomeKeeps DEF handles, db
  <2> QED
    BY <1>6, <2>1, <2>2
<1>8. ASSUME NEW h, NEW w \in Writes, NEW ok, write(h, w[1], w[2], ok)
      PROVE  OpenAtHome'
  <2>1. UNCHANGED maps /\ files' = files
    BY <1>8 DEF write
  <2>2. DOMAIN size' = DOMAIN size
    BY <1>8, WriteCases DEF DirectWrite, db
  <2>3. ASSUME NEW g \in DOMAIN open_handles'
        PROVE  g \in DOMAIN open_handles /\ open_handles'[g].key = open_handles[g].key
    <3>1. CASE h \in DOMAIN open_handles
      <4>1. open_handles' = [open_handles EXCEPT ![h] = Buffered(open_handles[h], w[1], w[2])]
        BY <1>8, <3>1 DEF write
      <4> QED
        BY <2>3, <4>1, WriteInFile, BufferedIs
    <3>2. CASE h \notin DOMAIN open_handles
      BY <1>8, <2>3, <3>2 DEF write, handles
    <3> QED
      BY <3>1, <3>2
  <2> QED
    BY <2>1, <2>2, <2>3, HomeKeeps
<1>9. ASSUME NEW h, NEW ok, StoreBlocks(h, ok), UNCHANGED maps,
             \/ open_handles' = HandlesAfterFlush(h, ok) /\ files' = files
             \/ /\ open_handles' = Drop(HandlesAfterFlush(h, ok), {h})
                /\ files' = Drop(files, {h})
      PROVE  OpenAtHome'
  <2>1. DOMAIN size' = DOMAIN size
    BY <1>9, StoreDomain
  <2>2. ASSUME NEW g \in DOMAIN open_handles'
        PROVE  g \in DOMAIN open_handles /\ open_handles'[g].key = open_handles[g].key
    <3>1. g \in DOMAIN HandlesAfterFlush(h, ok) /\ open_handles'[g] = HandlesAfterFlush(h, ok)[g]
      BY <1>9, <2>2 DEF Drop
    <3> QED
      BY <1>1, <3>1, FlushedHandles
  <2>3. DOMAIN files' \subseteq DOMAIN files /\ \A g \in DOMAIN files' : files'[g] = files[g]
    BY <1>9 DEF Drop
  <2> QED
    BY <1>9, <2>1, <2>2, <2>3, HomeKeeps
<1>10. ASSUME NEW h, NEW ok, NEW r,
             read(h, r[1], r[2], ok) \/ flush(h, ok) \/ fsync(h, ok) \/ release(h, ok)
      PROVE  OpenAtHome'
  BY <1>9, <1>10 DEF read, flush, fsync, Sync, release
<1>11. ASSUME NEW i, NEW n, NEW ok, setattr(i, n, ok)
       PROVE  OpenAtHome'
  <2>1. UNCHANGED <<maps, handles, files>>
    BY <1>11 DEF setattr
  <2>2. DOMAIN size' = DOMAIN size
    BY <1>11, SetattrCases DEF db
  <2> QED
    BY <2>1, <2>2, HomeKeeps DEF handles
<1>12. CASE UNCHANGED vars
  BY <1>12, HomeKeeps DEF vars, maps
<1> QED
  BY <1>3, <1>4, <1>5, <1>7, <1>8, <1>10, <1>11, <1>12 DEF Next

(* While open files are at home, a flush stores no rows where there is no  *)
(* file, and unlink and rename leave none behind.                          *)
LEMMA NextOrphans ==
  ASSUME TInv, OpenAtHome, NoOrphanRows, [Next]_vars
  PROVE  NoOrphanRows'
<1>1. DOMAIN rows = Key /\ DOMAIN size \subseteq Key /\ DOMAIN open_handles \subseteq DOMAIN files
  BY DEF TInv, StoreType, IInv, Tables
<1>2. ASSUME DOMAIN size \subseteq DOMAIN size', \A k \in Key \ DOMAIN size : rows'[k] = rows[k]
      PROVE  NoOrphanRows'
  BY <1>2 DEF NoOrphanRows
<1>3. ASSUME NEW k \in Key, unlink(k) PROVE NoOrphanRows'
  BY <1>1, <1>3 DEF unlink, Drop, NoOrphanRows
<1>4. ASSUME NEW k \in Key, NEW l \in Key, rename(k, l) PROVE NoOrphanRows'
  <2>1. UNCHANGED <<db, maps>> \/ Moves(k, l)
    BY <1>4, RenameMoves DEF TInv, IInv
  <2>2. CASE UNCHANGED <<db, maps>>
    BY <1>2, <2>2 DEF db
  <2>3. CASE Moves(k, l)
    <3> DEFINE R == [b \in BlockNo |->
                      IF HasRow(k, b) THEN rows[k][b]
                      ELSE IF l \in DOMAIN size THEN <<>> ELSE rows[l][b]]
    <3>1. rows' = [rows EXCEPT ![k] = NoRows, ![l] = R] /\ k # l
          /\ size' = Put(Drop(size, {k}), l, size[k])
      BY <2>3 DEF Moves
    <3> HIDE DEF R
    <3> QED
      BY <1>1, <3>1 DEF NoOrphanRows, Put, Drop
  <2> QED
    BY <2>1, <2>2, <2>3
<1>5. ASSUME NEW h, NEW ok, StoreBlocks(h, ok) PROVE NoOrphanRows'
  <2>1. CASE Dirty(h) /\ ok
    <3>1. open_handles[h].key \in DOMAIN size
      BY <1>1, <2>1 DEF Dirty, OpenAtHome, AtHome
    <3>2. DOMAIN size' = DOMAIN size
      BY <1>5, StoreDomain
    <3>3. rows' = [rows EXCEPT ![open_handles[h].key]
                     = UpsertRows(rows[open_handles[h].key], open_handles[h].dirty)]
      BY <1>5, <2>1 DEF StoreBlocks
    <3> QED
      BY <1>1, <1>2, <3>1, <3>2, <3>3
  <2>2. CASE ~(Dirty(h) /\ ok)
    BY <1>2, <1>5, <2>2 DEF StoreBlocks, db
  <2> QED
    BY <2>1, <2>2
<1>6. ASSUME NEW h \in DOMAIN files, NEW w, NEW ok, write(h, w[1], w[2], ok) PROVE NoOrphanRows'
  <2>1. CASE UNCHANGED db
    BY <1>2, <2>1 DEF db
  <2>2. CASE DirectWrite(h, w)
    <3>1. path_by_ino[files[h]] \in DOMAIN size
      BY DEF OpenAtHome, AtHome, KeyOf
    <3> QED
      BY <1>1, <1>2, <2>2, <3>1 DEF DirectWrite
  <2> QED
    BY <1>6, <2>1, <2>2, WriteCases
<1>7. ASSUME NEW h, NEW ok, NEW r,
             read(h, r[1], r[2], ok) \/ flush(h, ok) \/ fsync(h, ok) \/ release(h, ok)
      PROVE  NoOrphanRows'
  BY <1>5, <1>7 DEF read, flush, fsync, Sync, release
<1>8. ASSUME NEW i, NEW n, NEW ok, setattr(i, n, ok) PROVE NoOrphanRows'
  <2>1. CASE UNCHANGED db
    BY <1>2, <2>1 DEF db
  <2>2. CASE ~UNCHANGED db
    <3>1. PICK k \in DOMAIN size :
            LET g == Truncate([size |-> size[k], rows |-> rows[k]], n)
            IN  size' = [size EXCEPT ![k] = g.size] /\ rows' = [rows EXCEPT ![k] = g.rows]
      BY <1>8, <2>2, SetattrCases
    <3> QED
      BY <1>1, <1>2, <3>1
  <2> QED
    BY <2>1, <2>2
<1>9. ASSUME NEW k, create(k) \/ open(k) PROVE NoOrphanRows'
  BY <1>2, <1>9 DEF create, open, db, Put
<1>10. CASE UNCHANGED vars
  BY <1>2, <1>10 DEF vars
<1> QED
  BY <1>3, <1>4, <1>6, <1>7, <1>8, <1>9, <1>10 DEF Next

(* At mount nothing is open and nothing is stored.                         *)
LEMMA InitHome == Init => OpenAtHome /\ NoOrphanRows
BY DEF Init, OpenAtHome, NoOrphanRows

(* Without renames and unlinks of open files, both hold for ever.          *)
LEMMA AlwaysHome == ASSUME ~NameOpsOnOpenFiles PROVE Spec => [](OpenAtHome /\ NoOrphanRows)
<1>1. TInv /\ OpenAtHome /\ NoOrphanRows /\ [Next]_vars => (OpenAtHome /\ NoOrphanRows)'
  BY NextHome, NextOrphans
<1> QED
  BY <1>1, InitHome, AlwaysTInv, PTL DEF Spec

(* flush_handle upserts blocks without looking for the file, and yet no    *)
(* blocks are left under a path without a file, provided nobody renames or *)
(* unlinks a file that is open; otherwise runs reach such blocks.          *)
THEOREM OrphanTheorem == ASSUME ~NameOpsOnOpenFiles PROVE Spec => []NoOrphanRows
BY AlwaysHome, PTL

-----------------------------------------------------------------------------
(* Files used with discipline: one handle at a time, which nobody renames  *)
(* or unlinks, writes of whole blocks, no truncation and no failing flush. *)
Disciplined ==
  /\ MaxOpen = 1 /\ ~NameOpsOnOpenFiles
  /\ Sizes = {} /\ MaxFail = 0
  /\ \A w \in Writes : w[1] % BS = 0 /\ (w[1] + Len(w[2])) % BS = 0

(* A POSIX file f as the database (size n, rows r) and a buffer (cells p,  *)
(* max_size m) show it together.                                           *)
Shows(f, n, r, p, m) ==
  /\ f.size = Larger(n, m)
  /\ \A j \in Offset : f.cells[j] = IF j \in DOMAIN p THEN p[j] ELSE RowCell(r, j)
  /\ \A j \in Offset : j >= f.size => f.cells[j] = 0

(* At most one file is open, and its handle has a buffer.                  *)
OneOpen == DOMAIN open_handles = DOMAIN files /\ \A g, h \in DOMAIN files : g = h

(* The cells of a buffered block are pending, all of them.                 *)
WholeBlocks(b, p) == \A j \in Offset : j \div BS \in DOMAIN b.dirty => j \in DOMAIN p

(* So for every handle: flushing it stores nothing but written cells.      *)
BuffersWhole == \A h \in DOMAIN open_handles : WholeBlocks(open_handles[h], pend[h])

(* The database alone shows the files that are not open.                   *)
ClosedShows ==
  \A k \in DOMAIN size : Closed(k) =>
    Shows(posix[ino_by_path[k]], size[k], rows[k], NothingPending, 0)

(* Database and buffer together show the file that is open.                *)
OpenShows ==
  \A k \in DOMAIN size : \A h \in DOMAIN files : files[h] = ino_by_path[k] =>
    Shows(posix[ino_by_path[k]], size[k], rows[k], pend[h], open_handles[h].max_size)

(* What the callbacks keep of a disciplined use.                           *)
DInv == /\ OneOpen /\ BuffersWhole /\ ClosedShows /\ OpenShows
        /\ \A k \in DOMAIN size : ino_by_path[k] \in DOMAIN posix

(* Offsets are the numbers below the size of the largest file.             *)
LEMMA OffsetNat == \A j : j \in Offset <=> j \in Nat /\ j < MaxFileSize
BY SizeNat DEF Offset

(* A new file is empty in the database as in POSIX.                        *)
LEMMA ShowsFresh ==
  Shows([size |-> 0, cells |-> [i \in Offset |-> 0]], 0, NoRows, NothingPending, 0)
<1>1. ASSUME NEW j \in Offset PROVE RowCell(NoRows, j) = 0
  <2>1. j \in Nat /\ j \div BS \in BlockNo
    BY OffsetBlock
  <2>2. NoRows[j \div BS] = <<>> /\ Len(<<>>) = 0 /\ j % BS \in Nat
    BY <2>1, EmptyRow, DivMod DEF NoRows
  <2> QED
    BY <2>2 DEF RowCell
<1> QED
  BY <1>1 DEF Shows, NothingPending, Larger

(* A write changes file and buffer alike.                                  *)
LEMMA ShowsWrite ==
  ASSUME NEW f, NEW n \in Nat, NEW r, NEW p, NEW m \in Nat, Shows(f, n, r, p, m),
         NEW off \in Nat, NEW data \in Seq(Cell), Len(data) \in Nat
  PROVE  Shows(PosixWrite(f, off, data), n, r, PendWrite(p, off, data),
               Larger(m, off + Len(data)))
<1> DEFINE g == PosixWrite(f, off, data)
           q == PendWrite(p, off, data)
           e == off + Len(data)
<1>1. /\ f.size = Larger(n, m)
      /\ \A j \in Offset : f.cells[j] = IF j \in DOMAIN p THEN p[j] ELSE RowCell(r, j)
      /\ \A j \in Offset : j >= f.size => f.cells[j] = 0
  BY DEF Shows
<1>2. g.size = Larger(f.size, e)
      /\ \A j \in Offset : g.cells[j] = IF j - off + 1 \in DOMAIN data THEN data[j - off + 1]
                                        ELSE f.cells[j]
  BY DEF PosixWrite
<1>3. ASSUME NEW j \in Nat
      PROVE  j - off + 1 \in DOMAIN data <=> off <= j /\ j < e
  OBVIOUS
<1>4. ASSUME NEW j \in Offset
      PROVE  g.cells[j] = IF j \in DOMAIN q THEN q[j] ELSE RowCell(r, j)
  <2>1. j \in Nat
    BY OffsetNat
  <2>2. CASE j - off + 1 \in DOMAIN data
    <3>1. j \in off..(off + Len(data) - 1)
      BY <1>3, <2>1, <2>2
    <3>2. j \in DOMAIN q /\ q[j] = data[j - off + 1]
      BY <2>2, <3>1 DEF PendWrite
    <3> QED
      BY <1>2, <2>2, <3>2
  <2>3. CASE j - off + 1 \notin DOMAIN data
    <3>1. j \notin off..(off + Len(data) - 1)
      BY <1>3, <2>1, <2>3
    <3>2. (j \in DOMAIN q <=> j \in DOMAIN p) /\ (j \in DOMAIN p => q[j] = p[j])
      BY <2>3, <3>1 DEF PendWrite
    <3> QED
      BY <1>1, <1>2, <2>3, <3>2
  <2> QED
    BY <2>2, <2>3
<1>5. ASSUME NEW j \in Offset, j >= g.size
      PROVE  g.cells[j] = 0
  <2>1. j \in Nat /\ f.size \in Nat
    BY <1>1, OffsetNat DEF Larger
  <2>2. j >= f.size /\ ~(j < e)
    BY <1>2, <1>5, <2>1 DEF Larger
  <2> QED
    BY <1>1, <1>2, <1>3, <2>1, <2>2
<1>6. g.size = Larger(n, Larger(m, e))
  BY <1>1, <1>2 DEF Larger
<1> HIDE DEF g, q
<1>7. Shows(g, n, r, q, Larger(m, e))
  BY <1>4, <1>5, <1>6 DEF Shows
<1> QED
  BY <1>7 DEF g, q

(* A flush moves what the buffer shows into the database.                  *)
LEMMA ShowsFlush ==
  ASSUME NEW b, BufOK(b), b.max_size > 0, NEW p, Holds(b, p), WholeBlocks(b, p),
         NEW f, NEW n \in Nat, NEW r, Shows(f, n, r, p, b.max_size)
  PROVE  Shows(f, BatchSize(n, b.max_size), UpsertRows(r, b.dirty), NothingPending, 0)
<1> DEFINE u == UpsertRows(r, b.dirty)
<1>1. ASSUME NEW j \in Offset
      PROVE  RowCell(u, j) = IF j \in DOMAIN p THEN p[j] ELSE RowCell(r, j)
  <2>1. j \div BS \in BlockNo
    BY OffsetBlock
  <2>2. u[j \div BS] = IF j \div BS \in DOMAIN b.dirty THEN b.dirty[j \div BS] ELSE r[j \div BS]
    BY <2>1 DEF UpsertRows
  <2>3. CASE j \in DOMAIN p
    <3>1. HoldsCell(b, j, p[j])
      BY <2>3 DEF Holds
    <3> QED
      BY <2>2, <2>3, <3>1 DEF HoldsCell, RowCell
  <2>4. CASE j \notin DOMAIN p
    <3>1. j \div BS \notin DOMAIN b.dirty
      BY <2>4 DEF WholeBlocks
    <3> QED
      BY <2>2, <2>4, <3>1 DEF RowCell
  <2> QED
    BY <2>3, <2>4
<1>2. f.size = Larger(BatchSize(n, b.max_size), 0)
  BY DEF Shows, BatchSize, Larger, BufOK
<1> HIDE DEF u
<1>3. Shows(f, BatchSize(n, b.max_size), u, NothingPending, 0)
  BY <1>1, <1>2 DEF Shows, NothingPending
<1> QED
  BY <1>3 DEF u

(* What a POSIX file f answers to a read of len bytes at off.              *)
Answers(d, f, off, len) ==
  LET n == IF off >= f.size THEN 0 ELSE Smaller(len, f.size - off)
  IN  d = [j \in 1..n |-> f.cells[off + j - 1]]

(* get_file_data answers as the POSIX file does when the database shows it.*)
LEMMA ShowsRead ==
  ASSUME NEW f, NEW n \in 0..MaxFileSize, NEW r, Shows(f, n, r, NothingPending, 0),
         NEW off \in Nat, NEW len \in Nat,
         NEW d, d = ReadRange([size |-> n, rows |-> r], off, len)
  PROVE  Answers(d, f, off, len)
<1> SUFFICES ASSUME NEW N, N = IF off >= f.size THEN 0 ELSE Smaller(len, f.size - off)
             PROVE  d = [j \in 1..N |-> f.cells[off + j - 1]]
  BY DEF Answers
<1>1. n \in Nat /\ n <= MaxFileSize /\ f.size = n
  BY SizeNat DEF Shows, Larger
<1>2. CASE off >= n
  <2>1. N = 0 /\ 1..0 = {}
    BY <1>1, <1>2
  <2>2. d = <<>>
    BY <1>2 DEF ReadRange
  <2>3. [j \in 1..N |-> f.cells[off + j - 1]] = <<>>
    BY <2>1
  <2> QED
    BY <2>2, <2>3
<1>3. CASE ~(off >= n)
  <2>1. N = Smaller(len, n - off) /\ N \in Nat /\ off + N <= n
    BY <1>1, <1>3 DEF Smaller
  <2>2. ASSUME NEW j \in 1..N PROVE RowCell(r, off + j - 1) = f.cells[off + j - 1]
    <3>1. off + j - 1 \in Offset
      BY <1>1, <2>1, OffsetNat, SizeNat
    <3>2. off + j - 1 \notin DOMAIN NothingPending
      BY DEF NothingPending
    <3> QED
      BY <3>1, <3>2 DEF Shows
  <2>3. d = [j \in 1..Smaller(len, n - off) |-> RowCell(r, off + j - 1)]
    BY <1>3 DEF ReadRange
  <2> QED
    BY <2>1, <2>2, <2>3
<1> QED
  BY <1>2, <1>3

(* A write of whole blocks covers every block it touches.                  *)
LEMMA WholeWrite ==
  ASSUME Disciplined, NEW w \in Writes, NEW j \in Offset, j \div BS \in Touched(w[1], w[2])
  PROVE  w[1] <= j /\ j < w[1] + Len(w[2])
<1>1. PICK off \in Nat, end \in Nat :
        /\ off = w[1] /\ end = w[1] + Len(w[2]) /\ off < end
        /\ off % BS = 0 /\ end % BS = 0
  BY WriteInFile DEF Disciplined
<1>2. PICK a \in Nat, e \in Nat : a = off \div BS /\ e = end \div BS
                                  /\ off = a * BS /\ end = e * BS
  <2>1. off \div BS \in Nat /\ end \div BS \in Nat
        /\ (off \div BS) * BS \in Nat /\ (end \div BS) * BS \in Nat
    BY DivMod, BlockStart
  <2>2. 0 = off - (off \div BS) * BS /\ 0 = end - (end \div BS) * BS
    BY <1>1, DivMod
  <2> QED
    BY <2>1, <2>2
<1>3. e > 0
  BY <1>1, <1>2, BSFact
<1>4. PICK d \in Nat : e = d + 1
  BY <1>3
<1>5. end = d * BS + BS /\ d * BS \in Nat
  BY <1>2, <1>4, BlockStart
<1>6. (end - 1) \div BS = d
  <2>1. end - 1 \in Nat /\ d * BS <= end - 1 /\ end - 1 < d * BS + BS
    BY <1>5, BSFact
  <2> QED
    BY <2>1, InBlock
<1>7. PICK b \in Nat : b = j \div BS /\ b * BS \in Nat /\ b * BS <= j /\ j < b * BS + BS /\ j \in Nat
  <2>1. j \in Nat
    BY OffsetNat
  <2>2. j \div BS \in Nat /\ (j \div BS) * BS \in Nat /\ j % BS \in Nat /\ j % BS < BS
        /\ j % BS = j - (j \div BS) * BS
    BY <2>1, DivMod, BlockStart
  <2> QED
    BY <2>1, <2>2, BSFact
<1>8. a <= b /\ b <= d
  <2>1. j \div BS \in a..d
    BY <1>1, <1>2, <1>6 DEF Touched
  <2> QED
    BY <1>7, <2>1
<1>9. a * BS <= b * BS
  <2>1. a * BS \in Nat
    BY <1>2
  <2>2. CASE a < b
    BY <1>7, <2>1, <2>2, BlocksApart, BSFact
  <2> QED
    BY <1>7, <1>8, <2>1, <2>2
<1>10. b * BS <= d * BS
  <2>2. CASE b < d
    BY <1>5, <1>7, <2>2, BlocksApart, BSFact
  <2> QED
    BY <1>5, <1>7, <1>8, <2>2
<1>11. off <= j /\ j < end
  <2>1. PICK A \in Nat, B \in Nat, D \in Nat : A = a * BS /\ B = b * BS /\ D = d * BS
    BY <1>2, <1>5, <1>7
  <2>2. off = A /\ A <= B /\ B <= j /\ j < B + BS /\ B <= D /\ end = D + BS
    BY <1>2, <1>5, <1>7, <1>9, <1>10, <2>1
  <2> QED
    BY <1>7, <2>1, <2>2, BSFact
<1> QED
  BY <1>1, <1>11

(* A write of whole blocks leaves a buffer of whole blocks.                *)
LEMMA WriteWhole ==
  ASSUME Disciplined, NEW w \in Writes, NEW b, NEW p, WholeBlocks(b, p)
  PROVE  WholeBlocks(Buffered(b, w[1], w[2]), PendWrite(p, w[1], w[2]))
<1> SUFFICES ASSUME NEW j \in Offset, j \div BS \in DOMAIN Buffered(b, w[1], w[2]).dirty
             PROVE  j \in DOMAIN PendWrite(p, w[1], w[2])
  BY DEF WholeBlocks
<1>1. j \div BS \in DOMAIN b.dirty \/ j \div BS \in Touched(w[1], w[2])
  BY WriteInFile, BufferedIs
<1>2. CASE j \div BS \in DOMAIN b.dirty
  BY <1>2 DEF WholeBlocks, PendWrite
<1>3. CASE j \div BS \in Touched(w[1], w[2])
  <2>1. w[1] <= j /\ j < w[1] + Len(w[2]) /\ j \in Nat
    BY <1>3, WholeWrite, OffsetNat
  <2>2. j \in w[1]..(w[1] + Len(w[2]) - 1)
    BY <2>1, WriteInFile
  <2> QED
    BY <2>2 DEF PendWrite
<1> QED
  BY <1>1, <1>2, <1>3

-----------------------------------------------------------------------------
(* Every callback keeps what files, database and buffers show together.    *)
HInv == TInv /\ OpenAtHome /\ NoOrphanRows /\ DInv

(* Where no failure is allowed, every call of the database succeeds.       *)
LEMMA AlwaysOk ==
  ASSUME Disciplined, HInv
  PROVE  Outcome = {TRUE} /\ \A h : FlushOutcome(h) = {TRUE}
<1>1. fails \in Nat /\ MaxFail = 0
  BY DEF Disciplined, HInv, TInv, IInv
<1>2. Outcome = {TRUE}
  <2>1. ~(fails < MaxFail)
    BY <1>1
  <2> QED
    BY <2>1, Zenon DEF Outcome
<1> QED
  BY <1>2 DEF FlushOutcome

(* What HInv says of the names and the numbers.                            *)
LEMMA HInvFacts ==
  ASSUME HInv
  PROVE  /\ DOMAIN ino_by_path = DOMAIN size /\ DOMAIN size \subseteq Key /\ DOMAIN rows = Key
         /\ \A k \in DOMAIN size : /\ size[k] \in Nat /\ size[k] \in 0..MaxFileSize
                                   /\ ino_by_path[k] \in DOMAIN posix
                                   /\ ino_by_path[k] # next_ino
                                   /\ path_by_ino[ino_by_path[k]] = k
         /\ \A k, l \in DOMAIN size : ino_by_path[k] = ino_by_path[l] => k = l
         /\ DOMAIN pend = DOMAIN files /\ DOMAIN open_handles = DOMAIN files
         /\ \A h \in DOMAIN files :
              /\ KeyOf(h) \in DOMAIN size /\ ino_by_path[KeyOf(h)] = files[h]
              /\ open_handles[h].key = KeyOf(h)
              /\ BufOK(open_handles[h]) /\ Holds(open_handles[h], pend[h])
              /\ WholeBlocks(open_handles[h], pend[h])
         /\ \A g, h \in DOMAIN files : g = h
<1>1. DOMAIN ino_by_path = DOMAIN size /\ DOMAIN size \subseteq Key /\ DOMAIN rows = Key
  BY DEF HInv, TInv, Names, StoreType
<1>2. \A k \in DOMAIN size : size[k] \in Nat /\ size[k] \in 0..MaxFileSize
  BY SizeNat DEF HInv, TInv, StoreType
<1>3. \A k \in DOMAIN size : ino_by_path[k] \in DOMAIN posix
  BY DEF HInv, DInv
<1>4. \A k \in DOMAIN size : ino_by_path[k] # next_ino
  BY <1>1 DEF HInv, TInv, Names
<1>5. \A k \in DOMAIN size : path_by_ino[ino_by_path[k]] = k
  BY <1>1 DEF HInv, TInv, Linked
<1>6. \A k, l \in DOMAIN size : ino_by_path[k] = ino_by_path[l] => k = l
  BY <1>1 DEF HInv, TInv, Names
<1>7. DOMAIN pend = DOMAIN files /\ DOMAIN open_handles = DOMAIN files
      /\ \A g, h \in DOMAIN files : g = h
  BY DEF HInv, TInv, IInv, Tables, DInv, OneOpen
<1>8. \A h \in DOMAIN files : /\ KeyOf(h) \in DOMAIN size /\ ino_by_path[KeyOf(h)] = files[h]
                              /\ open_handles[h].key = KeyOf(h)
  BY <1>7 DEF HInv, OpenAtHome, AtHome
<1>9. \A h \in DOMAIN files : BufOK(open_handles[h]) /\ Holds(open_handles[h], pend[h])
  BY <1>7 DEF HInv, TInv, IInv, Buffers
<1>10. \A h \in DOMAIN files : WholeBlocks(open_handles[h], pend[h])
  BY <1>7 DEF HInv, DInv, BuffersWhole
<1> QED
  BY <1>1, <1>2, <1>3, <1>4, <1>5, <1>6, <1>7, <1>8, <1>9, <1>10

(* A second file is opened only when none is open.                         *)
LEMMA NoneOpen ==
  ASSUME Disciplined, HInv, Cardinality(DOMAIN files) < MaxOpen
  PROVE  DOMAIN files = {}
<1>1. DOMAIN files \subseteq 1..MaxFh
  BY DEF HInv, TInv, HandleType
<1>2. IsFiniteSet(DOMAIN files)
  <2>1. IsFiniteSet(1..MaxFh)
    BY BoundsAssumption, FS_Interval
  <2> QED
    BY <1>1, <2>1, FS_Subset
<1>3. Cardinality(DOMAIN files) \in Nat /\ Cardinality(DOMAIN files) < 1
  BY <1>2, FS_CardinalityType DEF Disciplined
<1>4. Cardinality(DOMAIN files) = 0
  BY <1>3
<1> QED
  BY <1>2, <1>4, FS_EmptySet

(* create keeps the discipline invariant: the new file is empty            *)
(* everywhere.                                                             *)
LEMMA CreateD ==
  ASSUME Disciplined, HInv, NEW k \in Key, create(k)
  PROVE  DInv'
<1> DEFINE fresh == [size |-> 0, cells |-> [i \in Offset |-> 0]]
<1>1. /\ size' = Put(size, k, 0) /\ rows' = rows /\ k \notin DOMAIN size
      /\ open_handles' = Put(open_handles, next_fh, NewHandle(k))
      /\ ino_by_path' = Put(ino_by_path, k, next_ino)
      /\ files' = Put(files, next_fh, next_ino)
      /\ posix' = Put(posix, next_ino, fresh)
      /\ pend' = Put(pend, next_fh, NothingPending)
      /\ Cardinality(DOMAIN files) < MaxOpen
  BY DEF create
<1>2. DOMAIN files = {} /\ DOMAIN open_handles = {} /\ DOMAIN pend = {}
  BY <1>1, NoneOpen, HInvFacts
<1>3. /\ DOMAIN files' = {next_fh} /\ DOMAIN open_handles' = {next_fh}
      /\ files'[next_fh] = next_ino /\ open_handles'[next_fh] = NewHandle(k)
      /\ pend'[next_fh] = NothingPending
  BY <1>1, <1>2 DEF Put
<1>4. /\ DOMAIN size' = DOMAIN size \union {k} /\ size'[k] = 0 /\ ino_by_path'[k] = next_ino
      /\ posix'[next_ino] = fresh /\ next_ino \in DOMAIN posix'
  BY <1>1 DEF Put
<1>5. ASSUME NEW l \in DOMAIN size
      PROVE  /\ size'[l] = size[l] /\ ino_by_path'[l] = ino_by_path[l]
             /\ ino_by_path[l] \in DOMAIN posix'
             /\ posix'[ino_by_path[l]] = posix[ino_by_path[l]]
             /\ ino_by_path[l] # next_ino
  BY <1>1, HInvFacts DEF Put
<1>6. NewHandle(k).max_size = 0 /\ NewHandle(k).dirty = CleanBuffer.dirty
  BY DEF NewHandle
<1>7. OneOpen'
  BY <1>3 DEF OneOpen
<1>8. BuffersWhole'
  BY <1>3, <1>6 DEF BuffersWhole, WholeBlocks, CleanBuffer
<1>9. rows[k] = NoRows
  BY <1>1 DEF HInv, NoOrphanRows
<1>10. OpenShows'
  <2> SUFFICES ASSUME NEW l \in DOMAIN size', NEW h \in DOMAIN files',
                      files'[h] = ino_by_path'[l]
               PROVE  Shows(posix'[ino_by_path'[l]], size'[l], rows'[l], pend'[h],
                            open_handles'[h].max_size)
    BY DEF OpenShows
  <2>1. h = next_fh /\ l = k
    BY <1>3, <1>4, <1>5
  <2> QED
    BY <1>1, <1>3, <1>4, <1>6, <1>9, <2>1, ShowsFresh
<1>11. ClosedShows'
  <2> SUFFICES ASSUME NEW l \in DOMAIN size', Closed(l)'
               PROVE  Shows(posix'[ino_by_path'[l]], size'[l], rows'[l], NothingPending, 0)
    BY DEF ClosedShows
  <2>1. l # k
    BY <1>3, <1>4 DEF Closed, IsOpen
  <2>2. l \in DOMAIN size
    BY <1>4, <2>1
  <2>3. Closed(l)
    BY <1>2 DEF Closed, IsOpen
  <2>4. Shows(posix[ino_by_path[l]], size[l], rows[l], NothingPending, 0)
    BY <2>2, <2>3 DEF HInv, DInv, ClosedShows
  <2> QED
    BY <1>1, <1>5, <2>2, <2>4
<1>12. \A l \in DOMAIN size' : ino_by_path'[l] \in DOMAIN posix'
  BY <1>4, <1>5
<1> QED
  BY <1>7, <1>8, <1>10, <1>11, <1>12 DEF DInv

(* open keeps the discipline invariant: the new buffer is empty.           *)
LEMMA OpenD ==
  ASSUME Disciplined, HInv, NEW k \in Key, open(k)
  PROVE  DInv'
<1>1. PICK i : i = ino_by_path[k]
  OBVIOUS
<1>2. /\ size' = size /\ rows' = rows /\ ino_by_path' = ino_by_path /\ posix' = posix
      /\ k \in DOMAIN size
      /\ open_handles' = Put(open_handles, next_fh, NewHandle(k))
      /\ files' = Put(files, next_fh, i)
      /\ pend' = Put(pend, next_fh, NothingPending)
      /\ Cardinality(DOMAIN files) < MaxOpen
  BY <1>1, HInvFacts DEF open, db, maps
<1>3. DOMAIN files = {} /\ DOMAIN open_handles = {} /\ DOMAIN pend = {}
  BY <1>2, NoneOpen, HInvFacts
<1>4. /\ DOMAIN files' = {next_fh} /\ DOMAIN open_handles' = {next_fh}
      /\ files'[next_fh] = i /\ open_handles'[next_fh] = NewHandle(k)
      /\ pend'[next_fh] = NothingPending
  BY <1>2, <1>3 DEF Put
<1>5. NewHandle(k).max_size = 0 /\ NewHandle(k).dirty = CleanBuffer.dirty
  BY DEF NewHandle
<1>6. OneOpen'
  BY <1>4 DEF OneOpen
<1>7. BuffersWhole'
  BY <1>4, <1>5 DEF BuffersWhole, WholeBlocks, CleanBuffer
<1>8. \A l \in DOMAIN size : Shows(posix[ino_by_path[l]], size[l], rows[l], NothingPending, 0)
  BY <1>3 DEF HInv, DInv, ClosedShows, Closed, IsOpen
<1>9. OpenShows' /\ ClosedShows'
  BY <1>2, <1>4, <1>5, <1>8 DEF OpenShows, ClosedShows
<1> QED
  BY <1>2, <1>6, <1>7, <1>9, HInvFacts DEF DInv

(* write keeps the discipline invariant: file and buffer get the same      *)
(* cells.                                                                  *)
LEMMA WriteD ==
  ASSUME Disciplined, HInv, NEW h \in DOMAIN files, NEW w \in Writes,
         write(h, w[1], w[2], TRUE)
  PROVE  DInv'
<1> DEFINE k == KeyOf(h)
           b == Buffered(open_handles[h], w[1], w[2])
           q == PendWrite(pend[h], w[1], w[2])
<1>1. /\ open_handles' = [open_handles EXCEPT ![h] = b]
      /\ pend' = [pend EXCEPT ![h] = q]
      /\ posix' = [posix EXCEPT ![files[h]] = PosixWrite(posix[files[h]], w[1], w[2])]
      /\ size' = size /\ rows' = rows /\ ino_by_path' = ino_by_path /\ files' = files
  BY HInvFacts DEF write, Acknowledge, db, maps, PendWrite
<1>2. /\ k \in DOMAIN size /\ ino_by_path[k] = files[h] /\ files[h] \in DOMAIN posix
      /\ h \in DOMAIN open_handles /\ h \in DOMAIN pend
      /\ \A g \in DOMAIN files : g = h
  BY HInvFacts
<1>3. Shows(posix[files[h]], size[k], rows[k], pend[h], open_handles[h].max_size)
  BY <1>2 DEF HInv, DInv, OpenShows
<1>4. Shows(PosixWrite(posix[files[h]], w[1], w[2]), size[k], rows[k], q, b.max_size)
  <2>1. b.max_size = Larger(open_handles[h].max_size, w[1] + Len(w[2]))
    BY WriteInFile, BufferedIs
  <2>2. size[k] \in Nat /\ open_handles[h].max_size \in Nat
    BY <1>2, HInvFacts DEF BufOK
  <2>3. PICK f, n, r, p, m : f = posix[files[h]] /\ n = size[k] /\ r = rows[k]
                             /\ p = pend[h] /\ m = open_handles[h].max_size
    OBVIOUS
  <2>4. PICK off, data : off = w[1] /\ data = w[2]
    OBVIOUS
  <2>5. /\ Shows(f, n, r, p, m) /\ n \in Nat /\ m \in Nat
        /\ off \in Nat /\ data \in Seq(Cell) /\ data # <<>> /\ off + Len(data) <= MaxFileSize
    BY <1>3, <2>2, <2>3, <2>4, WriteInFile
  <2>6. Shows(PosixWrite(f, off, data), n, r, PendWrite(p, off, data), Larger(m, off + Len(data)))
    BY <2>5, ShowsWrite
  <2> HIDE DEF b
  <2> QED
    BY <2>1, <2>3, <2>4, <2>6
<1>5. WholeBlocks(b, q)
  BY <1>2, HInvFacts, WriteWhole
<1> HIDE DEF b, q, k
<1>6. OneOpen' /\ BuffersWhole'
  BY <1>1, <1>2, <1>5 DEF HInv, DInv, OneOpen, BuffersWhole
<1>7. OpenShows'
  <2> SUFFICES ASSUME NEW l \in DOMAIN size, NEW g \in DOMAIN files, files[g] = ino_by_path[l]
               PROVE  Shows(posix'[ino_by_path[l]], size[l], rows[l], pend'[g],
                            open_handles'[g].max_size)
    BY <1>1 DEF OpenShows
  <2>1. g = h /\ l = k
    BY <1>2, HInvFacts
  <2> QED
    BY <1>1, <1>2, <1>4, <2>1
<1>8. ClosedShows'
  <2> SUFFICES ASSUME NEW l \in DOMAIN size, Closed(l)'
               PROVE  Shows(posix'[ino_by_path[l]], size[l], rows[l], NothingPending, 0)
    BY <1>1 DEF ClosedShows
  <2>1. ino_by_path[l] # files[h] /\ Closed(l)
    BY <1>1 DEF Closed, IsOpen
  <2>2. posix'[ino_by_path[l]] = posix[ino_by_path[l]]
    BY <1>1, <2>1
  <2> QED
    BY <2>1, <2>2 DEF HInv, DInv, ClosedShows
<1>9. \A l \in DOMAIN size' : ino_by_path'[l] \in DOMAIN posix'
  BY <1>1, HInvFacts
<1> QED
  BY <1>6, <1>7, <1>8, <1>9 DEF DInv

(* flush_handle: afterwards the database alone shows the file.             *)
LEMMA FlushShows ==
  ASSUME HInv, NEW h \in DOMAIN files, StoreBlocks(h, TRUE)
  PROVE  /\ DOMAIN size' = DOMAIN size
         /\ Shows(posix[files[h]], size'[KeyOf(h)], rows'[KeyOf(h)], NothingPending, 0)
         /\ \A l \in DOMAIN size : l # KeyOf(h) => size'[l] = size[l] /\ rows'[l] = rows[l]
<1> DEFINE k == KeyOf(h)
           b == open_handles[h]
<1>1. /\ k \in DOMAIN size /\ k \in DOMAIN rows /\ ino_by_path[k] = files[h] /\ size[k] \in Nat
      /\ h \in DOMAIN open_handles /\ b.key = k
      /\ BufOK(b) /\ Holds(b, pend[h]) /\ WholeBlocks(b, pend[h])
  BY HInvFacts
<1>2. Shows(posix[files[h]], size[k], rows[k], pend[h], b.max_size)
  BY <1>1 DEF HInv, DInv, OpenShows
<1>3. DOMAIN size' = DOMAIN size
  BY StoreDomain
<1>4. CASE Dirty(h)
  <2>1. /\ rows' = [rows EXCEPT ![k] = UpsertRows(rows[k], b.dirty)]
        /\ size' = [size EXCEPT ![k] = BatchSize(size[k], b.max_size)]
    BY <1>1, <1>4 DEF StoreBlocks
  <2>2. b.max_size > 0
    BY <1>4 DEF Dirty
  <2> HIDE DEF b, k
  <2>3. Shows(posix[files[h]], BatchSize(size[k], b.max_size), UpsertRows(rows[k], b.dirty),
              NothingPending, 0)
    BY <1>1, <1>2, <2>2, ShowsFlush
  <2>4. size'[k] = BatchSize(size[k], b.max_size) /\ rows'[k] = UpsertRows(rows[k], b.dirty)
        /\ \A l \in DOMAIN size : l # k => size'[l] = size[l] /\ rows'[l] = rows[l]
    BY <1>1, <2>1
  <2> QED
    BY <1>3, <2>3, <2>4 DEF k
<1>5. CASE ~Dirty(h)
  <2>1. size' = size /\ rows' = rows
    BY <1>5 DEF StoreBlocks, db
  <2>2. pend[h] = NothingPending
    BY <1>1, <1>5, PendingIsDirty DEF HInv, TInv
  <2>3. b.max_size = 0
    BY <1>1, <1>5 DEF Dirty, BufOK
  <2> QED
    BY <1>2, <2>1, <2>2, <2>3
<1> QED
  BY <1>4, <1>5

(* After a successful flush the buffer and the pending cells are gone.     *)
LEMMA FlushBuffers ==
  ASSUME HInv, NEW h \in DOMAIN files
  PROVE  /\ DOMAIN HandlesAfterFlush(h, TRUE) = DOMAIN files
         /\ DOMAIN PendAfterFlush(h, TRUE) = DOMAIN files
         /\ HandlesAfterFlush(h, TRUE)[h].max_size = 0
         /\ PendAfterFlush(h, TRUE)[h] = NothingPending
         /\ WholeBlocks(HandlesAfterFlush(h, TRUE)[h], NothingPending)
<1>1. /\ h \in DOMAIN open_handles /\ h \in DOMAIN pend
      /\ DOMAIN open_handles = DOMAIN files /\ DOMAIN pend = DOMAIN files
      /\ BufOK(open_handles[h]) /\ WholeBlocks(open_handles[h], pend[h])
  BY HInvFacts
<1>2. CASE Dirty(h)
  <2>1. /\ HandlesAfterFlush(h, TRUE)
             = [open_handles EXCEPT ![h] = NewHandle(open_handles[h].key)]
        /\ PendAfterFlush(h, TRUE) = [pend EXCEPT ![h] = NothingPending]
    BY <1>2 DEF HandlesAfterFlush, PendAfterFlush
  <2>2. NewHandle(open_handles[h].key).max_size = 0
        /\ WholeBlocks(NewHandle(open_handles[h].key), NothingPending)
    BY DEF NewHandle, CleanBuffer, WholeBlocks
  <2> QED
    BY <1>1, <2>1, <2>2
<1>3. CASE ~Dirty(h)
  <2>1. HandlesAfterFlush(h, TRUE) = open_handles /\ PendAfterFlush(h, TRUE) = pend
    BY <1>3 DEF HandlesAfterFlush, PendAfterFlush
  <2>2. pend[h] = NothingPending
    BY <1>1, <1>3, PendingIsDirty DEF HInv, TInv
  <2>3. open_handles[h].max_size = 0
    BY <1>1, <1>3 DEF Dirty, BufOK
  <2> QED
    BY <1>1, <2>1, <2>2, <2>3
<1> QED
  BY <1>2, <1>3

(* The file of a handle has been flushed; the others have no handle.       *)
LEMMA FlushedD ==
  ASSUME HInv, NEW h \in DOMAIN files, StoreBlocks(h, TRUE)
  PROVE  /\ DOMAIN size' = DOMAIN size
         /\ \A l \in DOMAIN size :
              Shows(posix[ino_by_path[l]], size'[l], rows'[l], NothingPending, 0)
<1>1. /\ DOMAIN size' = DOMAIN size
      /\ Shows(posix[files[h]], size'[KeyOf(h)], rows'[KeyOf(h)], NothingPending, 0)
      /\ \A l \in DOMAIN size : l # KeyOf(h) => size'[l] = size[l] /\ rows'[l] = rows[l]
  BY FlushShows
<1>2. ino_by_path[KeyOf(h)] = files[h] /\ KeyOf(h) \in DOMAIN size
      /\ \A g \in DOMAIN files : g = h
  BY HInvFacts
<1>3. ASSUME NEW l \in DOMAIN size, l # KeyOf(h)
      PROVE  Shows(posix[ino_by_path[l]], size'[l], rows'[l], NothingPending, 0)
  <2>1. ino_by_path[l] # files[h]
    BY <1>2, <1>3, HInvFacts
  <2>2. Closed(l)
    BY <1>2, <2>1 DEF Closed, IsOpen
  <2> QED
    BY <1>1, <1>3, <2>2 DEF HInv, DInv, ClosedShows
<1> QED
  BY <1>1, <1>2, <1>3

(* flush, fsync and read keep the discipline invariant.                    *)
LEMMA SyncD ==
  ASSUME HInv, NEW h \in DOMAIN files, StoreBlocks(h, TRUE),
         open_handles' = HandlesAfterFlush(h, TRUE), pend' = PendAfterFlush(h, TRUE),
         UNCHANGED <<maps, files, posix>>
  PROVE  DInv'
<1>1. DOMAIN size' = DOMAIN size /\ ino_by_path' = ino_by_path /\ files' = files
      /\ posix' = posix
  BY FlushedD DEF maps
<1>2. \A l \in DOMAIN size :
        Shows(posix[ino_by_path[l]], size'[l], rows'[l], NothingPending, 0)
  BY FlushedD
<1>3. /\ DOMAIN open_handles' = DOMAIN files /\ open_handles'[h].max_size = 0
      /\ pend'[h] = NothingPending /\ WholeBlocks(open_handles'[h], NothingPending)
      /\ \A g \in DOMAIN files : g = h
  BY FlushBuffers, HInvFacts
<1>4. OneOpen' /\ BuffersWhole'
  BY <1>1, <1>3 DEF OneOpen, BuffersWhole
<1>5. OpenShows'
  <2> SUFFICES ASSUME NEW l \in DOMAIN size, NEW g \in DOMAIN files
               PROVE  Shows(posix[ino_by_path[l]], size'[l], rows'[l], pend'[g],
                            open_handles'[g].max_size)
    BY <1>1 DEF OpenShows
  <2>1. g = h
    BY <1>3
  <2> QED
    BY <1>2, <1>3, <2>1
<1>6. ClosedShows'
  BY <1>1, <1>2 DEF ClosedShows
<1> QED
  BY <1>1, <1>4, <1>5, <1>6, HInvFacts DEF DInv

(* release keeps the discipline invariant: it flushes, and closes the      *)
(* file.                                                                   *)
LEMMA ReleaseD ==
  ASSUME HInv, NEW h \in DOMAIN files, release(h, TRUE)
  PROVE  DInv'
<1>1. /\ StoreBlocks(h, TRUE) /\ ino_by_path' = ino_by_path /\ posix' = posix
      /\ open_handles' = Drop(HandlesAfterFlush(h, TRUE), {h}) /\ files' = Drop(files, {h})
  BY DEF release, maps
<1>2. DOMAIN files' = {} /\ DOMAIN open_handles' = {}
  BY <1>1, FlushBuffers, HInvFacts DEF Drop
<1>3. /\ DOMAIN size' = DOMAIN size
      /\ \A l \in DOMAIN size :
           Shows(posix[ino_by_path[l]], size'[l], rows'[l], NothingPending, 0)
  BY <1>1, FlushedD
<1>4. OneOpen' /\ BuffersWhole' /\ OpenShows'
  BY <1>2 DEF OneOpen, BuffersWhole, OpenShows
<1>5. ClosedShows'
  BY <1>1, <1>3 DEF ClosedShows
<1> QED
  BY <1>1, <1>3, <1>4, <1>5, HInvFacts DEF DInv

(* The names change, and with each file its size, rows and inode move.     *)
LEMMA MovedD ==
  ASSUME HInv, UNCHANGED <<handles, files, posix, pend>>,
         \A l \in DOMAIN size' : \E k \in DOMAIN size :
           ino_by_path'[l] = ino_by_path[k] /\ size'[l] = size[k] /\ rows'[l] = rows[k]
  PROVE  DInv'
<1>1. files' = files /\ posix' = posix /\ pend' = pend /\ open_handles' = open_handles
  BY DEF handles
<1>2. OneOpen' /\ BuffersWhole'
  BY <1>1 DEF HInv, DInv, OneOpen, BuffersWhole
<1>3. OpenShows'
  <2> SUFFICES ASSUME NEW l \in DOMAIN size', NEW g \in DOMAIN files, files[g] = ino_by_path'[l]
               PROVE  Shows(posix[ino_by_path'[l]], size'[l], rows'[l], pend[g],
                            open_handles[g].max_size)
    BY <1>1 DEF OpenShows
  <2> PICK k \in DOMAIN size :
        ino_by_path'[l] = ino_by_path[k] /\ size'[l] = size[k] /\ rows'[l] = rows[k]
    OBVIOUS
  <2> QED
    BY DEF HInv, DInv, OpenShows
<1>4. ClosedShows'
  <2> SUFFICES ASSUME NEW l \in DOMAIN size', Closed(l)'
               PROVE  Shows(posix[ino_by_path'[l]], size'[l], rows'[l], NothingPending, 0)
    BY <1>1 DEF ClosedShows
  <2> PICK k \in DOMAIN size :
        ino_by_path'[l] = ino_by_path[k] /\ size'[l] = size[k] /\ rows'[l] = rows[k]
    OBVIOUS
  <2>1. Closed(k)
    BY <1>1 DEF Closed, IsOpen
  <2> QED
    BY <2>1 DEF HInv, DInv, ClosedShows
<1>5. \A l \in DOMAIN size' : ino_by_path'[l] \in DOMAIN posix'
  BY <1>1, HInvFacts
<1> QED
  BY <1>2, <1>3, <1>4, <1>5 DEF DInv

(* rename keeps the discipline invariant: rows, size and inode move        *)
(* together.                                                               *)
LEMMA RenameD ==
  ASSUME HInv, NEW k \in Key, NEW l \in Key, rename(k, l)
  PROVE  DInv'
<1>1. UNCHANGED <<handles, files, posix, pend>> /\ (UNCHANGED <<db, maps>> \/ Moves(k, l))
  BY RenameMoves DEF HInv, TInv, IInv
<1>2. CASE UNCHANGED <<db, maps>>
  <2>1. \A m \in DOMAIN size' : \E j \in DOMAIN size :
          ino_by_path'[m] = ino_by_path[j] /\ size'[m] = size[j] /\ rows'[m] = rows[j]
    BY <1>2 DEF db, maps
  <2> QED
    BY <1>1, <2>1, MovedD
<1>3. CASE Moves(k, l)
  <2> DEFINE R == [b \in BlockNo |->
                    IF HasRow(k, b) THEN rows[k][b]
                    ELSE IF l \in DOMAIN size THEN <<>> ELSE rows[l][b]]
  <2>1. /\ k \in DOMAIN size /\ k # l
        /\ size' = Put(Drop(size, {k}), l, size[k])
        /\ ino_by_path' = OneRekeyed(ino_by_path, k, l)
        /\ rows' = [rows EXCEPT ![k] = NoRows, ![l] = R]
    BY <1>3 DEF Moves
  <2>2. R = rows[k]
    <3>1. ASSUME NEW b \in BlockNo, ~HasRow(k, b)
          PROVE  rows[k][b] = IF l \in DOMAIN size THEN <<>> ELSE rows[l][b]
      <4>1. l \notin DOMAIN size => rows[l] = NoRows
        BY DEF HInv, NoOrphanRows
      <4> QED
        BY <3>1, <4>1 DEF HasRow, NoRows
    <3>2. rows[k] = [b \in BlockNo |-> rows[k][b]]
      BY DEF HInv, TInv, StoreType
    <3>3. \A b \in BlockNo : R[b] = rows[k][b]
      BY <3>1
    <3> QED
      BY <3>2, <3>3
  <2> HIDE DEF R
  <2>3. ASSUME NEW m \in DOMAIN size'
        PROVE  \E j \in DOMAIN size :
                 ino_by_path'[m] = ino_by_path[j] /\ size'[m] = size[j] /\ rows'[m] = rows[j]
    <3>1. CASE m = l
      <4>1. ino_by_path'[m] = ino_by_path[k] /\ size'[m] = size[k] /\ rows'[m] = rows[k]
        BY <2>1, <2>2, <3>1, HInvFacts DEF Put, Drop, OneRekeyed
      <4> QED
        BY <2>1, <4>1
    <3>2. CASE m # l
      <4>1. m \in DOMAIN size /\ m # k /\ size'[m] = size[m] /\ rows'[m] = rows[m]
        BY <2>1, <2>3, <3>2, HInvFacts DEF Put, Drop
      <4>2. ino_by_path'[m] = ino_by_path[m]
        BY <2>1, <3>2, <4>1, HInvFacts DEF OneRekeyed
      <4> QED
        BY <4>1, <4>2
    <3> QED
      BY <3>1, <3>2
  <2> QED
    BY <1>1, <2>3, MovedD
<1> QED
  BY <1>1, <1>2, <1>3

(* unlink keeps the discipline invariant.                                  *)
LEMMA UnlinkD ==
  ASSUME HInv, NEW k \in Key, unlink(k)
  PROVE  DInv'
<1>1. /\ UNCHANGED <<handles, files, posix, pend>>
      /\ size' = Drop(size, {k}) /\ ino_by_path' = Drop(ino_by_path, {k})
      /\ rows' = [rows EXCEPT ![k] = NoRows]
  BY DEF unlink
<1>2. ASSUME NEW m \in DOMAIN size'
      PROVE  /\ m \in DOMAIN size /\ ino_by_path'[m] = ino_by_path[m]
             /\ size'[m] = size[m] /\ rows'[m] = rows[m]
  BY <1>1, <1>2, HInvFacts DEF Drop
<1> QED
  BY <1>1, <1>2, MovedD

(* Every callback keeps the discipline invariant.                          *)
LEMMA NextD ==
  ASSUME Disciplined, HInv, [Next]_vars
  PROVE  DInv'
<1>1. ASSUME NEW k \in Key, create(k) \/ open(k) \/ unlink(k) PROVE DInv'
  BY <1>1, CreateD, OpenD, UnlinkD
<1>2. ASSUME NEW k \in Key, NEW l \in Key, rename(k, l) PROVE DInv'
  BY <1>2, RenameD
<1>3. ASSUME NEW h \in DOMAIN files, NEW w \in Writes, NEW ok \in Outcome, write(h, w[1], w[2], ok)
      PROVE  DInv'
  <2>1. ok = TRUE
    BY AlwaysOk
  <2> QED
    BY <1>3, <2>1, WriteD
<1>4. ASSUME NEW h \in DOMAIN files, NEW ok \in FlushOutcome(h), NEW r \in Reads,
             read(h, r[1], r[2], ok)
      PROVE  DInv'
  <2>1. ok = TRUE
    BY AlwaysOk
  <2> QED
    BY <1>4, <2>1, SyncD DEF read
<1>5. ASSUME NEW h \in DOMAIN files, NEW ok \in FlushOutcome(h), flush(h, ok) \/ fsync(h, ok)
      PROVE  DInv'
  <2>1. ok = TRUE
    BY AlwaysOk
  <2> QED
    BY <1>5, <2>1, SyncD DEF flush, fsync, Sync
<1>6. ASSUME NEW h \in DOMAIN files, NEW ok \in FlushOutcome(h), release(h, ok)
      PROVE  DInv'
  <2>1. ok = TRUE
    BY AlwaysOk
  <2> QED
    BY <1>6, <2>1, ReleaseD
<1>7. ASSUME NEW i \in KernelInodes, NEW n \in Sizes, NEW ok, setattr(i, n, ok) PROVE DInv'
  BY DEF Disciplined
<1>8. CASE UNCHANGED vars
  <2>1. UNCHANGED <<handles, files, posix, pend>> /\ size' = size /\ rows' = rows
        /\ ino_by_path' = ino_by_path
    BY <1>8 DEF vars, handles
  <2> QED
    BY <2>1, MovedD
<1> QED
  BY <1>1, <1>2, <1>3, <1>4, <1>5, <1>6, <1>7, <1>8 DEF Next

(* Every callback keeps the whole invariant.                               *)
LEMMA NextHInv == Disciplined /\ HInv /\ [Next]_vars => HInv'
BY NextTInv, NextHome, NextOrphans, NextD DEF HInv, Disciplined

(* The whole invariant holds at mount.                                     *)
LEMMA InitHInv == Init => HInv
<1>1. Init => DInv
  BY DEF Init, DInv, OneOpen, BuffersWhole, ClosedShows, OpenShows
<1> QED
  BY <1>1, InitTInv, InitHome DEF HInv

(* Under discipline the whole invariant holds in every reachable state.    *)
LEMMA AlwaysHInv == ASSUME Disciplined PROVE Spec => []HInv
BY InitHInv, NextHInv, PTL DEF Spec

-----------------------------------------------------------------------------
(* Whatever the block size, the writes and the number of files: a file     *)
(* used by one handle at a time, in whole blocks, is after release (which  *)
(* flushes its buffer) what POSIX says, in the database where every other  *)
(* mount reads it.                                                         *)
THEOREM ClosedTheorem == ASSUME Disciplined PROVE Spec => []ClosedFileIsPosix
<1>1. HInv => ClosedFileIsPosix
  <2> SUFFICES ASSUME HInv, NEW k \in DOMAIN size, Closed(k)
               PROVE  /\ size[k] = posix[ino_by_path[k]].size
                      /\ \A i \in Offset : Visible(k, i) = posix[ino_by_path[k]].cells[i]
    BY DEF ClosedFileIsPosix
  <2>1. Shows(posix[ino_by_path[k]], size[k], rows[k], NothingPending, 0) /\ size[k] \in Nat
    BY HInvFacts DEF HInv, DInv, ClosedShows
  <2>2. posix[ino_by_path[k]].size = size[k]
    BY <2>1 DEF Shows, Larger
  <2>3. ASSUME NEW i \in Offset PROVE Visible(k, i) = posix[ino_by_path[k]].cells[i]
    <3>1. i \in Nat
      BY OffsetNat
    <3> QED
      BY <2>1, <2>2, <3>1 DEF Shows, Visible, NothingPending
  <2> QED
    BY <2>2, <2>3
<1> QED
  BY <1>1, AlwaysHInv, PTL

(* read flushes the buffer first, so its answer is what the file shows.    *)
LEMMA ReadStep ==
  ASSUME Disciplined, HInv, NEW h \in DOMAIN files, NEW r \in Reads, read(h, r[1], r[2], TRUE)
  PROVE  ReadsSeeAckedWrites'
<1> r[1] \in Nat /\ r[2] \in Nat
  BY ReadsAssumption
<1>1. PICK i, k, off, len :
        i = files[h] /\ k = path_by_ino[i] /\ off = r[1] /\ len = r[2]
  OBVIOUS
<1>2. /\ StoreBlocks(h, TRUE) /\ posix' = posix /\ files' = files
      /\ reply' = IF i \in DOMAIN path_by_ino /\ k \in DOMAIN size
                    THEN ReadReply(h, off, len, "OK",
                           ReadRange([size |-> size'[k], rows |-> rows'[k]], off, len))
                    ELSE ReadReply(h, off, len, "ENOENT", <<>>)
  BY <1>1 DEF read
<1>3. k = KeyOf(h) /\ k \in DOMAIN size /\ i \in DOMAIN path_by_ino /\ ino_by_path[k] = i
  BY <1>1 DEF HInv, OpenAtHome, AtHome, KeyOf
<1>4. PICK d : /\ reply' = ReadReply(h, off, len, "OK", d)
               /\ d = ReadRange([size |-> size'[k], rows |-> rows'[k]], off, len)
  BY <1>2, <1>3
<1>5. reply'.fh = h /\ reply'.off = off /\ reply'.len = len /\ reply'.data = d
  BY <1>4 DEF ReadReply
<1>6. Shows(posix[i], size'[k], rows'[k], NothingPending, 0)
  BY <1>2, <1>3, FlushedD
<1>7. size'[k] \in 0..MaxFileSize
  <2>1. StoreType'
    BY <1>2, StoreBlocksType DEF HInv, TInv
  <2>2. k \in DOMAIN size'
    BY <1>2, <1>3, StoreDomain
  <2> QED
    BY <2>1, <2>2 DEF StoreType
<1>8. PICK f : f = posix[i]
  OBVIOUS
<1>9. Answers(d, f, off, len)
  <2>1. PICK n, t : n \in 0..MaxFileSize /\ n = size'[k] /\ t = rows'[k]
    BY <1>7
  <2>2. Shows(f, n, t, NothingPending, 0) /\ d = ReadRange([size |-> n, rows |-> t], off, len)
    BY <1>4, <1>6, <1>8, <2>1
  <2>3. off \in Nat /\ len \in Nat
    BY <1>1
  <2> QED
    BY <2>1, <2>2, <2>3, ShowsRead
<1>10. posix'[files'[reply'.fh]] = f
  BY <1>1, <1>2, <1>5, <1>8
<1> QED
  BY <1>5, <1>9, <1>10 DEF ReadsSeeAckedWrites, Answers

(* No other callback answers a read.                                       *)
LEMMA NextReads ==
  ASSUME Disciplined, HInv, ReadsSeeAckedWrites, [Next]_vars
  PROVE  ReadsSeeAckedWrites'
<1>1. CASE reply'.op # "read"
  BY <1>1 DEF ReadsSeeAckedWrites
<1>2. ASSUME NEW k, create(k) \/ open(k) \/ unlink(k) PROVE reply'.op # "read"
  BY <1>2 DEF create, open, unlink
<1>3. ASSUME NEW k, NEW l, rename(k, l) PROVE reply'.op # "read"
  BY <1>3 DEF rename
<1>4. ASSUME NEW h, NEW w, NEW ok, write(h, w[1], w[2], ok) PROVE reply'.op # "read"
  BY <1>4 DEF write, Acknowledge
<1>5. ASSUME NEW h \in DOMAIN files, NEW ok \in FlushOutcome(h), NEW r \in Reads,
             read(h, r[1], r[2], ok)
      PROVE  ReadsSeeAckedWrites'
  <2>1. ok = TRUE
    BY AlwaysOk
  <2> QED
    BY <1>5, <2>1, ReadStep
<1>6. ASSUME NEW h, NEW ok, flush(h, ok) \/ fsync(h, ok) \/ release(h, ok) PROVE reply'.op # "read"
  BY <1>6 DEF flush, fsync, Sync, release
<1>7. ASSUME NEW i, NEW n, NEW ok, setattr(i, n, ok) PROVE reply'.op # "read"
  BY <1>7 DEF setattr
<1>8. CASE UNCHANGED vars
  BY <1>8 DEF vars, ReadsSeeAckedWrites
<1> QED
  BY <1>1, <1>2, <1>3, <1>4, <1>5, <1>6, <1>7, <1>8 DEF Next

(* read_file after writes that were acknowledged and are still buffered    *)
(* returns exactly the written cells, zeros in the gaps, and nothing past  *)
(* the end.                                                                *)
THEOREM ReadsTheorem == ASSUME Disciplined PROVE Spec => []ReadsSeeAckedWrites
<1>1. Init => ReadsSeeAckedWrites
  BY DEF Init, ReadsSeeAckedWrites
<1>2. HInv /\ ReadsSeeAckedWrites /\ [Next]_vars => ReadsSeeAckedWrites'
  BY NextReads
<1> QED
  BY <1>1, <1>2, AlwaysHInv, PTL DEF Spec
=============================================================================
