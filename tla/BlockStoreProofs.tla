-------------------------- MODULE BlockStoreProofs --------------------------
(* The block store is a file: for every block size, every payload and      *)
(* every size.                                                             *)
EXTENDS BlockStore, BlocksProofs

(* The rows of BlockStore are the rows the lemmas about Blocks speak of.   *)
LEMMA RowIsRowOf == Row = RowOf(Cell)
<1>1. ASSUME NEW r \in Row PROVE r \in RowOf(Cell)
  <2>1. PICK n \in 0..BS : r \in [1..n -> Cell]
    BY DEF Row
  <2>2. r \in Seq(Cell) /\ Len(r) = n
    BY <2>1, BSFact
  <2> QED
    BY <2>1, <2>2, BSFact DEF RowOf
<1>2. ASSUME NEW r \in RowOf(Cell) PROVE r \in Row
  <2>1. r \in [1..Len(r) -> Cell] /\ Len(r) \in 0..BS
    BY <1>2, RowLen
  <2> QED
    BY <2>1 DEF Row
<1> QED
  BY <1>1, <1>2

(* An offset is a number below the largest size of a file.                 *)
LEMMA Sized == MaxFileSize \in Nat /\ \A i : i \in Offset <=> i \in Nat /\ i < MaxFileSize
<1>1. MaxFileSize \in Nat
  BY BSFact, LastBlockAssumption, BlockStart DEF MaxFileSize
<1> QED
  BY <1>1 DEF Offset

(* TypeOK, with the rows as the lemmas about Blocks name them.             *)
FileOK ==
  /\ file = [size |-> file.size, rows |-> file.rows]
  /\ file.size \in Nat /\ file.size <= MaxFileSize
  /\ file.rows \in [BlockNo -> RowOf(Cell)]

(* TypeOK is FileOK and the types of the two other variables.              *)
LEMMA FileTypes == TypeOK <=> FileOK /\ out \in Seq(Cell) /\ kept \in BOOLEAN
<1>1. file \in [size : 0..MaxFileSize, rows : [BlockNo -> Row]] <=> FileOK
  BY RowIsRowOf, Sized DEF FileOK
<1> QED
  BY <1>1, Zenon DEF TypeOK

(* The same of the state after a step.                                     *)
LEMMA FileTypesNext == TypeOK' <=> FileOK' /\ out' \in Seq(Cell) /\ kept' \in BOOLEAN
<1> DEFINE Types == FileOK /\ out \in Seq(Cell) /\ kept \in BOOLEAN
<1>1. TypeOK <=> Types
  BY FileTypes
<1> HIDE DEF Types
<1>2. TypeOK' <=> Types'
  BY <1>1, PTL
<1> QED
  BY <1>2 DEF Types

(* What a reader finds is a cell.                                          *)
LEMMA CellIsCell ==
  ASSUME NEW rows \in [BlockNo -> RowOf(Cell)], NEW i \in Offset
  PROVE  RowCell(rows, i) \in Cell
<1>1. PICK b \in BlockNo, r \in 0..(BS - 1) : i \div BS = b /\ i % BS = r
  BY OffsetBlock
<1>2. rows[b] \in Seq(Cell) /\ Len(rows[b]) \in Nat
  BY RowLen
<1>3. r < Len(rows[b]) => r + 1 \in 1..Len(rows[b])
  BY <1>2, BSFact
<1> QED
  BY <1>1, <1>2, <1>3, CellAssumption DEF RowCell

(* Where no row reaches past m, a reader finds zeros from m on.            *)
LEMMA ZeroPast ==
  ASSUME NEW rows \in [BlockNo -> RowOf(Cell)], NEW m \in Nat,
         \A b \in BlockNo : rows[b] # <<>> => b * BS + Len(rows[b]) <= m,
         NEW i \in Offset, i >= m
  PROVE  RowCell(rows, i) = 0
<1>1. PICK b \in BlockNo, r \in 0..(BS - 1) :
        i \div BS = b /\ i % BS = r /\ i = b * BS + r
  BY OffsetBlock
<1>2. Len(rows[b]) \in Nat /\ (Len(rows[b]) = 0 <=> rows[b] = <<>>)
  BY RowLen
<1>3. ~(r < Len(rows[b]))
  <2> DEFINE B == b * BS
  <2>1. B \in Nat /\ r \in Int /\ i = B + r /\ i \in Nat
    BY <1>1, BlockStart, BSFact, OffsetBlock DEF BlockNo
  <2>2. rows[b] # <<>> => B + Len(rows[b]) <= m
    OBVIOUS
  <2> HIDE DEF B
  <2>3. CASE rows[b] = <<>>
    BY <1>1, <1>2, <2>3, BSFact
  <2>4. CASE rows[b] # <<>>
    BY <1>2, <2>1, <2>2, <2>4
  <2> QED
    BY <2>3, <2>4
<1> QED
  BY <1>1, <1>3 DEF RowCell

-----------------------------------------------------------------------------
IInv == TypeOK /\ NoHiddenTail

(* Every initial state satisfies the inductive invariant.                  *)
LEMMA InitIInv == Init => IInv
<1> SUFFICES ASSUME Init
             PROVE  IInv
  OBVIOUS
<1>1. file = [size |-> 0, rows |-> [b \in BlockNo |-> <<>>]] /\ out = <<>> /\ kept = FALSE
  BY DEF Init, EmptyFile, NoRows
<1>2. FileOK
  BY <1>1, EmptyRow, Sized DEF FileOK
<1>3. out \in Seq(Cell)
  BY <1>1
<1>4. TypeOK
  BY <1>1, <1>2, <1>3, FileTypes
<1>5. NoHiddenTail
  BY <1>1 DEF NoHiddenTail
<1> QED
  BY <1>4, <1>5 DEF IInv

(* write_range keeps the invariant.                                        *)
LEMMA WriteKeeps ==
  ASSUME IInv, NEW off \in Offset, NEW data \in Data, write_range(off, data)
  PROVE  IInv'
<1>1. FileOK /\ out \in Seq(Cell) /\ kept \in BOOLEAN /\ NoHiddenTail
  BY FileTypes DEF IInv
<1>2. /\ data \in Seq(Cell) /\ data # <<>> /\ off \in Nat /\ Len(data) \in Nat
      /\ off + Len(data) <= MaxFileSize /\ file' = WriteRange(file, off, data)
      /\ out' = <<>> /\ kept' = kept
  BY DataAssumption, Sized DEF write_range
<1>3. /\ file' = [size |-> Larger(file.size, off + Len(data)), rows |-> file'.rows]
      /\ file'.rows \in [BlockNo -> RowOf(Cell)]
      /\ \A b \in BlockNo, m \in Nat :
           /\ file.rows[b] # <<>> => b * BS + Len(file.rows[b]) <= m
           /\ file'.rows[b] # <<>>
           => b * BS + Len(file'.rows[b]) <= Larger(m, off + Len(data))
  <2>1. file.size \in Nat /\ file.rows \in [BlockNo -> RowOf(Cell)] /\ 0 \in Cell
    BY <1>1, CellAssumption DEF FileOK
  <2> QED
    BY <1>2, <2>1, WriteRangeCells
<1>4. file'.size = Larger(file.size, off + Len(data))
  BY <1>3
<1>5. FileOK'
  BY <1>1, <1>2, <1>3, <1>4, Sized DEF FileOK, Larger
<1>6. NoHiddenTail'
  BY <1>1, <1>2, <1>3, <1>4 DEF NoHiddenTail, FileOK
<1>7. out' \in Seq(Cell)
  BY <1>2
<1>8. TypeOK'
  BY <1>1, <1>2, <1>5, <1>7, FileTypesNext
<1> QED
  BY <1>6, <1>8 DEF IInv

(* truncate keeps the invariant.                                           *)
LEMMA TruncateKeeps ==
  ASSUME IInv, NEW n \in Sizes, truncate(n)
  PROVE  IInv'
<1>1. FileOK /\ out \in Seq(Cell) /\ kept \in BOOLEAN /\ NoHiddenTail
  BY FileTypes DEF IInv
<1>2. /\ n \in Nat /\ n <= MaxFileSize /\ file' = Truncate(file, n) /\ out' = <<>>
      /\ kept' = (kept \/ KeepsRow(n))
  BY SizesAssumption, Sized DEF truncate
<1>3. /\ file' = [size |-> n, rows |-> file'.rows]
      /\ file'.rows \in [BlockNo -> RowOf(Cell)]
      /\ ~(n < file.size) => file'.rows = file.rows
      /\ n < file.size => \A b \in BlockNo : file'.rows[b] # <<>> =>
           \/ b * BS + Len(file'.rows[b]) <= n
           \/ b = n \div BS /\ n % BS = 0 /\ file'.rows[b] = file.rows[b]
  <2>1. file.size \in Nat /\ file.rows \in [BlockNo -> RowOf(Cell)]
    BY <1>1 DEF FileOK
  <2> QED
    BY <1>2, <2>1, TruncateCells
<1>4. file'.size = n
  BY <1>3
<1>5. FileOK'
  BY <1>2, <1>3, <1>4 DEF FileOK
<1>6. NoHiddenTail'
  <2> SUFFICES ASSUME ~kept', NEW b \in BlockNo, file'.rows[b] # <<>>
               PROVE  b * BS + Len(file'.rows[b]) <= n
    BY <1>4 DEF NoHiddenTail
  <2>1. ~kept /\ ~KeepsRow(n)
    BY <1>2, Zenon
  <2>2. CASE n < file.size
    BY <1>3, <2>1, <2>2 DEF KeepsRow
  <2>3. CASE ~(n < file.size)
    <3> DEFINE B == b * BS
    <3>1. B + Len(file.rows[b]) <= file.size /\ file'.rows[b] = file.rows[b]
      BY <1>1, <1>3, <2>1, <2>3 DEF NoHiddenTail
    <3>2. B \in Nat /\ Len(file.rows[b]) \in Nat /\ file.size \in Nat
      BY <1>1, BlockStart, RowLen DEF FileOK, BlockNo
    <3> HIDE DEF B
    <3>3. B + Len(file'.rows[b]) <= n
      BY <1>2, <2>3, <3>1, <3>2
    <3> QED
      BY <3>3 DEF B
  <2> QED
    BY <2>2, <2>3
<1>7. out' \in Seq(Cell) /\ kept' \in BOOLEAN
  <2>1. kept' \in BOOLEAN
    BY <1>2, Zenon
  <2> QED
    BY <1>2, <2>1
<1>8. TypeOK'
  BY <1>5, <1>7, FileTypesNext
<1> QED
  BY <1>6, <1>8 DEF IInv

(* read_range returns cells of the file.                                   *)
LEMMA ReadCells ==
  ASSUME FileOK, NEW off \in Nat, NEW len \in Nat
  PROVE  ReadRange(file, off, len) \in Seq(Cell)
<1>1. CASE off >= file.size
  BY <1>1 DEF ReadRange
<1>2. CASE off < file.size
  <2> DEFINE m == Smaller(len, file.size - off)
  <2>1. m \in Nat /\ m <= file.size - off
    BY <1>2 DEF Smaller, FileOK
  <2>2. ASSUME NEW k \in 1..m
        PROVE  RowCell(file.rows, off + k - 1) \in Cell
    <3>1. off + k - 1 \in Offset
      BY <2>1, Sized DEF FileOK
    <3> QED
      BY <3>1, CellIsCell DEF FileOK
  <2>3. ReadRange(file, off, len) = [k \in 1..m |-> RowCell(file.rows, off + k - 1)]
    BY <1>2 DEF ReadRange, FileOK
  <2> HIDE DEF m
  <2> QED
    BY <2>1, <2>2, <2>3
<1> QED
  BY <1>1, <1>2 DEF FileOK

(* Every step preserves the inductive invariant.                           *)
LEMMA NextIInv == IInv /\ [Next]_vars => IInv'
<1> SUFFICES ASSUME IInv, [Next]_vars
             PROVE  IInv'
  OBVIOUS
<1>1. ASSUME NEW off \in Offset, NEW data \in Data, write_range(off, data)
      PROVE  IInv'
  BY <1>1, WriteKeeps
<1>2. ASSUME NEW n \in Sizes, truncate(n)
      PROVE  IInv'
  BY <1>2, TruncateKeeps
<1>3. ASSUME NEW off \in Offset, NEW len \in Lens, read_range(off, len)
      PROVE  IInv'
  <2>1. out' = ReadRange(file, off, len) /\ file' = file /\ kept' = kept
    BY <1>3 DEF read_range
  <2>2. FileOK /\ kept \in BOOLEAN
    BY FileTypes DEF IInv
  <2>3. out' \in Seq(Cell)
    BY <2>1, <2>2, ReadCells, Sized, LensAssumption
  <2>4. FileOK' /\ kept' \in BOOLEAN
    BY <2>1, <2>2 DEF FileOK
  <2>5. NoHiddenTail'
    BY <2>1 DEF IInv, NoHiddenTail
  <2> QED
    BY <2>3, <2>4, <2>5, FileTypesNext DEF IInv
<1>4. CASE UNCHANGED vars
  BY <1>4 DEF vars, IInv, TypeOK, NoHiddenTail
<1> QED
  BY <1>1, <1>2, <1>3, <1>4 DEF Next

(* The inductive invariant holds in every state of db.rs' operations.      *)
LEMMA AlwaysIInv == Spec => []IInv
BY InitIInv, NextIInv, PTL DEF Spec

(* The stored file keeps its types: rows fit their blocks, sizes the file. *)
THEOREM TypeCorrect == Spec => []TypeOK
<1>1. IInv => TypeOK
  BY DEF IInv
<1> QED
  BY <1>1, AlwaysIInv, PTL

(* No row stores a cell past the size, for every block size, unless a      *)
(* truncation to a block boundary has kept a row (truncate, write_range).  *)
THEOREM NoHiddenTailTheorem == Spec => []NoHiddenTail
<1>1. IInv => NoHiddenTail
  BY DEF IInv
<1> QED
  BY <1>1, AlwaysIInv, PTL

-----------------------------------------------------------------------------
(* The refinement.  The contents a reader sees, before and after a step.   *)
Content == [i \in Offset |-> VisibleCell(i)]

(* The contents are cells: the row's below the size, zeros past it.        *)
LEMMA ContentCells ==
  ASSUME FileOK
  PROVE  /\ Content \in [Offset -> Cell]
         /\ \A i \in Offset : Content[i] = IF i < file.size THEN RowCell(file.rows, i) ELSE 0
<1>1. \A i \in Offset : RowCell(file.rows, i) \in Cell
  BY CellIsCell DEF FileOK
<1> QED
  BY <1>1, CellAssumption DEF Content, VisibleCell

(* The same of the contents after a step.                                  *)
LEMMA ContentCellsNext ==
  ASSUME FileOK'
  PROVE  /\ Content' \in [Offset -> Cell]
         /\ \A i \in Offset :
              Content'[i] = IF i < file'.size THEN RowCell(file'.rows, i) ELSE 0
<1>1. \A i \in Offset : RowCell(file'.rows, i) \in Cell
  BY CellIsCell DEF FileOK
<1> QED
  BY <1>1, CellAssumption DEF Content, VisibleCell

(* An empty file is the abstract one's beginning.                          *)
LEMMA InitRefines == Init => F!Init
<1> SUFFICES ASSUME Init
             PROVE  F!Init
  OBVIOUS
<1>1. file.size = 0 /\ out = <<>>
  BY DEF Init, EmptyFile
<1>2. \A i \in Offset : VisibleCell(i) = 0
  BY <1>1, Sized DEF VisibleCell
<1> QED
  BY <1>1, <1>2 DEF F!Init

(* The cells after a write_range: the data, the cells below the old size,  *)
(* and zeros past the new size; in a hole zeros too, where no row hid a    *)
(* tail.                                                                   *)
LEMMA WriteContent ==
  ASSUME IInv, NEW off \in Offset, NEW data \in Data, write_range(off, data)
  PROVE  /\ file'.size = F!Upper(file.size, off + Len(data)) /\ out' = <<>>
         /\ off + Len(data) <= MaxFileSize
         /\ Content' \in [Offset -> Cell]
         /\ \A i \in Offset :
              /\ F!InRange(i, off, data) => Content'[i] = data[i - off + 1]
              /\ i < file.size /\ ~F!InRange(i, off, data) => Content'[i] = Content[i]
              /\ i >= file'.size => Content'[i] = 0
              /\ ~kept /\ ~F!InRange(i, off, data) => Content'[i] = Content[i]
<1>1. FileOK /\ FileOK' /\ NoHiddenTail
  <2>1. TypeOK'
    BY WriteKeeps DEF IInv
  <2> QED
    BY <2>1, FileTypes, FileTypesNext DEF IInv
<1>2. /\ data \in Seq(Cell) /\ data # <<>> /\ off \in Nat /\ Len(data) \in Nat
      /\ off + Len(data) <= MaxFileSize /\ file' = WriteRange(file, off, data)
      /\ out' = <<>>
  BY DataAssumption, Sized DEF write_range
<1>3. /\ file' = [size |-> Larger(file.size, off + Len(data)), rows |-> file'.rows]
      /\ \A i \in Offset : RowCell(file'.rows, i) =
           IF off <= i /\ i < off + Len(data) THEN data[i - off + 1]
           ELSE RowCell(file.rows, i)
  <2>1. file.size \in Nat /\ file.rows \in [BlockNo -> RowOf(Cell)] /\ 0 \in Cell
    BY <1>1, CellAssumption DEF FileOK
  <2> QED
    BY <1>2, <2>1, WriteRangeCells
<1>4. /\ file'.size = Larger(file.size, off + Len(data))
      /\ file.size \in Nat
  BY <1>1, <1>3 DEF FileOK
<1>5. /\ \A i \in Offset : Content[i] = IF i < file.size THEN RowCell(file.rows, i) ELSE 0
      /\ Content' \in [Offset -> Cell]
      /\ \A i \in Offset : Content'[i] = IF i < file'.size THEN RowCell(file'.rows, i) ELSE 0
  BY <1>1, ContentCells, ContentCellsNext
<1>6. ASSUME ~kept, NEW i \in Offset, i >= file.size
      PROVE  RowCell(file.rows, i) = 0
  BY <1>1, <1>4, <1>6, ZeroPast DEF NoHiddenTail, FileOK
<1>7. ASSUME NEW i \in Offset
      PROVE  /\ F!InRange(i, off, data) => Content'[i] = data[i - off + 1]
             /\ i < file.size /\ ~F!InRange(i, off, data) => Content'[i] = Content[i]
             /\ i >= file'.size => Content'[i] = 0
             /\ ~kept /\ ~F!InRange(i, off, data) => Content'[i] = Content[i]
  <2>1. i \in Nat
    BY Sized
  <2>2. F!InRange(i, off, data) <=> off <= i /\ i < off + Len(data)
    BY DEF F!InRange
  <2>3. /\ F!InRange(i, off, data) => i < file'.size
        /\ i < file.size => i < file'.size
    BY <1>2, <1>4, <2>1, <2>2 DEF Larger
  <2>4. RowCell(file'.rows, i) = IF F!InRange(i, off, data) THEN data[i - off + 1]
                                 ELSE RowCell(file.rows, i)
    BY <1>3, <2>2
  <2>5. /\ Content[i] = IF i < file.size THEN RowCell(file.rows, i) ELSE 0
        /\ Content'[i] = IF i < file'.size THEN RowCell(file'.rows, i) ELSE 0
    BY <1>5
  <2>6. i >= file'.size => ~(i < file'.size)
    BY <1>2, <1>4, <2>1 DEF Larger
  <2>7. ~kept /\ ~(i < file.size) => RowCell(file.rows, i) = 0
    BY <1>4, <1>6, <2>1
  <2> QED
    BY <2>3, <2>4, <2>5, <2>6, <2>7
<1>8. file'.size = F!Upper(file.size, off + Len(data))
  BY <1>4 DEF Larger, F!Upper
<1> QED
  BY <1>2, <1>5, <1>7, <1>8

(* The cells after a truncate.                                             *)
LEMMA TruncateContent ==
  ASSUME IInv, NEW n \in Sizes, truncate(n)
  PROVE  /\ file'.size = n /\ out' = <<>>
         /\ Content' \in [Offset -> Cell]
         /\ \A i \in Offset :
              /\ i < file.size /\ i < n => Content'[i] = Content[i]
              /\ i >= n => Content'[i] = 0
              /\ ~kept /\ i < n => Content'[i] = Content[i]
<1>1. FileOK /\ FileOK' /\ NoHiddenTail
  <2>1. TypeOK'
    BY TruncateKeeps DEF IInv
  <2> QED
    BY <2>1, FileTypes, FileTypesNext DEF IInv
<1>2. n \in Nat /\ file' = Truncate(file, n) /\ out' = <<>>
  BY SizesAssumption, Sized DEF truncate
<1>3. /\ file' = [size |-> n, rows |-> file'.rows]
      /\ \A i \in Offset : i < n => RowCell(file'.rows, i) = RowCell(file.rows, i)
  <2>1. file.size \in Nat /\ file.rows \in [BlockNo -> RowOf(Cell)]
    BY <1>1 DEF FileOK
  <2>2. \A g : g = Truncate(file, n) =>
          /\ g = [size |-> n, rows |-> g.rows]
          /\ \A i \in Offset : i < n => RowCell(g.rows, i) = RowCell(file.rows, i)
    <3> TAKE g
    <3> HAVE g = Truncate(file, n)
    <3>1. g = [size |-> n, rows |-> g.rows]
      BY <1>2, <2>1, TruncateCells
    <3>2. \A i \in Offset : i < n => RowCell(g.rows, i) = RowCell(file.rows, i)
      BY <1>2, <2>1, TruncateCells
    <3> QED
      BY <3>1, <3>2
  <2> QED
    BY <1>2, <2>2
<1>4. file'.size = n /\ file.size \in Nat
  BY <1>1, <1>3 DEF FileOK
<1>5. /\ \A i \in Offset : Content[i] = IF i < file.size THEN RowCell(file.rows, i) ELSE 0
      /\ Content' \in [Offset -> Cell]
      /\ \A i \in Offset : Content'[i] = IF i < file'.size THEN RowCell(file'.rows, i) ELSE 0
  BY <1>1, ContentCells, ContentCellsNext
<1>6. ASSUME ~kept, NEW i \in Offset, i >= file.size
      PROVE  RowCell(file.rows, i) = 0
  BY <1>1, <1>4, <1>6, ZeroPast DEF NoHiddenTail, FileOK
<1>7. ASSUME NEW i \in Offset
      PROVE  /\ i < file.size /\ i < n => Content'[i] = Content[i]
             /\ i >= n => Content'[i] = 0
             /\ ~kept /\ i < n => Content'[i] = Content[i]
  <2>1. i \in Nat
    BY Sized
  <2>2. /\ Content[i] = IF i < file.size THEN RowCell(file.rows, i) ELSE 0
        /\ Content'[i] = IF i < n THEN RowCell(file'.rows, i) ELSE 0
        /\ i < n => RowCell(file'.rows, i) = RowCell(file.rows, i)
    BY <1>3, <1>4, <1>5
  <2>3. /\ i >= n => ~(i < n)
        /\ ~kept /\ ~(i < file.size) => RowCell(file.rows, i) = 0
    BY <1>2, <1>4, <1>6, <2>1
  <2> QED
    BY <2>2, <2>3
<1> QED
  BY <1>2, <1>4, <1>5, <1>7

(* read_range answers what the abstract file holds.                        *)
LEMMA ReadRefines ==
  ASSUME IInv, NEW off \in Offset, NEW len \in Lens, read_range(off, len)
  PROVE  F!Read(off, len)
<1>1. FileOK
  BY FileTypes DEF IInv
<1>2. file.size \in Nat /\ file.size <= MaxFileSize /\ len \in Nat /\ off \in Nat
  BY <1>1, LensAssumption, Sized DEF FileOK
<1>3. out' = ReadRange(file, off, len) /\ file' = file
  BY DEF read_range
<1>4. \A i \in Offset : i < file.size => VisibleCell(i) = RowCell(file.rows, i)
  BY DEF VisibleCell
<1>5. CASE off >= file.size
  BY <1>3, <1>5 DEF F!Read, ReadRange, VisibleCell
<1>6. CASE ~(off >= file.size)
  <2> DEFINE m == IF len < file.size - off THEN len ELSE file.size - off
             C == [i \in Offset |-> VisibleCell(i)]
  <2>1. ASSUME NEW k \in 1..m
        PROVE  RowCell(file.rows, off + k - 1) = C[off + k - 1]
    <3>1. off + k - 1 \in Nat /\ off + k - 1 < file.size
      BY <1>2, <1>6
    <3>2. off + k - 1 \in Offset
      BY <1>2, <3>1, Sized
    <3> QED
      BY <1>4, <3>1, <3>2
  <2>2. out' = [k \in 1..m |-> RowCell(file.rows, off + k - 1)]
    BY <1>3, <1>6 DEF ReadRange, Smaller
  <2>3. out' = [k \in 1..m |-> C[off + k - 1]]
    BY <2>1, <2>2
  <2>4. C' = C
    BY <1>3 DEF VisibleCell
  <2> QED
    BY <1>3, <1>6, <2>3, <2>4 DEF F!Read
<1> QED
  BY <1>5, <1>6

(* Nothing of the file moves: nothing of the abstract file does.           *)
LEMMA StutterRefines == UNCHANGED vars => UNCHANGED F!vars
BY DEF vars, F!vars, VisibleCell

(* Every step is a step of the file that is silent about holes.            *)
LEMMA NextRefinesWeak == IInv /\ [Next]_vars => [F!WeakNext]_(F!vars)
<1> SUFFICES ASSUME IInv, [Next]_vars
             PROVE  [F!WeakNext]_(F!vars)
  OBVIOUS
<1>1. ASSUME NEW off \in Offset, NEW data \in Data, write_range(off, data)
      PROVE  F!WriteAnyHole(off, data)
  BY <1>1, WriteContent DEF F!WriteAnyHole, Content
<1>2. ASSUME NEW n \in Sizes, truncate(n)
      PROVE  F!SetSizeAnyHole(n)
  BY <1>2, TruncateContent DEF F!SetSizeAnyHole, Content
<1>3. ASSUME NEW off \in Offset, NEW len \in Lens, read_range(off, len)
      PROVE  F!Read(off, len)
  BY <1>3, ReadRefines
<1>4. Next => F!WeakNext
  BY <1>1, <1>2, <1>3 DEF Next, F!WeakNext
<1> QED
  BY <1>4, StutterRefines

(* Every step is a step of the POSIX file, as long as no truncation has    *)
(* kept a row at its new size.                                             *)
LEMMA NextRefinesPosix == IInv /\ [Next]_vars => [F!Next \/ kept']_(F!vars)
<1> SUFFICES ASSUME IInv, [Next]_vars, ~kept'
             PROVE  [F!Next]_(F!vars)
  OBVIOUS
<1>1. ASSUME NEW off \in Offset, NEW data \in Data, write_range(off, data)
      PROVE  F!Write(off, data)
  <2>1. ~kept
    BY <1>1, Zenon DEF write_range
  <2>2. Content' = [i \in Offset |-> IF F!InRange(i, off, data) THEN data[i - off + 1]
                                      ELSE Content[i]]
    BY <1>1, <2>1, WriteContent
  <2> QED
    BY <1>1, <2>2, WriteContent DEF F!Write, Content
<1>2. ASSUME NEW n \in Sizes, truncate(n)
      PROVE  F!SetSize(n)
  <2>1. ~kept
    BY <1>2, Zenon DEF truncate
  <2>2. ASSUME NEW i \in Offset
        PROVE  Content'[i] = IF i < n THEN Content[i] ELSE 0
    <3>1. n \in Nat /\ i \in Nat
      BY SizesAssumption, Sized
    <3> QED
      BY <1>2, <2>1, <3>1, TruncateContent
  <2>3. Content' = [i \in Offset |-> IF i < n THEN Content[i] ELSE 0]
    BY <1>2, <2>2, TruncateContent
  <2> QED
    BY <1>2, <2>3, TruncateContent DEF F!SetSize, Content
<1>3. ASSUME NEW off \in Offset, NEW len \in Lens, read_range(off, len)
      PROVE  F!Read(off, len)
  BY <1>3, ReadRefines
<1>4. Next => F!Next
  BY <1>1, <1>2, <1>3 DEF Next, F!Next
<1> QED
  BY <1>4, StutterRefines

(* For every block size, every payload and every size setattr may be       *)
(* given, write_range, truncate and read_range are the operations of a     *)
(* file that is silent only about what a hole holds.                       *)
THEOREM WeakFileTheorem == Spec => ImplementsWeakFile
BY AlwaysIInv, InitRefines, NextRefinesWeak, PTL
  DEF Spec, ImplementsWeakFile, F!WeakSpec

(* And they are the operations of a POSIX file until a truncation to a     *)
(* block boundary has kept the row that starts there.                      *)
THEOREM PosixTheorem == Spec => PosixUntilRowKept
BY AlwaysIInv, InitRefines, NextRefinesPosix, PTL DEF Spec, PosixUntilRowKept
=============================================================================
