------------------------------- MODULE Blocks -------------------------------
(***************************************************************************)
(* Block storage of one regular file, as db.rs keeps it: the size column   *)
(* of the file's row in `entries`, and its rows in `blocks`, one per block *)
(* number.  The module holds the pure part of Db::write_range,             *)
(* Db::truncate, Db::write_blocks_batch, Db::read_range_primary and        *)
(* HandleBuffer::write; the state machines of the project instantiate it.  *)
(*                                                                         *)
(* Data abstraction.  A cell stands for a byte (or, under the kernel's     *)
(* write-back cache, for a page); cell 0 is the zero byte.  A block row is *)
(* the sequence of cells it stores; a row is never stored empty, so the    *)
(* empty sequence stands for "no row".                                     *)
(***************************************************************************)
EXTENDS Integers, Sequences

CONSTANTS
  BS,         \* BLOCK_SIZE, in cells
  LastBlock   \* blocks are numbered 0..LastBlock (bound of the model)

ASSUME BlockSizeAssumption == BS \in Nat \ {0}
ASSUME LastBlockAssumption == LastBlock \in Nat

BlockNo == 0..LastBlock
MaxFileSize == (LastBlock + 1) * BS
Offset == 0..(MaxFileSize - 1)

NoRows == [b \in BlockNo |-> <<>>]
EmptyFile == [size |-> 0, rows |-> NoRows]

Larger(m, n) == IF m < n THEN n ELSE m
Smaller(m, n) == IF m < n THEN m ELSE n

-----------------------------------------------------------------------------
(* The blocks a write of `data` at `off` touches, and the part of `data`   *)
(* that falls into block b.                                                *)
Touched(off, data) == (off \div BS)..((off + Len(data) - 1) \div BS)

WriteStart(off, b) == Larger(off, b * BS)

ChunkToEnd(off, data, b) ==
  SubSeq(data, WriteStart(off, b) - off + 1, Len(data))

Chunk(off, data, b) ==
  SubSeq(data, WriteStart(off, b) - off + 1,
               Smaller(off + Len(data), (b + 1) * BS) - off)

(* `old` resized with zeros where it is too short, then overwritten from   *)
(* position `at` (counted from 0) with `chunk`.                            *)
Patch(old, at, chunk) ==
  [i \in 1..Larger(Len(old), at + Len(chunk)) |->
     CASE i - at \in DOMAIN chunk -> chunk[i - at]
       [] i - at \notin DOMAIN chunk /\ i <= Len(old) -> old[i]
       [] OTHER -> 0]

PatchIn(old, off, data, b) ==
  Patch(old, WriteStart(off, b) - b * BS, Chunk(off, data, b))

-----------------------------------------------------------------------------
(* Db::write_range: read-modify-write of every touched block.  A chunk     *)
(* that fills its block replaces it without reading it.                    *)
WriteRangeOnEmpty(f, off, data) ==
  IF data = <<>> THEN f
  ELSE [size |-> Larger(f.size, off + Len(data)),
        rows |-> [b \in BlockNo |->
                    IF b \in Touched(off, data)
                      THEN PatchIn(<<>>, off, data, b) ELSE f.rows[b]]]

WriteRange(f, off, data) ==
  LET base(b) == IF Len(Chunk(off, data, b)) < BS THEN f.rows[b] ELSE <<>>
  IN  IF data = <<>> THEN f
      ELSE [size |-> Larger(f.size, off + Len(data)),
            rows |-> [b \in BlockNo |->
                        IF b \in Touched(off, data)
                          THEN PatchIn(base(b), off, data, b) ELSE f.rows[b]]]

(* Db::truncate: blocks after the boundary block are deleted, the boundary *)
(* block is cut when the new size falls inside it.                         *)
TruncateKeepsRows(f, n) == [f EXCEPT !.size = n]

Truncate(f, n) ==
  LET last == n \div BS
      rem  == n % BS
      Cut(b) == CASE b > last -> <<>>
                  [] b = last /\ rem > 0 ->
                       SubSeq(f.rows[b], 1, Smaller(rem, Len(f.rows[b])))
                  [] OTHER -> f.rows[b]
  IN  [size |-> n,
       rows |-> IF n < f.size THEN [b \in BlockNo |-> Cut(b)] ELSE f.rows]

(* Db::write_blocks_batch on the rows: every dirty block replaces its row. *)
UpsertRows(rows, dirty) ==
  [b \in BlockNo |-> IF b \in DOMAIN dirty THEN dirty[b] ELSE rows[b]]

(* Db::write_blocks_batch on the size column.                              *)
BatchSizeOverwrites(size, newSize) == IF newSize > 0 THEN newSize ELSE size

BatchSize(size, newSize) ==
  IF newSize > 0 THEN Larger(size, newSize) ELSE size

-----------------------------------------------------------------------------
(* The cell a reader of row `rows[i \div BS]` finds at offset i; a missing *)
(* or short row reads as zero.                                             *)
RowCell(rows, i) ==
  IF i % BS < Len(rows[i \div BS]) THEN rows[i \div BS][(i % BS) + 1] ELSE 0

(* Db::read_range_primary: at most len cells from off, none past the size. *)
ReadRangePastEnd(f, off, len) ==
  [k \in 1..len |-> RowCell(f.rows, off + k - 1)]

ReadRange(f, off, len) ==
  IF off >= f.size THEN <<>>
  ELSE [k \in 1..Smaller(len, f.size - off) |-> RowCell(f.rows, off + k - 1)]

-----------------------------------------------------------------------------
(* HandleBuffer: dirty_blocks (a partial function from block numbers) and  *)
(* max_size.  HandleBuffer::write starts a block it does not hold from the *)
(* empty vector, whatever the database stores.                             *)
CleanBuffer == [dirty |-> [b \in {} |-> <<>>], max_size |-> 0]

BufferWriteRestarts(buf, off, data) ==
  IF data = <<>> THEN buf
  ELSE [dirty |-> [b \in DOMAIN buf.dirty \union Touched(off, data) |->
                     IF b \in Touched(off, data) THEN PatchIn(<<>>, off, data, b)
                     ELSE buf.dirty[b]],
        max_size |-> Larger(buf.max_size, off + Len(data))]

BufferWriteLastEnd(buf, off, data) ==
  LET held(b) == IF b \in DOMAIN buf.dirty THEN buf.dirty[b] ELSE <<>>
  IN  [dirty |-> [b \in DOMAIN buf.dirty \union Touched(off, data) |->
                    IF b \in Touched(off, data) THEN PatchIn(held(b), off, data, b)
                    ELSE buf.dirty[b]],
       max_size |-> off + Len(data)]

BufferWrite(buf, off, data) ==
  LET held(b) == IF b \in DOMAIN buf.dirty THEN buf.dirty[b] ELSE <<>>
  IN  IF data = <<>> THEN buf
      ELSE [dirty |-> [b \in DOMAIN buf.dirty \union Touched(off, data) |->
                         IF b \in Touched(off, data)
                           THEN PatchIn(held(b), off, data, b)
                           ELSE buf.dirty[b]],
            max_size |-> Larger(buf.max_size, off + Len(data))]
=============================================================================
