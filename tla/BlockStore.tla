----------------------------- MODULE BlockStore -----------------------------
(***************************************************************************)
(* The storage operations of db.rs on one existing regular file: the ones  *)
(* FUSE write (without a handle), setattr(size) and read reach.  Each is a *)
(* single transaction on the primary, so each is one action; a failed      *)
(* transaction rolls back and is a stuttering step.                        *)
(***************************************************************************)
EXTENDS Blocks

CONSTANTS
  Cell,    \* the values of a cell; 0 is the zero byte
  Data,    \* payloads of a write
  Sizes,   \* sizes setattr may be called with
  Lens     \* lengths a read may ask for

ASSUME CellAssumption == Cell \subseteq Nat /\ 0 \in Cell
ASSUME DataAssumption == Data \subseteq Seq(Cell) /\ <<>> \notin Data
ASSUME SizesAssumption == Sizes \subseteq 0..MaxFileSize
ASSUME LensAssumption == Lens \subseteq Nat

VARIABLES
  file,   \* [size, rows]: the file's entries.size and its blocks rows
  out,    \* the data of the last reply, <<>> if it carried none
  kept    \* has a truncation kept a whole row at its new size? (history)

vars == <<file, out, kept>>

Row == UNION {[1..n -> Cell] : n \in 0..BS}

TypeOK ==
  /\ file \in [size : 0..MaxFileSize, rows : [BlockNo -> Row]]
  /\ out \in Seq(Cell)
  /\ kept \in BOOLEAN

Init ==
  /\ file = EmptyFile
  /\ out = <<>>
  /\ kept = FALSE

write_range(off, data) ==
  /\ off + Len(data) <= MaxFileSize
  /\ file' = WriteRange(file, off, data)
  /\ out' = <<>>
  /\ UNCHANGED kept

(* A shrinking truncation to a multiple of the block size leaves the row   *)
(* that starts at the new size as it is.                                   *)
KeepsRow(n) ==
  n < file.size /\ n % BS = 0 /\ file.rows[n \div BS] # <<>>

truncate(n) ==
  /\ file' = Truncate(file, n)
  /\ out' = <<>>
  /\ kept' = (kept \/ KeepsRow(n))

read_range(off, len) ==
  /\ out' = ReadRange(file, off, len)
  /\ UNCHANGED <<file, kept>>

Next ==
  \/ \E off \in Offset, data \in Data : write_range(off, data)
  \/ \E n \in Sizes : truncate(n)
  \/ \E off \in Offset, len \in Lens : read_range(off, len)

Spec == Init /\ [][Next]_vars

-----------------------------------------------------------------------------
(* No row stores a cell at or past the file's size.  It is what keeps a    *)
(* later extension (truncate up, or a write past the end) from exposing    *)
(* old data, and it rests on truncate's prune and cut (db.rs 631-664).     *)
(* Truncation to a multiple of the block size is the one exception.        *)
NoHiddenTail ==
  ~kept => \A b \in BlockNo :
             file.rows[b] # <<>> => b * BS + Len(file.rows[b]) <= file.size

(* The file a reader sees: cells past the size do not exist for it.        *)
VisibleCell(i) == IF i < file.size THEN RowCell(file.rows, i) ELSE 0

F == INSTANCE FileSpec WITH
       FileOffset <- Offset, MaxSize <- MaxFileSize,
       size <- file.size, content <- [i \in Offset |-> VisibleCell(i)]

(* The block store is a POSIX file: writes land where they were aimed and  *)
(* nowhere else, truncation keeps what is below the new size, holes read   *)
(* as zeros, reads stop at the size (write_range, truncate, read_range),   *)
(* until a truncation has kept a row at its new size.                      *)
PosixUntilRowKept == F!Init /\ [][F!Next \/ kept']_(F!vars)

(* For every size setattr may be given: cells that were below the size, or *)
(* were written, are exactly what a POSIX file holds; only the contents of *)
(* holes are left open.                                                    *)
ImplementsWeakFile == F!WeakSpec
=============================================================================
