------------------------------ MODULE FileSpec ------------------------------
(***************************************************************************)
(* What a regular file promises its reader, with no mention of blocks: a   *)
(* size and an array of cells.  `Spec` is the POSIX file (a hole reads as  *)
(* zeros); `WeakSpec` promises the same of every cell that was below the   *)
(* size or was written, and nothing of the cells a hole exposes.           *)
(***************************************************************************)
EXTENDS Integers, Sequences

CONSTANTS
  Cell,       \* the values of a cell; 0 is the zero byte
  FileOffset, \* the offsets of the model
  Data,       \* the payloads of a write, non-empty sequences of cells
  Sizes,      \* the sizes setattr may be called with
  Lens,       \* the lengths a read may ask for
  MaxSize

VARIABLES
  size,     \* the file's size
  content,  \* content[i]: the cell at offset i; 0 past the size
  out       \* what the last reply carried: the data of a read

vars == <<size, content, out>>

Upper(m, n) == IF m < n THEN n ELSE m

Init ==
  /\ size = 0
  /\ content = [i \in FileOffset |-> 0]
  /\ out = <<>>

InRange(i, off, data) == off <= i /\ i < off + Len(data)

Write(off, data) ==
  /\ off + Len(data) <= MaxSize
  /\ size' = Upper(size, off + Len(data))
  /\ content' = [i \in FileOffset |->
                   IF InRange(i, off, data) THEN data[i - off + 1] ELSE content[i]]
  /\ out' = <<>>

SetSize(n) ==
  /\ size' = n
  /\ content' = [i \in FileOffset |-> IF i < n THEN content[i] ELSE 0]
  /\ out' = <<>>

Read(off, len) ==
  /\ out' = IF off >= size THEN <<>>
            ELSE [k \in 1..(IF len < size - off THEN len ELSE size - off) |->
                    content[off + k - 1]]
  /\ UNCHANGED <<size, content>>

Next ==
  \/ \E off \in FileOffset, data \in Data : Write(off, data)
  \/ \E n \in Sizes : SetSize(n)
  \/ \E off \in FileOffset, len \in Lens : Read(off, len)

Spec == Init /\ [][Next]_vars

-----------------------------------------------------------------------------
(* The same operations, silent about the cells of a hole.                  *)
WriteAnyHole(off, data) ==
  /\ off + Len(data) <= MaxSize
  /\ size' = Upper(size, off + Len(data))
  /\ content' \in [FileOffset -> Cell]
  /\ \A i \in FileOffset :
       /\ InRange(i, off, data) => content'[i] = data[i - off + 1]
       /\ i < size /\ ~InRange(i, off, data) => content'[i] = content[i]
       /\ i >= size' => content'[i] = 0
  /\ out' = <<>>

SetSizeAnyHole(n) ==
  /\ size' = n
  /\ content' \in [FileOffset -> Cell]
  /\ \A i \in FileOffset :
       /\ i < size /\ i < n => content'[i] = content[i]
       /\ i >= n => content'[i] = 0
  /\ out' = <<>>

WeakNext ==
  \/ \E off \in FileOffset, data \in Data : WriteAnyHole(off, data)
  \/ \E n \in Sizes : SetSizeAnyHole(n)
  \/ \E off \in FileOffset, len \in Lens : Read(off, len)

WeakSpec == Init /\ [][WeakNext]_vars
=============================================================================
