------------------------------ MODULE Handles -------------------------------
(***************************************************************************)
(* Open files: the per-handle write buffers of fs.rs (HandleBuffer) over   *)
(* the block storage of db.rs, and the callbacks that touch either:        *)
(* create, open, write, read, flush, fsync, release, setattr(size), unlink *)
(* and rename.  Directories are left to module Namespace: a key is a       *)
(* (parent, name) pair, written as a path of one component.  One callback  *)
(* runs at a time, so a callback is one action.                            *)
(*                                                                         *)
(* `posix` and `pend` are history: what a POSIX file would hold after the  *)
(* writes and truncations acknowledged so far, and the cells a handle      *)
(* acknowledged that no successful flush has stored yet.                   *)
(***************************************************************************)
EXTENDS Blocks, Paths, FiniteSets

CONSTANTS
  Key,         \* keys of files, paths of one component
  Cell,        \* values of a cell; 0 is the zero byte
  Writes,      \* <<off, data>>: the writes of the model
  Sizes,       \* sizes setattr is called with
  Reads,       \* <<off, len>>: the reads of the model
  MaxIno, MaxFh, MaxWrites, MaxFail,   \* bounds
  MaxOpen,     \* open files the kernel holds at a time
  NameOpsOnOpenFiles   \* does the kernel rename or unlink files that are open?

ASSUME KeyAssumption == \A k \in Key : k = <<k[1]>>
ASSUME CellAssumption == Cell \subseteq Nat /\ 0 \in Cell
ASSUME WritesAssumption ==
  \A w \in Writes : w[1] \in Offset /\ w[2] \in Seq(Cell) /\ w[2] # <<>>
                    /\ w[1] + Len(w[2]) <= MaxFileSize
ASSUME SizesAssumption == Sizes \subseteq 0..MaxFileSize
ASSUME ReadsAssumption == Reads \subseteq Nat \X Nat
ASSUME BoundsAssumption == MaxIno \in Nat \ {0} /\ MaxFh \in Nat
ASSUME SwitchAssumption == NameOpsOnOpenFiles \in BOOLEAN

VARIABLES
  size,                 \* key -> size, the file rows of entries
  rows,                 \* rows[k]: the rows of blocks under key k
  ino_by_path, path_by_ino, next_ino,
  open_handles,         \* fh -> [key, dirty, max_size]
  open_handles_by_ino,  \* inode -> fh
  next_fh,
  files,                \* the kernel's open files: fh -> inode
  posix,                \* inode -> [size, cells] (history)
  pend,                 \* fh -> (offset -> cell) (history)
  writes, fails,        \* counters for the bounds
  reply                 \* [op, fh, res, ...] of the last callback

db == <<size, rows>>
maps == <<ino_by_path, path_by_ino, next_ino>>
handles == <<open_handles, open_handles_by_ino, next_fh>>
vars == <<size, rows, ino_by_path, path_by_ino, next_ino, open_handles,
          open_handles_by_ino, next_fh, files, posix, pend, writes, fails, reply>>

Row == UNION {[1..n -> Cell] : n \in 0..BS}
Res == {"OK", "ENOENT", "EEXIST", "EIO"}

TypeOK ==
  /\ DOMAIN size \subseteq Key /\ \A k \in DOMAIN size : size[k] \in 0..MaxFileSize
  /\ rows \in [Key -> [BlockNo -> Row]]
  /\ DOMAIN ino_by_path \subseteq Key
  /\ \A k \in DOMAIN ino_by_path : ino_by_path[k] \in 2..MaxIno
  /\ DOMAIN path_by_ino \subseteq 2..MaxIno
  /\ \A i \in DOMAIN path_by_ino : path_by_ino[i] \in Key
  /\ next_ino \in 2..(MaxIno + 1)
  /\ DOMAIN open_handles \subseteq 1..MaxFh
  /\ \A h \in DOMAIN open_handles :
       /\ open_handles[h].key \in Key
       /\ DOMAIN open_handles[h].dirty \subseteq BlockNo
       /\ \A b \in DOMAIN open_handles[h].dirty : open_handles[h].dirty[b] \in Row
       /\ open_handles[h].max_size \in 0..MaxFileSize
  /\ \A i \in DOMAIN open_handles_by_ino : open_handles_by_ino[i] \in 1..MaxFh
  /\ next_fh \in 1..(MaxFh + 1)
  /\ DOMAIN files \subseteq 1..MaxFh /\ \A h \in DOMAIN files : files[h] \in 2..MaxIno
  /\ reply.res \in Res

-----------------------------------------------------------------------------
Init ==
  /\ size = [k \in {} |-> 0]
  /\ rows = [k \in Key |-> NoRows]
  /\ ino_by_path = [k \in {} |-> 0]
  /\ path_by_ino = [i \in {} |-> Root]
  /\ next_ino = 2
  /\ open_handles = [h \in {} |-> CleanBuffer]
  /\ open_handles_by_ino = [i \in {} |-> 0]
  /\ next_fh = 1
  /\ files = [h \in {} |-> 0]
  /\ posix = [i \in {} |-> 0]
  /\ pend = [h \in {} |-> 0]
  /\ writes = 0 /\ fails = 0
  /\ reply = [op |-> "init", res |-> "OK"]

(* The ways a callback's database call may end.                            *)
Outcome == IF fails < MaxFail THEN BOOLEAN ELSE {TRUE}
Count(ok) == fails' = IF ok THEN fails ELSE fails + 1

NothingPending == [i \in {} |-> 0]
NewHandle(k) == [key |-> k, dirty |-> CleanBuffer.dirty, max_size |-> 0]
IsOpen(i) == \E h \in DOMAIN files : files[h] = i
Closed(k) == ~IsOpen(ino_by_path[k])
Nameable(k) == NameOpsOnOpenFiles \/ Closed(k)

(* HandleBuffer::write on the buffer of a handle.                          *)
Buffered(h, off, data) ==
  LET buf == BufferWrite([dirty |-> h.dirty, max_size |-> h.max_size], off, data)
  IN  [key |-> h.key, dirty |-> buf.dirty, max_size |-> buf.max_size]

(* A POSIX file after a write, and after a change of size.                 *)
PosixWrite(f, off, data) ==
  [size |-> Larger(f.size, off + Len(data)),
   cells |-> [i \in Offset |-> IF i - off + 1 \in DOMAIN data
                                 THEN data[i - off + 1] ELSE f.cells[i]]]
PosixResize(f, n) ==
  [size |-> n, cells |-> [i \in Offset |-> IF i < n THEN f.cells[i] ELSE 0]]

-----------------------------------------------------------------------------
(* create: the EEXIST check, INSERT of the row (whatever blocks rows carry *)
(* its key), a handle that open_handles_by_ino does not learn of, an inode.*)
create(k) ==
  /\ next_fh <= MaxFh /\ next_ino <= MaxIno
  /\ Cardinality(DOMAIN files) < MaxOpen
  /\ k \notin DOMAIN size
  /\ size' = Put(size, k, 0)
  /\ open_handles' = Put(open_handles, next_fh, NewHandle(k))
  /\ next_fh' = next_fh + 1
  /\ ino_by_path' = Put(ino_by_path, k, next_ino)
  /\ path_by_ino' = Put(path_by_ino, next_ino, k)
  /\ next_ino' = next_ino + 1
  /\ files' = Put(files, next_fh, next_ino)
  /\ posix' = Put(posix, next_ino, [size |-> 0, cells |-> [i \in Offset |-> 0]])
  /\ pend' = Put(pend, next_fh, NothingPending)
  /\ reply' = [op |-> "create", res |-> "OK"]
  /\ UNCHANGED <<rows, open_handles_by_ino, writes, fails>>

open(k) ==
  LET i == ino_by_path[k]
  IN  /\ k \in DOMAIN size
      /\ next_fh <= MaxFh
      /\ Cardinality(DOMAIN files) < MaxOpen
      /\ open_handles' = Put(open_handles, next_fh, NewHandle(path_by_ino[i]))
      /\ open_handles_by_ino' = Put(open_handles_by_ino, i, next_fh)
      /\ next_fh' = next_fh + 1
      /\ files' = Put(files, next_fh, i)
      /\ pend' = Put(pend, next_fh, NothingPending)
      /\ reply' = [op |-> "open", res |-> "OK"]
      /\ UNCHANGED <<db, maps, posix, writes, fails>>

(* write: into the handle's buffer; when a failed flush has dropped the    *)
(* handle, straight to the database by Db::write_range.                    *)
Acknowledge(h, off, data) ==
  /\ posix' = [posix EXCEPT ![files[h]] = PosixWrite(@, off, data)]
  /\ reply' = [op |-> "write", fh |-> h, res |-> "OK"]

write(h, off, data, ok) ==
  /\ writes < MaxWrites
  /\ writes' = writes + 1
  /\ \/ /\ h \in DOMAIN open_handles
        /\ ok
        /\ open_handles' = [open_handles EXCEPT ![h] = Buffered(@, off, data)]
        /\ pend' = [pend EXCEPT ![h] =
                      [i \in DOMAIN @ \union off..(off + Len(data) - 1) |->
                         IF i - off + 1 \in DOMAIN data THEN data[i - off + 1] ELSE @[i]]]
        /\ Acknowledge(h, off, data)
        /\ UNCHANGED <<db, open_handles_by_ino, next_fh>>
     \/ /\ h \notin DOMAIN open_handles
        /\ files[h] \in DOMAIN path_by_ino
        /\ ok
        /\ LET k == path_by_ino[files[h]]
               f == WriteRange([size |-> IF k \in DOMAIN size THEN size[k] ELSE 0,
                                rows |-> rows[k]], off, data)
           IN  /\ rows' = [rows EXCEPT ![k] = f.rows]
               /\ size' = IF k \in DOMAIN size THEN [size EXCEPT ![k] = f.size] ELSE size
        /\ Acknowledge(h, off, data)
        /\ UNCHANGED <<handles, pend>>
     \/ /\ h \notin DOMAIN open_handles
        /\ ~ok \/ files[h] \notin DOMAIN path_by_ino
        /\ reply' = [op |-> "write", fh |-> h, res |-> IF ok THEN "ENOENT" ELSE "EIO"]
        /\ UNCHANGED <<db, handles, pend, posix>>
  /\ Count(ok)
  /\ UNCHANGED <<maps, files>>

-----------------------------------------------------------------------------
(* flush_handle takes the handle out of open_handles, stores its dirty     *)
(* blocks in one transaction, and puts it back clean: when the transaction *)
(* fails the `?` returns first and the handle is gone with its data.       *)
Dirty(h) == h \in DOMAIN open_handles /\ open_handles[h].max_size > 0

FlushOutcome(h) == IF Dirty(h) THEN Outcome ELSE {TRUE}

StoreBlocksUnlocked(h, ok) ==
  LET b == open_handles[h]
  IN  IF Dirty(h) /\ ok
        THEN /\ rows' = [rows EXCEPT ![b.key] = UpsertRows(@, b.dirty)]
             /\ UNCHANGED size
        ELSE UNCHANGED db

StoreBlocks(h, ok) ==
  LET b == open_handles[h]
  IN  IF Dirty(h) /\ ok
        THEN /\ rows' = [rows EXCEPT ![b.key] = UpsertRows(@, b.dirty)]
             /\ size' = IF b.key \in DOMAIN size
                          THEN [size EXCEPT ![b.key] = BatchSize(@, b.max_size)]
                          ELSE size
        ELSE UNCHANGED db

HandlesAfterFlush(h, ok) ==
  CASE ~Dirty(h)       -> open_handles
    [] Dirty(h) /\ ok  -> [open_handles EXCEPT ![h] = NewHandle(@.key)]
    [] Dirty(h) /\ ~ok -> Drop(open_handles, {h})

PendAfterFlush(h, ok) ==
  IF Dirty(h) /\ ok THEN [pend EXCEPT ![h] = NothingPending] ELSE pend

(* flush and fsync differ only in their metrics.                           *)
Sync(op, h, ok) ==
  /\ StoreBlocks(h, ok)
  /\ open_handles' = HandlesAfterFlush(h, ok)
  /\ pend' = PendAfterFlush(h, ok)
  /\ Count(ok)
  /\ reply' = [op |-> op, fh |-> h, res |-> IF ok THEN "OK" ELSE "EIO"]
  /\ UNCHANGED <<maps, open_handles_by_ino, next_fh, files, posix, writes>>

flush(h, ok) == Sync("flush", h, ok)
fsync(h, ok) == Sync("fsync", h, ok)

(* read flushes the handle it was given, ignoring the result, then reads   *)
(* the key its inode resolves to.                                          *)
ReadReply(h, off, len, res, data) ==
  [op |-> "read", fh |-> h, off |-> off, len |-> len, res |-> res, data |-> data]

readUnflushed(h, off, len, ok) ==
  LET i == files[h]
      k == path_by_ino[i]
  IN  /\ i \in DOMAIN path_by_ino /\ k \in DOMAIN size
      /\ reply' = ReadReply(h, off, len, "OK",
                    ReadRange([size |-> size[k], rows |-> rows[k]], off, len))
      /\ UNCHANGED <<db, pend, fails, maps, handles, files, posix, writes>>

read(h, off, len, ok) ==
  LET i == files[h]
      k == path_by_ino[i]
  IN  /\ StoreBlocks(h, ok)
      /\ open_handles' = HandlesAfterFlush(h, ok)
      /\ pend' = PendAfterFlush(h, ok)
      /\ Count(ok)
      /\ reply' = IF i \in DOMAIN path_by_ino /\ k \in DOMAIN size
                    THEN ReadReply(h, off, len, "OK",
                           ReadRange([size |-> size'[k], rows |-> rows'[k]], off, len))
                    ELSE ReadReply(h, off, len, "ENOENT", <<>>)
      /\ UNCHANGED <<maps, open_handles_by_ino, next_fh, files, posix, writes>>

(* release flushes, ignoring the result, and forgets the handle; the       *)
(* retain drops every mapping of the inode and every mapping to the handle.*)
ReleasedWhenLast(i, h) ==
  IF \E g \in DOMAIN files \ {h} : files[g] = i
    THEN open_handles_by_ino ELSE Drop(open_handles_by_ino, {i})

Released(i, h) ==
  Drop(open_handles_by_ino, {j \in DOMAIN open_handles_by_ino :
                               j = i \/ open_handles_by_ino[j] = h})

release(h, ok) ==
  /\ StoreBlocks(h, ok)
  /\ open_handles' = Drop(HandlesAfterFlush(h, ok), {h})
  /\ open_handles_by_ino' = Released(files[h], h)
  /\ pend' = Drop(pend, {h})
  /\ files' = Drop(files, {h})
  /\ Count(ok)
  /\ reply' = [op |-> "release", fh |-> h, res |-> "OK"]
  /\ UNCHANGED <<maps, next_fh, posix, writes>>

-----------------------------------------------------------------------------
(* setattr(size) on an inode the kernel holds, open or linked: Db::truncate*)
(* on the key it resolves to.  No buffer is consulted.                     *)
setattr(i, n, ok) ==
  LET k == path_by_ino[i]
      f == Truncate([size |-> size[k], rows |-> rows[k]], n)
      found == i \in DOMAIN path_by_ino /\ k \in DOMAIN size
  IN  /\ IF found /\ ok
           THEN /\ size' = [size EXCEPT ![k] = f.size]
                /\ rows' = [rows EXCEPT ![k] = f.rows]
                /\ posix' = [posix EXCEPT ![i] = PosixResize(@, n)]
                /\ reply' = [op |-> "setattr", res |-> "OK"]
           ELSE /\ reply' = [op |-> "setattr", res |-> IF found THEN "EIO" ELSE "ENOENT"]
                /\ UNCHANGED <<db, posix>>
      /\ Count(ok)
      /\ UNCHANGED <<maps, handles, files, pend, writes>>

unlink(k) ==
  /\ k \in DOMAIN size
  /\ Nameable(k)
  /\ size' = Drop(size, {k})
  /\ rows' = [rows EXCEPT ![k] = NoRows]
  /\ ino_by_path' = Drop(ino_by_path, {k})
  /\ path_by_ino' = Drop(path_by_ino, {ino_by_path[k]})
  /\ reply' = [op |-> "unlink", res |-> "OK"]
  /\ UNCHANGED <<next_ino, handles, files, posix, pend, writes, fails>>

(* rename of a file, onto a free key or another file.  Rows of blocks left *)
(* under a free key collide with the moved ones and abort the transaction. *)
HasRow(k, b) == rows[k][b] # <<>>

renameLeavesBlocks(k, l) ==
  /\ k \in DOMAIN size /\ k # l
  /\ Nameable(k) /\ (l \in DOMAIN size => Nameable(l))
  /\ size' = Put(Drop(size, {k}), l, size[k])
  /\ ino_by_path' = RekeyInoByPath(ino_by_path, k, l)
  /\ path_by_ino' = RekeyPathByIno(ino_by_path, path_by_ino, k, l)
  /\ reply' = [op |-> "rename", res |-> "OK"]
  /\ UNCHANGED <<rows, next_ino, handles, files, posix, pend, writes, fails>>

rename(k, l) ==
  LET collide == l \notin DOMAIN size /\ \E b \in BlockNo : HasRow(k, b) /\ HasRow(l, b)
      kept(b) == IF l \in DOMAIN size THEN <<>> ELSE rows[l][b]
  IN  /\ k \in DOMAIN size /\ k # l
      /\ Nameable(k) /\ (l \in DOMAIN size => Nameable(l))
      /\ \/ /\ collide
            /\ reply' = [op |-> "rename", res |-> "EIO"]
            /\ UNCHANGED <<db, maps>>
         \/ /\ ~collide
            /\ size' = Put(Drop(size, {k}), l, size[k])
            /\ rows' = [rows EXCEPT
                 ![k] = NoRows,
                 ![l] = [b \in BlockNo |-> IF HasRow(k, b) THEN rows[k][b] ELSE kept(b)]]
            /\ ino_by_path' = RekeyInoByPath(ino_by_path, k, l)
            /\ path_by_ino' = RekeyPathByIno(ino_by_path, path_by_ino, k, l)
            /\ reply' = [op |-> "rename", res |-> "OK"]
            /\ UNCHANGED next_ino
      /\ UNCHANGED <<handles, files, posix, pend, writes, fails>>

KernelInodes == {files[h] : h \in DOMAIN files} \union {ino_by_path[k] : k \in DOMAIN size}

Next ==
  \/ \E k \in Key : create(k) \/ open(k) \/ unlink(k)
  \/ \E k, l \in Key : rename(k, l)
  \/ \E h \in DOMAIN files : \E w \in Writes, ok \in Outcome : write(h, w[1], w[2], ok)
  \/ \E h \in DOMAIN files : \E ok \in FlushOutcome(h) :
       \/ \E r \in Reads : read(h, r[1], r[2], ok)
       \/ flush(h, ok)
       \/ fsync(h, ok)
       \/ release(h, ok)
  \/ \E i \in KernelInodes, n \in Sizes, ok \in Outcome : setattr(i, n, ok)

Spec == Init /\ [][Next]_vars

-----------------------------------------------------------------------------
Visible(k, i) == IF i < size[k] THEN RowCell(rows[k], i) ELSE 0

(* A handle's buffer holds, cell for cell, the last value the handle       *)
(* acknowledged for every offset it has not stored yet, whatever the order *)
(* and overlap of the writes (HandleBuffer::write, flush_handle).          *)
BufferHoldsPending ==
  \A h \in DOMAIN open_handles :
    \A i \in DOMAIN pend[h] :
      LET b == i \div BS
      IN  /\ i < open_handles[h].max_size
          /\ b \in DOMAIN open_handles[h].dirty
          /\ i % BS < Len(open_handles[h].dirty[b])
          /\ open_handles[h].dirty[b][(i % BS) + 1] = pend[h][i]

(* No buffered block reaches past max_size, the size write_blocks_batch    *)
(* will record: a flush never stores a cell its own size update hides.     *)
BufferBelowMaxSize ==
  \A h \in DOMAIN open_handles : \A b \in DOMAIN open_handles[h].dirty :
    b * BS + Len(open_handles[h].dirty[b]) <= open_handles[h].max_size

(* Whenever a flush of a handle succeeds (in flush, fsync, read or         *)
(* release) and its key still names a file, every cell the handle had      *)
(* pending reads back from that file, below its size.                      *)
FlushLands ==
  [][\A h \in DOMAIN open_handles :
       /\ pend[h] # NothingPending /\ fails' = fails
       /\ h \notin DOMAIN pend' \/ pend'[h] = NothingPending
       /\ open_handles[h].key \in DOMAIN size
       => \A i \in DOMAIN pend[h] :
            LET k == open_handles[h].key
            IN  i < size'[k] /\ RowCell(rows'[k], i) = pend[h][i]]_vars

(* The size of a file that stays linked under its inode shrinks only by    *)
(* setattr: flushes of several handles, late or repeated, take the maximum *)
(* (write_blocks_batch, write_range).                                      *)
SizeShrinksOnlyBySetattr ==
  [][\A k \in DOMAIN size \intersect DOMAIN size' :
       ino_by_path'[k] = ino_by_path[k] /\ reply'.op # "setattr" => size'[k] >= size[k]]_vars

(* A handle id in open_handles_by_ino is an open file of that very inode:  *)
(* the fallback for fh = 0 can only pick a buffer of the right file.       *)
ByInoIsOpenHere ==
  \A i \in DOMAIN open_handles_by_ino :
    open_handles_by_ino[i] \in DOMAIN files /\ files[open_handles_by_ino[i]] = i

(* Once no one has a linked file open, the database holds what a POSIX     *)
(* file would after every acknowledged write and truncation.               *)
ClosedFileIsPosix ==
  \A k \in DOMAIN size : Closed(k) =>
    LET f == posix[ino_by_path[k]]
    IN  size[k] = f.size /\ \A i \in Offset : Visible(k, i) = f.cells[i]

(* A read returns the acknowledged contents of the file it was opened on.  *)
ReadsSeeAckedWrites ==
  reply.op = "read" /\ reply.res = "OK" =>
    LET f == posix[files[reply.fh]]
        n == IF reply.off >= f.size THEN 0 ELSE Smaller(reply.len, f.size - reply.off)
    IN  reply.data = [j \in 1..n |-> f.cells[reply.off + j - 1]]

(* No rows of blocks are left under a key that names no file.              *)
NoOrphanRows == \A k \in Key \ DOMAIN size : rows[k] = NoRows

-----------------------------------------------------------------------------
(* What the documents promise of a step, and the code does not keep.       *)

(* "appends never clobber earlier data": a flush changes no cell below the *)
(* size that the flushed handle did not write.                             *)
FlushKeepsOtherCells ==
  \A h \in DOMAIN open_handles :
    reply'.op \in {"flush", "fsync", "read", "release"} /\ reply'.fh = h =>
      LET k == open_handles[h].key
      IN  k \in DOMAIN size =>
            \A i \in Offset \ DOMAIN pend[h] :
              i < size[k] => RowCell(rows'[k], i) = RowCell(rows[k], i)

(* "flushing pending writes [...] on explicit fsync": fsync replies OK     *)
(* only when nothing the handle acknowledged is unstored.                  *)
FsyncOkMeansStored ==
  reply'.op = "fsync" /\ reply'.res = "OK" => pend'[reply'.fh] = NothingPending

(* "truncates or extends a regular file to the given size (zero-filled     *)
(* extension)": setattr with a larger size adds nothing but zeros.         *)
ExtensionZeroFilled ==
  reply'.op = "setattr" =>
    \A k \in DOMAIN size :
      size'[k] > size[k] => \A i \in Offset : i >= size[k] => Visible(k, i)' = 0
=============================================================================
