----------------------------- MODULE Namespace ------------------------------
(***************************************************************************)
(* The directory tree: the `entries` and `blocks` tables of db.rs, the     *)
(* inode maps and the keys of the open handles of fs.rs, and the callbacks *)
(* that change them (lookup, create, mkdir, unlink, rmdir, rename, readdir *)
(* and the placing of a file's content).  fuser runs one callback at a     *)
(* time and each holds &mut self, so a callback is one action.  The mount  *)
(* is one without --replica: lookup and readdir read the primary (Replica  *)
(* has the routed reads).                                                  *)
(*                                                                         *)
(* The kernel is external.  It names objects by inode: `known` records     *)
(* which object every inode it was handed stood for at that moment, and    *)
(* the kernel passes as a parent only an inode that stands for a live      *)
(* directory (it drops dentries of removed ones itself).                   *)
(*                                                                         *)
(* Object ids are history: id tells apart two files that have had the same *)
(* path.  A row of blocks is <<key, id>>, the file whose content it holds; *)
(* block numbers are left out, so the rows of one key may be of several    *)
(* files.  handles are the open files, with the key that their handle took *)
(* when it was opened; two handles of one file with one key are one, and   *)
(* the release of the first is then a flush.                               *)
(***************************************************************************)
EXTENDS Paths, FiniteSets

CONSTANTS
  Name,      \* entry names
  Like,      \* <<x, y>>: SQL pattern x matches the name y ("_" is a wildcard)
  MaxDepth,  \* components of the longest path
  MaxIno,    \* inodes the model may hand out
  MaxId,     \* objects the model may create
  DbMayFail  \* may a statement fail between two autocommitted statements?

ASSUME LikeAssumption == Like \subseteq Name \X Name /\ \A n \in Name : <<n, n>> \in Like
ASSUME BoundsAssumption == MaxDepth \in Nat \ {0} /\ MaxIno \in Nat \ {0} /\ MaxId \in Nat
ASSUME DbMayFailAssumption == DbMayFail \in BOOLEAN

VARIABLES
  entries,      \* path -> [kind, id], the rows of entries
  blocks,       \* <<key, id>>, the rows of blocks
  ino_by_path,  \* PgFs::ino_by_path
  path_by_ino,  \* PgFs::path_by_ino
  next_ino,     \* PgFs::next_ino
  handles,      \* <<key, id>>, PgFs::open_handles
  known,        \* <<inode, id>>: what the kernel was told
  next_id,      \* next object id (history)
  lost,         \* files whose unlink failed half way (history)
  replaced,     \* objects of this mount that a rename replaced (history)
  strayed,      \* files that left the key of an open handle (history)
  reply         \* the last reply

db == <<entries, blocks>>
maps == <<ino_by_path, path_by_ino, next_ino>>
history == <<next_id, lost, replaced, strayed>>
vars == <<entries, blocks, ino_by_path, path_by_ino, next_ino, handles, known,
          next_id, lost, replaced, strayed, reply>>

ROOT_INO == 1
ROOT_ID == 0
Kind == {"file", "dir"}
Errno == {"OK", "ENOENT", "EEXIST", "EINVAL", "EISDIR", "ENOTDIR", "ENOTEMPTY", "EIO"}

Path == UNION {[1..n -> Name] : n \in 0..MaxDepth}
Ino == 1..MaxIno
Id == 0..MaxId

TypeOK ==
  /\ DOMAIN entries \subseteq Path \ {Root}
  /\ \A p \in DOMAIN entries : entries[p] \in [kind : Kind, id : Id]
  /\ blocks \subseteq Seq(Name) \X Id
  /\ DOMAIN ino_by_path \subseteq Path
  /\ \A p \in DOMAIN ino_by_path : ino_by_path[p] \in Ino
  /\ DOMAIN path_by_ino \subseteq Ino
  /\ \A i \in DOMAIN path_by_ino : path_by_ino[i] \in Path
  /\ next_ino \in 2..(MaxIno + 1)
  /\ handles \subseteq Path \X Id
  /\ known \subseteq Ino \X Id
  /\ next_id \in 1..(MaxId + 1)
  /\ lost \subseteq Id /\ replaced \subseteq Id /\ strayed \subseteq Id
  /\ reply \in Errno

-----------------------------------------------------------------------------
Init ==
  /\ entries = [p \in {} |-> [kind |-> "file", id |-> 0]]
  /\ blocks = {}
  /\ ino_by_path = [p \in {Root} |-> ROOT_INO]
  /\ path_by_ino = [i \in {ROOT_INO} |-> Root]
  /\ next_ino = ROOT_INO + 1
  /\ handles = {}
  /\ known = {<<ROOT_INO, ROOT_ID>>}
  /\ next_id = ROOT_ID + 1
  /\ lost = {} /\ replaced = {} /\ strayed = {}
  /\ reply = "OK"

Exists(p) == p \in DOMAIN entries
IsDir(p) == Exists(p) /\ entries[p].kind = "dir"
Linked(id) == \E p \in DOMAIN entries : entries[p].id = id
HasChildren(p) == \E q \in DOMAIN entries : q # Root /\ ParentOf(q) = p

(* The inodes the kernel may pass as a parent directory, or as a file.     *)
KernelDirs ==
  {i \in DOMAIN path_by_ino : \E id \in Id :
     /\ <<i, id>> \in known
     /\ id = ROOT_ID \/ \E p \in DOMAIN entries : IsDir(p) /\ entries[p].id = id}

KernelFiles ==
  {i \in DOMAIN path_by_ino : \E p \in DOMAIN entries :
     entries[p].kind = "file" /\ <<i, entries[p].id>> \in known}

(* The kernel looks a name up before it removes or renames the entry.      *)
Looked(p) == Exists(p) => \E i \in Ino : <<i, entries[p].id>> \in known

(* path_of_ino *)
PathOf(i) == IF i = ROOT_INO THEN Root ELSE path_by_ino[i]

(* A reply that changes nothing: an error return, or rename onto itself.   *)
Answer(r) ==
  /\ reply' = r
  /\ UNCHANGED <<db, maps, handles, known, history>>

(* The open files whose handle has a key that is not theirs in table e.    *)
Astray(e) ==
  {h[2] : h \in {g \in handles : ~(g[1] \in DOMAIN e /\ e[g[1]].id = g[2])}}

(* ino_for(p), and the reply that tells the kernel that it stands for id.  *)
InoForReuses(p, id) ==
  /\ ino_by_path' = Put(ino_by_path, p, next_ino - 1)
  /\ path_by_ino' = Put(path_by_ino, next_ino - 1, p)
  /\ known' = known \union {<<next_ino - 1, id>>}
  /\ UNCHANGED next_ino

InoForPreIncrement(p, id) ==
  /\ next_ino <= MaxIno
  /\ ino_by_path' = Put(ino_by_path, p, next_ino + 1)
  /\ path_by_ino' = Put(path_by_ino, next_ino + 1, p)
  /\ known' = known \union {<<next_ino + 1, id>>}
  /\ next_ino' = next_ino + 1

InoFor(p, id) ==
  \/ /\ p \in DOMAIN ino_by_path
     /\ known' = known \union {<<ino_by_path[p], id>>}
     /\ UNCHANGED maps
  \/ /\ p \notin DOMAIN ino_by_path
     /\ next_ino <= MaxIno
     /\ ino_by_path' = Put(ino_by_path, p, next_ino)
     /\ path_by_ino' = Put(path_by_ino, next_ino, p)
     /\ known' = known \union {<<next_ino, id>>}
     /\ next_ino' = next_ino + 1

(* The map updates of a successful unlink or rmdir.                        *)
Forget(p) ==
  /\ ino_by_path' = Drop(ino_by_path, {p})
  /\ path_by_ino' = IF p \in DOMAIN ino_by_path
                      THEN Drop(path_by_ino, {ino_by_path[p]}) ELSE path_by_ino
  /\ UNCHANGED next_ino

-----------------------------------------------------------------------------
lookup(i, n) ==
  LET p == Join(PathOf(i), n)
  IN  \/ /\ ~Exists(p)
         /\ Answer("ENOENT")
      \/ /\ Exists(p)
         /\ InoFor(p, entries[p].id)
         /\ reply' = "OK"
         /\ UNCHANGED <<db, handles, history>>

(* create and mkdir: the EEXIST check, the INSERT ... ON CONFLICT DO       *)
(* NOTHING, for a file the handle with the key, then the inode.            *)
MakeUnchecked(i, n, kind) ==
  LET p == Join(PathOf(i), n)
  IN  /\ next_id <= MaxId
      /\ entries' = Put(entries, p, [kind |-> kind, id |-> next_id])
      /\ next_id' = next_id + 1
      /\ handles' = IF kind = "file" THEN handles \union {<<p, next_id>>} ELSE handles
      /\ InoFor(p, next_id)
      /\ reply' = "OK"
      /\ UNCHANGED <<blocks, lost, replaced, strayed>>

Make(i, n, kind) ==
  LET p == Join(PathOf(i), n)
  IN  \/ /\ Exists(p)
         /\ Answer("EEXIST")
      \/ /\ ~Exists(p)
         /\ next_id <= MaxId
         /\ entries' = Put(entries, p, [kind |-> kind, id |-> next_id])
         /\ next_id' = next_id + 1
         /\ handles' = IF kind = "file" THEN handles \union {<<p, next_id>>} ELSE handles
         /\ InoFor(p, next_id)
         /\ reply' = "OK"
         /\ UNCHANGED <<blocks, lost, replaced, strayed>>

create(i, n) == Make(i, n, "file")
mkdir(i, n) == Make(i, n, "dir")

(* Db::unlink deletes the row of entries and the rows of blocks in two     *)
(* statements; it checks neither existence nor kind.  The kernel sends it  *)
(* for a name it knows as a file.                                          *)
unlinkKeepsBlocks(i, n) ==
  LET p == Join(PathOf(i), n)
  IN  /\ Exists(p) /\ ~IsDir(p)
      /\ entries' = Drop(entries, {p})
      /\ Forget(p)
      /\ strayed' = strayed \union Astray(entries')
      /\ reply' = "OK"
      /\ UNCHANGED <<blocks, handles, known, next_id, lost, replaced>>

unlink(i, n) ==
  LET p == Join(PathOf(i), n)
  IN  /\ Exists(p) /\ ~IsDir(p)
      /\ entries' = Drop(entries, {p})
      /\ blocks' = {r \in blocks : r[1] # p}
      /\ Forget(p)
      /\ strayed' = strayed \union Astray(entries')
      /\ reply' = "OK"
      /\ UNCHANGED <<handles, known, next_id, lost, replaced>>

(* The second statement of Db::unlink fails: the callback replies EIO and  *)
(* returns before it touches the maps.                                     *)
unlinkHalfDone(i, n) ==
  LET p == Join(PathOf(i), n)
  IN  /\ DbMayFail
      /\ Exists(p) /\ ~IsDir(p)
      /\ entries' = Drop(entries, {p})
      /\ lost' = lost \union {entries[p].id}
      /\ reply' = "EIO"
      /\ UNCHANGED <<blocks, maps, handles, known, next_id, replaced, strayed>>

rmdir(i, n) ==
  LET p == Join(PathOf(i), n)
  IN  \/ /\ ~Exists(p)
         /\ Answer("ENOENT")
      \/ /\ IsDir(p) /\ HasChildren(p)
         /\ Answer("ENOTEMPTY")
      \/ /\ IsDir(p) /\ ~HasChildren(p)
         /\ entries' = Drop(entries, {p})
         /\ Forget(p)
         /\ reply' = "OK"
         /\ UNCHANGED <<blocks, handles, known, history>>

-----------------------------------------------------------------------------
(* parent LIKE old || '/%': old is a pattern, so each of its names matches *)
(* every name that Like pairs it with.                                     *)
LikeBelow(old, p) ==
  Len(p) > Len(old) /\ \A k \in 1..Len(old) : <<old[k], p[k]>> \in Like

RowsUnderNone(keys, old) == {}

RowsUnder(keys, old) ==
  {q \in keys : q # Root /\ (ParentOf(q) = old \/ LikeBelow(old, ParentOf(q)))}

(* The keys Db::rename replaces in a table with these keys.                *)
RowsMoved(keys, kind, old) ==
  ({old} \intersect keys) \union (IF kind = "dir" THEN RowsUnder(keys, old) ELSE {})

KeysOf(rows) == {r[1] : r \in rows}

(* The source exists, the target may be replaced by it.                    *)
Renamable(old, new) ==
  /\ ~Within(old, new)
  /\ Exists(old)
  /\ Exists(new) => /\ entries[old].kind = entries[new].kind
                    /\ ~(IsDir(new) /\ HasChildren(new))

(* Db::rename, one transaction: the target row and its blocks are deleted, *)
(* descendants get the new parent, the entry and its blocks the new key.   *)
(* Two entries under one key, or two blocks of one number, abort it.  Then *)
(* rekey_path_maps, which leaves the keys of open handles alone.           *)
MoveEntry(old, new) ==
  LET R(p) == Rebase(old, new, p)
      kind == entries[old].kind
      e    == Drop(entries, {new})
      b    == IF Exists(new) THEN {r \in blocks : r[1] # new} ELSE blocks
      eS   == RowsMoved(DOMAIN e, kind, old)
      bS   == RowsMoved(KeysOf(b), kind, old)
  IN  /\ \A p \in eS \union Rekeyed(ino_by_path, old) : Len(R(p)) <= MaxDepth
      /\ \/ /\ KeysCollide(DOMAIN e, eS, R) \/ KeysCollide(KeysOf(b), bS, R)
            /\ Answer("EIO")
         \/ /\ ~KeysCollide(DOMAIN e, eS, R)
            /\ entries' = MoveKeys(e, eS, R)
            /\ blocks' = {<<IF r[1] \in bS THEN R(r[1]) ELSE r[1], r[2]>> : r \in b}
            /\ ino_by_path' = RekeyInoByPath(ino_by_path, old, new)
            /\ path_by_ino' = RekeyPathByIno(ino_by_path, path_by_ino, old, new)
            /\ replaced' = replaced \union
                            {entries[p].id : p \in {new} \intersect DOMAIN entries}
            /\ strayed' = strayed \union Astray(entries')
            /\ reply' = "OK"
            /\ UNCHANGED <<next_ino, handles, known, next_id, lost>>

rename(i, n, j, m) ==
  LET old == Join(PathOf(i), n)
      new == Join(PathOf(j), m)
      onto == Exists(old) /\ Exists(new) /\ ~Within(old, new)
  IN  \/ /\ old = new
         /\ Answer("OK")
      \/ /\ StrictlyWithin(old, new)
         /\ Answer("EINVAL")
      \/ /\ ~Within(old, new) /\ ~Exists(old)
         /\ Answer("ENOENT")
      \/ /\ onto /\ ~IsDir(old) /\ IsDir(new)
         /\ Answer("EISDIR")
      \/ /\ onto /\ IsDir(old) /\ ~IsDir(new)
         /\ Answer("ENOTDIR")
      \/ /\ onto /\ IsDir(old) /\ IsDir(new) /\ HasChildren(new)
         /\ Answer("ENOTEMPTY")
      \/ /\ Renamable(old, new)
         /\ MoveEntry(old, new)

(* fs.rs rename looks at the target with `if let Ok(Some(..))`: when that  *)
(* query fails the kind checks are skipped and Db::rename, which only      *)
(* refuses a non-empty directory, replaces whatever is there.              *)
renameTargetUnseen(i, n, j, m) ==
  LET old == Join(PathOf(i), n)
      new == Join(PathOf(j), m)
  IN  /\ DbMayFail
      /\ Exists(old) /\ Exists(new) /\ ~Within(old, new)
      /\ \/ /\ IsDir(new) /\ HasChildren(new)
            /\ Answer("EIO")
         \/ /\ ~(IsDir(new) /\ HasChildren(new))
            /\ MoveEntry(old, new)

(* readdir allocates an inode for ".." and for every child it lists.  The  *)
(* order of the children (by name) is left open.                           *)
readdir(i) ==
  LET p == PathOf(i)
      listed == {q \in DOMAIN entries : ParentOf(q) = p} \union {ParentOf(p)}
      fresh == listed \ DOMAIN ino_by_path
  IN  \E n \in next_ino..(MaxIno + 1) : \E num \in [fresh -> next_ino..(n - 1)] :
        /\ \A q, r \in fresh : num[q] = num[r] => q = r
        /\ \A k \in next_ino..(n - 1) : \E q \in fresh : num[q] = k
        /\ ino_by_path' = [q \in DOMAIN ino_by_path \union fresh |->
                             IF q \in fresh THEN num[q] ELSE ino_by_path[q]]
        /\ path_by_ino' = [k \in DOMAIN path_by_ino \union next_ino..(n - 1) |->
                             IF k \in next_ino..(n - 1)
                               THEN CHOOSE q \in fresh : num[q] = k
                               ELSE path_by_ino[k]]
        /\ next_ino' = n
        /\ reply' = "OK"
        /\ UNCHANGED <<db, handles, known, history>>

(* open: the handle takes the key its inode resolves to at this moment.    *)
open(i) ==
  \E p \in DOMAIN entries :
    /\ entries[p].kind = "file" /\ <<i, entries[p].id>> \in known
    /\ handles' = handles \union {<<PathOf(i), entries[p].id>>}
    /\ reply' = "OK"
    /\ UNCHANGED <<db, maps, known, history>>

(* flush_handle, from flush, fsync and read: buffered content reaches the  *)
(* rows of the handle's key, whatever is there by now.                     *)
flush(h) ==
  /\ blocks' = blocks \union {h}
  /\ reply' = "OK"
  /\ UNCHANGED <<entries, maps, handles, known, history>>

(* release: a flush, if there is something to flush and it succeeds.       *)
release(h) ==
  /\ blocks' \in {blocks, blocks \union {h}}
  /\ handles' = handles \ {h}
  /\ reply' = "OK"
  /\ UNCHANGED <<entries, maps, known, history>>

(* A write after a failed flush has dropped the handle: it goes straight   *)
(* to the rows of the path its inode resolves to.                          *)
store(h, i) ==
  /\ DbMayFail /\ <<i, h[2]>> \in known
  /\ \/ /\ i \notin DOMAIN path_by_ino
        /\ Answer("ENOENT")
     \/ /\ i \in DOMAIN path_by_ino
        /\ blocks' = blocks \union {<<path_by_ino[i], h[2]>>}
        /\ reply' = "OK"
        /\ UNCHANGED <<entries, maps, handles, known, history>>

(* The daemon ends, cleanly or not, and a new one mounts the same tables:  *)
(* the inode maps start over, and so does the kernel.                      *)
remount ==
  /\ ino_by_path' = [p \in {Root} |-> ROOT_INO]
  /\ path_by_ino' = [i \in {ROOT_INO} |-> Root]
  /\ next_ino' = ROOT_INO + 1
  /\ handles' = {}
  /\ known' = {<<ROOT_INO, ROOT_ID>>} /\ replaced' = {}
  /\ reply' = "OK"
  /\ UNCHANGED <<db, next_id, lost, strayed>>

Next ==
  \/ \E i \in KernelDirs, n \in Name :
       /\ Len(PathOf(i)) < MaxDepth
       /\ \/ lookup(i, n) \/ create(i, n) \/ mkdir(i, n)
          \/ /\ Looked(Join(PathOf(i), n))
             /\ unlink(i, n) \/ unlinkHalfDone(i, n) \/ rmdir(i, n)
  \/ \E i, j \in KernelDirs, n, m \in Name :
       /\ Len(PathOf(i)) < MaxDepth /\ Len(PathOf(j)) < MaxDepth
       /\ Looked(Join(PathOf(i), n)) /\ Looked(Join(PathOf(j), m))
       /\ rename(i, n, j, m) \/ renameTargetUnseen(i, n, j, m)
  \/ \E i \in KernelDirs : readdir(i)
  \/ \E i \in KernelFiles : open(i)
  \/ \E h \in handles : flush(h) \/ release(h) \/ \E i \in Ino : store(h, i)
  \/ remount

Spec == Init /\ [][Next]_vars

-----------------------------------------------------------------------------
(* The two inode maps agree on every path that has an inode, so no two     *)
(* paths share one, and next_ino is above every inode in use: a fresh      *)
(* inode is never one the kernel already holds (ino_for, rekey_maps).      *)
MapsAgree ==
  /\ \A p \in DOMAIN ino_by_path :
       /\ ino_by_path[p] \in DOMAIN path_by_ino
       /\ path_by_ino[ino_by_path[p]] = p
  /\ \A i \in DOMAIN path_by_ino : i < next_ino

(* Whatever renames moved it or its ancestors, the inode the kernel holds  *)
(* for a linked object resolves to that object's row (rename must re-key   *)
(* the maps exactly as the transaction re-keys the rows).  The inode of an *)
(* object that is gone leads to another's row only if a rename replaced    *)
(* it, which leaves its inode on the path, or its unlink failed half way.  *)
KnownInodeResolves ==
  \A k \in known :
    /\ \A p \in DOMAIN entries :
         entries[p].id = k[2] => k[1] \in DOMAIN path_by_ino /\ path_by_ino[k[1]] = p
    /\ k[1] \in DOMAIN path_by_ino /\ Exists(path_by_ino[k[1]]) =>
         entries[path_by_ino[k[1]]].id = k[2] \/ k[2] \in lost \union replaced

(* Every entry hangs in a directory that exists: no operation, rename of a *)
(* subtree included, leaves rows that no lookup can reach.                 *)
TreeClosed ==
  \A p \in DOMAIN entries : ParentOf(p) = Root \/ IsDir(ParentOf(p))

(* Rows of blocks belong to the file whose key they carry: content neither *)
(* stays behind when its file moves or dies nor shows up in another file.  *)
(* The exceptions: files whose unlink failed half way, and files renamed,  *)
(* unlinked or replaced while a handle had their key, which its flush goes *)
(* on writing to (flush_handle, Db::rename, Db::unlink).                   *)
BlocksFollowEntries ==
  \A r \in blocks :
    \/ Exists(r[1]) /\ entries[r[1]].kind = "file" /\ entries[r[1]].id = r[2]
    \/ r[2] \in lost \union strayed

(* "path -> inode, allocated lazily and never reused" (fs.rs 80): an inode *)
(* number stands for one object, for the life of the mount; only a failed  *)
(* unlink leaves a number that the next file of the name gets again.       *)
InodeNeverReused ==
  \A k, l \in known : k[1] = l[1] /\ k[2] \notin lost /\ l[2] \notin lost => k[2] = l[2]
=============================================================================
