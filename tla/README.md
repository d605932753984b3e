# TLA+ models of pgfs

pgfs is a FUSE file system that stores files in PostgreSQL: a row of `entries`
per file or directory, a row of `blocks` per 64 KiB block. This directory holds
TLA+ models of its parts, the TLC configurations that check them and the TLAPS
proofs about them. Every definition is translated from the Rust code under
`src/`; `PROJECT.json` ("map") gives the lines each one stands for.

## The system

| Component | State | Operations | Talks to |
|---|---|---|---|
| Block storage (`db.rs`) | `entries.size`, rows of `blocks` | `write_range`, `truncate`, `read_range`, `write_blocks_batch` | PostgreSQL, one transaction each |
| File handles (`fs.rs`) | `open_handles` (key, dirty blocks, `max_size`), `open_handles_by_ino`, `next_fh` | `create`, `open`, `write`, `read`, `flush`, `fsync`, `release`, `setattr` | block storage; inode maps |
| Namespace (`fs.rs`, `db.rs`) | keys of `entries` and `blocks`; `ino_by_path`, `path_by_ino`, `next_ino` | `lookup`, `create`, `mkdir`, `unlink`, `rmdir`, `rename`, `readdir` | PostgreSQL; the kernel, which names objects by inode |
| Replica routing (`db.rs`) | cached verdict and its time; the replica connection | `replica_fresh(_cached)`, routed `getattr`, `list` | primary and standby |
| Heartbeat (`metrics.rs`) | `LIVENESS`, `LAST_BEAT_SEEN`, `BEAT_DEADLINE_AT`, `DEADLOCK_DETECTED` | heartbeat thread, `check_liveness` in every callback | watchdog thread |
| Lifecycle (`main.rs`) | signal mask, pid and ready files, mount, dump flag, profiler | `run`, signal waiter, watchdog, guards | heartbeat, callbacks, kernel, supervisor |
| Metrics (`metrics.rs`) | counters, histograms | `FuseLatencyGuard`, `record`, `summary`, periodic export | callbacks, log |
| Pool, errors, command line | connections, text | | |

fuser runs one callback at a time and each callback has `&mut self`, so the
file system itself is sequential: a callback is one action. What is hard is
elsewhere: long sequences of callbacks over several handles and names, database
failures in the middle of a callback, the four queries of a routed read racing
the WAL and the standby, a directory that changes between the pages of a scan,
and the threads beside the callbacks: heartbeat, watchdog, signal waiter and
export, in a process that may be killed at any step and launched again.
`PROJECT.json` ("hazards") lists these places line by line.

What makes each part correct:

* block storage: it behaves as a POSIX file;
* handles: acknowledged writes reach the file they were made to, in order, and
  are seen by readers; failures are reported;
* namespace: every entry hangs in an existing directory, rows of `blocks`
  belong to the file whose key they carry, an inode the kernel holds resolves to
  the object it was given for;
* replica: reads from the standby are stale by a bounded amount, and the source
  follows the state of the standby;
* heartbeat: no false alarm, and no alarm without silence;
* lifecycle: a flagged deadlock ends the mount, whatever fails or hangs; every
  termination signal has its attempt to unmount; the health files tell the truth;
* metrics: every timed callback leaves one sample, and no export, made while
  callbacks run, shows more than there were.

## Modules

* `Blocks` — pure operators: the arithmetic of blocks, `WriteRange`, `Truncate`,
  `UpsertRows`/`BatchSize`, `ReadRange`, `BufferWrite`. A cell stands for a byte,
  cell 0 for the zero byte, a row is a sequence of cells (empty: no row).
* `FileSpec` — what a file promises, without blocks: `Spec` (POSIX) and
  `WeakSpec` (silent on the contents of holes).
* `BlockStore` — the storage operations on one file; implements `FileSpec` with
  the file's size and the cells a reader sees as refinement mapping. `kept`
  (history) records that a truncation to a multiple of the block size has kept
  a row.
* `Paths` — paths as sequences of names, hash maps as functions, and `rekey_maps`
  as operators. A row's key `(parent, name)` is the path `Join(parent, name)`.
* `Namespace` — the tree, the two tables' keys, the inode maps and the keys of open
  handles. Object ids are history variables that tell apart two files of the same
  name; a row of `blocks` is a key and the file whose content it holds. A handle
  takes its key in `create` or `open` and `flush` and `release` write there, whatever
  the key names by then; only a write that finds no handle (after a failed flush)
  goes to the path its inode has now (`store`). `strayed` (history) holds the files
  that left the key of an open handle. The mount is one without `--replica`:
  `lookup` and `readdir` read the primary's rows; the routed reads behind them
  (`fs.rs:316`, `fs.rs:890`) are the subject of `Replica`. `known` is what
  the kernel has been told. `Like` says which names a name matches as an SQL
  pattern. `unlinkHalfDone` and `renameTargetUnseen` are the callbacks when one
  of their statements fails (`DbMayFail`); an error that changes nothing is a
  stuttering step. `lost` (history) holds the files whose unlink failed half
  way, `replaced` (history) the objects a rename has replaced. `remount` starts
  the maps and the kernel's knowledge over on the same tables. The kernel looks a
  name up before it unlinks or renames it (`Looked`).
* `Readdir` — one scan of a directory by the kernel, page by page; an offset is a
  position in the list of the moment. `got`, `throughout`, `inserted` and
  `removed` are history.
* `Metrics` — the counters (as their sum), the FUSE latency histogram, the export
  thread's loads one atomic at a time, `record` and `summary`. All accesses are
  `Ordering::Relaxed` in the code. Of one atomic, a thread never sees a value older
  than one it has seen; between atomics nothing is ordered. So a load answers any
  value the atomic has had since the one that the export thread loaded before.
  `turned` and `untimed` (history) count the callbacks that the preamble turned away,
  which have a sample and no count, and those without a guard (`flush`, `release`),
  which have neither.
* `Service` — composes `Readdir` and `Metrics`: a callback takes its guard and
  counts itself, does its work on the directory, and records when it returns,
  with or without an error.
* `Handles` — buffers and block storage together, for regular files under one
  directory. `posix` (what the file should hold) and `pend` (what a handle has
  acknowledged and not stored) are history. `ok` is the outcome of the callback's
  transaction. Composes `Blocks` and `Paths`.
* `Replica` — WAL positions are numbers. `hist[d]` is the position written `d`
  ticks ago, `age` the age of the cached verdict, both saturating at the TTL.
  Mutations happen between reads only (one callback at a time), the WAL writer,
  the standby and the clock at any moment. PostgreSQL's part is external.
  `MCReplica` adds a step that subtracts what all positions in use share: positions
  only grow and are only compared, so with it mutations can go on for ever within
  the bound, which then limits how far the primary is ahead.
* `BeatSpec` — what the heartbeat promises, without counters and clocks: a beat is
  new, seen or late, only the silence of a stopped thread becomes late, only a
  late beat raises the alarm.
* `Heartbeat` — the heartbeat thread, a callback inside `check_liveness` (clock
  first, counter second) and the clock; implements `BeatSpec`. The step of the
  clock, or the end of a check, that brings the deadline of a stopped thread into
  the past maps to `DeadlinePasses`; a check that finds a new beat, or is early,
  to `Healthy` or a stutter; the raised flag to `Alarm`.
* `Lifecycle` — `run` from the blocking of signals to the drops of its locals, the
  signal waiter, the watchdog with its five attempts, the mutex of the unmounter
  that these two share (`locked`), the preamble of the
  callbacks, the profiler's toggle, and a supervisor that launches a new process
  over what a dead one left. The heartbeat in it is `BeatSpec`. `ghost` is the
  mount of a dead process until AutoUnmount removes it; `stale` and `failed` are
  history.
* `BlocksProofs` — lemmas about the operators of `Blocks`; `BlockStoreProofs`,
  `HandlesProofs`, `NamespaceProofs`, `ServiceProofs`, `ReplicaProofs`,
  `HeartbeatProofs`, `LifecycleProofs` — the theorems about the module each is named for.
* `MC*` — instances for TLC.

Operators named for a defect (`TruncateKeepsRows`, `readUnflushed`, ...) stand
directly before the definition they are a faulty version of. They are used
nowhere in the specifications: replacing a definition by its faulty version must
make TLC find the property that `PROJECT.json` ("mutants") pairs it with
violated.

## Runs

Passing:

| Run | Bounds | Shows |
|---|---|---|
| `blockstore` | 3 blocks of 2 cells, 3 payloads, reads of 2 and 6 cells, every size | nothing is stored past the size (`NoHiddenTail`); the store implements `WeakSpec`, and a POSIX file as long as `kept` is false |
| `namespace_tree` | 2 names, depth 3, 3 objects, open handles, failing statements, remounts | maps agree, the kernel's inodes resolve and those of dead objects lead nowhere, the tree is closed, blocks follow their file unless it left the key of an open handle, inodes are not reused |
| `handles` | 2 keys; tidy use: 4 handles in turn, 4 writes of whole blocks; free use: 2 handles at once, 3 partial overlapping writes, truncation, rename and unlink of open files, one failure; many: 4 handles, 3 at once, one failure | tidy use: buffered files are POSIX files, reads see acknowledged writes, no orphan rows; always: buffers hold what is pending, flushes land, sizes shrink only by `setattr`, the mapping of an inode leads to an open handle of it, in whatever order the handles are released |
| `replica` | TTL 2, primary at most 3 mutations ahead of the oldest position in use, one standby stop, promotion | a fresh verdict is backed by replayed WAL, staleness is bounded; while the standby and the connection to it stay up and once mutations have ended reads come back to it, and once it is gone they stop failing, mutations or not (liveness) |
| `heartbeat` | deadline 6, lateness 3, slack 2, 16 ticks | alarms only after silence, and nothing that `BeatSpec` does not do |
| `lifecycle` | 5 attempts, 4 signals, 2 launches | a process that returns leaves nothing behind, the ready file is honest; a flagged deadlock ends the mount, a termination signal has its attempt to unmount, an unmount ends the process, a stopped heartbeat is noticed (liveness) |
| `service` | 3 names, pages of up to 3 entries, 3 buckets, 4 callbacks | what a scan may skip or repeat, how far a logged percentile may be off, that every timed callback leaves one sample and no export shows more |

Why the bounds are enough. Three blocks reach every alignment of a write or
truncation: inside a block, ending on a boundary, crossing one or two. Depth 3
is the smallest in which the rename of a directory has to rewrite grandchildren
(`LIKE old/%`) and not only children. Two handles and two keys are enough for
every pair of orders of flush, release, rename and reuse; `create` registers no
mapping from the inode to the handle, so the use `many` has a handle for it and
three more, enough for open, open, release of one inode beside another file. The
three uses are one run because they are one model: `MCHandles` chooses the use
with the initial state and lets only its steps through. Keys are symmetric. A TTL of 2 separates a
verdict that is new, old and expired. Sixteen ticks hold two deadlines. Three
objects and two names hold a directory, a file in it and a target to replace,
beside it or in another directory; with a third name TLC visits 320 000 states and
finds no more, and the theorems hold for any names.
`MaxIno` (5) is above what they can use up within one mount. `MCNamespace_tree`
checks states up to the last reply, which no guard and no property but the type
of `reply` reads, and up to the rows and handles of files that are `lost` or have
`strayed` (`VIEW LiveView`): `BlocksFollowEntries` excepts those files, and all
that their rows can still do is to make a rename fail, which changes nothing.
`MCService` leaves out the loaded operation count, which is only logged
(`VIEW NoOps`), and `MCHandles` the last reply except in tidy use, where reads
are compared (`VIEW ReplyOnlyTidy`). Five attempts are the code's; two
launches are a process over the remains of another; four signals are one of each
kind and a second termination. Three buckets have a first, a middle and a last
one, the durations lie on the thresholds and one above. Four callbacks hold a
page, a change, a page and one more, of three entries and the two dots.

Runs that end in a violation state what a document or comment promises and the
code does not do; `PROJECT.json` ("findings") quotes both sides:

| Run | What TLC finds |
|---|---|
| `namespace_like` | rename of a directory with `_` in its name takes along the rows whose parent lies below a sibling directory that the name matches |
| `handles_docs` | a partial write wipes the rest of the stored block (`FlushKeepsOtherCells`); a failed flush inside read loses data and the next fsync says OK (`FsyncOkMeansStored`); truncation to a block boundary and extension bring old bytes back where zeros are due (`ExtensionZeroFilled`) |
| `replica_docs` | the standby answers without an acknowledged mutation (`NoStaleReads`); when it dies under a cached verdict, reads reply EIO until the verdict expires (`NoErrorSurfaced`) |
| `lifecycle_term` | the one unmount of a termination signal fails: the mount stays, later signals are ignored |
| `service_docs` | `flush` and `release` leave no latency sample (`EveryCallbackTimed`), and a median of at most 10 μs is logged as the next bucket (`FastestBucketShown`) |

The three `docs` runs check several promises about one module at once, each in its
weakest form: that no behaviour breaks all of them. The counterexample of such
a disjunction breaks every disjunct, so one trace refutes each promise.
`MCHandlesDocs` records in `broken` which step has broken which.

`FlushKeepsOtherCells` is about what the callbacks do with a partial write. Under the
kernel's write-back cache a cell is a page rather than a byte: the kernel
completes a page, not the 64 KiB block.

Deadlock checking is off in the `MCHandles` and `MCHandlesDocs` configurations, where the counters of
the model (writes, handles, inodes) may be used up with no file open, so that
the kernel has nothing left to ask, and in `MCLifecycle`, where a process ends
and the launches are used up. The other models always have a step.

Fairness in `Lifecycle`: every thread is scheduled (`Start`, `Finish`, `Sigwait`,
`WaiterLocks`, `WaiterUnmounts`, `Watchdog`), a callback that does not hang returns
(`callbackReturns`), time passes (`DeadlinePasses`), and AutoUnmount does its
work. Nothing is assumed about requests, signals, launches, kills, hangs and the
success of an unmount: a callback may stay `stuck`, an unmount fail every time.
An unmount call is taken to return, which is up to fuser and the kernel: one that
did not would keep the mutex (`main.rs:225`, `main.rs:281`), and with it the other
thread, the watchdog's `exit(1)` included.
`WedgeNoticed` says that callbacks do not go on for ever over a stopped
heartbeat; it needs the passing of time and no fairness of callbacks.

Fairness in `Replica`: every query returns (libpq) and the kernel
keeps reading (`ReadStep`), the WAL writer and a running standby make progress
(`WalWrite`, `Replay`), the clock advances (`Tick`). Nothing is assumed about
mutations, stops, restarts and promotion by the fairness; `SourceAdapts` has the
end of mutations as its hypothesis, `ErrorsEnd` does not and is checked with
mutations that never end. Weak fairness suffices since none of
these steps is disabled by another actor for good while it is pending.

### Exceptions built into the passing properties

Several properties hold only up to an exception. Each one stands for a behaviour
of the code; stating the property without it makes TLC find a counterexample.

* `PosixUntilRowKept`: a truncation to a multiple of the block size keeps the row
  that starts at the new end (`db.rs:642`); extending the file again shows the old
  data where zeroes are due (`handles_docs`). Hence `WeakSpec`, which does not
  promise holes.
* `KnownInodeResolves`: the inode of an object that is gone may lead to another
  object's row if a rename replaced it (the replaced file's inode stays in
  `path_by_ino`, `fs.rs:131`) or if its unlink failed half way (`replaced`,
  `lost`).
* `BlocksFollowEntries`: a handle keeps the key it was opened with (`fs.rs:176`,
  `fs.rs:697`). When its file is renamed, unlinked or replaced meanwhile, by its own
  name or that of a directory above it, the flush leaves rows under the old key,
  where they belong to no entry or to another file (`strayed`).
* `BlocksFollowEntries`, `InodeNeverReused`: `Db::unlink` is two statements
  (`db.rs:783`). When the second fails, rows of `blocks` stay without an entry,
  and the next file of that name gets the content and the inode (`lost`).
* `TidyFilesArePosix`, `TidyReadsSeeWrites` are claimed under the discipline of
  one handle at a time, whole blocks and no truncation: a truncation while a
  handle is dirty is undone by its flush (`fs.rs:402`), the flush of a renamed or
  unlinked open file goes to its old key (`fs.rs:697`), and a read does not see
  what another handle has buffered (`fs.rs:449`).
* `BoundedStaleness` is claimed until the standby is promoted: a server that is
  not in recovery is taken for authoritative without a comparison of positions
  (`db.rs:297`), so a promoted standby serves its diverged state without bound.
* `SourceAdapts` assumes that the standby and the connection to it stay up from
  some point on: after one restart of the standby the mount never uses it again,
  because a lost replica connection is not reopened (`db.rs:177`). It also assumes
  that this mount's mutations have come to an end: while they go on, the standby
  may be behind at every check.
* `ErrorsEnd` says only that errors end once the standby is out of reach for good.
  A standby that dies after a fresh verdict costs an EIO for every read until the
  verdict expires, without falling back to the primary (`db.rs:417`,
  `replica_docs`).
* `TermHonoured`: the signal waiter unmounts once and ends (`main.rs:289`). If that
  fails, the signal has had its effect and later ones stay pending (`failed`,
  `lifecycle_term`).
* `AlarmEndsMount` starts from the flag. A FUSE thread stuck in a query runs no
  callback, sets no flag and is noticed by nobody; a signal or fusermount still
  ends its mount, but not the process (`UnmountEndsProcess`: dead or stuck).
* `ReadyIsHonest`: the ready file of a process that was killed or left through
  `exit(1)` of the watchdog (`main.rs:244`) stands until the next process has come
  as far as its own (`stale`).
* `ScanComplete`, `RepeatsBounded`: offsets are positions in a list that is queried
  anew (`fs.rs:905`), so each removal during a scan may hide one entry that was
  there all the time, and each insertion may show one twice.
* `PercentileClose`: bucket 0 is the mark for "not found yet" (`metrics.rs:177`), so
  a percentile that lies in bucket 0 is logged as bucket 1, and targets are
  rounded down, so one may be too low by less than one sample. `MANUAL.md:482`
  shows `p50=<=10μs` in an example line, which the code never logs (`service_docs`).
* `OneSamplePerCall` is about callbacks with a guard (`service_docs`). It relates
  an export's samples to the callbacks that had begun, not to the operation count
  of the same export: that one may be older, and the two lines need not fit.

## Proofs

TLC checks small instances; TLAPS proves for every value of the constants.

* `BlocksProofs`: lemmas only, for every block size. An offset is a block number
  and a place in it (`OffsetBlock`, from `DivMod` and `BlocksApart`); what `Patch`
  does to a row cell by cell (`PatchCells`), which part of a payload falls into a
  block (`ChunkCells`), both together (`PatchInCells`), and from these what
  `WriteRange` and `Truncate` do to the cells of a file (`WriteRangeCells`,
  `TruncateCells`). The products `b * BS` are the hard part for the provers: they
  are hidden behind a name before any arithmetic about a single block.
* `BlockStoreProofs`: `WeakFileTheorem`, `PosixTheorem`, `NoHiddenTailTheorem`,
  `TypeCorrect`, for every block size, number of blocks and payload. `TypeOK` and
  `NoHiddenTail` are inductive together. The refinements then are about the cells
  a reader sees before and after a step (`WriteContent`, `TruncateContent`,
  `ReadRefines`). Outside the written range and below the old size these never
  change; past the old size they do not either if the row holds nothing there,
  and that is `NoHiddenTail`, which is why the refinement of the POSIX file needs
  `kept` to be false and that of `WeakSpec` does not.
* `HandlesProofs`, first part: `BufferTheorem`, `FlushLandsTheorem`, `MaxSizeTheorem`,
  `ByInoTheorem`, `ShrinkTheorem`, for every block size, any writes and any number
  of handles, names and failures. The invariant says that buffers are well formed
  and hold what is pending (`Buffers`), that handles, open files and pending
  cells are numbered below `next_fh` (`Tables`), and that every key has rows and
  every file a size (`Stored`). `BufferedHolds` is the heart: one more write,
  whatever it overlaps, keeps the cells of the ones before it. `FlushLands` is a
  property of steps: a handle loses its pending cells without an error only in a
  step that has stored its buffer (`FlushLandsStep`), and a stored buffer reads
  back (`StoreLands`). `ShrinkTheorem` also needs that no two files share an inode
  (`Names`), so that a rename over a file cannot pass for the file itself.
* `HandlesProofs`, second part: `TypeCorrect`, without hypotheses (`TInv`: the
  types need that a buffer stays within its file and that each path's inode leads
  back to it, `Linked`), and three theorems with one. `OrphanTheorem` assumes that
  nobody renames or unlinks an open file (`~NameOpsOnOpenFiles`). The flush upserts
  rows under the key its handle was opened with and never looks whether there is
  such a file, so the invariant is that there is: the inode of an open file has a
  path, which names that file and is the key of its buffer (`OpenAtHome`).
  `ClosedTheorem` and `ReadsTheorem` assume `Disciplined`, which is the discipline
  of the use `tidy` in the run `handles`, in words: one handle at a time, no names changed
  under it, writes of whole blocks, no truncation, no failing flush. The invariant
  (`DInv`) says when a POSIX file is shown by rows, size and buffer together
  (`Shows`: pending cells in front of the rows, nothing but zeros past the end),
  and that every closed file is shown by the database alone, the open one
  by database and buffer. `ShowsWrite`, `ShowsFlush` and `ShowsRead` are what write,
  flush and read make of that. A flush replaces the whole row of each dirty block;
  it shows the same file afterwards only if every cell of a dirty block is pending
  (`WholeBlocks`), and that is why whole blocks are needed. Every part of the
  hypothesis is: a partial write and a failed flush are in the run
  `handles_docs`, the others are listed above under the exceptions.
* `LifecycleProofs`: `CleanReturnTheorem`, `ReadyTheorem`, `TypeCorrect`, for any
  number of attempts, signals and launches. The invariant adds that there is a
  mount only between `Session::new` and the drop of the session
  (`MountWhileServing`) and that the ready file goes before the pid file
  (`ReadyGoesFirst`). The type invariant has the mutex: waiter and watchdog never
  hold it both.
* `HeartbeatProofs`: `NoFalseAlarmTheorem`, `AlarmTheorem`, `TypeCorrect`,
  `RefinementTheorem` (`Heartbeat` implements `BeatSpec` when
  `Late < Deadline - Slack`, the margin that `NoFalseAlarm` needs as well).
  Neither property is inductive: the argument is that the deadline belongs to
  the beat last seen (`DeadlineAfterBeat`: if the counter has not moved since,
  the deadline is at least `Deadline - Slack` after that beat), which needs the
  clock facts in `Timing` (the clock value a callback holds is at most `Slack`
  old, a live thread's last beat at most `Late` old). The refinement adds
  that a live thread's beat is never past its deadline (`AliveInTime`); each step
  of `Heartbeat` then is one abstract step or a stutter (`StepRefines`).
* `ReplicaProofs`: `BoundedStalenessTheorem`, `FreshVerdictTheorem`,
  `TypeCorrect`, for every TTL. The inductive invariant adds that the history
  of written positions is monotone (`HistMonotone`), that a cached fresh verdict
  of age `a` means the standby has replayed at least `hist[a + 1]`
  (`FreshVerdictHolds`), and what the check in progress has established query by
  query (`CheckInProgress`: the primary's position read is at least the floor of
  this read; the replay position, once read, is at least the primary's). It
  needs the order of the queries: primary first, standby second. The parts about
  the standby hold until it is promoted.
* `NamespaceProofs`, first part: `MapsAgreeTheorem`, for any names, any depth and
  any number of inodes and objects: after any sequence of callbacks and remounts,
  failed callbacks included, each path's inode maps back to that path, so no two
  paths share an inode, and fresh inodes are fresh. The inductive invariant
  (`Agree`) adds only that inodes are numbers; there is a lemma for each way the
  code changes the maps (`FreshAgrees`, `ForgetAgrees`, `RekeyAgrees`). Re-keying
  needs no more than that two paths never share an inode, whatever the prefixes
  are.
* `NamespaceProofs`, second part: `TypeCorrect`, and `ResolvesTheorem`,
  `TreeClosedTheorem`, `BlocksTheorem`, `NeverReusedTheorem`, which are inductive
  only together (`TInv`). It adds to the four properties that ids are below
  `next_id` and name one entry each (`Rows`), that all ancestors of an entry are
  directories and not just its parent (`Ancestors`), what the kernel's inodes
  of dead objects may still lead to (`ToldOf`, which has `KnownInodeResolves`
  as a consequence), and where content lies (`Content`): not only rows but handles
  too are under the key of their file, except for files that have `strayed` or are
  `lost`. `BlocksFollowEntries` alone is not inductive: what a handle flushes next
  depends on the key that it took long before. The rename of a directory is the step that takes the work.
  Rows and maps are re-keyed by different code, over sets of paths that differ:
  rows below the old name (`RowsUnder`, the SQL), map entries at or below it
  (`Within`, the Rust). `RebaseInjective` and `RebasePrefix` say that moving a
  subtree merges no two paths and takes ancestors along; `MovedRows` and
  `MovedMap` turn both pieces of code into "the path it had before", and
  `RenameTree`, `RenameTold`, `RenameContent` compare them. These four theorems
  assume `Literal`: no name, read as an SQL pattern, matches another one. The
  code does not ensure it, and the run `namespace_like` is the counterexample
  without it; `TypeCorrect` and `MapsAgreeTheorem` do not need it.
* `ServiceProofs`: `ScanTheorem`, `RepeatsTheorem`, `PercentileTheorem`,
  `SamplesTheorem`, `TypeCorrect`, for any set of names, any page sizes and any list
  of thresholds. For the scan the invariant counts what a scan has returned again
  together with what it will if nothing changes any more (`Due`): an insertion
  adds at most the entry that it pushes behind the offset, a page and a removal
  nothing; likewise with the missed names and a removal. `RepeatsBounded` alone
  is not inductive, the entry is returned again pages later. For the samples the
  invariant (`CountInv`) says that the histogram has one sample for every timed
  callback that has returned and that no bucket of the snapshot is ahead of the
  live one. The second part is all that relaxed loads leave, and it is enough:
  sums over the buckets are monotone (`TotalMonotone`). The running sums and the percentile's
  loop are recursive functions; what they are is proved from the well-foundedness
  of the natural numbers (`Least`, `Induction`, `Loop`: a set of numbers that
  holds 0 and with each number the next one holds all, and a loop that is a
  recursive function exists). `PercentileTheorem` needs no invariant but types:
  it holds of every snapshot.

Assumptions: the named `ASSUME`s on the constants of each module; TLC evaluates
them in the runs. `Data`, `Writes` and `Sizes` only have to stay within the file,
cell 0 has to be a cell, and keys in `Handles` have one component. `Reads` are pairs
of numbers, and the bounds on inodes and handles are numbers. `Literal`,
`~NameOpsOnOpenFiles` and `Disciplined` are hypotheses of the theorems that say so,
not assumptions of a module: TLC checks the modules with and without them. (The
run `handles` checks `ClosedFileIsPosix`, `ReadsSeeAckedWrites` and `NoOrphanRows`
for tidy use, under the names `TidyFilesArePosix`, `TidyReadsSeeWrites` and
`TidyLeavesNoOrphans`.)

Only model-checked: liveness (`SourceAdapts`, `ErrorsEnd`, and `AlarmEndsMount`,
`TermHonoured`, `UnmountEndsProcess`, `WedgeNoticed` of `Lifecycle`), which is out of
the prover's reach. Every invariant and every action property of the passing
runs is proved. `MCReplica` only adds the renumbering; the theorems are about
`Replica`, for every number of mutations.

## Not modelled

* The connection pool and the schema: one connection of each kind is taken at
  start and kept; the DDL runs once under an advisory lock. What follows for the
  replica (its connection is not replaced) is in `Replica`.
* Error texts, the command line, build metadata, and the rendering of a CPU
  profile: text and file I/O without state.
* The replica and error counters with their WARN lines, and `DB_LATENCY`: they
  reach only the log, and the second histogram is the code of the first.
* I/O errors on the pid and ready files, which are logged and ignored.
* Byte against character lengths in the SQL of rename (`db.rs:870`) and block
  numbers beyond 32 bits (`fs.rs:52`): names are not strings here, and files have
  a few blocks.
* A second mount on the same database.
* `getattr` changes nothing and appears in `Replica` as a routed read.

## Plan

1. Done: block storage and its abstract file, namespace with remounts, handles,
   replica routing, heartbeat and its abstract specification, lifecycle, paged
   scans, metrics; the theorems above.
2. Done: a proof of every safety property of the passing runs.
3. Proofs to come: the two theorems about the discipline with truncations of
   files that no handle has dirty.
4. Models to come: rename over strings with both lengths; block numbers modulo
   2^32; two mounts on one database.
