------------------------------ MODULE Metrics -------------------------------
(***************************************************************************)
(* The counters and the latency histogram (metrics.rs), written by the one *)
(* FUSE thread and read, atomic by atomic, by the export thread.  All of   *)
(* it is Ordering::Relaxed: nothing orders the loads of one atomic with    *)
(* those of another, so a load answers any value the atomic has had since  *)
(* the one the export thread has last seen in it.                          *)
(*                                                                         *)
(* The thirteen operation counters are kept as their sum, loaded when the  *)
(* last of them is: the sum of loads at different times is never more.     *)
(* Left out: the error and replica counters with their WARN, which are     *)
(* only logged, and the histogram of the database, which is the same code. *)
(***************************************************************************)
EXTENDS Integers, Sequences, FiniteSetsExt

CONSTANTS
  Op,                \* the callbacks
  HISTO_THRESHOLDS,  \* microseconds
  Durations          \* how long a callback may take

ASSUME OpAssumption == "none" \notin Op
ASSUME ThresholdsAssumption ==
  /\ HISTO_THRESHOLDS \in Seq(Nat)
  /\ \A i, j \in 1..Len(HISTO_THRESHOLDS) :
       i < j => HISTO_THRESHOLDS[i] < HISTO_THRESHOLDS[j]
ASSUME DurationsAssumption == Durations \subseteq Nat

HISTO_BUCKETS == Len(HISTO_THRESHOLDS) + 1
Buckets == 0..(HISTO_BUCKETS - 1)

VARIABLES
  fuse,     \* the FUSE thread: where it is, in which callback
  count,    \* the sum of the operation counters
  turned,   \* callbacks the preamble turned away (history)
  untimed,  \* callbacks without a guard (history)
  counts,   \* FUSE_LATENCY
  export,   \* the export thread: asleep, or what it loads next
  ops, snap \* what it has last loaded

exportVars == <<export, ops, snap>>
metricsVars == <<fuse, count, turned, untimed, counts, exportVars>>

(* Running sums over the buckets, and the samples of all of them.          *)
Sums(s) == LET cum[b \in Buckets] == IF b = 0 THEN s[0] ELSE cum[b - 1] + s[b]
           IN  cum
Cum(s, b) == Sums(s)[b]
Total(s) == Cum(s, HISTO_BUCKETS - 1)

(* record: the first threshold not exceeded, else the last bucket.         *)
Bucket(us) ==
  LET fits == {i \in 1..Len(HISTO_THRESHOLDS) : us <= HISTO_THRESHOLDS[i]}
  IN  IF fits = {} THEN HISTO_BUCKETS - 1 ELSE Min(fits) - 1

(* summary's loop for one target.  0 stands for "not found yet", and for   *)
(* bucket 0.                                                               *)
Target(s, q) == (Total(s) * q) \div 100

PercentileLast(s, q) ==
  LET done[i \in 0..HISTO_BUCKETS] ==
        IF i = 0 THEN 0
        ELSE IF Cum(s, i - 1) >= Target(s, q) THEN i - 1 ELSE done[i - 1]
  IN  done[HISTO_BUCKETS]

Done(s, target) ==
  LET done[i \in 0..HISTO_BUCKETS] ==
        IF i = 0 THEN 0
        ELSE IF done[i - 1] = 0 /\ Cum(s, i - 1) >= target
               THEN i - 1 ELSE done[i - 1]
  IN  done

Percentile(s, q) == Done(s, Target(s, q))[HISTO_BUCKETS]

Quantiles == {50, 95, 99}

(* What the export thread does next, when not loading a bucket: at         *)
(* HISTO_BUCKETS it has them all and logs the summary.                     *)
Asleep == -2
LoadingOps == -1

Idle == [at |-> "idle", op |-> "none"]
Zero(S) == [x \in S |-> 0]

MetricsTypeOK ==
  /\ fuse \in [at : {"idle", "body"}, op : Op \union {"none"}]
  /\ count \in Nat /\ turned \in Nat /\ untimed \in Nat
  /\ counts \in [Buckets -> Nat]
  /\ export \in Asleep..HISTO_BUCKETS
  /\ ops \in Nat /\ snap \in [Buckets -> Nat]

MetricsInit ==
  /\ fuse = Idle
  /\ count = 0 /\ turned = 0 /\ untimed = 0 /\ counts = Zero(Buckets)
  /\ export = Asleep /\ ops = 0 /\ snap = Zero(Buckets)

-----------------------------------------------------------------------------
(* The FUSE thread.  A callback takes its latency guard, passes the        *)
(* preamble and counts itself.                                             *)
Enter(op) ==
  /\ fuse = Idle
  /\ fuse' = [at |-> "body", op |-> op]
  /\ count' = count + 1
  /\ UNCHANGED <<turned, untimed, counts, exportVars>>

Record == \E us \in Durations : counts' = [counts EXCEPT ![Bucket(us)] = @ + 1]

(* The preamble finds the heartbeat wedged and replies EIO: the callback   *)
(* is not counted, but its guard drops and records.                        *)
TurnAway ==
  /\ fuse = Idle
  /\ turned' = turned + 1
  /\ Record
  /\ UNCHANGED <<fuse, count, untimed, exportVars>>

(* flush and release take no guard and have no counter.                    *)
Untimed ==
  /\ fuse = Idle
  /\ untimed' = untimed + 1
  /\ UNCHANGED <<fuse, count, turned, counts, exportVars>>

(* The callback returns, by whatever path: the guard drops and records.    *)
LeaveUnrecorded(ok) ==
  /\ fuse.at = "body"
  /\ fuse' = Idle
  /\ (ok /\ Record) \/ (~ok /\ UNCHANGED counts)
  /\ UNCHANGED <<count, turned, untimed, exportVars>>

Leave(ok) ==
  /\ fuse.at = "body"
  /\ fuse' = Idle
  /\ Record
  /\ UNCHANGED <<count, turned, untimed, exportVars>>

-----------------------------------------------------------------------------
(* The export thread: the operations, then the histogram's snapshot, one   *)
(* bucket after the other, then the summary.  ops and snap keep what it    *)
(* has seen, which the next loads cannot fall behind.                      *)
Wake ==
  /\ export = Asleep
  /\ export' = LoadingOps
  /\ UNCHANGED <<fuse, count, turned, untimed, counts, ops, snap>>

LoadOps ==
  /\ export = LoadingOps
  /\ export' = 0
  /\ ops' \in ops..count
  /\ UNCHANGED <<fuse, count, turned, untimed, counts, snap>>

LoadBucket ==
  /\ export \in Buckets
  /\ export' = export + 1
  /\ \E n \in snap[export]..counts[export] : snap' = [snap EXCEPT ![export] = n]
  /\ UNCHANGED <<fuse, count, turned, untimed, counts, ops>>

Log ==
  /\ export = HISTO_BUCKETS
  /\ export' = Asleep
  /\ UNCHANGED <<fuse, count, turned, untimed, counts, ops, snap>>

-----------------------------------------------------------------------------
(* The smallest bucket that holds q percent of the samples.                *)
NearestRank(s, q) == Min({b \in Buckets : 100 * Cum(s, b) >= q * Total(s)})

(* A logged percentile names the bucket of the true one, except that it    *)
(* may say the next bucket for bucket 0, and may lie below the true one by *)
(* less than one sample (summary's rounded targets and its 0 that means    *)
(* both "not yet" and "bucket 0").                                         *)
PercentileClose ==
  export = HISTO_BUCKETS /\ Total(snap) > 0 =>
    \A q \in Quantiles :
      LET p == Percentile(snap, q)
          r == NearestRank(snap, q)
      IN  /\ p <= r \/ (r = 0 /\ p = 1)
          /\ p >= r \/ 100 * (Cum(snap, p) + 1) > q * Total(snap)

(* "p50=<=10" (MANUAL.md): the median of callbacks at least half of which  *)
(* took at most 10 microseconds is logged as that bucket.                  *)
FastestBucketShown ==
  export = HISTO_BUCKETS /\ Total(snap) > 0 /\ NearestRank(snap, 50) = 0 =>
    Percentile(snap, 50) = 0

UnderWay == IF fuse.at = "body" THEN 1 ELSE 0

(* Every callback with a guard, counted or turned away, leaves one sample, *)
(* whatever path it leaves by (FuseLatencyGuard), and however stale and    *)
(* disordered its loads are, an export never shows more samples than there *)
(* were callbacks (record's fetch_add, snapshot's relaxed loads).          *)
OneSamplePerCall ==
  /\ Total(counts) + UnderWay = count + turned
  /\ export = HISTO_BUCKETS => Total(snap) <= count + turned

(* "Created at the top of every Filesystem method" (metrics.rs 209, of the *)
(* latency guard): the samples are those of all callbacks.                 *)
EveryCallbackTimed == Total(counts) + UnderWay = count + turned + untimed

(* The two promises about the latency line, as weak as they can be: no     *)
(* state breaks both.  One that does refutes each of them.                 *)
AMetricsPromiseHolds == FastestBucketShown \/ EveryCallbackTimed
=============================================================================
