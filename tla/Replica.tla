------------------------------ MODULE Replica -------------------------------
(***************************************************************************)
(* Read routing between the primary and a streaming standby (db.rs         *)
(* replica_fresh, replica_fresh_cached, getattr, list).  A position in the *)
(* WAL is a number: `committed` mutations are visible on the primary,      *)
(* `written` of them are in the WAL the primary has written out            *)
(* (pg_current_wal_lsn), `replay` of them are visible on the standby.  The *)
(* mount sets synchronous_commit = off, so a commit returns before its WAL *)
(* is written.                                                             *)
(*                                                                         *)
(* A routed read makes up to four queries; the WAL writer, the standby and *)
(* the clock move between them, so every query is an action.  Mutations    *)
(* come from this mount, whose callbacks run one at a time: only between   *)
(* reads.  Postgres (WalWrite, Replay, StandbyStop, ...) is external.      *)
(*                                                                         *)
(* Time is relative: `age` is the time since the start of the callback     *)
(* that took the cached verdict, saturating at TTL ("expired or never      *)
(* checked"), and hist[d] is what `written` was d ticks ago (history).     *)
(***************************************************************************)
EXTENDS Integers

CONSTANTS
  TTL,          \* FRESHNESS_TTL_MS, in ticks
  MaxCommits,   \* mutations of the model
  MaxStops,     \* times the standby is stopped
  MayPromote    \* may the standby be promoted?

ASSUME TTLAssumption == TTL \in Nat \ {0}
ASSUME CommitsAssumption == MaxCommits \in Nat /\ MaxStops \in Nat
ASSUME PromoteAssumption == MayPromote \in BOOLEAN

VARIABLES
  committed, written, replay,
  up,            \* the standby runs
  in_recovery,   \* pg_is_in_recovery() on the standby
  conn,          \* the one replica connection of Db is usable
  stops,         \* counter for MaxStops
  freshness_cached, age,
  hist,
  pc,            \* where the callback is; "idle" between callbacks
  dur,           \* time since the callback started, saturating at TTL
  primary_lsn,   \* local of replica_fresh
  floor,         \* hist[TTL] when the callback started (history)
  reply          \* [src, ver, seen, floor] of the last read

postgres == <<committed, written, replay, up, in_recovery, conn, stops>>
cache == <<freshness_cached, age>>
vars == <<committed, written, replay, up, in_recovery, conn, stops,
          freshness_cached, age, hist, pc, dur, primary_lsn, floor, reply>>

Lsn == 0..MaxCommits
Place == {"idle", "recovery", "primary_lsn", "replay_lsn", "replica", "primary"}

TypeOK ==
  /\ committed \in Lsn /\ written \in Lsn /\ replay \in Lsn
  /\ up \in BOOLEAN /\ in_recovery \in BOOLEAN /\ conn \in BOOLEAN
  /\ stops \in 0..MaxStops
  /\ freshness_cached \in BOOLEAN /\ age \in 0..TTL
  /\ hist \in [0..TTL -> Lsn]
  /\ pc \in Place /\ dur \in 0..TTL
  /\ primary_lsn \in Lsn /\ floor \in Lsn
  /\ reply \in [src : {"none", "primary", "replica", "error"},
                ver : Lsn, seen : Lsn, floor : Lsn]

Init ==
  /\ committed = 0 /\ written = 0 /\ replay = 0
  /\ up = TRUE /\ in_recovery = TRUE /\ conn = TRUE /\ stops = 0
  /\ freshness_cached = FALSE /\ age = TTL
  /\ hist = [d \in 0..TTL |-> 0]
  /\ pc = "idle" /\ dur = 0 /\ primary_lsn = 0 /\ floor = 0
  /\ reply = [src |-> "none", ver |-> 0, seen |-> 0, floor |-> 0]

Reachable == up /\ conn
Step(n) == IF n < TTL THEN n + 1 ELSE TTL

-----------------------------------------------------------------------------
(* Db::getattr and Db::list call replica_fresh_cached first.               *)
Route(fresh) == pc' = IF fresh THEN "replica" ELSE "primary"

StartReadLate ==
  /\ pc = "idle"
  /\ dur' = 0
  /\ floor' = hist[TTL]
  /\ \/ /\ age <= TTL /\ freshness_cached
        /\ Route(TRUE)
     \/ /\ ~freshness_cached
        /\ pc' = "recovery"
  /\ UNCHANGED <<postgres, cache, hist, primary_lsn, reply>>

StartRead ==
  /\ pc = "idle"
  /\ dur' = 0
  /\ floor' = hist[TTL]
  /\ \/ /\ age < TTL
        /\ Route(freshness_cached)
     \/ /\ age >= TTL
        /\ pc' = "recovery"
  /\ UNCHANGED <<postgres, cache, hist, primary_lsn, reply>>

(* The verdict is cached with the time the callback started.               *)
Verdict(fresh) ==
  /\ freshness_cached' = fresh
  /\ age' = dur
  /\ Route(fresh)

CheckRecovery ==
  /\ pc = "recovery"
  /\ \/ /\ ~Reachable
        /\ Verdict(FALSE)
     \/ /\ Reachable /\ ~in_recovery
        /\ Verdict(TRUE)
     \/ /\ Reachable /\ in_recovery
        /\ pc' = "primary_lsn"
        /\ UNCHANGED cache
  /\ UNCHANGED <<postgres, hist, dur, primary_lsn, floor, reply>>

ReadPrimaryLsnNext ==
  /\ pc = "primary_lsn"
  /\ primary_lsn' = written + 1
  /\ pc' = "replay_lsn"
  /\ UNCHANGED <<postgres, cache, hist, dur, floor, reply>>

ReadPrimaryLsn ==
  /\ pc = "primary_lsn"
  /\ primary_lsn' = written
  /\ pc' = "replay_lsn"
  /\ UNCHANGED <<postgres, cache, hist, dur, floor, reply>>

ReadReplayLsnIgnored ==
  /\ pc = "replay_lsn"
  /\ Verdict(Reachable)
  /\ UNCHANGED <<postgres, hist, dur, primary_lsn, floor, reply>>

ReadReplayLsn ==
  /\ pc = "replay_lsn"
  /\ Verdict(Reachable /\ replay >= primary_lsn)
  /\ UNCHANGED <<postgres, hist, dur, primary_lsn, floor, reply>>

Reply(src, ver) ==
  /\ reply' = [src |-> src, ver |-> ver, seen |-> committed, floor |-> floor]
  /\ pc' = "idle"
  /\ UNCHANGED <<postgres, cache, hist, dur, primary_lsn, floor>>

(* The routed query; its error is returned with `?`, there is no retry on  *)
(* the primary.                                                            *)
QueryReplica ==
  /\ pc = "replica"
  /\ IF Reachable THEN Reply("replica", replay) ELSE Reply("error", 0)

QueryPrimary ==
  /\ pc = "primary"
  /\ Reply("primary", committed)

-----------------------------------------------------------------------------
Mutate ==
  /\ pc = "idle"
  /\ committed < MaxCommits
  /\ committed' = committed + 1
  /\ UNCHANGED <<written, replay, up, in_recovery, conn, stops, cache, hist, pc,
                 dur, primary_lsn, floor, reply>>

WalWrite ==
  /\ written < committed
  /\ written' = written + 1
  /\ hist' = [hist EXCEPT ![0] = written']
  /\ UNCHANGED <<committed, replay, up, in_recovery, conn, stops, cache, pc, dur,
                 primary_lsn, floor, reply>>

Replay ==
  /\ up /\ in_recovery
  /\ replay < written
  /\ replay' = replay + 1
  /\ UNCHANGED <<committed, written, up, in_recovery, conn, stops, cache, hist, pc,
                 dur, primary_lsn, floor, reply>>

(* Stopping the standby breaks the connection Db holds; Db never replaces  *)
(* it.                                                                     *)
StandbyStop ==
  /\ up /\ stops < MaxStops
  /\ up' = FALSE /\ conn' = FALSE
  /\ stops' = stops + 1
  /\ UNCHANGED <<committed, written, replay, in_recovery, cache, hist, pc, dur,
                 primary_lsn, floor, reply>>

StandbyStart ==
  /\ ~up
  /\ up' = TRUE
  /\ UNCHANGED <<committed, written, replay, in_recovery, conn, stops, cache, hist,
                 pc, dur, primary_lsn, floor, reply>>

Promote ==
  /\ MayPromote /\ up /\ in_recovery
  /\ in_recovery' = FALSE
  /\ UNCHANGED <<committed, written, replay, up, conn, stops, cache, hist, pc, dur,
                 primary_lsn, floor, reply>>

Tick ==
  /\ age' = Step(age)
  /\ dur' = IF pc = "idle" THEN dur ELSE Step(dur)
  /\ hist' = [d \in 0..TTL |-> IF d = 0 THEN written ELSE hist[d - 1]]
  /\ UNCHANGED <<postgres, freshness_cached, pc, primary_lsn, floor, reply>>

ReadStep ==
  \/ StartRead \/ CheckRecovery \/ ReadPrimaryLsn \/ ReadReplayLsn
  \/ QueryReplica \/ QueryPrimary

Next ==
  \/ ReadStep
  \/ Mutate \/ WalWrite \/ Replay \/ Tick
  \/ StandbyStop \/ StandbyStart \/ Promote

(* The kernel keeps reading and every query returns (libpq), the WAL       *)
(* writer and a running standby make progress, and time passes.            *)
Fairness ==
  WF_vars(ReadStep) /\ WF_vars(WalWrite) /\ WF_vars(Replay) /\ WF_vars(Tick)

SafetySpec == Init /\ [][Next]_vars

Spec == SafetySpec /\ Fairness

-----------------------------------------------------------------------------
(* The standby and the WAL never run ahead of the primary, and a cached    *)
(* "fresh" verdict younger than the TTL means the standby already holds    *)
(* all WAL written before the tick in which that verdict's callback began. *)
(* A promoted standby is exempt: the code trusts it unconditionally.       *)
FreshVerdictHolds ==
  /\ replay <= written /\ written <= committed
  /\ in_recovery /\ freshness_cached /\ age < TTL => replay >= hist[age + 1]

(* Bounded staleness: until it is promoted, a read answered by the standby *)
(* reflects every mutation whose WAL had been written a full TTL before    *)
(* the read began (replica_fresh_cached's `<`, the order of                *)
(* replica_fresh's queries).                                               *)
BoundedStaleness ==
  in_recovery /\ reply.src = "replica" => reply.ver >= reply.floor

(* "A stale replica never produces stale reads": a read reflects every     *)
(* mutation acknowledged before it.                                        *)
NoStaleReads == reply.src \in {"replica", "primary"} => reply.ver >= reply.seen

(* "the source adapts to replication state": while the standby and the     *)
(* connection to it stay up, and once this mount's mutations have come to  *)
(* an end, reads come back to it, however far it lagged and whatever       *)
(* verdict is cached.  With mutations going on for ever they need not: the *)
(* standby may be behind at every check.                                   *)
SourceAdapts == <>[]Reachable /\ <>[][~Mutate]_vars => []<>(reply.src = "replica")

(* "with no error surfaced to the kernel": no read fails because the       *)
(* standby does.                                                           *)
NoErrorSurfaced == reply.src # "error"

(* What holds instead.  The standby is gone for good: reads fail while the *)
(* verdict that routes them to it is cached (the routed query is not       *)
(* retried), but no longer; from then on the primary answers, mutations or *)
(* not.                                                                    *)
ErrorsEnd == <>[]~Reachable => <>[](reply.src # "error")

(* The two promises of spec/replica.py about the standby, as weak as they  *)
(* can be: no behaviour breaks both.  One that does refutes each of them.  *)
AStandbyPromiseHolds == []NoStaleReads \/ []NoErrorSurfaced
=============================================================================
