--------------------------- MODULE ReplicaProofs ----------------------------
(* Bounded staleness of reads served by a standby that is not promoted,    *)
(* for every TTL and every number of mutations and standby restarts.       *)
EXTENDS Replica, TLAPS

(* The history of `written` ends in the present and never decreases.       *)
HistMonotone ==
  /\ hist[0] = written
  /\ \A d, e \in 0..TTL : d <= e => hist[e] <= hist[d]

(* What the callback in progress has established, query by query.          *)
CheckInProgress ==
  /\ floor <= written
  /\ pc = "replay_lsn" => /\ primary_lsn >= floor
                          /\ dur < TTL => primary_lsn >= hist[dur + 1]
  /\ in_recovery /\ pc = "replica" => replay >= floor

IInv ==
  /\ TypeOK
  /\ HistMonotone
  /\ FreshVerdictHolds
  /\ CheckInProgress
  /\ BoundedStaleness

USE TTLAssumption, CommitsAssumption, PromoteAssumption

(* Types first: every step keeps the types of the variables.               *)
LEMMA NextTypeOK == TypeOK /\ [Next]_vars => TypeOK'
<1> SUFFICES ASSUME TypeOK, [Next]_vars
             PROVE  TypeOK'
  OBVIOUS
<1> USE DEF TypeOK, Lsn, Place, postgres, cache
<1>1. CASE StartRead
  BY <1>1 DEF StartRead, Route
<1>2. CASE CheckRecovery
  BY <1>2 DEF CheckRecovery, Verdict, Route
<1>3. CASE ReadPrimaryLsn
  BY <1>3 DEF ReadPrimaryLsn
<1>4. CASE ReadReplayLsn
  BY <1>4 DEF ReadReplayLsn, Verdict, Route
<1>5. CASE QueryReplica
  <2>1. Reply("replica", replay) \/ Reply("error", 0)
    BY <1>5 DEF QueryReplica
  <2>2. CASE Reply("replica", replay)
    BY <2>2 DEF Reply
  <2>3. CASE Reply("error", 0)
    BY <2>3 DEF Reply
  <2>4. QED
    BY <2>1, <2>2, <2>3
<1>6. CASE QueryPrimary
  BY <1>6 DEF QueryPrimary, Reply
<1>7. CASE Mutate
  BY <1>7 DEF Mutate
<1>8. CASE WalWrite
  BY <1>8 DEF WalWrite
<1>9. CASE Replay
  BY <1>9 DEF Replay
<1>10. CASE Tick
  BY <1>10 DEF Tick, Step
<1>11. CASE StandbyStop
  <2>1. up' \in BOOLEAN /\ conn' \in BOOLEAN
    BY <1>11, Zenon DEF StandbyStop
  <2>2. QED
    BY <1>11, <2>1 DEF StandbyStop
<1>12. CASE StandbyStart
  BY <1>12 DEF StandbyStart
<1>13. CASE Promote
  BY <1>13 DEF Promote
<1>14. CASE UNCHANGED vars
  BY <1>14 DEF vars
<1>15. QED
  BY <1>1, <1>2, <1>3, <1>4, <1>5, <1>6, <1>7, <1>8, <1>9, <1>10, <1>11, <1>12,
     <1>13, <1>14 DEF Next, ReadStep

(* Every initial state satisfies the inductive invariant.                  *)
LEMMA InitIInv == Init => IInv
<1> SUFFICES ASSUME Init
             PROVE  IInv
  OBVIOUS
<1>1. TypeOK
  <2>1. up \in BOOLEAN /\ in_recovery \in BOOLEAN /\ conn \in BOOLEAN
    BY Zenon DEF Init
  <2>2. freshness_cached \in BOOLEAN
    BY Zenon DEF Init
  <2>3. hist \in [0..TTL -> Lsn] /\ pc \in Place
    BY DEF Init, Lsn, Place
  <2>4. reply \in [src : {"none", "primary", "replica", "error"},
                   ver : Lsn, seen : Lsn, floor : Lsn]
    BY DEF Init, Lsn
  <2>5. QED
    BY <2>1, <2>2, <2>3, <2>4 DEF Init, TypeOK, Lsn
<1>2. FreshVerdictHolds
  BY DEF Init, FreshVerdictHolds
<1>3. HistMonotone
  BY DEF Init, HistMonotone
<1>4. CheckInProgress /\ BoundedStaleness
  BY DEF Init, CheckInProgress, BoundedStaleness
<1>5. QED
  BY <1>1, <1>2, <1>3, <1>4 DEF IInv

(* Every query of a read, every step of the WAL writer, the standby and    *)
(* the clock preserves the inductive invariant.                            *)
LEMMA NextIInv == IInv /\ [Next]_vars => IInv'
<1> SUFFICES ASSUME IInv, [Next]_vars
             PROVE  IInv'
  OBVIOUS
<1> USE DEF IInv
<1>0. TypeOK'
  BY NextTypeOK
<1>1. CASE StartRead
  <2>1. hist[TTL] <= written
    BY DEF HistMonotone, TypeOK, Lsn
  <2>2. in_recovery /\ freshness_cached /\ age < TTL => replay >= hist[TTL]
    BY DEF HistMonotone, FreshVerdictHolds, TypeOK, Lsn
  <2>3. CheckInProgress'
    BY <1>1, <2>1, <2>2 DEF StartRead, Route, CheckInProgress, postgres, cache
  <2>4. QED
    BY <1>0, <1>1, <2>3 DEF StartRead, HistMonotone, FreshVerdictHolds,
                            BoundedStaleness, postgres, cache
<1>2. CASE CheckRecovery
  BY <1>0, <1>2 DEF CheckRecovery, Verdict, Route, HistMonotone, FreshVerdictHolds,
                    CheckInProgress, BoundedStaleness, postgres, cache
<1>3. CASE ReadPrimaryLsn
  <2>1. \A d \in 0..TTL : hist[d] <= written
    BY DEF HistMonotone, TypeOK, Lsn
  <2>2. CheckInProgress'
    BY <1>3, <2>1 DEF ReadPrimaryLsn, CheckInProgress, postgres, cache, TypeOK
  <2>3. QED
    BY <1>0, <1>3, <2>2 DEF ReadPrimaryLsn, HistMonotone, FreshVerdictHolds,
                            BoundedStaleness, postgres, cache
<1>4. CASE ReadReplayLsn
  <2>1. freshness_cached' => replay >= primary_lsn
    BY <1>4 DEF ReadReplayLsn, Verdict
  <2>2. FreshVerdictHolds'
    BY <1>4, <2>1 DEF ReadReplayLsn, Verdict, CheckInProgress, FreshVerdictHolds,
                      postgres, TypeOK, Lsn
  <2>3. CheckInProgress'
    BY <1>4, <2>1 DEF ReadReplayLsn, Verdict, Route, CheckInProgress, postgres,
                      TypeOK, Lsn
  <2>4. QED
    BY <1>0, <1>4, <2>2, <2>3 DEF ReadReplayLsn, HistMonotone, BoundedStaleness,
                                  postgres
<1>5. CASE QueryReplica
  <2>1. HistMonotone' /\ FreshVerdictHolds' /\ CheckInProgress'
    BY <1>5 DEF QueryReplica, Reply, HistMonotone, FreshVerdictHolds,
                CheckInProgress, postgres, cache
  <2>2. CASE Reachable
    <3>1. reply'.ver = replay /\ reply'.floor = floor /\ in_recovery' = in_recovery
      BY <1>5, <2>2 DEF QueryReplica, Reply, Reachable, postgres
    <3>2. QED
      BY <1>0, <1>5, <2>1, <3>1 DEF QueryReplica, CheckInProgress, BoundedStaleness
  <2>3. CASE ~Reachable
    <3>1. reply'.src = "error"
      BY <1>5, <2>3 DEF QueryReplica, Reply, Reachable
    <3>2. QED
      BY <1>0, <2>1, <3>1 DEF BoundedStaleness
  <2>4. QED
    BY <2>2, <2>3
<1>6. CASE QueryPrimary
  BY <1>0, <1>6 DEF QueryPrimary, Reply, HistMonotone, FreshVerdictHolds,
                    CheckInProgress, BoundedStaleness, postgres, cache
<1>7. CASE Mutate
  BY <1>0, <1>7 DEF Mutate, HistMonotone, FreshVerdictHolds, CheckInProgress,
                    BoundedStaleness, cache, TypeOK, Lsn
<1>8. CASE WalWrite
  <2>1. HistMonotone'
    BY <1>8 DEF WalWrite, HistMonotone, TypeOK, Lsn
  <2>2. \A d \in 1..TTL : hist'[d] = hist[d]
    BY <1>8 DEF WalWrite, TypeOK, Lsn
  <2>3. FreshVerdictHolds'
    BY <1>8, <2>2 DEF WalWrite, FreshVerdictHolds, cache, TypeOK, Lsn
  <2>4. CheckInProgress'
    BY <1>8, <2>2 DEF WalWrite, CheckInProgress, cache, TypeOK, Lsn
  <2>5. QED
    BY <1>0, <1>8, <2>1, <2>3, <2>4 DEF WalWrite, BoundedStaleness
<1>9. CASE Replay
  BY <1>0, <1>9 DEF Replay, HistMonotone, FreshVerdictHolds, CheckInProgress,
                    BoundedStaleness, cache, TypeOK, Lsn
<1>10. CASE Tick
  <2>1. HistMonotone'
    BY <1>10 DEF Tick, HistMonotone, postgres, TypeOK, Lsn
  <2>2. \A d \in 0..(TTL - 1) : hist'[d + 1] = hist[d]
    BY <1>10 DEF Tick
  <2>3. FreshVerdictHolds'
    BY <1>10, <2>2 DEF Tick, Step, FreshVerdictHolds, postgres, TypeOK
  <2>4. CheckInProgress'
    BY <1>10, <2>2 DEF Tick, Step, CheckInProgress, postgres, TypeOK
  <2>5. QED
    BY <1>0, <1>10, <2>1, <2>3, <2>4 DEF Tick, BoundedStaleness, postgres
<1>11. CASE StandbyStop
  BY <1>0, <1>11 DEF StandbyStop, HistMonotone, FreshVerdictHolds, CheckInProgress,
                     BoundedStaleness, cache
<1>12. CASE StandbyStart
  BY <1>0, <1>12 DEF StandbyStart, HistMonotone, FreshVerdictHolds,
                     CheckInProgress, BoundedStaleness, cache
<1>13. CASE Promote
  BY <1>0, <1>13 DEF Promote, HistMonotone, FreshVerdictHolds, CheckInProgress,
                     BoundedStaleness, cache
<1>14. CASE UNCHANGED vars
  BY <1>0, <1>14 DEF vars, HistMonotone, FreshVerdictHolds, CheckInProgress,
                     BoundedStaleness
<1>15. QED
  BY <1>1, <1>2, <1>3, <1>4, <1>5, <1>6, <1>7, <1>8, <1>9, <1>10, <1>11, <1>12,
     <1>13, <1>14 DEF Next, ReadStep

(* The inductive invariant holds throughout.                               *)
LEMMA AlwaysIInv == Spec => []IInv
  BY InitIInv, NextIInv, PTL DEF Spec, SafetySpec

(* The routing state keeps its types.                                      *)
THEOREM TypeCorrect == Spec => []TypeOK
  BY AlwaysIInv, PTL DEF IInv

(* Until it is promoted, a standby answers no read with a state older than *)
(* the WAL written one TTL before the read began.                          *)
THEOREM BoundedStalenessTheorem == Spec => []BoundedStaleness
  BY AlwaysIInv, PTL DEF IInv

(* A fresh verdict in the cache is backed by what the standby has          *)
(* replayed, whatever happened since the check.                            *)
THEOREM FreshVerdictTheorem == Spec => []FreshVerdictHolds
  BY AlwaysIInv, PTL DEF IInv
=============================================================================
