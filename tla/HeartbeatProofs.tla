-------------------------- MODULE HeartbeatProofs ---------------------------
(* The heartbeat check raises no false alarm, for every period, deadline   *)
(* and delay.                                                              *)
EXTENDS Heartbeat, TLAPS

(* What the clock reads and the counter say of each other at any moment.   *)
Timing ==
  /\ LAST_BEAT_SEEN <= LIVENESS
  /\ last_beat <= now
  /\ now_ms <= now
  /\ pc = "checking" => now - now_ms <= Slack
  /\ alive => now - last_beat <= Late

IInv ==
  /\ TypeOK
  /\ Timing
  /\ DeadlineAfterBeat
  /\ AlarmMeansSilence
  /\ NoFalseAlarm

(* Every initial state satisfies the inductive invariant.                  *)
LEMMA InitIInv == Init => IInv
<1> SUFFICES ASSUME Init
             PROVE  IInv
  OBVIOUS
<1>1. TypeOK
  <2>1. DEADLOCK_DETECTED \in BOOLEAN /\ alive \in BOOLEAN
    BY Zenon DEF Init
  <2>2. pc \in {"idle", "checking"}
    BY DEF Init
  <2>3. QED
    BY <2>1, <2>2, HeartbeatAssumption DEF Init, TypeOK, NoDeadline
<1>2. Timing
  BY HeartbeatAssumption DEF Init, Timing, Never
<1>3. DeadlineAfterBeat
  BY DEF Init, DeadlineAfterBeat, Never
<1>4. AlarmMeansSilence /\ NoFalseAlarm
  BY DEF Init, AlarmMeansSilence, NoFalseAlarm
<1>5. QED
  BY <1>1, <1>2, <1>3, <1>4 DEF IInv

(* Every step of the heartbeat thread, the clock and the callbacks         *)
(* preserves the inductive invariant.                                      *)
LEMMA NextIInv == IInv /\ [Next]_vars => IInv'
<1> SUFFICES ASSUME IInv, [Next]_vars
             PROVE  IInv'
  OBVIOUS
<1> USE HeartbeatAssumption DEF IInv, TypeOK, Timing, Never
<1>1. CASE Beat
  BY <1>1 DEF Beat, DeadlineAfterBeat, AlarmMeansSilence, NoFalseAlarm
<1>2. CASE Stall
  BY <1>2 DEF Stall, DeadlineAfterBeat, AlarmMeansSilence, NoFalseAlarm
<1>3. CASE Tick
  BY <1>3 DEF Tick, DeadlineAfterBeat, AlarmMeansSilence, NoFalseAlarm
<1>4. CASE ReadClock
  BY <1>4 DEF ReadClock, DeadlineAfterBeat, AlarmMeansSilence, NoFalseAlarm
<1>5. CASE CheckAdvanced
  <2>1. last_beat <= now_ms + Slack
    BY <1>5 DEF CheckAdvanced
  <2>2. DeadlineAfterBeat'
    BY <1>5, <2>1 DEF CheckAdvanced, DeadlineAfterBeat
  <2>3. QED
    BY <1>5, <2>2 DEF CheckAdvanced, AlarmMeansSilence, NoFalseAlarm
<1>6. CASE CheckUnchanged
  <2>1. CASE now_ms < BEAT_DEADLINE_AT
    BY <1>6, <2>1 DEF CheckUnchanged, DeadlineAfterBeat, AlarmMeansSilence,
                      NoFalseAlarm
  <2>2. CASE now_ms >= BEAT_DEADLINE_AT
    <3>1. Raise
      BY <1>6, <2>2 DEF CheckUnchanged
    <3>2. LAST_BEAT_SEEN = LIVENESS
      BY <1>6 DEF CheckUnchanged, Advanced
    <3>3. now - last_beat >= Deadline - Slack
      BY <2>2, <3>2 DEF DeadlineAfterBeat
    <3>4. AlarmMeansSilence'
      BY <3>1, <3>3 DEF Raise, AlarmMeansSilence
    <3>5. NoFalseAlarm'
      BY <1>6, <3>3 DEF CheckUnchanged, NoFalseAlarm
    <3>6. DeadlineAfterBeat'
      BY <1>6 DEF CheckUnchanged, DeadlineAfterBeat
    <3>7. TypeOK' /\ Timing'
      BY <1>6, <3>1 DEF CheckUnchanged, Raise
    <3>8. QED
      BY <3>4, <3>5, <3>6, <3>7
  <2>3. QED
    BY <2>1, <2>2
<1>7. CASE UNCHANGED vars
  BY <1>7 DEF vars, DeadlineAfterBeat, AlarmMeansSilence, NoFalseAlarm
<1>8. QED
  BY <1>1, <1>2, <1>3, <1>4, <1>5, <1>6, <1>7 DEF Next

(* The inductive invariant holds throughout.                               *)
LEMMA AlwaysIInv == Spec => []IInv
  BY InitIInv, NextIInv, PTL DEF Spec

(* The state of the heartbeat keeps its types.                             *)
THEOREM TypeCorrect == Spec => []TypeOK
  BY AlwaysIInv, PTL DEF IInv

(* An alarm is raised only after Deadline - Slack without a beat.          *)
THEOREM AlarmTheorem == Spec => []AlarmMeansSilence
  BY AlwaysIInv, PTL DEF IInv

(* A heartbeat thread that is never later than the deadline allows is      *)
(* never reported as wedged, on an idle mount or a busy one.               *)
THEOREM NoFalseAlarmTheorem == Spec => []NoFalseAlarm
  BY AlwaysIInv, PTL DEF IInv

-----------------------------------------------------------------------------
(* The refinement of BeatSpec needs a thread that beats in time.  While it *)
(* lives, no clock a callback holds has reached the deadline.              *)
LEMMA AliveInTime ==
  ASSUME Late < Deadline - Slack, IInv, alive, ~Advanced
  PROVE  now < BEAT_DEADLINE_AT /\ ClockRead < BEAT_DEADLINE_AT
<1>1. now < BEAT_DEADLINE_AT
  BY HeartbeatAssumption DEF IInv, TypeOK, Timing, DeadlineAfterBeat, Advanced, Never
<1>2. ClockRead <= now
  BY DEF IInv, TypeOK, Timing, ClockRead
<1> QED
  BY <1>1, <1>2, HeartbeatAssumption DEF IInv, TypeOK, ClockRead

(* The first state has a beat nobody has seen.                             *)
LEMMA InitRefines == Init => Abstract!Init
  BY DEF Init, Abstract!Init, BeatState, Advanced

(* A step of the heartbeat is a step of the abstract one, or a stutter.    *)
LEMMA StepRefines ==
  ASSUME Late < Deadline - Slack, IInv, [Next]_vars
  PROVE  [Abstract!Next]_(<<BeatState, alive, DEADLOCK_DETECTED>>)
<1> USE HeartbeatAssumption
<1> DEFINE Same == UNCHANGED <<BeatState, alive, DEADLOCK_DETECTED>>
<1>1. CASE Beat
  <2>1. Advanced'
    BY <1>1 DEF Beat, Advanced, IInv, TypeOK, Timing, Never
  <2> QED
    BY <1>1, <2>1 DEF Beat, BeatState, Abstract!Next, Abstract!Beat
<1>2. CASE Stall
  <2>1. BeatState' = BeatState
    <3>1. Advanced' = Advanced /\ ClockRead' = ClockRead
      BY <1>2 DEF Stall, Advanced, ClockRead
    <3>2. ~Advanced => ~(ClockRead >= BEAT_DEADLINE_AT)
      BY <1>2, AliveInTime DEF Stall, IInv, TypeOK, ClockRead
    <3> QED
      BY <1>2, <3>1, <3>2 DEF Stall, BeatState
  <2> QED
    BY <1>2, <2>1 DEF Stall, Abstract!Next, Abstract!Stall
<1>3. CASE Tick
  <2>1. Advanced' = Advanced /\ alive' = alive /\ BEAT_DEADLINE_AT' = BEAT_DEADLINE_AT
        /\ DEADLOCK_DETECTED' = DEADLOCK_DETECTED
    BY <1>3 DEF Tick, Advanced
  <2>2. ClockRead >= BEAT_DEADLINE_AT => ClockRead' >= BEAT_DEADLINE_AT
    BY <1>3 DEF Tick, ClockRead, IInv, TypeOK
  <2> QED
    BY <2>1, <2>2 DEF BeatState, Abstract!Next, Abstract!DeadlinePasses
<1>4. CASE ReadClock
  <2>1. ClockRead' = ClockRead /\ Advanced' = Advanced
    BY <1>4 DEF ReadClock, ClockRead, Advanced
  <2> QED
    BY <1>4, <2>1 DEF ReadClock, BeatState
<1>5. CASE CheckAdvanced
  <2>1. BeatState = "new"
    BY <1>5 DEF CheckAdvanced, BeatState
  <2>2. ~Advanced'
    BY <1>5 DEF CheckAdvanced, Advanced, IInv, TypeOK, Never
  <2>3. ~(ClockRead' >= BEAT_DEADLINE_AT')
    BY <1>5 DEF CheckAdvanced, ClockRead, IInv, TypeOK, Timing
  <2> QED
    BY <1>5, <2>1, <2>2, <2>3
    DEF CheckAdvanced, BeatState, Abstract!Next, Abstract!Healthy
<1>6. CASE CheckUnchanged
  <2>1. ~Advanced /\ ~Advanced' /\ ClockRead = now_ms /\ ClockRead' = now
        /\ alive' = alive /\ BEAT_DEADLINE_AT' = BEAT_DEADLINE_AT
    BY <1>6 DEF CheckUnchanged, Advanced, ClockRead
  <2>2. alive => now_ms < BEAT_DEADLINE_AT
    BY <2>1, AliveInTime
  <2>3. now_ms \in Int /\ now \in Int /\ BEAT_DEADLINE_AT \in Int /\ now_ms <= now
    BY DEF IInv, TypeOK, Timing
  <2>4. CASE now_ms < BEAT_DEADLINE_AT
    <3>1. BeatState = "seen" /\ BeatState' \in {"seen", "late"}
          /\ (BeatState' = "late" => ~alive)
      BY <2>1, <2>3, <2>4 DEF BeatState
    <3>2. DEADLOCK_DETECTED' = DEADLOCK_DETECTED
      BY <1>6, <2>3, <2>4 DEF CheckUnchanged
    <3> QED
      BY <2>1, <3>1, <3>2 DEF Abstract!Next, Abstract!DeadlinePasses
  <2>5. CASE now_ms >= BEAT_DEADLINE_AT
    <3>1. ~alive
      BY <2>2, <2>3, <2>5
    <3>2. BeatState = "late" /\ BeatState' = "late"
      BY <2>1, <2>3, <2>5, <3>1 DEF BeatState
    <3>3. DEADLOCK_DETECTED' = TRUE
      BY <1>6, <2>3, <2>5 DEF CheckUnchanged, Raise
    <3> QED
      BY <2>1, <3>2, <3>3 DEF Abstract!Next, Abstract!Alarm
  <2> QED
    BY <2>3, <2>4, <2>5
<1>7. CASE UNCHANGED vars
  BY <1>7 DEF vars, BeatState, Advanced, ClockRead
<1> QED
  BY <1>1, <1>2, <1>3, <1>4, <1>5, <1>6, <1>7 DEF Next

(* A heartbeat thread that beats in time is the abstract heartbeat that    *)
(* the rest of the daemon relies on: only the passed deadline of a stopped *)
(* thread raises the alarm (check_liveness, start_liveness_heartbeat).     *)
THEOREM RefinementTheorem ==
  ASSUME Late < Deadline - Slack
  PROVE  Spec => ImplementsBeatSpec
<1>1. Init => Abstract!Init
  BY InitRefines
<1>2. IInv /\ [Next]_vars => [Abstract!Next]_(<<BeatState, alive, DEADLOCK_DETECTED>>)
  BY StepRefines
<1> QED
  BY <1>1, <1>2, AlwaysIInv, PTL DEF Spec, ImplementsBeatSpec, Abstract!Spec
=============================================================================
