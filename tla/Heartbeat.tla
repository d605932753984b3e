----------------------------- MODULE Heartbeat ------------------------------
(***************************************************************************)
(* The liveness heartbeat of metrics.rs: a thread bumps LIVENESS every     *)
(* HEARTBEAT_PERIOD_MS and sleeps; every FUSE callback calls               *)
(* check_liveness, which declares the daemon wedged when the counter has   *)
(* not moved for HEARTBEAT_DEADLINE_MS.  check_liveness reads the clock    *)
(* before it loads the counter, so a beat and the passing of time may fall *)
(* between the two: it is two actions.                                     *)
(***************************************************************************)
EXTENDS Integers

CONSTANTS
  Deadline,  \* HEARTBEAT_DEADLINE_MS, in ticks
  Late,      \* the heartbeat thread beats at most this long after the last beat
  Slack,     \* longest time between the clock read and the counter load
  MaxTime    \* bound of the model

ASSUME HeartbeatAssumption ==
  Deadline \in Nat /\ Late \in Nat /\ Slack \in Nat /\ MaxTime \in Nat

VARIABLES
  now,                (* the monotonic clock, now_mono_millis()              *)
  LIVENESS,           (* beats so far                                        *)
  LAST_BEAT_SEEN,     (* the counter the last callback saw, Never at first   *)
  BEAT_DEADLINE_AT,
  DEADLOCK_DETECTED,
  alive,              (* the heartbeat thread has not stopped                *)
  pc, now_ms,         (* check_liveness: place and local                     *)
  last_beat,          (* time of the last beat (history)                     *)
  silence             (* time since the last beat when the alarm was raised  *)

vars == <<now, LIVENESS, LAST_BEAT_SEEN, BEAT_DEADLINE_AT, DEADLOCK_DETECTED,
          alive, pc, now_ms, last_beat, silence>>

(* u64::MAX, as a counter that was never seen and as a deadline later than *)
(* any time of the model.                                                  *)
Never == -1
NoDeadline == MaxTime + Deadline + 1

TypeOK ==
  /\ now \in 0..MaxTime
  /\ LIVENESS \in Nat
  /\ LAST_BEAT_SEEN \in Nat \union {Never}
  /\ BEAT_DEADLINE_AT \in Nat
  /\ DEADLOCK_DETECTED \in BOOLEAN /\ alive \in BOOLEAN
  /\ pc \in {"idle", "checking"}
  /\ now_ms \in 0..MaxTime
  /\ last_beat \in 0..MaxTime
  /\ silence \in 0..MaxTime

(* The thread has been spawned at time 0; it counts as a beat for the      *)
(* history, the counter is still 0.                                        *)
Init ==
  /\ now = 0 /\ LIVENESS = 0 /\ last_beat = 0 /\ alive = TRUE
  /\ LAST_BEAT_SEEN = Never /\ BEAT_DEADLINE_AT = NoDeadline
  /\ DEADLOCK_DETECTED = FALSE
  /\ pc = "idle" /\ now_ms = 0 /\ silence = 0

(* LIVENESS.fetch_add(1), then sleep: the first beat comes at once, later  *)
(* ones need time to have passed.                                          *)
Beat ==
  /\ alive /\ (LIVENESS = 0 \/ last_beat < now)
  /\ LIVENESS' = LIVENESS + 1
  /\ last_beat' = now
  /\ UNCHANGED <<now, LAST_BEAT_SEEN, BEAT_DEADLINE_AT, DEADLOCK_DETECTED, alive,
                 pc, now_ms, silence>>

(* The thread stops for good: what the check is there to notice.           *)
Stall ==
  /\ alive
  /\ alive' = FALSE
  /\ UNCHANGED <<now, LIVENESS, LAST_BEAT_SEEN, BEAT_DEADLINE_AT,
                 DEADLOCK_DETECTED, pc, now_ms, last_beat, silence>>

(* Time passes, but a live heartbeat thread is at most Late late and a     *)
(* callback at most Slack between its two reads.                           *)
Tick ==
  /\ now < MaxTime
  /\ alive => now - last_beat < Late
  /\ pc = "checking" => now - now_ms < Slack
  /\ now' = now + 1
  /\ UNCHANGED <<LIVENESS, LAST_BEAT_SEEN, BEAT_DEADLINE_AT, DEADLOCK_DETECTED,
                 alive, pc, now_ms, last_beat, silence>>

(* A callback enters check_liveness.                                       *)
ReadClock ==
  /\ pc = "idle"
  /\ now_ms' = now
  /\ pc' = "checking"
  /\ UNCHANGED <<now, LIVENESS, LAST_BEAT_SEEN, BEAT_DEADLINE_AT,
                 DEADLOCK_DETECTED, alive, last_beat, silence>>

Advanced == LAST_BEAT_SEEN = Never \/ LIVENESS # LAST_BEAT_SEEN

Raise ==
  /\ DEADLOCK_DETECTED' = TRUE
  /\ silence' = IF DEADLOCK_DETECTED THEN silence ELSE now - last_beat

(* The counter moved, or this is the first callback: arm the deadline.     *)
CheckAdvancedKeepsDeadline ==
  /\ pc = "checking" /\ Advanced
  /\ LAST_BEAT_SEEN' = LIVENESS
  /\ BEAT_DEADLINE_AT' = IF LAST_BEAT_SEEN = Never THEN now_ms + Deadline
                                                   ELSE BEAT_DEADLINE_AT
  /\ pc' = "idle"
  /\ UNCHANGED <<now, LIVENESS, DEADLOCK_DETECTED, alive, now_ms, last_beat, silence>>

CheckAdvancedSubtracts ==
  /\ pc = "checking" /\ Advanced
  /\ LAST_BEAT_SEEN' = LIVENESS
  /\ BEAT_DEADLINE_AT' = now_ms - Deadline
  /\ pc' = "idle"
  /\ UNCHANGED <<now, LIVENESS, DEADLOCK_DETECTED, alive, now_ms, last_beat, silence>>

CheckAdvanced ==
  /\ pc = "checking" /\ Advanced
  /\ LAST_BEAT_SEEN' = LIVENESS
  /\ BEAT_DEADLINE_AT' = now_ms + Deadline
  /\ pc' = "idle"
  /\ UNCHANGED <<now, LIVENESS, DEADLOCK_DETECTED, alive, now_ms, last_beat, silence>>

(* The counter is where the last callback saw it: healthy before the       *)
(* deadline, wedged from then on (callback_preamble flags it, replies EIO).*)
CheckUnchanged ==
  /\ pc = "checking" /\ ~Advanced
  /\ \/ /\ now_ms < BEAT_DEADLINE_AT
        /\ UNCHANGED <<DEADLOCK_DETECTED, silence>>
     \/ /\ now_ms >= BEAT_DEADLINE_AT
        /\ Raise
  /\ pc' = "idle"
  /\ UNCHANGED <<now, LIVENESS, LAST_BEAT_SEEN, BEAT_DEADLINE_AT, alive, now_ms,
                 last_beat>>

Next ==
  \/ Beat \/ Stall \/ Tick \/ ReadClock \/ CheckAdvanced \/ CheckUnchanged

Spec == Init /\ [][Next]_vars

-----------------------------------------------------------------------------
(* The alarm is never raised within Deadline - Slack of a beat, however    *)
(* the callbacks, the heartbeat thread and the clock interleave, and       *)
(* however long the mount was idle before (check_liveness).                *)
AlarmMeansSilence == DEADLOCK_DETECTED => silence >= Deadline - Slack

(* "An idle mount is never falsely flagged": while the heartbeat thread    *)
(* runs and is never later than the deadline allows, nothing is flagged.   *)
NoFalseAlarm == alive /\ Late < Deadline - Slack => ~DEADLOCK_DETECTED

(* A deadline belongs to the beat the last callback saw: it is armed no    *)
(* earlier than Deadline - Slack after that beat.  (Inductive core of the  *)
(* two properties above.)                                                  *)
DeadlineAfterBeat ==
  LAST_BEAT_SEEN = LIVENESS => BEAT_DEADLINE_AT >= last_beat + Deadline - Slack

(* The heartbeat as the rest of the daemon relies on it (BeatSpec): a      *)
(* callback that reads its clock before the deadline counts as being there *)
(* before the deadline, even if the deadline passes before it loads the    *)
(* counter.  Needs a thread that beats within Deadline - Slack.            *)
ClockRead == IF pc = "checking" THEN now_ms ELSE now

BeatState ==
  IF Advanced THEN "new"
  ELSE IF ~alive /\ ClockRead >= BEAT_DEADLINE_AT THEN "late" ELSE "seen"

Abstract == INSTANCE BeatSpec WITH beat <- BeatState, alarm <- DEADLOCK_DETECTED

(* check_liveness implements BeatSpec: every interleaving of the thread,   *)
(* the clock and the two reads is a sequence of beats, sightings and       *)
(* deadlines in which only a passed deadline of a stopped thread alarms.   *)
ImplementsBeatSpec == Abstract!Spec
=============================================================================
