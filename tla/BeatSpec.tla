------------------------------ MODULE BeatSpec ------------------------------
(***************************************************************************)
(* What the liveness heartbeat promises the rest of the daemon, without    *)
(* counters and clocks.  A beat is "new" until a callback has seen it,     *)
(* then "seen", and "late" once the deadline armed by that callback has    *)
(* passed.  Only the silence of a stopped thread becomes late, and only a  *)
(* late beat raises the alarm.  Heartbeat implements this specification;   *)
(* Lifecycle is built on it.                                               *)
(***************************************************************************)
VARIABLES
  beat,   \* "new", "seen" or "late"
  alive,  \* the heartbeat thread has not stopped
  alarm   \* DEADLOCK_DETECTED

TypeOK == beat \in {"new", "seen", "late"} /\ alive \in BOOLEAN /\ alarm \in BOOLEAN

Init == beat = "new" /\ alive = TRUE /\ alarm = FALSE

Beat ==
  /\ alive
  /\ beat' = "new"
  /\ UNCHANGED <<alive, alarm>>

Stall ==
  /\ alive
  /\ alive' = FALSE
  /\ UNCHANGED <<beat, alarm>>

DeadlinePasses ==
  /\ ~alive /\ beat = "seen"
  /\ beat' = "late"
  /\ UNCHANGED <<alive, alarm>>

(* check_liveness in a callback: healthy, or the alarm.                    *)
Healthy ==
  /\ beat # "late"
  /\ beat' = "seen"
  /\ UNCHANGED <<alive, alarm>>

Alarm ==
  /\ beat = "late"
  /\ alarm' = TRUE
  /\ UNCHANGED <<beat, alive>>

Next == Beat \/ Stall \/ DeadlinePasses \/ Healthy \/ Alarm

Spec == Init /\ [][Next]_<<beat, alive, alarm>>
=============================================================================
