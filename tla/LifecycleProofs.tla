-------------------------- MODULE LifecycleProofs ---------------------------
(* What the daemon leaves behind, for any number of unmount attempts,      *)
(* signals and launches.                                                   *)
EXTENDS Lifecycle, TLAPS

(* TypeOK in two parts: the Boolean variables and the others.              *)
Flags ==
  /\ pid \in BOOLEAN /\ ready \in BOOLEAN
  /\ mount \in BOOLEAN /\ ghost \in BOOLEAN
  /\ dump_requested \in BOOLEAN /\ profiler \in BOOLEAN
  /\ alive \in BOOLEAN /\ DEADLOCK_DETECTED \in BOOLEAN
  /\ failed \in BOOLEAN /\ stale \in BOOLEAN

Places ==
  /\ main \in Startup \union Serving \union Drops \union {"dead"}
  /\ how \in {"none", "failed", "returned", "exit", "killed"}
  /\ pending \subseteq Signal
  /\ waiter \in {"none", "waiting", "unmounting", "locked", "done"}
  /\ watchdog \in {"none", "polling", "unmounting", "locked", "done"}
  /\ ~(waiter = "locked" /\ watchdog = "locked")
  /\ attempts \in 0..(MaxAttempts - 1)
  /\ beat \in {"new", "seen", "late"}
  /\ sent \in 0..MaxSignals /\ launches \in 0..MaxLaunches

(* TypeOK, split into the flags and the places of the threads.             *)
LEMMA TypeParts == Flags /\ Places <=> TypeOK
BY Zenon DEF Flags, Places, TypeOK, H!TypeOK

(* There is a mount only between Session::new and the drop of the session; *)
(* the ready file goes before the pid file.                                *)
MountWhileServing ==
  main \in {"dead", "start", "blocked", "connected", "pid", "unmounted", "unready"}
    => ~mount

ReadyGoesFirst == main = "unready" => ~ready

Safe ==
  /\ MountWhileServing
  /\ ReadyGoesFirst
  /\ ReadyIsHonest
  /\ CleanReturnLeavesNothing

(* Every initial state has the types and satisfies the invariant.          *)
LEMMA InitKeeps == Init => Flags /\ Places /\ Safe
<1> SUFFICES ASSUME Init
             PROVE  Flags /\ Places /\ Safe
  OBVIOUS
<1>1. Flags
  BY Zenon DEF Init, H!Init, Flags
<1>2. Places
  BY AttemptsAssumption, OperatorAssumption
  DEF Init, H!Init, Places, Startup, Serving, Drops, Signal
<1>3. Safe
  BY DEF Init, Safe, MountWhileServing, ReadyGoesFirst, ReadyIsHonest,
         CleanReturnLeavesNothing, Serving, Drops
<1> QED
  BY <1>1, <1>2, <1>3

-----------------------------------------------------------------------------
(* Every step keeps the Boolean variables Boolean.                         *)
LEMMA NextFlags == Flags /\ [Next]_vars => Flags'
<1> SUFFICES ASSUME Flags, [Next]_vars
             PROVE  Flags'
  OBVIOUS
<1> USE DEF Flags, files, heart, signal, dog, outside
<1>1. CASE Launch \/ Start
  <2>1. CASE Launch
    BY <2>1, Zenon DEF Launch
  <2>2. CASE BlockSignals
    BY <2>2, Zenon DEF BlockSignals
  <2>3. CASE Connect
    BY <2>3, Zenon DEF Connect, Die
  <2>4. CASE WritePid
    BY <2>4, Zenon DEF WritePid
  <2>5. CASE Mount
    BY <2>5, Zenon DEF Mount
  <2>6. CASE Serve
    BY <2>6, Zenon DEF Serve
  <2> QED
    BY <1>1, <2>1, <2>2, <2>3, <2>4, <2>5, <2>6 DEF Start
<1>2. CASE callback \/ callbackWedged \/ callbackReturns
  <2>1. CASE callback
    BY <2>1, Zenon DEF callback, H!Healthy
  <2>2. CASE callbackWedged
    BY <2>2, Zenon DEF callbackWedged, H!Alarm
  <2>3. CASE callbackReturns
    BY <2>3, Zenon DEF callbackReturns
  <2> QED
    BY <1>2, <2>1, <2>2, <2>3
<1>3. CASE SessionFails \/ Finish
  <2>1. CASE SessionFails
    BY <2>1, Zenon DEF SessionFails
  <2>2. CASE SessionEnds
    BY <2>2, Zenon DEF SessionEnds
  <2>3. CASE DropSession
    BY <2>3, Zenon DEF DropSession
  <2>4. CASE DropReadyGuard
    BY <2>4, Zenon DEF DropReadyGuard
  <2>5. CASE DropPidGuard
    BY <2>5, Zenon DEF DropPidGuard
  <2> QED
    BY <1>3, <2>1, <2>2, <2>3, <2>4, <2>5 DEF Finish
<1>4. CASE Sigwait \/ WaiterLocks \/ WaiterUnmounts
  <2>1. CASE Sigwait
    BY <2>1, Zenon DEF Sigwait
  <2>2. CASE WaiterUnmounts
    BY <2>2, Zenon DEF WaiterUnmounts
  <2>3. CASE WaiterLocks
    BY <2>3, Zenon DEF WaiterLocks
  <2> QED
    BY <1>4, <2>1, <2>2, <2>3
<1>5. CASE Watchdog
  <2>1. CASE WatchdogSees
    BY <2>1, Zenon DEF WatchdogSees
  <2>2. CASE WatchdogUnmounts
    BY <2>2, Zenon DEF WatchdogUnmounts
  <2>3. CASE WatchdogFails
    BY <2>3, Zenon DEF WatchdogFails, Die
  <2>4. CASE WatchdogLocks
    BY <2>4, Zenon DEF WatchdogLocks
  <2> QED
    BY <1>5, <2>1, <2>2, <2>3, <2>4 DEF Watchdog
<1>6. CASE HeartStep
  BY <1>6, Zenon DEF HeartStep, H!Beat, H!Stall, H!DeadlinePasses
<1>7. CASE \E s \in Signal : Send(s)
  BY <1>7, Zenon DEF Send
<1>8. CASE Kill \/ Hang \/ Umount \/ AutoUnmount
  <2>1. CASE Kill
    BY <2>1, Zenon DEF Kill, Die
  <2>2. CASE Hang
    BY <2>2, Zenon DEF Hang
  <2>3. CASE Umount
    BY <2>3, Zenon DEF Umount
  <2>4. CASE AutoUnmount
    BY <2>4, Zenon DEF AutoUnmount
  <2> QED
    BY <1>8, <2>1, <2>2, <2>3, <2>4
<1>9. CASE UNCHANGED vars
  BY <1>9, Zenon DEF vars
<1> QED
  BY <1>1, <1>2, <1>3, <1>4, <1>5, <1>6, <1>7, <1>8, <1>9 DEF Next

(* The end of a process, by an error of run(), exit(1) or a kill, keeps    *)
(* the types and the invariant.                                            *)
LEMMA DieKeeps ==
  ASSUME Places, Safe, NEW reason \in {"failed", "exit", "killed"}, Die(reason)
  PROVE  Places' /\ Safe'
<1>1. Places'
  BY AttemptsAssumption DEF Die, heart, Places, Startup, Serving, Drops
<1>2. Safe'
  <2>1. main' = "dead" /\ how' = reason /\ mount' = FALSE /\ ready' = ready
        /\ (stale' <=> stale \/ ready)
    BY Zenon DEF Die
  <2> QED
    BY <2>1 DEF Safe, MountWhileServing, ReadyGoesFirst, ReadyIsHonest,
                CleanReturnLeavesNothing, Serving, Drops
<1> QED
  BY <1>1, <1>2

(* Every step keeps the other types and the invariant.                     *)
LEMMA NextSafe == Places /\ Safe /\ [Next]_vars => Places' /\ Safe'
<1> SUFFICES ASSUME Places, Safe, [Next]_vars
             PROVE  Places' /\ Safe'
  OBVIOUS
<1> USE AttemptsAssumption, OperatorAssumption
    DEF Places, Safe, MountWhileServing, ReadyGoesFirst, ReadyIsHonest,
        CleanReturnLeavesNothing, Startup, Serving, Drops, Signal,
        files, heart, signal, dog, outside
<1>1. CASE Launch
  BY <1>1 DEF Launch
<1>2. CASE Start
  <2>1. CASE BlockSignals
    BY <2>1 DEF BlockSignals
  <2>2. CASE Connect
    <3>1. CASE Die("failed")
      BY <3>1, DieKeeps
    <3>2. CASE main' = "connected" /\ UNCHANGED <<how, files, mount, signal, dog, heart, outside>>
      BY <2>2, <3>2 DEF Connect
    <3> QED
      BY <2>2, <3>1, <3>2 DEF Connect
  <2>3. CASE Mount
    BY <2>3 DEF Mount
  <2>4. CASE WritePid
    BY <2>4 DEF WritePid
  <2>5. CASE Serve
    BY <2>5 DEF Serve
  <2> QED
    BY <1>2, <2>1, <2>2, <2>3, <2>4, <2>5 DEF Start
<1>3. CASE callback \/ callbackWedged \/ callbackReturns
  <2>1. CASE callback
    BY <2>1 DEF callback, H!Healthy
  <2>2. CASE callbackWedged
    BY <2>2 DEF callbackWedged, H!Alarm
  <2>3. CASE callbackReturns
    BY <2>3 DEF callbackReturns
  <2> QED
    BY <1>3, <2>1, <2>2, <2>3
<1>4. CASE SessionFails
  BY <1>4 DEF SessionFails
<1>5. CASE Finish
  <2>1. CASE SessionEnds
    BY <2>1 DEF SessionEnds
  <2>4. CASE DropSession
    BY <2>4 DEF DropSession
  <2>2. CASE DropReadyGuard
    BY <2>2 DEF DropReadyGuard
  <2>3. CASE DropPidGuard
    BY <2>3 DEF DropPidGuard
  <2> QED
    BY <1>5, <2>1, <2>2, <2>3, <2>4 DEF Finish
<1>6. CASE Sigwait
  <2>1. UNCHANGED <<main, how, pid, ready, stale, mount, watchdog, attempts, beat,
                    sent, launches>>
        /\ pending' \subseteq pending /\ waiter' \in {waiter, "unmounting"}
    BY <1>6, Zenon DEF Sigwait
  <2> QED
    BY <2>1
<1>7. CASE WaiterLocks \/ WaiterUnmounts
  <2>1. CASE WaiterLocks
    BY <2>1 DEF WaiterLocks
  <2>2. CASE WaiterUnmounts
    BY <2>2 DEF WaiterUnmounts
  <2> QED
    BY <1>7, <2>1, <2>2
<1>8. CASE Watchdog
  <2>1. CASE WatchdogSees
    BY <2>1 DEF WatchdogSees
  <2>5. CASE WatchdogLocks
    BY <2>5 DEF WatchdogLocks
  <2>2. CASE WatchdogUnmounts
    BY <2>2 DEF WatchdogUnmounts
  <2>3. CASE WatchdogFails /\ Die("exit")
    BY <2>3, DieKeeps
  <2>4. CASE WatchdogFails /\ ~Die("exit")
    <3>1. attempts + 1 < MaxAttempts /\ attempts' = attempts + 1
          /\ watchdog' = "unmounting"
          /\ UNCHANGED <<main, how, files, mount, signal, heart, outside>>
      BY <2>4 DEF WatchdogFails
    <3> QED
      BY <3>1
  <2> QED
    BY <1>8, <2>1, <2>2, <2>3, <2>4, <2>5 DEF Watchdog
<1>9. CASE HeartStep
  BY <1>9 DEF HeartStep, H!Beat, H!Stall, H!DeadlinePasses
<1>10. ASSUME NEW s \in Signal, Send(s) PROVE Places' /\ Safe'
  <2>1. CASE main = "start"
    <3>1. UNCHANGED <<pid, ready, mount, pending, waiter, watchdog, attempts, beat, launches>>
          /\ main' = "dead" /\ how' = "killed" /\ (stale' <=> stale \/ ready)
          /\ sent' = sent + 1 /\ sent < MaxSignals
      BY <1>10, <2>1, Zenon DEF Send, dog, heart
    <3> QED
      BY <2>1, <3>1
  <2>2. CASE main # "start"
    <3>1. UNCHANGED <<main, how, stale, pid, ready, mount, waiter, watchdog, attempts,
                      beat, launches>>
          /\ sent' = sent + 1 /\ sent < MaxSignals /\ pending' = pending \union {s}
      BY <1>10, <2>2, Zenon DEF Send
    <3> QED
      BY <3>1
  <2> QED
    BY <2>1, <2>2
<1>11. CASE Kill
  BY <1>11, DieKeeps DEF Kill
<1>12. CASE Hang
  BY <1>12 DEF Hang
<1>13. CASE Umount
  BY <1>13 DEF Umount
<1>14. CASE AutoUnmount
  BY <1>14 DEF AutoUnmount
<1>15. CASE UNCHANGED vars
  BY <1>15 DEF vars
<1> QED
  BY <1>1, <1>2, <1>3, <1>4, <1>5, <1>6, <1>7, <1>8, <1>9, <1>10, <1>11, <1>12, <1>13,
     <1>14, <1>15
  DEF Next

-----------------------------------------------------------------------------
(* The daemon's state keeps its types (processes, threads and kernel).     *)
THEOREM TypeCorrect == Spec => []TypeOK
BY InitKeeps, NextFlags, NextSafe, TypeParts, PTL DEF Spec

(* A process that returns from run() leaves neither mount nor health       *)
(* files, whatever processes before it left (FileGuard, the session's      *)
(* drop), for any number of unmount attempts and launches.                 *)
THEOREM CleanReturnTheorem == Spec => []CleanReturnLeavesNothing
<1>1. Safe => CleanReturnLeavesNothing
  BY DEF Safe
<1> QED
  BY <1>1, InitKeeps, NextSafe, PTL DEF Spec

(* A ready file that no dead process left behind stands for a process that *)
(* has mounted (run() writes it after Session::new).                       *)
THEOREM ReadyTheorem == Spec => []ReadyIsHonest
<1>1. Safe => ReadyIsHonest
  BY DEF Safe
<1> QED
  BY <1>1, InitKeeps, NextSafe, PTL DEF Spec
=============================================================================
