----------------------------- MODULE Lifecycle ------------------------------
(***************************************************************************)
(* The life of the daemon (main.rs): run() from the blocking of signals to *)
(* the guards that remove the health files, the signal waiter, the         *)
(* deadlock watchdog, the preamble of the callbacks and the profiler that  *)
(* SIGUSR2 toggles.  The heartbeat is the one of BeatSpec, which Heartbeat *)
(* implements.  Process, threads and kernel interleave freely; a process   *)
(* may be killed at any step and be launched again over what it left.      *)
(*                                                                         *)
(* fuser, the kernel, the supervisor and the operator are external.  Left  *)
(* out: errors on the two files in /tmp (they are only logged), and        *)
(* failures of sigaddset, pthread_sigmask and sigwait, which need an       *)
(* invalid signal number.  SIGINT and SIGHUP are handled as SIGTERM.       *)
(***************************************************************************)
EXTENDS Integers

CONSTANTS
  MaxAttempts,  \* unmounts the watchdog tries (5 in main.rs)
  MaxSignals,   \* signals the operator sends
  MaxLaunches   \* processes the supervisor starts

ASSUME AttemptsAssumption == MaxAttempts \in Nat \ {0}
ASSUME OperatorAssumption == MaxSignals \in Nat /\ MaxLaunches \in Nat \ {0}

VARIABLES
  main,      \* where the main thread is: run(), then session.run()
  how,       \* how the last process ended
  pid, ready,      \* the health files exist
  mount,           \* this process's mount
  ghost,           \* a dead process's mount
  pending,         \* blocked signals that wait (a signal waits once)
  waiter,          \* the signal-waiter thread; "locked": in unmount(), with
                   \* the unmounter's mutex, for which "unmounting" waits
  watchdog, attempts,
  dump_requested,
  profiler,        \* a CPU profile is being taken
  beat, alive, DEADLOCK_DETECTED,
  failed,          \* the waiter's unmount failed (history)
  stale,           \* a process died over the ready file (history)
  sent, launches   \* counters for the bounds

files == <<pid, ready, stale>>
heart == <<beat, alive, DEADLOCK_DETECTED>>
signal == <<pending, waiter, dump_requested, profiler, failed>>
dog == <<watchdog, attempts>>
outside == <<ghost, sent, launches>>
vars == <<main, how, pid, ready, mount, ghost, pending, waiter, watchdog,
          attempts, dump_requested, profiler, beat, alive, DEADLOCK_DETECTED, failed,
          stale, sent, launches>>

H == INSTANCE BeatSpec WITH alarm <- DEADLOCK_DETECTED

Signal == {"TERM", "USR1", "USR2"}
Startup == {"start", "blocked", "connected", "pid", "mounted"}
Serving == {"idle", "body", "stuck"}
Drops == {"leaving", "unmounted", "unready"}

TypeOK ==
  /\ main \in Startup \union Serving \union Drops \union {"dead"}
  /\ how \in {"none", "failed", "returned", "exit", "killed"}
  /\ pid \in BOOLEAN /\ ready \in BOOLEAN
  /\ mount \in BOOLEAN /\ ghost \in BOOLEAN
  /\ pending \subseteq Signal
  /\ waiter \in {"none", "waiting", "unmounting", "locked", "done"}
  /\ watchdog \in {"none", "polling", "unmounting", "locked", "done"}
  /\ ~(waiter = "locked" /\ watchdog = "locked")
  /\ attempts \in 0..(MaxAttempts - 1)
  /\ dump_requested \in BOOLEAN /\ profiler \in BOOLEAN
  /\ H!TypeOK
  /\ failed \in BOOLEAN /\ stale \in BOOLEAN
  /\ sent \in 0..MaxSignals /\ launches \in 0..MaxLaunches

Init ==
  /\ main = "dead" /\ how = "none"
  /\ pid = FALSE /\ ready = FALSE /\ mount = FALSE /\ ghost = FALSE
  /\ pending = {} /\ waiter = "none" /\ watchdog = "none" /\ attempts = 0
  /\ dump_requested = FALSE /\ profiler = FALSE
  /\ H!Init
  /\ failed = FALSE /\ stale = FALSE /\ sent = 0 /\ launches = 0

(* The process ends: its threads and its signals go with it.  The files    *)
(* stay, and the mount is left to AutoUnmount.                             *)
Die(reason) ==
  /\ main' = "dead" /\ how' = reason
  /\ pending' = {} /\ waiter' = "none" /\ watchdog' = "none" /\ attempts' = 0
  /\ profiler' = FALSE
  /\ mount' = FALSE /\ ghost' = (ghost \/ mount)
  /\ UNCHANGED <<pid, ready, dump_requested, heart, failed, sent, launches>>
  /\ stale' = (stale \/ ready)

-----------------------------------------------------------------------------
(* run(), up to session.run().                                             *)
Launch ==
  /\ main = "dead" /\ launches < MaxLaunches
  /\ launches' = launches + 1
  /\ main' = "start" /\ how' = "none"
  /\ dump_requested' = FALSE /\ failed' = FALSE
  /\ beat' = "new" /\ alive' = TRUE /\ DEADLOCK_DETECTED' = FALSE
  /\ UNCHANGED <<files, mount, ghost, pending, waiter, profiler, dog, sent>>

BlockSignals ==
  /\ main = "start"
  /\ main' = "blocked"
  /\ UNCHANGED <<how, files, mount, signal, dog, heart, outside>>

(* Db::connect_opts; its error leaves run() before there is any guard.     *)
Connect ==
  /\ main = "blocked"
  /\ \/ /\ main' = "connected"
        /\ UNCHANGED <<how, files, mount, signal, dog, heart, outside>>
     \/ Die("failed")

WritePidAndReady ==
  /\ main = "connected"
  /\ main' = "pid"
  /\ pid' = TRUE /\ ready' = TRUE /\ stale' = FALSE
  /\ UNCHANGED <<how, mount, signal, dog, heart, outside>>

WritePid ==
  /\ main = "connected"
  /\ main' = "pid"
  /\ pid' = TRUE
  /\ UNCHANGED <<how, ready, stale, mount, signal, dog, heart, outside>>

(* Session::new; its error leaves run() through the guards.                *)
MountWithoutGuards ==
  /\ main = "pid"
  /\ \/ /\ ~ghost
        /\ mount' = TRUE
        /\ main' = "mounted"
        /\ UNCHANGED <<how, files, signal, dog, heart, outside>>
     \/ Die("returned")

Mount ==
  /\ main = "pid"
  /\ \/ /\ ~ghost
        /\ mount' = TRUE
        /\ main' = "mounted"
     \/ /\ main' = "unmounted"
        /\ UNCHANGED mount
  /\ UNCHANGED <<how, files, signal, dog, heart, outside>>

(* The ready file, then the threads, then session.run().                   *)
Serve ==
  /\ main = "mounted"
  /\ main' = "idle"
  /\ ready' = TRUE /\ stale' = FALSE
  /\ watchdog' = "polling" /\ waiter' = "waiting"
  /\ UNCHANGED <<how, pid, mount, pending, dump_requested, profiler, failed,
                 attempts, heart, outside>>

-----------------------------------------------------------------------------
(* callback_preamble in a callback: a requested dump is logged, then the   *)
(* heartbeat is checked; a healthy callback goes on to the database.       *)
callbackRearms ==
  /\ main = "idle" /\ mount
  /\ beat # "late"
  /\ beat' = "new"
  /\ main' = "body"
  /\ dump_requested' = FALSE
  /\ UNCHANGED <<how, files, mount, pending, waiter, profiler, failed, dog,
                 alive, DEADLOCK_DETECTED, outside>>

callback ==
  /\ main = "idle" /\ mount
  /\ H!Healthy
  /\ main' = "body"
  /\ dump_requested' = FALSE
  /\ UNCHANGED <<how, files, mount, pending, waiter, profiler, failed, dog,
                 outside>>

(* The heartbeat is wedged: flag the watchdog, reply EIO.                  *)
callbackWedged ==
  /\ main = "idle" /\ mount
  /\ H!Alarm
  /\ dump_requested' = FALSE
  /\ UNCHANGED <<main, how, files, mount, pending, waiter, profiler, failed,
                 dog, outside>>

callbackReturns ==
  /\ main = "body"
  /\ main' = "idle"
  /\ UNCHANGED <<how, files, mount, signal, dog, heart, outside>>

(* session.run() returns when the mount is gone, or with an error.         *)
SessionEnds ==
  /\ main = "idle" /\ ~mount
  /\ main' = "leaving"
  /\ UNCHANGED <<how, files, mount, signal, dog, heart, outside>>

SessionFails ==
  /\ main = "idle" /\ mount
  /\ main' = "leaving"
  /\ UNCHANGED <<how, files, mount, signal, dog, heart, outside>>

(* The locals of run() are dropped in reverse order: the session, which    *)
(* unmounts, the guard of the ready file, the guard of the pid file; then  *)
(* main() ends the process.                                                *)
DropSession ==
  /\ main = "leaving"
  /\ main' = "unmounted"
  /\ mount' = FALSE
  /\ UNCHANGED <<how, files, signal, dog, heart, outside>>

DropReadyGuardAfterWatchdog ==
  /\ main = "unmounted" /\ watchdog \in {"none", "done"}
  /\ main' = "unready"
  /\ ready' = FALSE /\ stale' = FALSE
  /\ UNCHANGED <<how, pid, mount, signal, dog, heart, outside>>

DropReadyGuard ==
  /\ main = "unmounted"
  /\ main' = "unready"
  /\ ready' = FALSE /\ stale' = FALSE
  /\ UNCHANGED <<how, pid, mount, signal, dog, heart, outside>>

DropPidGuard ==
  /\ main = "unready"
  /\ main' = "dead" /\ how' = "returned"
  /\ pid' = FALSE
  /\ pending' = {} /\ waiter' = "none" /\ watchdog' = "none" /\ attempts' = 0
  /\ profiler' = FALSE
  /\ UNCHANGED <<ready, stale, mount, dump_requested, failed, heart, outside>>

-----------------------------------------------------------------------------
(* The signal waiter: sigwait, then the arm of the match.                  *)
SigwaitUsr1Breaks ==
  /\ waiter = "waiting"
  /\ \E s \in pending :
       /\ pending' = pending \ {s}
       /\ waiter' = CASE s = "TERM" -> "unmounting" [] s = "USR1" -> "done"
                      [] OTHER -> waiter
       /\ dump_requested' = (dump_requested \/ s = "USR1")
       /\ profiler' = IF s = "USR2" THEN ~profiler ELSE profiler
  /\ UNCHANGED <<main, how, files, mount, failed, dog, heart, outside>>

Sigwait ==
  /\ waiter = "waiting"
  /\ \E s \in pending :
       /\ pending' = pending \ {s}
       /\ \/ /\ s = "TERM"
             /\ waiter' = "unmounting"
             /\ UNCHANGED <<dump_requested, profiler>>
          \/ /\ s = "USR1"
             /\ dump_requested' = TRUE
             /\ UNCHANGED <<waiter, profiler>>
          \/ /\ s = "USR2"
             /\ profiler' \in {~profiler, FALSE}
             /\ UNCHANGED <<waiter, dump_requested>>
  /\ UNCHANGED <<main, how, files, mount, failed, dog, heart, outside>>

(* unmounter.lock(), shared with the watchdog, then unmount(): whatever it *)
(* returns, the waiter ends.                                               *)
WaiterLocks ==
  /\ waiter = "unmounting" /\ watchdog # "locked"
  /\ waiter' = "locked"
  /\ UNCHANGED <<main, how, files, mount, pending, dump_requested, profiler,
                 failed, dog, heart, outside>>

WaiterUnmounts ==
  /\ waiter = "locked"
  /\ waiter' = "done"
  /\ \/ /\ mount' = FALSE
        /\ UNCHANGED failed
     \/ /\ mount
        /\ failed' = TRUE
        /\ UNCHANGED mount
  /\ UNCHANGED <<main, how, files, pending, dump_requested, profiler, dog,
                 heart, outside>>

(* The watchdog: poll the flag, then lock and unmount, up to MaxAttempts   *)
(* times, and exit the process after the last.                             *)
WatchdogSees ==
  /\ watchdog = "polling" /\ DEADLOCK_DETECTED
  /\ watchdog' = "unmounting"
  /\ UNCHANGED <<main, how, files, mount, signal, attempts, heart, outside>>

WatchdogLocks ==
  /\ watchdog = "unmounting" /\ waiter # "locked"
  /\ watchdog' = "locked"
  /\ UNCHANGED <<main, how, files, mount, signal, attempts, heart, outside>>

WatchdogUnmounts ==
  /\ watchdog = "locked"
  /\ watchdog' = "done"
  /\ mount' = FALSE
  /\ UNCHANGED <<main, how, files, signal, attempts, heart, outside>>

WatchdogGivesUp ==
  /\ watchdog = "locked" /\ mount
  /\ IF attempts + 1 >= MaxAttempts
       THEN watchdog' = "done" /\ UNCHANGED attempts
       ELSE attempts' = attempts + 1 /\ watchdog' = "unmounting"
  /\ UNCHANGED <<main, how, files, mount, signal, heart, outside>>

WatchdogFailsLate ==
  /\ watchdog = "locked" /\ mount
  /\ \/ /\ attempts + 1 <= MaxAttempts
        /\ attempts' = attempts + 1 /\ watchdog' = "unmounting"
        /\ UNCHANGED <<main, how, files, mount, signal, heart, outside>>
     \/ /\ attempts + 1 > MaxAttempts
        /\ Die("exit")

WatchdogFails ==
  /\ watchdog = "locked" /\ mount
  /\ \/ /\ attempts + 1 < MaxAttempts
        /\ attempts' = attempts + 1 /\ watchdog' = "unmounting"
        /\ UNCHANGED <<main, how, files, mount, signal, heart, outside>>
     \/ /\ attempts + 1 >= MaxAttempts
        /\ Die("exit")

-----------------------------------------------------------------------------
(* The heartbeat thread, started before session.run().                     *)
HeartStep ==
  /\ main \in Serving \union Drops
  /\ H!Beat \/ H!Stall \/ H!DeadlinePasses
  /\ UNCHANGED <<main, how, files, mount, signal, dog, outside>>

DeadlinePasses == HeartStep /\ beat' = "late"

(* The operator sends a signal: before it is blocked it ends the process.  *)
Send(s) ==
  /\ main # "dead" /\ sent < MaxSignals
  /\ sent' = sent + 1
  /\ \/ /\ main = "start"
        /\ main' = "dead" /\ how' = "killed"
        /\ stale' = (stale \/ ready)
        /\ UNCHANGED pending
     \/ /\ main # "start"
        /\ pending' = pending \union {s}
        /\ UNCHANGED <<main, how, stale>>
  /\ UNCHANGED <<pid, ready, mount, ghost, waiter, dump_requested, profiler,
                 failed, dog, heart, launches>>

(* kill -9, a panic (panic = "abort"), the OOM killer.                     *)
Kill == main # "dead" /\ Die("killed")

(* A query that never returns.                                             *)
Hang ==
  /\ main = "body"
  /\ main' = "stuck"
  /\ UNCHANGED <<how, files, mount, signal, dog, heart, outside>>

(* fusermount -u by a user.                                                *)
Umount ==
  /\ main \in Serving \union {"mounted"} /\ mount
  /\ mount' = FALSE
  /\ UNCHANGED <<main, how, files, signal, dog, heart, outside>>

(* AutoUnmount removes the mount of a process that is gone.                *)
AutoUnmount ==
  /\ ghost
  /\ ghost' = FALSE
  /\ UNCHANGED <<main, how, files, mount, signal, dog, heart, sent, launches>>

Start == BlockSignals \/ Connect \/ WritePid \/ Mount \/ Serve
Finish == SessionEnds \/ DropSession \/ DropReadyGuard \/ DropPidGuard
Watchdog == WatchdogSees \/ WatchdogLocks \/ WatchdogUnmounts \/ WatchdogFails

Next ==
  \/ Launch \/ Start
  \/ callback \/ callbackWedged \/ callbackReturns
  \/ SessionFails \/ Finish
  \/ Sigwait \/ WaiterLocks \/ WaiterUnmounts \/ Watchdog
  \/ HeartStep
  \/ \E s \in Signal : Send(s)
  \/ Kill \/ Hang \/ Umount \/ AutoUnmount

(* The scheduler runs every thread, calls into PostgreSQL return unless    *)
(* they hang, unmount() returns (one that did not would keep the mutex,    *)
(* and with it the other thread), time passes, and AutoUnmount does its    *)
(* work for a process that is gone.                                        *)
(* Nothing is assumed of requests, signals, launches and failures.         *)
Fairness ==
  /\ WF_vars(Start) /\ WF_vars(callbackReturns) /\ WF_vars(Finish)
  /\ WF_vars(Sigwait) /\ WF_vars(WaiterLocks) /\ WF_vars(WaiterUnmounts)
  /\ WF_vars(Watchdog)
  /\ WF_vars(DeadlinePasses) /\ WF_vars(AutoUnmount)

Spec == Init /\ [][Next]_vars /\ Fairness

-----------------------------------------------------------------------------
(* A process that returns from run(), by a failed mount, a failed session, *)
(* a signal, the watchdog or fusermount, leaves nothing behind, whatever   *)
(* an earlier process had left (the FileGuards and the session's drop).    *)
CleanReturnLeavesNothing ==
  main = "dead" /\ how = "returned" => ~mount /\ ~pid /\ ~ready

(* "I am serving FUSE requests. Poll me." (MANUAL.md): a ready file stands *)
(* for a process that has mounted, unless a process that died without its  *)
(* guards left it and no later process has come that far.                  *)
ReadyIsHonest == ready /\ ~stale => main \in Serving \union Drops

(* "the watchdog retries, then exits so AutoUnmount finishes the job": a   *)
(* flagged deadlock ends in the removal of the mount, however often the    *)
(* unmount fails and even if the FUSE thread never returns.                *)
AlarmEndsMount == DEADLOCK_DETECTED ~> ~mount /\ ~ghost

(* "If the clean unmount fails, AutoUnmount guarantees the kernel still    *)
(* removes the mount": a termination signal ends in the removal of the     *)
(* mount.                                                                  *)
TermEndsMount == "TERM" \in pending ~> ~mount /\ ~ghost

(* What holds instead: a termination signal that arrives before the waiter *)
(* exists, between others or after the FUSE thread is stuck has its one    *)
(* attempt at the unmount; the mount stays only if that has failed (the    *)
(* waiter's match, and its break after the unmount).                       *)
TermHonoured ==
  "TERM" \in pending ~>
    main = "dead" \/ (waiter = "done" /\ (~mount \/ failed))

(* Once the mount of a serving process is gone, whoever removed it, the    *)
(* process ends unless a query hangs in it.                                *)
UnmountEndsProcess == main \in Serving /\ ~mount ~> main \in {"dead", "stuck"}

(* "it detects a dead heartbeat while the filesystem is in use": callbacks *)
(* do not go on being served for ever over a stopped heartbeat.            *)
WedgeNoticed == <>[]~alive => ~[]<><<callback>>_vars
=============================================================================
