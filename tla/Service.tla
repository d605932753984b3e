------------------------------ MODULE Service -------------------------------
(***************************************************************************)
(* The FUSE thread at work on one directory while the kernel scans it, and *)
(* the export thread beside it: Readdir and Metrics together.  A callback  *)
(* enters (guard, preamble, counter) or is turned away by the preamble,    *)
(* does its work on the directory or fails, and leaves (the guard records);*)
(* flush and release have no guard.                                        *)
(***************************************************************************)
EXTENDS Readdir, Metrics

CONSTANT MaxCalls   \* callbacks

ASSUME BoundAssumption == MaxCalls \in Nat

vars == <<dirVars, metricsVars>>

TypeOK == DirTypeOK /\ MetricsTypeOK

Init == DirInit /\ MetricsInit

Call ==
  /\ count + turned + untimed < MaxCalls
  /\ TurnAway \/ Untimed \/ \E op \in Op : Enter(op)
  /\ UNCHANGED dirVars

ReadPage == fuse.op = "readdir" /\ readdir /\ Leave(TRUE)
Create == fuse.op = "create" /\ Insert /\ Leave(TRUE)
Unlink == fuse.op = "unlink" /\ Delete /\ Leave(TRUE)

(* ENOENT, EEXIST or EIO; a failed scan goes on where it was.              *)
Error == Leave(FALSE) /\ UNCHANGED dirVars

Kernel == Rewind /\ UNCHANGED metricsVars

Export == (Wake \/ LoadOps \/ LoadBucket \/ Log) /\ UNCHANGED dirVars

Next ==
  \/ Call \/ ReadPage \/ Create \/ Unlink \/ Error
  \/ Kernel \/ Export

Spec == Init /\ [][Next]_vars
=============================================================================
