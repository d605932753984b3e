----------------------------- MODULE MCService ------------------------------
(* Instances of Service for TLC. *)
EXTENDS Service

MCThresholds == <<10, 100>>

(* What TLC tells states apart by: the loaded operation count is only      *)
(* logged.                                                                 *)
NoOps == <<dirVars, fuse, count, turned, untimed, counts, export, snap>>
=============================================================================
