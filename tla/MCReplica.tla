----------------------------- MODULE MCReplica ------------------------------
(***************************************************************************)
(* Replica for TLC, with mutations that may go on for ever.  Positions in  *)
(* the WAL only grow and are only compared, so what all positions in use   *)
(* share may be subtracted from them: MaxCommits then bounds how far the   *)
(* primary is ahead of the standby and not how many mutations there are.   *)
(***************************************************************************)
EXTENDS Replica, FiniteSetsExt

(* The positions that later comparisons read.                              *)
InUse ==
  {committed, written, replay} \union {hist[d] : d \in 0..TTL}
    \union {primary_lsn : q \in {pc} \intersect {"replay_lsn"}}

Less(n, k) == IF n < k THEN 0 ELSE n - k

Renumber ==
  LET k == Min(InUse)
  IN  /\ k > 0
      /\ committed' = committed - k /\ written' = written - k /\ replay' = replay - k
      /\ hist' = [d \in 0..TTL |-> hist[d] - k]
      /\ primary_lsn' = Less(primary_lsn, k) /\ floor' = Less(floor, k)
      /\ reply' = [reply EXCEPT !.ver = Less(@, k), !.seen = Less(@, k),
                                !.floor = Less(@, k)]
      /\ UNCHANGED <<up, in_recovery, conn, stops, cache, pc, dur>>

MCNext == Next \/ Renumber

MCSpec == Init /\ [][MCNext]_vars /\ Fairness
=============================================================================
