--------------------------- MODULE SyncThroughput ---------------------------
(***************************************************************************)
(* How the manager of a ReconEventSync simulation judges the throughput of *)
(* the peers (runner/src/simulate.rs): it polls a counter of every peer    *)
(* before the run and again after it, and compares the difference with     *)
(* the target.                                                             *)
(*                                                                         *)
(* The counter counts the events a peer's process has synced.  It may be   *)
(* missing until the first of them, and starts over when the process       *)
(* restarts.  Processes of an older version export it under another name;  *)
(* the manager asks for that one when no peer has the new one.             *)
(***************************************************************************)
EXTENDS Integers, FiniteSetsExt

CONSTANTS
  Peers,       \* number of Ceramic peers
  Target,      \* events each peer must sync: target rate * run time
  MaxEvents,   \* bound: events each peer syncs
  MaxRestarts, \* bound: restarts of peers
  MaxFailures  \* bound: failed metrics requests

All == 1 .. Peers      \* in the order of their names
None == -1             \* collect_counter found no such metric

ASSUME ThroughputAssumption ==
  /\ Peers \in Nat \ {0}
  /\ {Target, MaxEvents, MaxRestarts, MaxFailures} \subseteq Nat

VARIABLES
  version,  \* of each peer: exports the "new" or the "old" metric name
  eager,    \* a counter is exported before its first event
  counter,  \* events the process of each peer has counted
  stage,    \* of the manager
  name,     \* metric name it asks for
  k,        \* peer it asks
  before,   \* before_metrics
  after,    \* peer_req_cnts
  verdict,
  window,   \* history: events of each peer since the manager first asked it
  inside,   \* history: events of each peer between the two collections
  restarts, failures

manager == <<stage, name, k, before, after, verdict>>
vars == <<version, eager, counter, manager, window, inside, restarts, failures>>

Unknown == [p \in All |-> None]

Init ==
  /\ version \in [All -> {"new", "old"}]
  /\ eager \in BOOLEAN
  /\ counter \in [All -> 0 .. 1]
  /\ stage = "before" /\ name = "new" /\ k = 1
  /\ before = Unknown /\ after = Unknown
  /\ verdict = "none"
  /\ window = [p \in All |-> 0] /\ inside = [p \in All |-> 0]
  /\ restarts = 0 /\ failures = 0

-----------------------------------------------------------------------------
(* The manager. *)

\* collect_counter of peer p.
Metric(p) == IF version[p] = name /\ (eager \/ counter[p] > 0) THEN counter[p] ELSE None

\* The manager has asked peer p at least once.
Seen(p) == IF stage = "before" THEN p < k \/ name = "old" ELSE TRUE

\* One turn of get_peers_counter_metric.
PollBefore ==
  /\ stage = "before" /\ k <= Peers
  /\ before' = [before EXCEPT ![k] = Metric(k)]
  /\ k' = k + 1
  /\ UNCHANGED <<version, eager, counter, stage, name, after, verdict, window, inside,
                 restarts, failures>>

PollAfter ==
  /\ stage = "after" /\ k <= Peers
  /\ after' = [after EXCEPT ![k] = Metric(k)]
  /\ k' = k + 1
  /\ UNCHANGED <<version, eager, counter, stage, name, before, verdict, window, inside,
                 restarts, failures>>

Missing(counts) == \A p \in All : counts[p] = None

\* Mutant of FallsBack: the old name is not tried.
FallsBackNever(counts) == FALSE

\* No peer has the metric under its new name: ask again for the old one.
FallsBack(counts) == name = "new" /\ Missing(counts)

AskForOldName ==
  /\ stage \in {"before", "after"} /\ k > Peers
  /\ FallsBack(IF stage = "before" THEN before ELSE after)
  /\ name' = "old" /\ k' = 1
  /\ UNCHANGED <<version, eager, counter, stage, before, after, verdict, window, inside,
                 restarts, failures>>

\* before_metrics is complete; the attack runs.
StartRun ==
  /\ stage = "before" /\ k > Peers /\ ~ FallsBack(before)
  /\ stage' = "run"
  /\ UNCHANGED <<version, eager, counter, name, k, before, after, verdict, window, inside,
                 restarts, failures>>

\* The run time is over; the new name is asked for first, whatever before_metrics
\* was collected with.
EndRun ==
  /\ stage = "run"
  /\ stage' = "after" /\ name' = "new" /\ k' = 1
  /\ UNCHANGED <<version, eager, counter, before, after, verdict, window, inside,
                 restarts, failures>>

OrZero(count) == IF count = None THEN 0 ELSE count

\* final_peer_req_metric_info: saturating_sub of the two counts.
Gain(p) ==
  LET a == OrZero(after[p])
      b == OrZero(before[p])
  IN IF a < b THEN 0 ELSE a - b

\* Mutant of MeetsThreshold: one good peer suffices.
MeetsThresholdSomewhere == \E p \in All : Gain(p) >= Target

\* Every peer must meet the threshold.
MeetsThreshold == \A p \in All : Gain(p) >= Target

Judge ==
  /\ stage = "after" /\ k > Peers /\ ~ FallsBack(after)
  /\ stage' = "judged"
  /\ verdict' = IF MeetsThreshold THEN "success" ELSE "failure"
  /\ UNCHANGED <<version, eager, counter, name, k, before, after, window, inside,
                 restarts, failures>>

\* A metrics request fails: before the run the command ends with an error, after
\* it the verdict is a failure.
RequestFails ==
  /\ stage \in {"before", "after"} /\ k <= Peers
  /\ failures < MaxFailures /\ failures' = failures + 1
  /\ stage' = "judged"
  /\ verdict' = IF stage = "before" THEN "error" ELSE "failure"
  /\ UNCHANGED <<version, eager, counter, name, k, before, after, window, inside, restarts>>

\* Mutant of MinRps: the first peer is not compared.
MinRpsLater ==
  IF Peers = 1 THEN Gain(1) ELSE Min({Gain(p) : p \in 2 .. Peers})

\* PeerRps::min, by the rates times the run time.  The comparison says Greater
\* of a pair with a rate that is zero, and min_by then takes the later one.
LeastUpTo[p \in All] ==
  IF p = 1 THEN Gain(1)
  ELSE IF LeastUpTo[p - 1] > 0 /\ Gain(p) > 0
  THEN Min({LeastUpTo[p - 1], Gain(p)})
  ELSE Gain(p)

MinRps == LeastUpTo[Peers]

-----------------------------------------------------------------------------
(* The peers. *)

\* Peer p syncs an event.
Event(p) ==
  /\ stage # "judged"
  /\ counter' = [counter EXCEPT ![p] = @ + 1]
  /\ IF Seen(p)
     THEN window[p] < MaxEvents /\ window' = [window EXCEPT ![p] = @ + 1]
     ELSE counter[p] < MaxEvents /\ UNCHANGED window
  /\ inside' = IF stage = "run" THEN [inside EXCEPT ![p] = @ + 1] ELSE inside
  /\ UNCHANGED <<version, eager, manager, restarts, failures>>

Restart(p) ==
  /\ restarts < MaxRestarts /\ stage # "judged"
  /\ restarts' = restarts + 1
  /\ counter' = [counter EXCEPT ![p] = 0]
  /\ UNCHANGED <<version, eager, manager, window, inside, failures>>

ManagerStep ==
  \/ PollBefore \/ PollAfter \/ AskForOldName \/ StartRun \/ EndRun \/ Judge

Next == ManagerStep \/ RequestFails \/ \E p \in All : Event(p) \/ Restart(p)

Spec == Init /\ [][Next]_vars

-----------------------------------------------------------------------------
(* Properties *)

\* A success is earned: every peer synced the target between the manager's first
\* look at it and its last, whatever restarts, mixed versions and missing metrics
\* did to its counter.  All that the code loses, it loses to the safe side.
SuccessEarned ==
  verdict = "success" => \A p \in All : window[p] >= Target

\* A failure is deserved: when the peers have one version, none restarted and no
\* request failed, some peer missed the target during the run.
FailureDeserved ==
  verdict = "failure" /\ restarts = 0 /\ failures = 0
    /\ (\A p, q \in All : version[p] = version[q])
  => \E p \in All : inside[p] < Target

\* "Should return the Minimum RPS of all peers" (simulate.rs): a success reports
\* the minimum of the peers' rates.  A failure may not: a peer without events is
\* lost on the comparison.
SuccessReportsMinimum ==
  verdict = "success" /\ Target > 0 => MinRps = Min({Gain(p) : p \in All})
=============================================================================
