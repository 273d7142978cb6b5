------------------------- MODULE ReplicaAllocation -------------------------
(***************************************************************************)
(* How a reconcile pass of the network controller spreads spec.replicas    *)
(* over the configured Ceramic specs, and how the resulting StatefulSets   *)
(* and Services reach the cluster.  The part of reconcile_ that is         *)
(* modelled runs from the MAX_CERAMICS check to the last apply_ceramic     *)
(* (operator/src/network/controller.rs).                                   *)
(*                                                                         *)
(* A pass works on the spec it was started with.  The user may edit the    *)
(* spec at any moment, and a pass may end early at any moment: an API call *)
(* returns an error, or the operator process dies.  Whatever was applied   *)
(* up to then stays in the cluster.                                        *)
(***************************************************************************)
EXTENDS Integers, Sequences, FiniteSets, Functions, FiniteSetsExt

CONSTANTS
  MaxCeramics,    \* MAX_CERAMICS
  Specs,          \* the NetworkSpecs a user submits: [weights, replicas]
  LossyQuotients, \* <<w, t, r>> for which (w/t)*r in f64 is below an exact integer
  Edited,         \* bound: the specs an edit leads from and to
  MaxEdits,       \* bound: edits of the spec
  MaxAborts       \* bound: passes that end early

Ordinals == 1 .. MaxCeramics   \* ordinal k is the suffix k-1

\* A lossy triple divides exactly over the integers: only there can the f64
\* product fall short of the integer that truncation should return.
ASSUME AllocationAssumption ==
  /\ MaxCeramics \in Nat
  /\ \A s \in Specs : s.weights \in Seq(Nat) /\ s.replicas \in Nat
  /\ Edited \subseteq Specs
  /\ LossyQuotients \subseteq Nat \X Nat \X Nat
  /\ \A q \in LossyQuotients :
       q[2] > 0 /\ q[1] * q[3] > 0 /\ (q[1] * q[3]) % q[2] = 0

VARIABLES
  spec,         \* the Network resource's spec
  statefulSets, \* cluster: ordinal -> replicas of the applied StatefulSet, or Absent
  services,     \* cluster: ordinals of the ceramic Services
  pc,           \* where the running pass is; "idle" between passes
  snap,         \* the spec the pass reconciles
  i,            \* loop index of the pass
  weightSum,    \* trace of the fold that computes total_weight
  share,        \* replicas of each bundle after the division
  shareSum,     \* trace of the fold that computes computed_replicas
  bumped,       \* ordinals whose replicas were incremented by one
  placed,       \* replicas in the StatefulSets this pass has applied so far
  edits, aborts

cluster == <<statefulSets, services>>
locals == <<snap, i, weightSum, share, shareSum, bumped, placed>>
vars == <<spec, cluster, pc, locals, edits, aborts>>

Absent == -1
Zero == [k \in 0 .. MaxCeramics |-> 0]

-----------------------------------------------------------------------------
(* The arithmetic of a pass. *)

N == Len(snap.weights)
Configured == 1 .. N
TotalWeight == weightSum[N]
ComputedReplicas == shareSum[N]

\* Mutants of Share: a rounding error also below one, and rounding up.
ShareAlwaysShort(w, t, r) == IF t = 0 THEN 0 ELSE (w * r) \div t - 1
ShareRoundedUp(w, t, r) == IF t = 0 THEN 0 ELSE (w * r + t - 1) \div t

\* ((weight as f64 / total_weight) * replicas as f64) as i32.  0/0 is NaN,
\* and NaN as i32 is 0.
Share(w, t, r) ==
  IF t = 0 THEN 0
  ELSE (w * r) \div t - (IF <<w, t, r>> \in LossyQuotients THEN 1 ELSE 0)

\* Mutant of Diff: one replica at most is left to hand out.
DiffAtMostOne == IF ComputedReplicas < snap.replicas THEN 1 ELSE 0

\* (spec.replicas - computed_replicas) as usize: a negative difference casts
\* to a huge usize, and take() then returns every bundle.
Diff ==
  IF ComputedReplicas > snap.replicas THEN MaxCeramics
  ELSE snap.replicas - ComputedReplicas

\* A bundle's info.replicas.
Replicas(k) == share[k] + (IF k \in bumped THEN 1 ELSE 0)

\* Mutant of NextMax: the sort lost its `reverse`.
NextMaxAscending(k) ==
  /\ k \in Configured \ bumped
  /\ \A j \in Configured \ bumped :
       \/ snap.weights[j] > snap.weights[k]
       \/ snap.weights[j] = snap.weights[k] /\ k <= j

\* k is the next element of maxes, the stable sort by descending weight.
NextMax(k) ==
  /\ k \in Configured \ bumped
  /\ \A j \in Configured \ bumped :
       \/ snap.weights[j] < snap.weights[k]
       \/ snap.weights[j] = snap.weights[k] /\ k <= j

-----------------------------------------------------------------------------
ForgetLocals ==
  /\ i' = 0
  /\ weightSum' = Zero
  /\ share' = Zero
  /\ shareSum' = Zero
  /\ bumped' = {}
  /\ placed' = 0

Init ==
  /\ spec \in Specs
  /\ statefulSets = [k \in Ordinals |-> Absent]
  /\ services = {}
  /\ pc = "idle"
  /\ snap = spec
  /\ i = 0
  /\ weightSum = Zero
  /\ share = Zero
  /\ shareSum = Zero
  /\ bumped = {}
  /\ placed = 0
  /\ edits = 0
  /\ aborts = 0

\* The pass starts on the current spec; more than MAX_CERAMICS specs is an
\* error before anything is touched.
StartPass ==
  /\ pc = "idle"
  /\ Len(spec.weights) <= MaxCeramics
  /\ pc' = "weigh"
  /\ snap' = spec
  /\ UNCHANGED <<spec, cluster, i, weightSum, share, shareSum, bumped, placed,
                 edits, aborts>>

RejectSpec ==
  /\ pc = "idle"
  /\ Len(spec.weights) > MaxCeramics
  /\ UNCHANGED vars

\* total_weight: fold over the configured ceramics.
Weigh ==
  /\ pc = "weigh"
  /\ IF i < N
     THEN /\ weightSum' = [weightSum EXCEPT ![i + 1] = weightSum[i] + snap.weights[i + 1]]
          /\ i' = i + 1
          /\ UNCHANGED pc
     ELSE /\ i' = 0
          /\ pc' = "share"
          /\ UNCHANGED weightSum
  /\ UNCHANGED <<spec, cluster, snap, share, shareSum, bumped, placed, edits, aborts>>

\* One turn of the division loop, with that bundle's part of the fold that
\* computes computed_replicas.
Divide ==
  /\ pc = "share"
  /\ IF i < N
     THEN LET q == Share(snap.weights[i + 1], TotalWeight, snap.replicas)
          IN /\ share' = [share EXCEPT ![i + 1] = q]
             /\ shareSum' = [shareSum EXCEPT ![i + 1] = shareSum[i] + q]
             /\ i' = i + 1
             /\ UNCHANGED pc
     ELSE /\ pc' = "delete"
          /\ i' = 0
          /\ UNCHANGED <<share, shareSum>>
  /\ UNCHANGED <<spec, cluster, snap, weightSum, bumped, placed, edits, aborts>>

\* Mutants: one suffix too many is taken out of the lists.
ExtraSetsFromNext == {k \in Ordinals : statefulSets[k] # Absent /\ k > N + 1}
ExtraServicesFromNext == {k \in services : k > N + 1}

\* What is left of the labelled lists when the configured ones are taken out.
ExtraSets == {k \in Ordinals : statefulSets[k] # Absent} \ Configured
ExtraServices == services \ Configured

\* Delete the StatefulSets left over from an earlier spec, then the Services.
DeleteExtra ==
  /\ pc = "delete"
  /\ \/ \E k \in ExtraSets :
          /\ statefulSets' = [statefulSets EXCEPT ![k] = Absent]
          /\ UNCHANGED <<services, pc>>
     \/ /\ ExtraSets = {}
        /\ \E k \in ExtraServices : services' = services \ {k}
        /\ UNCHANGED <<statefulSets, pc>>
     \/ /\ ExtraSets \cup ExtraServices = {}
        /\ pc' = "adjust"
        /\ UNCHANGED cluster
  /\ UNCHANGED <<spec, locals, edits, aborts>>

\* The heaviest `diff` bundles get one replica more.
Adjust ==
  /\ pc = "adjust"
  /\ IF Cardinality(bumped) < Diff /\ bumped # Configured
     THEN /\ \E k \in Configured : NextMax(k) /\ bumped' = bumped \cup {k}
          /\ UNCHANGED pc
     ELSE /\ pc' = "service"
          /\ UNCHANGED bumped
  /\ UNCHANGED <<spec, cluster, snap, i, weightSum, share, shareSum, placed,
                 edits, aborts>>

\* apply_ceramic, first half: the config maps and the Service of bundle i+1.
\* After the last bundle the pass has nothing left to apply.
ApplyService ==
  /\ pc = "service"
  /\ IF i < N
     THEN /\ services' = services \cup {i + 1}
          /\ pc' = "set"
     ELSE /\ pc' = "done"
          /\ UNCHANGED services
  /\ UNCHANGED <<spec, statefulSets, locals, edits, aborts>>

\* apply_ceramic, second half: the StatefulSet of bundle i+1.
ApplyStatefulSet ==
  /\ pc = "set"
  /\ statefulSets' = [statefulSets EXCEPT ![i + 1] = Replicas(i + 1)]
  /\ placed' = placed + Replicas(i + 1)
  /\ i' = i + 1
  /\ pc' = "service"
  /\ UNCHANGED <<spec, services, snap, weightSum, share, shareSum, bumped, edits, aborts>>

\* The rest of the pass does not touch the Ceramic sets.
FinishPass ==
  /\ pc = "done"
  /\ pc' = "idle"
  /\ ForgetLocals
  /\ UNCHANGED <<spec, cluster, snap, edits, aborts>>

-----------------------------------------------------------------------------
\* An API call fails and `?` leaves the pass, or the operator restarts.
Abort ==
  /\ pc # "idle"
  /\ aborts < MaxAborts
  /\ aborts' = aborts + 1
  /\ pc' = "idle"
  /\ ForgetLocals
  /\ UNCHANGED <<spec, cluster, snap, edits>>

EditSpec ==
  /\ edits < MaxEdits
  /\ edits' = edits + 1
  /\ spec \in Edited
  /\ \E s \in Edited \ {spec} : spec' = s
  /\ UNCHANGED <<cluster, pc, locals, aborts>>

PassStep ==
  \/ StartPass \/ RejectSpec \/ Weigh \/ Divide \/ DeleteExtra \/ Adjust
  \/ ApplyService \/ ApplyStatefulSet \/ FinishPass

Next == PassStep \/ Abort \/ EditSpec

Spec == Init /\ [][Next]_vars

\* The controller requeues every object after 10s, and after 5s on an error:
\* passes keep starting and running.
FairSpec == Spec /\ WF_vars(PassStep)

-----------------------------------------------------------------------------
(* Properties *)

PassStates ==
  {"idle", "weigh", "share", "delete", "adjust", "service", "set", "done"}

\* Types of the variables; a negative replica count would be refused by the
\* API server, so shares and StatefulSets must stay natural numbers.
TypeOK ==
  /\ spec \in Specs
  /\ snap \in Specs
  /\ N <= MaxCeramics \/ pc = "idle"
  /\ statefulSets \in [Ordinals -> Nat \cup {Absent}]
  /\ services \subseteq Ordinals
  /\ pc \in PassStates
  /\ i \in 0 .. MaxCeramics
  /\ weightSum \in [0 .. MaxCeramics -> Nat]
  /\ share \in [0 .. MaxCeramics -> Nat]
  /\ shareSum \in [0 .. MaxCeramics -> Nat]
  /\ bumped \subseteq Ordinals
  /\ placed \in Nat
  /\ edits \in Nat
  /\ aborts \in Nat

\* A pass that reaches its end has asked the cluster for exactly
\* spec.replicas Ceramic nodes, whatever the truncation of the division and
\* the f64 rounding lost (the `take(diff)` step makes up for all of it).
\* keramik/src/mixed_networks.md:56 promises it; with no weight at all there
\* is nothing to divide by, and fewer may be placed.
TotalPlaced == pc = "done" /\ TotalWeight > 0 => placed = snap.replicas

\* Every bundle ends less than one replica below, and at most one above, its
\* exact proportional share weight/total*replicas, up to the one replica the
\* f64 product may lose.
ProportionalShares ==
  pc = "done" /\ TotalWeight > 0 =>
    \A k \in Configured :
      LET exact == snap.weights[k] * snap.replicas
          got == TotalWeight * Replicas(k)
      IN exact - TotalWeight <= got /\ got <= exact + TotalWeight

\* The rounding never turns the order of the weights around: a heavier spec
\* has at least as many replicas, equal weights differ by at most one, and
\* among equals the earlier spec is served first.
HeavierNeverFewer ==
  pc = "done" =>
    \A j, k \in Configured :
      /\ snap.weights[j] > snap.weights[k] => Replicas(j) >= Replicas(k)
      /\ snap.weights[j] = snap.weights[k] /\ j < k =>
           Replicas(j) - Replicas(k) \in {0, 1}

\* Cluster state agrees with spec s: one Service and one StatefulSet per
\* configured Ceramic, nothing left over, and s.replicas nodes in total.
Deployed(s) ==
  LET wanted == 1 .. Len(s.weights)
  IN /\ services = wanted
     /\ \A k \in Ordinals : statefulSets[k] # Absent <=> k \in wanted
     /\ MapThenSumSet(LAMBDA k : statefulSets[k], wanted) = s.replicas

\* A completed pass leaves the cluster as the spec it ran on demands, even
\* when earlier passes for other specs were cut off half way.
CompletedPassDeploys == pc = "done" /\ TotalWeight > 0 => Deployed(snap)

\* Once the user stops editing and the API server stops failing, the cluster
\* settles on the last accepted spec.
Converges == <>[](Len(spec.weights) <= MaxCeramics => Deployed(spec))
=============================================================================
