---------------------- MODULE ReplicaAllocationProofs ----------------------
(***************************************************************************)
(* Proofs about ReplicaAllocation for every MaxCeramics, every set of      *)
(* specs and every set of lossy f64 quotients.                             *)
(*                                                                         *)
(* The argument follows the two folds of the pass.  After k bundles, the   *)
(* sum of the shares is at most weightSum[k]*replicas/total and at most k  *)
(* below it (FoldBounds), because each division loses at most one replica. *)
(* After the last bundle the deficit is therefore between 0 and the number *)
(* of bundles, so the `take(diff)` step can always make up for it.         *)
(***************************************************************************)
EXTENDS ReplicaAllocation, FiniteSetTheorems, WellFoundedInduction, TLAPS

-----------------------------------------------------------------------------
(* Arithmetic *)

\* Truncating division by a positive number.
LEMMA DivFacts ==
  ASSUME NEW x \in Nat, NEW t \in Nat, t > 0
  PROVE  /\ x \div t \in Nat
         /\ t * (x \div t) <= x
         /\ x < t * (x \div t) + t
         /\ x % t = 0 => t * (x \div t) = x
  BY SMT

\* One share is natural, and loses at most one replica of the exact quotient.
LEMMA ShareBounds ==
  ASSUME NEW w \in Nat, NEW t \in Nat, NEW r \in Nat
  PROVE  /\ Share(w, t, r) \in Nat
         /\ t * Share(w, t, r) <= w * r
         /\ t > 0 => w * r - t <= t * Share(w, t, r)
  <1> DEFINE q == (w * r) \div t
  <1>1. w * r \in Nat
    OBVIOUS
  <1>2. CASE t = 0
    BY <1>1, <1>2 DEF Share
  <1>3. CASE t > 0 /\ <<w, t, r>> \notin LossyQuotients
    <2>1. Share(w, t, r) = q
      BY <1>1, <1>3, DivFacts DEF Share
    <2>2. QED
      BY <1>1, <1>3, <2>1, DivFacts
  <1>4. CASE t > 0 /\ <<w, t, r>> \in LossyQuotients
    <2>1. w * r > 0 /\ (w * r) % t = 0
      BY <1>4, AllocationAssumption
    <2>2. q \in Nat /\ t * q = w * r
      BY <1>1, <1>4, <2>1, DivFacts
    <2>3. q > 0
      BY <2>1, <2>2
    <2>4. Share(w, t, r) = q - 1
      BY <1>4, <2>2 DEF Share
    <2>5. t * (q - 1) = t * q - t
      BY <1>4, <2>2
    <2>6. QED
      BY <2>2, <2>3, <2>4, <2>5
  <1>5. QED
    BY <1>2, <1>3, <1>4

\* The sum over one more bundle stays within the bounds of the fold.
LEMMA FoldStep ==
  ASSUME NEW t \in Nat, NEW r \in Nat, NEW w \in Nat, NEW wsum \in Nat,
         NEW q \in Nat, NEW qsum \in Nat, NEW k \in Nat,
         t * qsum <= wsum * r, wsum * r - k * t <= t * qsum,
         t * q <= w * r, w * r - t <= t * q
  PROVE  /\ t * (qsum + q) <= (wsum + w) * r
         /\ (wsum + w) * r - (k + 1) * t <= t * (qsum + q)
  <1>1. /\ t * (qsum + q) = t * qsum + t * q
        /\ (wsum + w) * r = wsum * r + w * r
        /\ (k + 1) * t = k * t + t
    OBVIOUS
  <1>2. /\ t * qsum \in Nat /\ t * q \in Nat
        /\ wsum * r \in Nat /\ w * r \in Nat /\ k * t \in Nat
    OBVIOUS
  <1>3. QED
    BY <1>1, <1>2

\* Multiplication by a positive total can be cancelled.
LEMMA Cancel ==
  ASSUME NEW t \in Nat, t > 0, NEW a \in Int, NEW b \in Int, t * a <= t * b
  PROVE  a <= b
  <1>1. SUFFICES ASSUME a >= b + 1 PROVE FALSE
    OBVIOUS
  <1>2. t * a >= t * (b + 1)
    BY <1>1
  <1>3. t * (b + 1) = t * b + t
    OBVIOUS
  <1>4. QED
    BY <1>2, <1>3

-----------------------------------------------------------------------------
(* The inductive invariant: what each part of the pass has established. *)

Max0 == 0 .. MaxCeramics

\* The trace of the total_weight fold is right for the first n ceramics.
WeighedTo(n) ==
  /\ weightSum[0] = 0
  /\ \A k \in Ordinals : k <= n => weightSum[k] = weightSum[k - 1] + snap.weights[k]

\* So are the shares and the trace of the computed_replicas fold.
DividedTo(n) ==
  /\ shareSum[0] = 0
  /\ \A k \in Ordinals : k <= n =>
       /\ share[k] = Share(snap.weights[k], TotalWeight, snap.replicas)
       /\ shareSum[k] = shareSum[k - 1] + share[k]

\* The bounds of the running sum; at n = N they bound the deficit.
FoldBounds(n) ==
  TotalWeight > 0 => \A k \in Max0 : k <= n =>
    /\ TotalWeight * shareSum[k] <= weightSum[k] * snap.replicas
    /\ weightSum[k] * snap.replicas - k * TotalWeight <= TotalWeight * shareSum[k]

\* The take(diff) step is complete.
AllBumped == Cardinality(bumped) = Diff \/ bumped = Configured

\* The bundles of the first n ceramics that were incremented.
BumpedTo(n) == bumped \cap (1 .. n)

WeighInv ==
  pc = "weigh" => i <= N /\ WeighedTo(i) /\ shareSum[0] = 0 /\ bumped = {} /\ placed = 0

ShareInv ==
  pc = "share" =>
    /\ i <= N /\ WeighedTo(N) /\ DividedTo(i) /\ FoldBounds(i)
    /\ bumped = {} /\ placed = 0

Divided == WeighedTo(N) /\ DividedTo(N) /\ FoldBounds(N)

DeleteInv == pc = "delete" => i = 0 /\ Divided /\ bumped = {} /\ placed = 0

AdjustInv ==
  pc = "adjust" =>
    /\ i = 0 /\ Divided /\ placed = 0
    /\ bumped \subseteq Configured /\ Cardinality(bumped) <= Diff

ApplyInv ==
  pc \in {"service", "set", "done"} =>
    /\ i <= N /\ Divided
    /\ bumped \subseteq Configured /\ Cardinality(bumped) <= Diff /\ AllBumped
    /\ placed = shareSum[i] + Cardinality(BumpedTo(i))
    /\ pc = "set" => i < N
    /\ pc = "done" => i = N

IdleInv ==
  pc = "idle" =>
    i = 0 /\ weightSum = Zero /\ share = Zero /\ shareSum = Zero /\ bumped = {} /\ placed = 0

IInv ==
  /\ TypeOK
  /\ IdleInv /\ WeighInv /\ ShareInv /\ DeleteInv /\ AdjustInv /\ ApplyInv

-----------------------------------------------------------------------------
(* Facts that every step uses. *)

\* The components of the spec a running pass works on.
LEMMA SnapFacts ==
  ASSUME TypeOK
  PROVE  /\ MaxCeramics \in Nat /\ N \in Nat /\ snap.replicas \in Nat
         /\ \A k \in Configured : snap.weights[k] \in Nat
         /\ TotalWeight \in Nat \/ N > MaxCeramics
         /\ ComputedReplicas \in Nat \/ N > MaxCeramics
  <1>1. snap.weights \in Seq(Nat) /\ snap.replicas \in Nat /\ MaxCeramics \in Nat
    BY AllocationAssumption DEF TypeOK
  <1>2. N \in Nat /\ \A k \in Configured : snap.weights[k] \in Nat
    BY <1>1 DEF N, Configured
  <1>3. N <= MaxCeramics => N \in 0 .. MaxCeramics
    BY <1>1, <1>2
  <1>4. QED
    BY <1>1, <1>2, <1>3 DEF TypeOK, TotalWeight, ComputedReplicas

\* Any set of ordinals is finite and no larger than the interval it lies in.
LEMMA BumpedFinite ==
  ASSUME NEW S, NEW n \in Nat, S \subseteq 1 .. n
  PROVE  IsFiniteSet(S) /\ Cardinality(S) \in Nat /\ Cardinality(S) <= n
         /\ Cardinality(1 .. n) = n
  <1>1. IsFiniteSet(1 .. n) /\ Cardinality(1 .. n) = n
    BY FS_Interval
  <1>2. QED
    BY <1>1, FS_Subset, FS_CardinalityType

-----------------------------------------------------------------------------
(* One lemma per action: it preserves the inductive invariant. *)

\* The invariant holds before the first pass.
LEMMA InitIInv == Init => IInv
  <1> SUFFICES ASSUME Init PROVE IInv
    OBVIOUS
  <1>1. MaxCeramics \in Nat /\ 0 \in Max0
    BY AllocationAssumption DEF Max0
  <1>2. TypeOK
    BY <1>1 DEF Init, TypeOK, PassStates, Zero, Absent
  <1>3. QED
    BY <1>2 DEF Init, IInv, IdleInv, WeighInv, ShareInv, DeleteInv, AdjustInv, ApplyInv

\* A pass starts with clean locals on the current spec.
LEMMA StartPassIInv == IInv /\ StartPass => IInv'
  <1> SUFFICES ASSUME IInv, StartPass PROVE IInv'
    OBVIOUS
  <1>1. TypeOK /\ MaxCeramics \in Nat /\ spec.weights \in Seq(Nat)
    BY AllocationAssumption DEF IInv, TypeOK
  <1>2. TypeOK'
    BY <1>1 DEF StartPass, TypeOK, PassStates, cluster, N
  <1>3. WeighInv'
    <2>1. i = 0 /\ weightSum = Zero /\ shareSum = Zero /\ bumped = {} /\ placed = 0
      BY DEF IInv, IdleInv, StartPass
    <2>2. Zero[0] = 0
      BY <1>1 DEF Zero
    <2>3. N' \in Nat
      BY <1>1 DEF N, StartPass
    <2>4. WeighedTo(i)'
      BY <1>1, <2>1, <2>2 DEF StartPass, WeighedTo, Ordinals
    <2>5. QED
      BY <2>1, <2>2, <2>3, <2>4 DEF StartPass, WeighInv
  <1>4. QED
    BY <1>2, <1>3 DEF StartPass, IInv, IdleInv, WeighInv, ShareInv, DeleteInv, AdjustInv, ApplyInv

\* The fold of total_weight only appends to weightSum.
LEMMA WeighIInv == IInv /\ Weigh => IInv'
  <1> SUFFICES ASSUME IInv, Weigh PROVE IInv'
    OBVIOUS
  <1>1. /\ TypeOK /\ pc = "weigh" /\ i <= N /\ WeighedTo(i)
        /\ shareSum[0] = 0 /\ bumped = {} /\ placed = 0 /\ N <= MaxCeramics
    BY DEF IInv, Weigh, WeighInv, TypeOK
  <1>2. /\ MaxCeramics \in Nat /\ N \in Nat /\ N' = N
        /\ \A k \in Configured : snap.weights[k] \in Nat
    BY <1>1, SnapFacts DEF Weigh, N
  <1>3. CASE i < N
    <2>1. /\ i + 1 \in Configured /\ i + 1 \in 0 .. MaxCeramics /\ i \in 0 .. MaxCeramics
          /\ i' = i + 1 /\ pc' = "weigh"
          /\ weightSum' = [weightSum EXCEPT ![i + 1] = weightSum[i] + snap.weights[i + 1]]
      BY <1>1, <1>2, <1>3 DEF Weigh, TypeOK, Configured
    <2>2. weightSum[i] + snap.weights[i + 1] \in Nat
      <3>1. weightSum[i] \in Nat
        BY <1>1, <2>1 DEF TypeOK
      <3>2. snap.weights[i + 1] \in Nat
        BY <1>2, <2>1
      <3>3. QED
        BY <3>1, <3>2
    <2>3. TypeOK'
      BY <1>1, <1>2, <1>3, <2>1, <2>2 DEF Weigh, TypeOK, cluster, PassStates
    <2>4. WeighedTo(i)'
      <3>1. weightSum \in [0 .. MaxCeramics -> Nat] /\ 0 \in 0 .. MaxCeramics
        BY <1>1, <1>2 DEF TypeOK
      <3>2. weightSum'[0] = 0
        BY <1>1, <2>1, <3>1 DEF WeighedTo
      <3>3. snap' = snap
        BY DEF Weigh
      <3>4. ASSUME NEW k \in Ordinals, k <= i + 1
            PROVE  weightSum'[k] = weightSum'[k - 1] + snap.weights[k]
        <4>1. k \in 0 .. MaxCeramics /\ k - 1 \in 0 .. MaxCeramics /\ k - 1 # i + 1
          BY <1>2, <2>1, <3>4 DEF Ordinals
        <4>2. CASE k = i + 1
          BY <2>1, <3>1, <4>1, <4>2
        <4>3. CASE k # i + 1
          BY <1>1, <2>1, <3>1, <3>4, <4>1, <4>3 DEF WeighedTo, Ordinals
        <4>4. QED
          BY <4>2, <4>3
      <3>5. QED
        BY <2>1, <3>2, <3>3, <3>4 DEF WeighedTo, Ordinals
    <2>5. WeighInv'
      BY <1>1, <1>2, <1>3, <2>1, <2>4 DEF WeighInv, Weigh, TypeOK
    <2>6. QED
      BY <2>1, <2>3, <2>5 DEF IInv, IdleInv, ShareInv, DeleteInv, AdjustInv, ApplyInv
  <1>4. CASE ~(i < N)
    <2>1. i = N /\ i' = 0 /\ pc' = "share" /\ UNCHANGED weightSum
      BY <1>1, <1>2, <1>4 DEF Weigh, TypeOK
    <2>2. TypeOK'
      BY <1>1, <1>2, <2>1 DEF Weigh, TypeOK, cluster, PassStates
    <2>3. WeighedTo(N)' /\ DividedTo(0)'
      BY <1>1, <1>2, <2>1 DEF WeighedTo, DividedTo, Ordinals, Weigh
    <2>4. weightSum[0] = 0
      BY <1>1 DEF WeighedTo
    <2>5. FoldBounds(0)'
      BY <1>1, <1>2, <2>1, <2>4, SnapFacts DEF FoldBounds, Max0, TotalWeight, Weigh
    <2>6. QED
      BY <1>1, <1>2, <2>1, <2>2, <2>3, <2>5
      DEF Weigh, IInv, IdleInv, WeighInv, ShareInv, DeleteInv, AdjustInv, ApplyInv
  <1>5. QED
    BY <1>3, <1>4

\* One division extends the bounds of the fold by one bundle (FoldStep).
LEMMA DivideIInv == IInv /\ Divide => IInv'
  <1> SUFFICES ASSUME IInv, Divide PROVE IInv'
    OBVIOUS
  <1>1. /\ TypeOK /\ pc = "share" /\ i <= N /\ WeighedTo(N) /\ DividedTo(i) /\ FoldBounds(i)
        /\ bumped = {} /\ placed = 0 /\ N <= MaxCeramics
    BY DEF IInv, Divide, ShareInv, TypeOK
  <1>2. /\ MaxCeramics \in Nat /\ N \in Nat /\ N' = N /\ snap.replicas \in Nat
        /\ TotalWeight \in Nat /\ TotalWeight' = TotalWeight
        /\ \A k \in Configured : snap.weights[k] \in Nat
    BY <1>1, SnapFacts DEF Divide, N, TotalWeight
  <1>3. WeighedTo(N)'
    BY <1>1, <1>2 DEF WeighedTo, Ordinals, Divide
  <1>4. CASE i < N
    <2> DEFINE q == Share(snap.weights[i + 1], TotalWeight, snap.replicas)
    <2>1. /\ i + 1 \in Configured /\ i + 1 \in 0 .. MaxCeramics /\ i \in 0 .. MaxCeramics
          /\ i' = i + 1 /\ pc' = "share" /\ UNCHANGED <<snap, weightSum, bumped, placed>>
          /\ share' = [share EXCEPT ![i + 1] = q]
          /\ shareSum' = [shareSum EXCEPT ![i + 1] = shareSum[i] + q]
      <3>1. i + 1 \in Configured /\ i + 1 \in 0 .. MaxCeramics /\ i \in 0 .. MaxCeramics
        BY <1>1, <1>2, <1>4 DEF TypeOK, Configured
      <3>2. QED
        BY <1>1, <1>4, <3>1 DEF Divide
    <2>2. /\ shareSum \in [0 .. MaxCeramics -> Nat] /\ share \in [0 .. MaxCeramics -> Nat]
          /\ weightSum \in [0 .. MaxCeramics -> Nat] /\ 0 \in 0 .. MaxCeramics
      BY <1>1, <1>2, SMTT(30) DEF TypeOK
    <2>3. /\ q \in Nat
          /\ TotalWeight * q <= snap.weights[i + 1] * snap.replicas
          /\ TotalWeight > 0 =>
               snap.weights[i + 1] * snap.replicas - TotalWeight <= TotalWeight * q
      <3>1. snap.weights[i + 1] \in Nat
        BY <1>2, <2>1
      <3>2. QED
        BY <1>2, <3>1, ShareBounds
    <2>4. TypeOK'
      <3>1. share' \in [0 .. MaxCeramics -> Nat] /\ shareSum' \in [0 .. MaxCeramics -> Nat]
        BY <2>1, <2>2, <2>3
      <3>2. QED
        BY <1>1, <1>2, <2>1, <3>1 DEF Divide, TypeOK, cluster, PassStates
    <2>5. DividedTo(i)'
      <3>1. shareSum'[0] = 0
        BY <1>1, <2>1, <2>2 DEF DividedTo
      <3>2. ASSUME NEW k \in Ordinals, k <= i + 1
            PROVE  /\ share'[k] = Share(snap.weights[k], TotalWeight, snap.replicas)
                   /\ shareSum'[k] = shareSum'[k - 1] + share'[k]
        <4>1. k \in 0 .. MaxCeramics /\ k - 1 \in 0 .. MaxCeramics /\ k - 1 # i + 1
          BY <1>2, <2>1, <3>2 DEF Ordinals
        <4>2. CASE k = i + 1
          <5>1. k - 1 = i
            BY <2>1, <4>2
          <5>2. QED
            BY <2>1, <2>2, <4>1, <4>2, <5>1
        <4>3. CASE k # i + 1
          <5>1. k <= i
            BY <2>1, <3>2, <4>1, <4>3
          <5>2. /\ share[k] = Share(snap.weights[k], TotalWeight, snap.replicas)
                /\ shareSum[k] = shareSum[k - 1] + share[k]
            BY <1>1, <3>2, <5>1 DEF DividedTo
          <5>3. QED
            BY <2>1, <2>2, <4>1, <4>3, <5>2
        <4>4. QED
          BY <4>2, <4>3
      <3>3. QED
        BY <1>2, <2>1, <3>1, <3>2 DEF DividedTo
    <2>6. FoldBounds(i)'
      <3>1. SUFFICES ASSUME TotalWeight > 0, NEW k \in Max0, k <= i + 1
                     PROVE  /\ TotalWeight * shareSum'[k] <= weightSum[k] * snap.replicas
                            /\ weightSum[k] * snap.replicas - k * TotalWeight
                                 <= TotalWeight * shareSum'[k]
        BY <1>2, <2>1 DEF FoldBounds
      <3>2. CASE k <= i
        <4>1. shareSum'[k] = shareSum[k]
          BY <2>1, <2>2, <3>1, <3>2 DEF Max0
        <4>2. QED
          BY <1>1, <3>1, <3>2, <4>1 DEF FoldBounds
      <3>3. CASE k = i + 1
        <4>1. /\ shareSum'[k] = shareSum[i] + q /\ shareSum[i] \in Nat
              /\ weightSum[i] \in Nat /\ i \in Nat /\ snap.weights[i + 1] \in Nat
          BY <1>2, <2>1, <2>2, <3>3
        <4>2. weightSum[k] = weightSum[i] + snap.weights[i + 1]
          <5>1. i + 1 \in Ordinals /\ i + 1 <= N /\ (i + 1) - 1 = i
            BY <1>2, <1>4, <2>1 DEF Ordinals
          <5>2. QED
            BY <1>1, <3>3, <5>1 DEF WeighedTo
        <4>3. /\ TotalWeight * shareSum[i] <= weightSum[i] * snap.replicas
              /\ weightSum[i] * snap.replicas - i * TotalWeight <= TotalWeight * shareSum[i]
          BY <1>1, <2>1, <3>1, <4>1 DEF FoldBounds, Max0
        <4>4. QED
          BY <1>2, <2>3, <3>1, <3>3, <4>1, <4>2, <4>3, FoldStep
      <3>4. QED
        BY <1>2, <2>1, <3>1, <3>2, <3>3 DEF Max0
    <2>7. ShareInv'
      BY <1>1, <1>2, <1>3, <1>4, <2>1, <2>5, <2>6 DEF ShareInv
    <2>8. QED
      BY <2>1, <2>4, <2>7 DEF IInv, IdleInv, WeighInv, DeleteInv, AdjustInv, ApplyInv
  <1>5. CASE ~(i < N)
    <2>1. /\ i = N /\ pc' = "delete" /\ i' = 0 /\ UNCHANGED <<share, shareSum>>
          /\ UNCHANGED <<spec, statefulSets, services, snap, weightSum, bumped, placed,
                         edits, aborts>>
      <3>1. i = N
        BY <1>1, <1>2, <1>5 DEF TypeOK
      <3>2. QED
        BY <1>1, <1>5, <3>1 DEF Divide, cluster
    <2>2. TypeOK'
      <3>1. N' = N /\ snap' = snap /\ 0 \in 0 .. MaxCeramics /\ "delete" \in PassStates
        BY <1>2, <2>1 DEF PassStates, Divide
      <3>2. QED
        BY <1>1, <2>1, <3>1, SMTT(30) DEF TypeOK
    <2>3. DividedTo(N)'
      BY <1>1, <1>2, <2>1 DEF DividedTo, Divide
    <2>4. FoldBounds(N)'
      BY <1>1, <1>2, <2>1 DEF FoldBounds, Divide
    <2>5. DeleteInv'
      BY <1>1, <1>3, <2>1, <2>3, <2>4 DEF DeleteInv, Divided, Divide
    <2>6. QED
      BY <2>1, <2>2, <2>5 DEF IInv, IdleInv, WeighInv, ShareInv, AdjustInv, ApplyInv
  <1>6. QED
    BY <1>4, <1>5

\* Deletion touches the cluster only.
LEMMA DeleteExtraIInv == IInv /\ DeleteExtra => IInv'
  <1> SUFFICES ASSUME IInv, DeleteExtra PROVE IInv'
    OBVIOUS
  <1>1. /\ TypeOK /\ pc = "delete" /\ i = 0 /\ Divided /\ bumped = {} /\ placed = 0
        /\ MaxCeramics \in Nat
    BY AllocationAssumption DEF IInv, DeleteExtra, DeleteInv
  <1>2. /\ UNCHANGED <<spec, snap, i, weightSum, share, shareSum, bumped, placed, edits, aborts>>
        /\ pc' \in {"delete", "adjust"}
    BY <1>1 DEF DeleteExtra, locals
  <1>3. statefulSets' \in [Ordinals -> Nat \cup {Absent}] /\ services' \subseteq Ordinals
    BY <1>1 DEF DeleteExtra, cluster, TypeOK
  <1>4. TypeOK'
    BY <1>1, <1>2, <1>3 DEF TypeOK, PassStates, N
  <1>5. Divided'
    BY <1>1, <1>2 DEF Divided, WeighedTo, DividedTo, FoldBounds, TotalWeight, N
  <1>6. Diff' = Diff /\ Diff \in Nat /\ Cardinality({}) = 0
    BY <1>1, <1>2, SnapFacts, FS_EmptySet, SMTT(30) DEF Diff, ComputedReplicas, N, TypeOK
  <1>7. QED
    BY <1>1, <1>2, <1>4, <1>5, <1>6
    DEF IInv, IdleInv, WeighInv, ShareInv, DeleteInv, AdjustInv, ApplyInv

\* The adjustment bumps configured bundles only, at most Diff of them.
LEMMA AdjustIInv == IInv /\ Adjust => IInv'
  <1> SUFFICES ASSUME IInv, Adjust PROVE IInv'
    OBVIOUS
  <1>1. /\ TypeOK /\ pc = "adjust" /\ i = 0 /\ Divided /\ placed = 0 /\ N <= MaxCeramics
        /\ bumped \subseteq Configured /\ Cardinality(bumped) <= Diff
    BY DEF IInv, Adjust, AdjustInv, TypeOK
  <1>2. /\ MaxCeramics \in Nat /\ N \in Nat /\ Diff \in Nat
        /\ IsFiniteSet(bumped) /\ Cardinality(bumped) \in Nat
    <2>1. /\ MaxCeramics \in Nat /\ N \in Nat /\ snap.replicas \in Nat
          /\ ComputedReplicas \in Nat
      BY <1>1, SnapFacts
    <2>2. Diff \in Nat
      BY <2>1 DEF Diff
    <2>3. QED
      BY <1>1, <2>1, <2>2, BumpedFinite DEF Configured
  <1>3. UNCHANGED <<spec, statefulSets, services, snap, i, weightSum, share, shareSum, placed,
                    edits, aborts>>
    BY DEF Adjust, cluster
  <1>4. Divided' /\ Diff' = Diff /\ Configured' = Configured /\ N' = N
    BY <1>1, <1>3
    DEF Divided, WeighedTo, DividedTo, FoldBounds, TotalWeight, Diff, ComputedReplicas,
        Configured, N
  <1>5. CASE Cardinality(bumped) < Diff /\ bumped # Configured
    <2>1. PICK k \in Configured : NextMax(k) /\ bumped' = bumped \cup {k}
      BY <1>5 DEF Adjust
    <2>2. pc' = "adjust"
      BY <1>1, <1>5 DEF Adjust
    <2>3. bumped' \subseteq Configured /\ Cardinality(bumped') = Cardinality(bumped) + 1
      BY <1>1, <1>2, <2>1, FS_AddElement DEF NextMax
    <2>4. TypeOK'
      <3>1. bumped' \subseteq Ordinals
        BY <1>1, <1>2, <2>3 DEF Configured, Ordinals
      <3>2. QED
        BY <1>1, <1>3, <1>4, <2>2, <3>1 DEF TypeOK, PassStates
    <2>5. QED
      BY <1>1, <1>2, <1>3, <1>4, <1>5, <2>2, <2>3, <2>4
      DEF IInv, IdleInv, WeighInv, ShareInv, DeleteInv, AdjustInv, ApplyInv
  <1>6. CASE ~(Cardinality(bumped) < Diff /\ bumped # Configured)
    <2>1. pc' = "service" /\ UNCHANGED bumped
      BY <1>6 DEF Adjust
    <2>2. TypeOK'
      BY <1>1, <1>3, <1>4, <2>1 DEF TypeOK, PassStates
    <2>3. AllBumped'
      BY <1>1, <1>2, <1>4, <1>6, <2>1 DEF AllBumped
    <2>4. placed = shareSum[i] + Cardinality(BumpedTo(i)) /\ i <= N
      <3>1. BumpedTo(i) = {} /\ shareSum[i] = 0
        BY <1>1 DEF BumpedTo, Divided, DividedTo
      <3>2. QED
        BY <1>1, <1>2, <3>1, FS_EmptySet
    <2>5. (placed = shareSum[i] + Cardinality(BumpedTo(i)))' /\ (i <= N)'
      BY <1>3, <1>4, <2>1, <2>4 DEF BumpedTo
    <2>6. QED
      BY <1>1, <1>4, <2>1, <2>2, <2>3, <2>5
      DEF IInv, IdleInv, WeighInv, ShareInv, DeleteInv, AdjustInv, ApplyInv
  <1>7. QED
    BY <1>5, <1>6

\* Applying a Service moves on to its StatefulSet.
LEMMA ApplyServiceIInv == IInv /\ ApplyService => IInv'
  <1> SUFFICES ASSUME IInv, ApplyService PROVE IInv'
    OBVIOUS
  <1>1. TypeOK /\ pc = "service" /\ ApplyInv /\ MaxCeramics \in Nat /\ N \in Nat /\ i <= N
    BY SnapFacts DEF IInv, ApplyService, ApplyInv
  <1>2. UNCHANGED <<spec, statefulSets, snap, i, weightSum, share, shareSum, bumped, placed,
                    edits, aborts>>
    BY DEF ApplyService, locals
  <1>3. /\ pc' \in {"set", "done"} /\ services' \subseteq Ordinals
        /\ pc' = "set" => i < N
        /\ pc' = "done" => i = N
    <2>1. CASE i < N
      <3>1. i + 1 \in Ordinals
        BY <1>1, <2>1 DEF TypeOK, Ordinals
      <3>2. services' = services \cup {i + 1} /\ pc' = "set"
        BY <2>1 DEF ApplyService
      <3>3. QED
        BY <1>1, <2>1, <3>1, <3>2 DEF TypeOK
    <2>2. CASE ~(i < N)
      <3>1. i = N
        BY <1>1, <2>2 DEF TypeOK
      <3>2. QED
        BY <1>1, <2>2, <3>1 DEF ApplyService, TypeOK
    <2>3. QED
      BY <2>1, <2>2
  <1>4. TypeOK'
    BY <1>1, <1>2, <1>3 DEF TypeOK, PassStates, N
  <1>5. ApplyInv'
    BY <1>1, <1>2, <1>3
    DEF ApplyInv, Divided, WeighedTo, DividedTo, FoldBounds, TotalWeight, Diff,
        ComputedReplicas, Configured, N, AllBumped, BumpedTo
  <1>6. QED
    BY <1>3, <1>4, <1>5 DEF IInv, IdleInv, WeighInv, ShareInv, DeleteInv, AdjustInv

\* Each applied StatefulSet adds its replicas to the running total.
LEMMA ApplyStatefulSetIInv == IInv /\ ApplyStatefulSet => IInv'
  <1> SUFFICES ASSUME IInv, ApplyStatefulSet PROVE IInv'
    OBVIOUS
  <1>1. /\ TypeOK /\ pc = "set" /\ i < N /\ N <= MaxCeramics /\ Divided
        /\ bumped \subseteq Configured /\ Cardinality(bumped) <= Diff /\ AllBumped
        /\ placed = shareSum[i] + Cardinality(BumpedTo(i))
    BY DEF IInv, ApplyStatefulSet, ApplyInv, TypeOK
  <1>2. /\ UNCHANGED <<spec, services, snap, weightSum, share, shareSum, bumped, edits, aborts>>
        /\ i' = i + 1 /\ pc' = "service" /\ placed' = placed + Replicas(i + 1)
        /\ statefulSets' = [statefulSets EXCEPT ![i + 1] = Replicas(i + 1)]
    BY DEF ApplyStatefulSet
  <1>3. /\ MaxCeramics \in Nat /\ N \in Nat /\ i \in Nat /\ i + 1 \in Ordinals
        /\ i \in 0 .. MaxCeramics /\ i + 1 \in 0 .. MaxCeramics
    BY <1>1, SnapFacts DEF TypeOK, Ordinals
  <1>4. Replicas(i + 1) \in Nat
    BY <1>1, <1>3, SMTT(30) DEF Replicas, TypeOK
  <1>5. TypeOK'
    <2>1. statefulSets' \in [Ordinals -> Nat \cup {Absent}]
      BY <1>1, <1>2, <1>4 DEF TypeOK
    <2>2. placed' \in Nat
      BY <1>1, <1>2, <1>4 DEF TypeOK
    <2>3. N' = N /\ i' \in 0 .. MaxCeramics /\ pc' \in PassStates
      BY <1>2, <1>3 DEF N, PassStates
    <2>4. QED
      BY <1>1, <1>2, <2>1, <2>2, <2>3 DEF TypeOK
  <1>6. /\ N' = N /\ Divided' /\ AllBumped' /\ Diff' = Diff /\ Configured' = Configured
    BY <1>1, <1>2
    DEF Divided, WeighedTo, DividedTo, FoldBounds, TotalWeight, Diff, ComputedReplicas,
        Configured, N, AllBumped
  <1>7. placed' = shareSum[i + 1] + Cardinality(BumpedTo(i + 1))
    <2>1. shareSum[i + 1] = shareSum[i] + share[i + 1]
      <3>1. (i + 1) - 1 = i /\ i + 1 <= N
        BY <1>1, <1>3
      <3>2. QED
        BY <1>1, <1>3, <3>1 DEF Divided, DividedTo
    <2>2. shareSum[i] \in Nat /\ share[i + 1] \in Nat
      BY <1>1, <1>3 DEF TypeOK
    <2>3. IsFiniteSet(BumpedTo(i)) /\ Cardinality(BumpedTo(i)) \in Nat
      BY <1>3, BumpedFinite DEF BumpedTo
    <2>4. CASE i + 1 \in bumped
      <3>1. BumpedTo(i + 1) = BumpedTo(i) \cup {i + 1} /\ i + 1 \notin BumpedTo(i)
        BY <1>3, <2>4 DEF BumpedTo
      <3>2. Cardinality(BumpedTo(i + 1)) = Cardinality(BumpedTo(i)) + 1
        BY <2>3, <3>1, FS_AddElement
      <3>3. Replicas(i + 1) = share[i + 1] + 1
        BY <2>4 DEF Replicas
      <3>4. QED
        BY <1>1, <1>2, <2>1, <2>2, <2>3, <3>2, <3>3
    <2>5. CASE i + 1 \notin bumped
      <3>1. BumpedTo(i + 1) = BumpedTo(i)
        BY <1>3, <2>5 DEF BumpedTo
      <3>2. Replicas(i + 1) = share[i + 1]
        BY <2>2, <2>5 DEF Replicas
      <3>3. QED
        BY <1>1, <1>2, <2>1, <2>2, <2>3, <3>1, <3>2
    <2>6. QED
      BY <2>4, <2>5
  <1>8. ApplyInv'
    <2>1. (placed = shareSum[i] + Cardinality(BumpedTo(i)))'
      BY <1>2, <1>7 DEF BumpedTo
    <2>2. (i <= N)'
      BY <1>1, <1>2, <1>3, <1>6
    <2>3. QED
      BY <1>1, <1>2, <1>6, <2>1, <2>2 DEF ApplyInv
  <1>9. QED
    BY <1>2, <1>5, <1>8 DEF IInv, IdleInv, WeighInv, ShareInv, DeleteInv, AdjustInv

\* Leaving the pass, at its end or early, forgets the locals.
LEMMA ToIdleIInv ==
  ASSUME IInv, ForgetLocals, pc' = "idle", UNCHANGED <<spec, cluster, snap, edits>>,
         aborts' \in Nat
  PROVE  IInv'
  <1>1. TypeOK /\ MaxCeramics \in Nat
    BY AllocationAssumption DEF IInv
  <1>2. TypeOK'
    BY <1>1 DEF TypeOK, ForgetLocals, cluster, Zero, PassStates
  <1>3. QED
    BY <1>2
    DEF IInv, ForgetLocals, IdleInv, WeighInv, ShareInv, DeleteInv, AdjustInv, ApplyInv

\* The pass ends.
LEMMA FinishPassIInv == IInv /\ FinishPass => IInv'
  BY ToIdleIInv DEF FinishPass, IInv, TypeOK

\* The pass is cut short.
LEMMA AbortIInv == IInv /\ Abort => IInv'
  BY ToIdleIInv, SMTT(30) DEF Abort, IInv, TypeOK

\* Steps that change nothing the pass computes with.
LEMMA UnchangedIInv ==
  ASSUME IInv, UNCHANGED <<cluster, pc, locals>>, spec' \in Specs, edits' \in Nat, aborts' \in Nat
  PROVE  IInv'
  <1>1. UNCHANGED <<statefulSets, services, pc, snap, i, weightSum, share, shareSum, bumped,
                    placed>>
    BY DEF cluster, locals
  <1>2. TypeOK'
    BY <1>1 DEF IInv, TypeOK, N
  <1>3. /\ IdleInv' /\ WeighInv' /\ ShareInv' /\ DeleteInv'
    BY <1>1
    DEF IInv, IdleInv, WeighInv, ShareInv, DeleteInv, Divided, WeighedTo, DividedTo,
        FoldBounds, TotalWeight, N
  <1>4. AdjustInv' /\ ApplyInv'
    BY <1>1
    DEF IInv, AdjustInv, ApplyInv, Divided, WeighedTo, DividedTo, FoldBounds, TotalWeight,
        Diff, ComputedReplicas, Configured, N, AllBumped, BumpedTo
  <1>5. QED
    BY <1>2, <1>3, <1>4 DEF IInv

\* An edit leaves the running pass on its own spec.
LEMMA EditSpecIInv == IInv /\ EditSpec => IInv'
  <1> SUFFICES ASSUME IInv, EditSpec PROVE IInv'
    OBVIOUS
  <1>1. UNCHANGED <<cluster, pc, locals>> /\ edits' = edits + 1 /\ aborts' = aborts
    BY DEF EditSpec
  <1>2. spec' \in Edited /\ Edited \subseteq Specs
    BY AllocationAssumption, Zenon DEF EditSpec
  <1>3. spec' \in Specs
    BY <1>2
  <1>4. edits' \in Nat /\ aborts' \in Nat
    BY <1>1 DEF IInv, TypeOK
  <1>5. QED
    BY <1>1, <1>3, <1>4, UnchangedIInv

\* Stuttering.
LEMMA StutterIInv == IInv /\ UNCHANGED vars => IInv'
  BY UnchangedIInv DEF vars, cluster, locals, IInv, TypeOK

\* IInv is inductive.
LEMMA NextIInv == IInv /\ [Next]_vars => IInv'
  BY StartPassIInv, WeighIInv, DivideIInv, DeleteExtraIInv, AdjustIInv, ApplyServiceIInv,
     ApplyStatefulSetIInv, FinishPassIInv, AbortIInv, EditSpecIInv, StutterIInv
  DEF Next, PassStep, RejectSpec

-----------------------------------------------------------------------------
(* What the invariant implies. *)

\* After the division no replica too many has been handed out, and at most
\* one per bundle is missing.
LEMMA Deficit ==
  ASSUME TypeOK, N <= MaxCeramics, Divided, TotalWeight > 0
  PROVE  /\ ComputedReplicas <= snap.replicas
         /\ snap.replicas - ComputedReplicas <= N
         /\ Diff = snap.replicas - ComputedReplicas
  <1>1. /\ MaxCeramics \in Nat /\ N \in Nat /\ snap.replicas \in Nat
        /\ TotalWeight \in Nat /\ ComputedReplicas \in Nat /\ N \in Max0
    BY SnapFacts DEF Max0
  <1>2. /\ TotalWeight * ComputedReplicas <= TotalWeight * snap.replicas
        /\ TotalWeight * snap.replicas - N * TotalWeight <= TotalWeight * ComputedReplicas
    BY <1>1 DEF Divided, FoldBounds, TotalWeight, ComputedReplicas
  <1>3. ComputedReplicas <= snap.replicas
    BY <1>1, <1>2, Cancel
  <1>4. snap.replicas - ComputedReplicas <= N
    <2>1. TotalWeight * (snap.replicas - ComputedReplicas)
            = TotalWeight * snap.replicas - TotalWeight * ComputedReplicas
      BY <1>1
    <2>2. TotalWeight * (snap.replicas - ComputedReplicas) <= TotalWeight * N
      BY <1>1, <1>2, <2>1
    <2>3. QED
      BY <1>1, <2>2, Cancel
  <1>5. QED
    BY <1>1, <1>3, <1>4 DEF Diff

\* At the end of a pass the running total is spec.replicas.
LEMMA IInvTotalPlaced == IInv => TotalPlaced
  <1> SUFFICES ASSUME IInv, pc = "done", TotalWeight > 0 PROVE placed = snap.replicas
    BY DEF TotalPlaced
  <1>1. /\ TypeOK /\ N <= MaxCeramics /\ Divided /\ i = N
        /\ bumped \subseteq 1 .. N /\ Cardinality(bumped) <= Diff /\ AllBumped
        /\ placed = ComputedReplicas + Cardinality(BumpedTo(N))
    BY DEF IInv, ApplyInv, TypeOK, ComputedReplicas, Configured
  <1>2. /\ N \in Nat /\ snap.replicas \in Nat /\ ComputedReplicas \in Nat
        /\ Cardinality(bumped) \in Nat /\ Cardinality(bumped) <= N /\ Cardinality(1 .. N) = N
    <2>1. N \in Nat /\ snap.replicas \in Nat /\ ComputedReplicas \in Nat
      BY <1>1, SnapFacts
    <2>2. QED
      BY <1>1, <2>1, BumpedFinite
  <1>3. Diff = snap.replicas - ComputedReplicas /\ Diff <= N
    BY <1>1, Deficit
  <1>4. Cardinality(bumped) = Diff
    BY <1>1, <1>2, <1>3 DEF AllBumped, Configured
  <1>5. BumpedTo(N) = bumped
    BY <1>1 DEF BumpedTo
  <1>6. QED
    BY <1>1, <1>2, <1>3, <1>4, <1>5

\* At the end of a pass every count is within one replica of its exact share.
LEMMA IInvProportionalShares == IInv => ProportionalShares
  <1> SUFFICES ASSUME IInv, pc = "done", TotalWeight > 0, NEW k \in Configured
               PROVE  /\ snap.weights[k] * snap.replicas - TotalWeight
                           <= TotalWeight * Replicas(k)
                      /\ TotalWeight * Replicas(k)
                           <= snap.weights[k] * snap.replicas + TotalWeight
    BY DEF ProportionalShares
  <1>1. TypeOK /\ N <= MaxCeramics /\ DividedTo(N)
    BY DEF IInv, ApplyInv, TypeOK, Divided
  <1>2. /\ N \in Nat /\ MaxCeramics \in Nat /\ snap.replicas \in Nat /\ TotalWeight \in Nat
        /\ snap.weights[k] \in Nat /\ k \in Ordinals /\ k <= N
    BY <1>1, SnapFacts DEF Configured, Ordinals
  <1>3. share[k] = Share(snap.weights[k], TotalWeight, snap.replicas)
    BY <1>1, <1>2 DEF DividedTo
  <1>4. /\ share[k] \in Nat
        /\ TotalWeight * share[k] <= snap.weights[k] * snap.replicas
        /\ snap.weights[k] * snap.replicas - TotalWeight <= TotalWeight * share[k]
    BY <1>2, <1>3, ShareBounds
  <1>5. TotalWeight * (share[k] + 1) = TotalWeight * share[k] + TotalWeight
    BY <1>2, <1>4
  <1>6. /\ Replicas(k) = share[k] \/ Replicas(k) = share[k] + 1
        /\ TotalWeight * share[k] \in Nat /\ snap.weights[k] * snap.replicas \in Nat
    BY <1>2, <1>4 DEF Replicas
  <1>7. QED
    BY <1>2, <1>4, <1>5, <1>6

-----------------------------------------------------------------------------
(* Who is incremented: the bundles that come first in the stable sort. *)

Preferred(j, k) ==
  \/ snap.weights[j] > snap.weights[k]
  \/ snap.weights[j] = snap.weights[k] /\ j < k

HeaviestFirst == \A k \in bumped : \A j \in Configured : Preferred(j, k) => j \in bumped

\* No bundle is incremented before one that precedes it.
LEMMA HeaviestFirstKept == IInv /\ HeaviestFirst /\ [Next]_vars => HeaviestFirst'
  <1> SUFFICES ASSUME IInv, HeaviestFirst, [Next]_vars PROVE HeaviestFirst'
    OBVIOUS
  <1>1. CASE bumped' = {}
    BY <1>1 DEF HeaviestFirst
  <1>2. CASE bumped' = bumped /\ snap' = snap
    BY <1>2 DEF HeaviestFirst, Preferred, Configured, N
  <1>3. CASE StartPass
    <2>1. bumped' = {}
      BY <1>3 DEF StartPass, IInv, IdleInv
    <2>2. QED
      BY <1>1, <2>1
  <1>4. CASE Adjust
    <2>1. snap' = snap /\ Configured' = Configured
      BY <1>4 DEF Adjust, Configured, N
    <2>2. CASE \E k \in Configured : NextMax(k) /\ bumped' = bumped \cup {k}
      <3>1. PICK k \in Configured : NextMax(k) /\ bumped' = bumped \cup {k}
        BY <2>2
      <3>2. \A j \in Configured : snap.weights[j] \in Nat /\ j \in Nat
        BY SnapFacts DEF IInv, Configured
      <3>3. \A j \in Configured : Preferred(j, k) => j \in bumped'
        BY <3>1, <3>2 DEF NextMax, Preferred
      <3>4. QED
        BY <2>1, <3>1, <3>3 DEF HeaviestFirst, Preferred
    <2>3. CASE bumped' = bumped
      BY <1>2, <2>1, <2>3
    <2>4. QED
      BY <1>4, <2>2, <2>3 DEF Adjust
  <1>5. QED
    BY <1>1, <1>2, <1>3, <1>4
    DEF Next, PassStep, RejectSpec, Weigh, Divide, DeleteExtra, ApplyService, ApplyStatefulSet,
        FinishPass, Abort, EditSpec, ForgetLocals, vars, locals, cluster

\* A heavier bundle has no smaller share, equal ones have the same.
LEMMA ShareMonotone ==
  ASSUME NEW v \in Nat, NEW w \in Nat, NEW t \in Nat, NEW r \in Nat, v < w
  PROVE  Share(v, t, r) <= Share(w, t, r)
  <1> DEFINE p == (v * r) \div t
             q == (w * r) \div t
  <1>1. v * r \in Nat /\ w * r \in Nat
    OBVIOUS
  <1>2. w * r = v * r + (w - v) * r /\ (w - v) * r \in Nat /\ (r > 0 => (w - v) * r > 0)
    <2>1. w - v \in Nat /\ w - v > 0 /\ w = v + (w - v)
      OBVIOUS
    <2>2. \A d \in Nat : (v + d) * r = v * r + d * r /\ d * r \in Nat /\ (d > 0 /\ r > 0 => d * r > 0)
      OBVIOUS
    <2>3. QED
      BY <2>1, <2>2
  <1>3. CASE t = 0
    BY <1>3 DEF Share
  <1>4. CASE t > 0
    <2>1. /\ p \in Nat /\ q \in Nat /\ t * p <= v * r /\ w * r < t * q + t
      BY <1>1, <1>4, DivFacts
    <2>2. p <= q
      <3>1. t * p < t * (q + 1)
        <4>1. t * (q + 1) = t * q + t /\ t * p \in Nat /\ t * q \in Nat
          <5>1. \A a \in Nat : t * (a + 1) = t * a + t /\ t * a \in Nat
            OBVIOUS
          <5>2. QED
            BY <2>1, <5>1
        <4>2. QED
          BY <1>1, <1>2, <2>1, <4>1
      <3>2. \A a, b \in Nat : t * a < t * b => a < b
        <4> TAKE a, b \in Nat
        <4>1. a >= b => t * b <= t * a
          BY <1>4
        <4>2. t * a \in Nat /\ t * b \in Nat
          OBVIOUS
        <4>3. QED
          BY <4>1, <4>2
      <3>3. QED
        BY <2>1, <3>1, <3>2
    <2>3. CASE <<w, t, r>> \notin LossyQuotients
      <3>1. Share(w, t, r) = q
        BY <1>4, <2>1, <2>3 DEF Share
      <3>2. Share(v, t, r) = p \/ Share(v, t, r) = p - 1
        BY <1>4, <2>1 DEF Share
      <3>3. QED
        BY <2>1, <2>2, <3>1, <3>2
    <2>4. CASE <<w, t, r>> \in LossyQuotients
      <3>1. w * r > 0 /\ (w * r) % t = 0
        BY <2>4, AllocationAssumption
      <3>2. t * q = w * r /\ r > 0
        <4>1. t * q = w * r
          BY <1>1, <1>4, <3>1, DivFacts
        <4>2. r = 0 => w * r = 0
          OBVIOUS
        <4>3. QED
          BY <3>1, <4>1, <4>2
      <3>3. t * p < t * q
        BY <1>1, <1>2, <2>1, <3>2
      <3>4. p <= q - 1
        <4>1. p = q => t * p = t * q
          OBVIOUS
        <4>2. p # q
          <5>1. \A a \in Nat : t * a \in Nat
            OBVIOUS
          <5>2. QED
            BY <2>1, <3>3, <4>1, <5>1
        <4>3. QED
          BY <2>1, <2>2, <4>2
      <3>5. Share(w, t, r) = q - 1
        BY <1>4, <2>1, <2>4 DEF Share
      <3>6. Share(v, t, r) = p \/ Share(v, t, r) = p - 1
        BY <1>4, <2>1 DEF Share
      <3>7. QED
        BY <2>1, <3>4, <3>5, <3>6
    <2>5. QED
      BY <2>3, <2>4
  <1>5. QED
    BY <1>3, <1>4

\* At the end of a pass the order of the weights is that of the counts.
LEMMA OrderKept == IInv /\ HeaviestFirst => HeavierNeverFewer
  <1> SUFFICES ASSUME IInv, HeaviestFirst, pc = "done", NEW j \in Configured, NEW k \in Configured
               PROVE  /\ snap.weights[j] > snap.weights[k] => Replicas(j) >= Replicas(k)
                      /\ snap.weights[j] = snap.weights[k] /\ j < k =>
                           Replicas(j) - Replicas(k) \in {0, 1}
    BY DEF HeavierNeverFewer
  <1>1. TypeOK /\ N <= MaxCeramics /\ DividedTo(N)
    BY DEF IInv, ApplyInv, TypeOK, Divided
  <1>2. /\ N \in Nat /\ MaxCeramics \in Nat /\ snap.replicas \in Nat /\ TotalWeight \in Nat
        /\ \A n \in Configured : snap.weights[n] \in Nat
    BY <1>1, SnapFacts
  <1>3. ASSUME NEW n \in Configured
        PROVE  /\ snap.weights[n] \in Nat /\ n \in Nat /\ share[n] \in Nat
               /\ share[n] = Share(snap.weights[n], TotalWeight, snap.replicas)
    <2>1. n \in Ordinals /\ n <= N /\ n \in Nat
      BY <1>1, <1>2 DEF Configured, Ordinals
    <2>2. share[n] = Share(snap.weights[n], TotalWeight, snap.replicas)
      BY <1>1, <2>1 DEF DividedTo
    <2>3. Share(snap.weights[n], TotalWeight, snap.replicas) \in Nat
      <3>1. snap.weights[n] \in Nat
        BY <1>2
      <3>2. QED
        BY <1>2, <3>1, ShareBounds
    <2>4. QED
      BY <1>2, <2>1, <2>2, <2>3
  <1>4. snap.weights[j] > snap.weights[k] => share[k] <= share[j]
    BY <1>2, <1>3, ShareMonotone
  <1>5. snap.weights[j] = snap.weights[k] => share[k] = share[j]
    BY <1>3
  <1>6. Preferred(j, k) /\ k \in bumped => j \in bumped
    BY DEF HeaviestFirst
  <1>7. share[j] \in Nat /\ share[k] \in Nat
    BY <1>3
  <1>8. /\ Replicas(j) = share[j] + (IF j \in bumped THEN 1 ELSE 0)
        /\ Replicas(k) = share[k] + (IF k \in bumped THEN 1 ELSE 0)
    BY DEF Replicas
  <1>9. snap.weights[j] > snap.weights[k] => Replicas(j) >= Replicas(k)
    <2>1. SUFFICES ASSUME snap.weights[j] > snap.weights[k] PROVE Replicas(j) >= Replicas(k)
      OBVIOUS
    <2>2. share[k] <= share[j] /\ (k \in bumped => j \in bumped)
      <3>1. Preferred(j, k)
        BY <2>1 DEF Preferred
      <3>2. QED
        BY <1>4, <1>6, <2>1, <3>1
    <2>3. CASE k \in bumped
      BY <1>7, <1>8, <2>2, <2>3
    <2>4. CASE k \notin bumped
      BY <1>7, <1>8, <2>2, <2>4
    <2>5. QED
      BY <2>3, <2>4
  <1>10. snap.weights[j] = snap.weights[k] /\ j < k => Replicas(j) - Replicas(k) \in {0, 1}
    BY <1>5, <1>6, <1>7, <1>8 DEF Preferred
  <1>11. QED
    BY <1>9, <1>10

-----------------------------------------------------------------------------
(* What has reached the cluster. *)

ClusterInv ==
  /\ pc \in {"adjust", "service", "set", "done"} =>
       /\ services \subseteq Configured
       /\ \A k \in Ordinals : statefulSets[k] # Absent => k \in Configured
  /\ pc \in {"service", "set", "done"} =>
       \A k \in 1 .. i : k \in services /\ statefulSets[k] = Replicas(k)
  /\ pc = "set" => i + 1 \in services

\* The deletion clears what is not configured, the loop puts one bundle at a time in place.
LEMMA ClusterInvKept == IInv /\ ClusterInv /\ [Next]_vars => ClusterInv'
  <1> SUFFICES ASSUME IInv, ClusterInv, [Next]_vars PROVE ClusterInv'
    OBVIOUS
  <1>1. CASE pc' \notin {"adjust", "service", "set", "done"}
    BY <1>1 DEF ClusterInv
  <1>2. CASE UNCHANGED <<cluster, pc, locals>>
    BY <1>2 DEF ClusterInv, cluster, locals, Configured, N, Replicas
  <1>3. TypeOK /\ MaxCeramics \in Nat /\ N \in Nat /\ i \in Nat
    BY SnapFacts DEF IInv, TypeOK
  <1>4. CASE DeleteExtra
    <2>1. UNCHANGED <<snap, N, Configured>>
      BY <1>4 DEF DeleteExtra, locals, N, Configured
    <2>2. CASE pc' = "adjust"
      <3>1. ExtraSets \cup ExtraServices = {} /\ UNCHANGED <<statefulSets, services>>
        BY <1>4, <2>2 DEF DeleteExtra, cluster
      <3>2. services \subseteq Configured /\ \A k \in Ordinals : statefulSets[k] # Absent => k \in Configured
        BY <3>1 DEF ExtraSets, ExtraServices
      <3>3. QED
        BY <2>1, <2>2, <3>1, <3>2 DEF ClusterInv
    <2>3. CASE pc' # "adjust"
      <3>1. pc' = "delete"
        BY <1>4, <2>3 DEF DeleteExtra
      <3>2. QED
        BY <1>1, <3>1
    <2>4. QED
      BY <2>2, <2>3
  <1>5. CASE Adjust
    <2>1. /\ pc = "adjust" /\ i = 0 /\ pc' \in {"adjust", "service"}
          /\ UNCHANGED <<statefulSets, services, snap, i, N, Configured>>
      BY <1>5 DEF Adjust, IInv, AdjustInv, cluster, N, Configured
    <2>2. QED
      BY <2>1 DEF ClusterInv
  <1>6. CASE ApplyService
    <2>1. /\ pc = "service" /\ i <= N
          /\ UNCHANGED <<statefulSets, snap, i, share, bumped, N, Configured>>
      BY <1>6 DEF ApplyService, IInv, ApplyInv, locals, N, Configured
    <2>2. UNCHANGED \A k \in 1 .. i : statefulSets[k] = Replicas(k)
      BY <2>1 DEF Replicas
    <2>3. CASE i < N
      <3>1. services' = services \cup {i + 1} /\ pc' = "set"
        BY <1>6, <2>3 DEF ApplyService
      <3>2. i + 1 \in Configured
        BY <1>3, <2>3 DEF Configured
      <3>3. QED
        BY <2>1, <2>2, <3>1, <3>2 DEF ClusterInv
    <2>4. CASE ~ (i < N)
      <3>1. services' = services /\ pc' = "done"
        BY <1>6, <2>4 DEF ApplyService
      <3>2. QED
        BY <2>1, <2>2, <3>1 DEF ClusterInv
    <2>5. QED
      BY <2>3, <2>4
  <1>7. CASE ApplyStatefulSet
    <2>1. /\ pc = "set" /\ i < N /\ pc' = "service" /\ i' = i + 1
          /\ UNCHANGED <<services, snap, share, bumped, N, Configured>>
          /\ statefulSets' = [statefulSets EXCEPT ![i + 1] = Replicas(i + 1)]
      BY <1>7 DEF ApplyStatefulSet, IInv, ApplyInv, N, Configured
    <2>2. i + 1 \in Ordinals /\ i + 1 \in Configured /\ Configured \subseteq Ordinals /\ N <= MaxCeramics
      BY <1>3, <2>1 DEF TypeOK, Ordinals, Configured
    <2>3. statefulSets \in [Ordinals -> Nat \cup {Absent}]
      BY <1>3 DEF TypeOK
    <2>4. \A k \in 1 .. i + 1 : Replicas(k)' = Replicas(k)
      BY <2>1 DEF Replicas
    <2>5. \A k \in 1 .. i + 1 : k \in services' /\ statefulSets'[k] = Replicas(k)
      <3> TAKE k \in 1 .. i + 1
      <3>1. CASE k = i + 1
        BY <2>1, <2>2, <2>3, <3>1 DEF ClusterInv
      <3>2. CASE k # i + 1
        <4>1. k \in 1 .. i /\ k \in Ordinals
          BY <1>3, <2>1, <2>2, <3>2 DEF Ordinals
        <4>2. QED
          BY <2>1, <2>2, <2>3, <3>2, <4>1 DEF ClusterInv
      <3>3. QED
        BY <3>1, <3>2
    <2>6. \A k \in Ordinals : statefulSets'[k] # Absent => k \in Configured
      BY <2>1, <2>2, <2>3 DEF ClusterInv
    <2>7. QED
      BY <2>1, <2>4, <2>5, <2>6 DEF ClusterInv
  <1>8. QED
    BY <1>1, <1>2, <1>4, <1>5, <1>6, <1>7
    DEF Next, PassStep, RejectSpec, StartPass, Weigh, Divide, FinishPass, Abort, EditSpec,
        vars, locals, cluster

-----------------------------------------------------------------------------
(* Sums *)

\* A set of numbers has a least one: induction without a predicate parameter.
LEMMA LeastNumber ==
  ASSUME NEW T, T \subseteq Nat, T # {}
  PROVE  \E m \in T : \A n \in T : m <= n
  <1> DEFINE R == OpToRel(<, Nat)
  <1>1. IsWellFoundedOn(R, Nat)
    BY NatLessThanWellFounded, Zenon
  <1> HIDE DEF R
  <1>2. PICK m \in T : \A n \in T : ~ (<<n, m>> \in R)
    BY <1>1, WFMin
  <1>3. \A n \in T : ~ (n < m)
    BY <1>2 DEF OpToRel, R
  <1>4. QED
    BY <1>3

\* The sum of the community modules, over a function.
SumOf(f, S) == MapThenSumSet(LAMBDA x : f[x], S)

\* As many pairs as f adds up to over s.
Pairs(f, s) == UNION {{x} \X (1 .. f[x]) : x \in s}

\* One number more, its f more pairs.
LEMMA PairsCount ==
  ASSUME NEW S, IsFiniteSet(S), NEW f, \A x \in S : f[x] \in Nat, NEW s \in SUBSET S
  PROVE  /\ IsFiniteSet(Pairs(f, s)) /\ Cardinality(Pairs(f, s)) \in Nat
         /\ s = {} => Cardinality(Pairs(f, s)) = 0
         /\ \A x \in s : Cardinality(Pairs(f, s)) = f[x] + Cardinality(Pairs(f, s \ {x}))
  <1>1. \A x \in S : IsFiniteSet({x} \X (1 .. f[x])) /\ Cardinality({x} \X (1 .. f[x])) = f[x]
    <2> TAKE x \in S
    <2>1. f[x] \in Nat
      OBVIOUS
    <2>2. IsFiniteSet(1 .. f[x]) /\ Cardinality(1 .. f[x]) = f[x]
      <3>1. \A n \in Nat : IsFiniteSet(1 .. n) /\ Cardinality(1 .. n) = IF 1 > n THEN 0 ELSE n - 1 + 1
        BY FS_Interval
      <3>2. \A n \in Nat : (IF 1 > n THEN 0 ELSE n - 1 + 1) = n
        OBVIOUS
      <3>3. QED
        BY <2>1, <3>1, <3>2
    <2>3. IsFiniteSet({x}) /\ Cardinality({x}) = 1
      BY FS_Singleton
    <2> HIDE DEF Pairs
    <2>4. IsFiniteSet({x} \X (1 .. f[x])) /\ Cardinality({x} \X (1 .. f[x])) = 1 * f[x]
      <3>1. \A T : IsFiniteSet(T) => /\ IsFiniteSet({x} \X T)
                                   /\ Cardinality({x} \X T) = Cardinality({x}) * Cardinality(T)
        BY <2>3, FS_Product
      <3>2. QED
        BY <2>2, <2>3, <3>1
    <2>5. QED
      BY <2>1, <2>4
  <1>2. ASSUME NEW t \in SUBSET S
        PROVE  IsFiniteSet(Pairs(f, t))
    <2> DEFINE g == [x \in t |-> {x} \X (1 .. f[x])]
               T == {{x} \X (1 .. f[x]) : x \in t}
    <2>1. IsFiniteSet(t)
      BY FS_Subset
    <2>2. g \in Surjection(t, T)
      BY DEF Surjection
    <2>3. IsFiniteSet(T)
      <3> HIDE DEF g, T
      <3> QED BY <2>1, <2>2, FS_Surjection
    <2>4. \A A \in T : IsFiniteSet(A)
      BY <1>1
    <2>5. IsFiniteSet(UNION T)
      <3> HIDE DEF T
      <3> QED BY <2>3, <2>4, FS_UNION
    <2>6. QED
      BY <2>5 DEF Pairs
  <1>3. ASSUME NEW x \in s
        PROVE  Cardinality(Pairs(f, s)) = f[x] + Cardinality(Pairs(f, s \ {x}))
    <2> DEFINE A == {x} \X (1 .. f[x])
               B == Pairs(f, s \ {x})
    <2>1. Pairs(f, s) = A \cup B
      BY DEF Pairs
    <2>2. A \cap B = {}
      BY DEF Pairs
    <2>3. IsFiniteSet(A) /\ Cardinality(A) = f[x]
      BY <1>1
    <2>4. IsFiniteSet(B)
      <3>1. s \ {x} \in SUBSET S
        OBVIOUS
      <3>2. QED
        BY <1>2, <3>1
    <2> HIDE DEF A, B
    <2>5. Cardinality(A \cup B) = Cardinality(A) + Cardinality(B) - Cardinality(A \cap B)
      BY <2>3, <2>4, FS_Union
    <2>6. Cardinality(A \cup B) = f[x] + Cardinality(B)
      <3>1. Cardinality(B) \in Nat /\ f[x] \in Nat
        BY <2>4, FS_CardinalityType
      <3>2. Cardinality(A \cap B) = 0
        BY <2>2, FS_EmptySet
      <3>3. QED
        BY <2>3, <2>5, <3>1, <3>2
    <2>7. QED
      BY <2>1, <2>6 DEF B
  <1>4. IsFiniteSet(Pairs(f, s))
    BY <1>2
  <1>5. s = {} => Cardinality(Pairs(f, s)) = 0
    <2>1. s = {} => Pairs(f, s) = {}
      BY DEF Pairs
    <2>2. QED
      BY <2>1, FS_EmptySet
  <1>6. QED
    BY <1>3, <1>4, <1>5, FS_CardinalityType

\* The sum of the community modules counts them, whichever element it takes first.
LEMMA SumCounts ==
  ASSUME NEW S, IsFiniteSet(S), NEW f, \A x \in S : f[x] \in Nat
  PROVE  SumOf(f, S) = Cardinality(Pairs(f, S))
  <1> DEFINE Turn(h, s) == IF s = {} THEN 0
                           ELSE LET x == CHOOSE x \in s : TRUE IN f[x] + h[s \ {x}]
             count == [s \in SUBSET S |-> Cardinality(Pairs(f, s))]
             iter == CHOOSE h : h = [s \in SUBSET S |-> Turn(h, s)]
  <1>1. \A s \in SUBSET S : count[s] = Turn(count, s)
    <2> TAKE s \in SUBSET S
    <2>1. CASE s = {}
      BY <2>1, PairsCount
    <2>2. CASE s # {}
      <3>1. (CHOOSE x \in s : TRUE) \in s
        BY <2>2
      <3>2. PICK c \in s : c = CHOOSE x \in s : TRUE
        BY <3>1
      <3>3. count[s] = f[c] + count[s \ {c}]
        <4>1. s \ {c} \in SUBSET S
          OBVIOUS
        <4>2. QED
          BY <4>1, PairsCount
      <3>4. QED
        BY <2>2, <3>2, <3>3
    <2>3. QED
      BY <2>1, <2>2
  <1>2. count = [s \in SUBSET S |-> Turn(count, s)]
    <2> HIDE DEF Turn
    <2>1. DOMAIN count = SUBSET S
      OBVIOUS
    <2>2. QED
      BY <1>1, <2>1
  <1>3. iter = [s \in SUBSET S |-> Turn(iter, s)]
    <2> HIDE DEF Turn, count
    <2>1. QED
      BY <1>2
  <1>4. \A s \in SUBSET S : iter[s] = Turn(iter, s)
    <2> HIDE DEF Turn, iter
    <2>1. QED
      BY <1>3
  <1> HIDE DEF iter
  <1>5. \A s \in SUBSET S : iter[s] = count[s]
    <2> DEFINE Wrong == {s \in SUBSET S : iter[s] # count[s]}
               Sizes == {Cardinality(s) : s \in Wrong}
    <2>1. SUFFICES ASSUME Wrong # {} PROVE FALSE
      OBVIOUS
    <2>2. Sizes # {} /\ Sizes \subseteq Nat
      <3>1. \A s \in SUBSET S : IsFiniteSet(s)
        BY FS_Subset
      <3>2. \A s \in SUBSET S : Cardinality(s) \in Nat
        BY <3>1, FS_CardinalityType
      <3>3. Wrong \subseteq SUBSET S
        OBVIOUS
      <3> HIDE DEF Wrong
      <3>4. QED
        BY <2>1, <3>2, <3>3
    <2>3. PICK m \in Sizes : \A n \in Sizes : m <= n
      <3> HIDE DEF Sizes
      <3> QED BY <2>2, LeastNumber
    <2>4. PICK s \in Wrong : Cardinality(s) = m
      OBVIOUS
    <2>5. s # {}
      BY <1>1, <1>4
    <2>6. PICK c \in s : c = CHOOSE x \in s : TRUE
      BY <2>5
    <2>7. s \ {c} \in SUBSET S /\ Cardinality(s \ {c}) < m /\ Cardinality(s \ {c}) \in Nat /\ m \in Nat
      <3>1. IsFiniteSet(s)
        BY FS_Subset
      <3>2. Cardinality(s \ {c}) = Cardinality(s) - 1 /\ IsFiniteSet(s \ {c}) /\ Cardinality(s) \in Nat
        BY <3>1, FS_RemoveElement, FS_CardinalityType
      <3>3. QED
        BY <2>4, <3>2, FS_CardinalityType
    <2>8. s \ {c} \notin Wrong
      <3> HIDE DEF Wrong
      <3>1. s \ {c} \in Wrong => m <= Cardinality(s \ {c})
        BY <2>3
      <3>2. QED
        BY <2>7, <3>1
    <2>9. iter[s \ {c}] = count[s \ {c}]
      BY <2>7, <2>8
    <2>10. iter[s] = Turn(iter, s) /\ count[s] = Turn(count, s)
      BY <1>1, <1>4
    <2>11. QED
      BY <2>5, <2>6, <2>9, <2>10
  <1>6. iter[S] = Cardinality(Pairs(f, S))
    BY <1>5
  <1>7. QED
    BY <1>6 DEF SumOf, MapThenSumSet, MapThenFoldSet, iter, Turn

\* sum has the sums of f over the subsets of S, whichever element is taken out first.
IsSum(sum, f, S) ==
  /\ sum[{}] = 0
  /\ \A s \in SUBSET S : \A x \in s : sum[s] = f[x] + sum[s \ {x}]

\* The partial sums, whichever element is taken out first.
LEMMA PartialSums ==
  ASSUME NEW S, IsFiniteSet(S), NEW f, \A x \in S : f[x] \in Nat
  PROVE  \E sum \in [SUBSET S -> Nat] : sum[S] = SumOf(f, S) /\ IsSum(sum, f, S)
  <1> DEFINE sum == [s \in SUBSET S |-> Cardinality(Pairs(f, s))]
  <1>1. sum \in [SUBSET S -> Nat]
    BY PairsCount
  <1>2. sum[{}] = 0 /\ sum[S] = SumOf(f, S)
    BY PairsCount, SumCounts
  <1>3. \A s \in SUBSET S : \A x \in s : sum[s] = f[x] + sum[s \ {x}]
    <2> TAKE s \in SUBSET S
    <2> TAKE x \in s
    <2>1. s \ {x} \in SUBSET S
      OBVIOUS
    <2>2. QED
      BY <2>1, PairsCount
  <1> HIDE DEF sum
  <1>4. QED
    BY <1>1, <1>2, <1>3 DEF IsSum

\* The first k numbers.
First(k) == 1 .. k

\* They grow by one.
LEMMA FirstFacts ==
  /\ First(0) = {}
  /\ \A m \in Nat : m # 0 => m \in First(m) /\ First(m) \ {m} = First(m - 1)
  /\ \A m, n \in Nat : m <= n => First(m) \in SUBSET First(n)
  /\ \A n \in Nat : IsFiniteSet(First(n))
  <1>1. \A n \in Nat : IsFiniteSet(First(n))
    BY FS_Interval DEF First
  <1>2. \A m \in Nat : m # 0 => m \in First(m) /\ First(m) \ {m} = First(m - 1)
    BY DEF First
  <1>3. QED
    BY <1>1, <1>2 DEF First

\* Along an interval the sum is what a running total arrives at.
LEMMA RunningTotal ==
  ASSUME NEW n \in Nat, NEW f, \A k \in First(n) : f[k] \in Nat, NEW g,
         g[0] = 0, \A k \in First(n) : g[k] = g[k - 1] + f[k]
  PROVE  SumOf(f, First(n)) = g[n]
  <1>1. PICK sum \in [SUBSET First(n) -> Nat] :
          sum[First(n)] = SumOf(f, First(n)) /\ IsSum(sum, f, First(n))
    <2>1. IsFiniteSet(First(n))
      BY FirstFacts
    <2>2. QED
      BY <2>1, PartialSums
  <1>2. \A k \in 0 .. n : g[k] = sum[First(k)]
    <2> DEFINE Wrong == {k \in 0 .. n : g[k] # sum[First(k)]}
    <2>1. SUFFICES ASSUME Wrong # {} PROVE FALSE
      OBVIOUS
    <2>2. PICK m \in Wrong : \A k \in Wrong : m <= k
      <3>1. Wrong \subseteq Nat
        OBVIOUS
      <3> HIDE DEF Wrong
      <3>2. QED
        BY <2>1, <3>1, LeastNumber
    <2>3. m \in Nat /\ m # 0 /\ m <= n
      <3>1. g[0] = sum[First(0)]
        BY <1>1, FirstFacts DEF IsSum
      <3>2. QED
        BY <3>1
    <2>4. m - 1 \in 0 .. n /\ m - 1 \notin Wrong
      BY <2>2, <2>3
    <2>5. g[m - 1] = sum[First(m - 1)]
      BY <2>4
    <2>6. m \in First(m) /\ First(m) \in SUBSET First(n) /\ First(m) \ {m} = First(m - 1)
      BY <2>3, FirstFacts
    <2>7. sum[First(m)] = f[m] + sum[First(m - 1)]
      <3> HIDE DEF Wrong
      <3> QED BY <1>1, <2>6 DEF IsSum
    <2>8. g[m] = g[m - 1] + f[m]
      BY <2>6
    <2>9. f[m] \in Nat /\ sum[First(m - 1)] \in Nat
      BY <1>1, <2>6
    <2>10. QED
      BY <2>5, <2>7, <2>8, <2>9
  <1>3. QED
    BY <1>1, <1>2

\* After a completed pass the replicas in the cluster add up to those placed.
LEMMA SumInCluster ==
  ASSUME IInv, ClusterInv, pc = "done"
  PROVE  MapThenSumSet(LAMBDA k : statefulSets[k], 1 .. N) = placed
  <1>1. /\ TypeOK /\ N <= MaxCeramics /\ DividedTo(N) /\ i = N
        /\ placed = shareSum[N] + Cardinality(BumpedTo(N))
    BY DEF IInv, ApplyInv, TypeOK, Divided
  <1>2. MaxCeramics \in Nat /\ N \in Nat
    BY <1>1, SnapFacts
  <1>3. First(N) = 1 .. N /\ \A k \in First(N) : k \in Ordinals /\ k \in Nat /\ k - 1 \in Nat
    BY <1>1, <1>2 DEF First, Ordinals
  <1>4. \A k \in First(N) : statefulSets[k] = Replicas(k) /\ Replicas(k) \in Nat
    <2> TAKE k \in First(N)
    <2>1. statefulSets[k] = Replicas(k)
      BY <1>1, <1>3 DEF ClusterInv
    <2>2. share[k] \in Nat
      BY <1>1, <1>3 DEF TypeOK, Ordinals
    <2>3. QED
      BY <2>1, <2>2 DEF Replicas
  <1> DEFINE total == [k \in 0 .. N |-> shareSum[k] + Cardinality(BumpedTo(k))]
  <1>5. total[0] = 0 /\ total[N] = placed
    <2>1. BumpedTo(0) = {} /\ shareSum[0] = 0
      BY <1>1 DEF BumpedTo, DividedTo
    <2>2. Cardinality(BumpedTo(0)) = 0
      BY <2>1, FS_EmptySet
    <2>3. QED
      BY <1>1, <1>2, <2>1, <2>2
  <1>6. \A k \in First(N) : total[k] = total[k - 1] + statefulSets[k]
    <2> TAKE k \in First(N)
    <2>1. k \in 0 .. N /\ k - 1 \in 0 .. N /\ k \in 0 .. MaxCeramics /\ k - 1 \in 0 .. MaxCeramics
      BY <1>1, <1>2, <1>3
    <2>2. shareSum[k] = shareSum[k - 1] + share[k]
      BY <1>1, <1>3 DEF DividedTo
    <2>3. shareSum[k - 1] \in Nat /\ share[k] \in Nat
      BY <1>1, <2>1 DEF TypeOK
    <2>4. IsFiniteSet(BumpedTo(k - 1)) /\ Cardinality(BumpedTo(k - 1)) \in Nat
      BY <1>3, BumpedFinite DEF BumpedTo
    <2>5. CASE k \in bumped
      <3>1. BumpedTo(k) = BumpedTo(k - 1) \cup {k} /\ k \notin BumpedTo(k - 1)
        BY <1>3, <2>5 DEF BumpedTo
      <3>2. Cardinality(BumpedTo(k)) = Cardinality(BumpedTo(k - 1)) + 1
        BY <2>4, <3>1, FS_AddElement
      <3>3. Replicas(k) = share[k] + 1
        BY <2>5 DEF Replicas
      <3>4. QED
        BY <1>4, <2>1, <2>2, <2>3, <2>4, <3>2, <3>3
    <2>6. CASE k \notin bumped
      <3>1. BumpedTo(k) = BumpedTo(k - 1)
        BY <1>3, <2>6 DEF BumpedTo
      <3>2. Replicas(k) = share[k]
        BY <2>3, <2>6 DEF Replicas
      <3>3. QED
        BY <1>4, <2>1, <2>2, <2>3, <2>4, <3>1, <3>2
    <2>7. QED
      BY <2>5, <2>6
  <1> HIDE DEF total
  <1>7. SumOf(statefulSets, First(N)) = total[N]
    BY <1>2, <1>4, <1>5, <1>6, RunningTotal
  <1>8. QED
    BY <1>3, <1>5, <1>7 DEF SumOf

\* The cluster is then as the spec asks.
LEMMA CompletedDeploys == IInv /\ ClusterInv => CompletedPassDeploys
  <1> SUFFICES ASSUME IInv, ClusterInv, pc = "done", TotalWeight > 0 PROVE Deployed(snap)
    BY DEF CompletedPassDeploys
  <1>1. TypeOK /\ N <= MaxCeramics /\ i = N /\ N \in Nat /\ MaxCeramics \in Nat
    BY SnapFacts DEF IInv, ApplyInv, TypeOK
  <1>2. \A k \in Configured : k \in services /\ statefulSets[k] = Replicas(k) /\ Replicas(k) \in Nat
    <2> TAKE k \in Configured
    <2>1. k \in services /\ statefulSets[k] = Replicas(k)
      BY <1>1 DEF ClusterInv, Configured
    <2>2. share[k] \in Nat
      BY <1>1 DEF TypeOK, Configured
    <2>3. QED
      BY <2>1, <2>2 DEF Replicas
  <1>3. services = 1 .. N
    BY <1>2 DEF ClusterInv, Configured
  <1>4. \A k \in Ordinals : statefulSets[k] # Absent <=> k \in 1 .. N
    BY <1>2 DEF ClusterInv, Configured, Absent
  <1>5. placed = snap.replicas
    BY IInvTotalPlaced DEF TotalPlaced
  <1>6. MapThenSumSet(LAMBDA k : statefulSets[k], 1 .. N) = placed
    BY SumInCluster
  <1>7. QED
    BY <1>3, <1>4, <1>5, <1>6 DEF Deployed, N

\* IInv holds throughout.
LEMMA SpecIInv == Spec => []IInv
  BY InitIInv, NextIInv, PTL DEF Spec

-----------------------------------------------------------------------------
(* Theorems *)

\* The types hold for every instance; in particular no share and no applied
\* StatefulSet ever gets a negative replica count.
THEOREM TypeCorrect == Spec => []TypeOK
  <1>1. IInv => TypeOK
    BY DEF IInv
  <1>2. QED
    BY <1>1, SpecIInv, PTL

\* keramik/src/mixed_networks.md:56 for every number of Ceramic specs, every
\* weights with a positive total and every replica count: a completed pass
\* applies StatefulSets with spec.replicas replicas in total.
THEOREM ReplicasSumToSpec == Spec => []TotalPlaced
  BY SpecIInv, IInvTotalPlaced, PTL

\* And each spec's count is within one replica of its proportional share.
THEOREM SharesAreProportional == Spec => []ProportionalShares
  BY SpecIInv, IInvProportionalShares, PTL

\* The rounding never turns the order of the weights around, whatever f64 loses.
THEOREM OrderIsKept == Spec => []HeavierNeverFewer
  <1>1. Init => HeaviestFirst
    BY DEF Init, HeaviestFirst
  <1>2. QED
    BY <1>1, SpecIInv, HeaviestFirstKept, OrderKept, PTL DEF Spec

\* A completed pass leaves the cluster as its spec demands: one Service and one
\* StatefulSet for each configured ceramic, nothing of an earlier spec, and
\* spec.replicas nodes in total, after any edits and any passes cut short.
THEOREM CompletedPassesDeploy == Spec => []CompletedPassDeploys
  <1>1. Init => ClusterInv
    BY DEF Init, ClusterInv
  <1>2. QED
    BY <1>1, SpecIInv, ClusterInvKept, CompletedDeploys, PTL DEF Spec
=============================================================================
