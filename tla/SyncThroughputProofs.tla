------------------------ MODULE SyncThroughputProofs ------------------------
(***************************************************************************)
(* TLAPS proofs about SyncThroughput, for any number of peers, any target  *)
(* and any bounds: a success and a failure are what they claim to be, and  *)
(* a success reports the minimum.                                          *)
(*                                                                         *)
(* The verdict compares two samples of counters that restart, may not be   *)
(* there yet and come under two names.  Its two invariants bound a sample  *)
(* by the history from either side: with equal versions, a counter never   *)
(* exceeds what was counted before the run plus what came in since the     *)
(* first look (NotMore); without restarts it is never below what was       *)
(* counted before plus what came in during the run (NotLess).              *)
(***************************************************************************)
EXTENDS SyncThroughput, WellFoundedInduction, TLAPS

Count == Nat \cup {None}

TypeOK ==
  /\ version \in [All -> {"new", "old"}]
  /\ eager \in BOOLEAN
  /\ counter \in [All -> Nat]
  /\ stage \in {"before", "run", "after", "judged"}
  /\ name \in {"new", "old"} /\ k \in 1 .. Peers + 1
  /\ before \in [All -> Count] /\ after \in [All -> Count]
  /\ verdict \in {"none", "success", "failure", "error"}
  /\ window \in [All -> Nat] /\ inside \in [All -> Nat]
  /\ restarts \in Nat /\ failures \in Nat

\* All peers run one version.
Uniform == \A p, q \in All : version[p] = version[q]

\* In this collection the manager has asked peer p by the name it exports, or
\* went on to the old name without finding it.
Asked(p) == (version[p] = name /\ p < k) \/ (version[p] = "new" /\ name = "old")

Sampled(p) == stage = "before" \/ verdict = "error" => Asked(p)
SampledAgain(p) == stage \in {"after", "judged"} /\ verdict # "error" /\ Asked(p)

\* What is not asked by its own name is missing.
Named ==
  /\ stage = "before" => \A p \in All : version[p] # name => before[p] = None
  /\ stage \in {"before", "run"} => after = Unknown
  /\ \A p \in All : after[p] # None => version[p] = name

\* No counter is above its sample before the run and the events since.
NotMoreAt(p) ==
  /\ Sampled(p) => counter[p] <= OrZero(before[p]) + window[p]
  /\ after[p] # None => after[p] <= OrZero(before[p]) + window[p]

NotMore == Uniform => \A p \in All : NotMoreAt(p)

\* Without restarts, none is below its sample and the events during the run.
NotLessAt(p) ==
  /\ stage = "before" => inside[p] = 0
  /\ OrZero(before[p]) + inside[p] <= counter[p]
  /\ Uniform /\ SampledAgain(p) => OrZero(before[p]) + inside[p] <= OrZero(after[p])

NotLess == restarts = 0 => \A p \in All : NotLessAt(p)

\* A verdict compares the complete samples.
Judged ==
  /\ verdict # "none" <=> stage = "judged"
  /\ verdict = "success" => MeetsThreshold
  /\ verdict = "failure" /\ failures = 0 =>
       k > Peers /\ ~ FallsBack(after) /\ ~ MeetsThreshold

IInv == TypeOK /\ Named /\ NotMore /\ NotLess /\ Judged

-----------------------------------------------------------------------------
(* Types *)

\* A metric is a count.
LEMMA MetricType ==
  ASSUME TypeOK, NEW p \in All
  PROVE  Metric(p) \in Count
BY DEF TypeOK, Metric, Count

\* Every step keeps the types.
LEMMA TypeStep ==
  ASSUME TypeOK, [Next]_vars
  PROVE  TypeOK'
<1> USE ThroughputAssumption
<1>1. CASE PollBefore
  <2>1. k \in All /\ Metric(k) \in Count
    BY <1>1, MetricType, SMTT(30) DEF PollBefore, TypeOK, All
  <2> QED BY <1>1, <2>1, SMTT(30) DEF PollBefore, TypeOK, All
<1>2. CASE PollAfter
  <2>1. k \in All /\ Metric(k) \in Count
    BY <1>2, MetricType, SMTT(30) DEF PollAfter, TypeOK, All
  <2> QED BY <1>2, <2>1, SMTT(30) DEF PollAfter, TypeOK, All
<1>3. CASE AskForOldName
  BY <1>3 DEF AskForOldName, TypeOK
<1>4. CASE StartRun
  BY <1>4 DEF StartRun, TypeOK
<1>5. CASE EndRun
  BY <1>5 DEF EndRun, TypeOK
<1>6. CASE Judge
  BY <1>6 DEF Judge, TypeOK
<1>7. CASE RequestFails
  BY <1>7 DEF RequestFails, TypeOK
<1>8. ASSUME NEW p \in All, Event(p) PROVE TypeOK'
  BY <1>8 DEF Event, TypeOK, manager
<1>9. ASSUME NEW p \in All, Restart(p) PROVE TypeOK'
  BY <1>9 DEF Restart, TypeOK, manager
<1>10. CASE UNCHANGED vars
  BY <1>10 DEF vars, manager, TypeOK
<1> QED
  BY <1>1, <1>2, <1>3, <1>4, <1>5, <1>6, <1>7, <1>8, <1>9, <1>10 DEF Next, ManagerStep

-----------------------------------------------------------------------------
(* The invariant *)

\* It holds at first: nothing was asked yet.
LEMMA InitIInv == Init => IInv
<1> SUFFICES ASSUME Init PROVE IInv
  OBVIOUS
<1> USE ThroughputAssumption
<1>1. TypeOK
  BY DEF Init, TypeOK, Unknown, Count
<1>2. Named
  BY DEF Init, Named, Unknown
<1>3. NotMore
  BY DEF Init, NotMore, NotMoreAt, Unknown, Sampled, Asked, All
<1>4. NotLess
  BY DEF Init, NotLess, NotLessAt, Unknown, SampledAgain, OrZero
<1>5. Judged
  BY DEF Init, Judged
<1> QED BY <1>1, <1>2, <1>3, <1>4, <1>5 DEF IInv

\* What Metric samples is the counter, if it is asked by its name.
LEMMA Samples ==
  ASSUME TypeOK, NEW p \in All
  PROVE  /\ version[p] = name => OrZero(Metric(p)) = counter[p]
         /\ version[p] # name => Metric(p) = None
         /\ Metric(p) # None => Metric(p) = counter[p] /\ version[p] = name
BY DEF TypeOK, Metric, OrZero, None

\* No step finds a metric under a name its peer does not export.
LEMMA NamedStep ==
  ASSUME IInv, [Next]_vars
  PROVE  Named'
<1> USE ThroughputAssumption DEF IInv, Named
<1>1. CASE PollBefore
  BY <1>1, Samples DEF PollBefore, TypeOK, All
<1>2. CASE PollAfter
  BY <1>2, Samples DEF PollAfter, TypeOK, All
<1>3. CASE AskForOldName
  BY <1>3 DEF AskForOldName, FallsBack, Missing, Unknown
<1>4. CASE StartRun
  BY <1>4 DEF StartRun
<1>5. CASE EndRun
  BY <1>5 DEF EndRun, Unknown
<1>6. CASE Judge
  BY <1>6 DEF Judge
<1>7. CASE RequestFails
  BY <1>7 DEF RequestFails
<1>8. ASSUME NEW p \in All, Event(p) \/ Restart(p) PROVE Named'
  BY <1>8 DEF Event, Restart, manager
<1>9. CASE UNCHANGED vars
  BY <1>9 DEF vars, manager
<1> QED
  BY <1>1, <1>2, <1>3, <1>4, <1>5, <1>6, <1>7, <1>8, <1>9 DEF Next, ManagerStep

\* When a collection is over, every peer of a single version was asked.
LEMMA AllAsked ==
  ASSUME IInv, Uniform, k > Peers, NEW p \in All,
         \/ stage = "before" /\ ~ FallsBack(before)
         \/ stage \in {"after", "judged"} /\ ~ FallsBack(after)
  PROVE  Asked(p)
<1> USE ThroughputAssumption
<1>1. p < k
  BY DEF IInv, TypeOK, All
<1>2. SUFFICES ASSUME version[p] = "old", name = "new" PROVE FALSE
  BY <1>1 DEF IInv, TypeOK, Asked
<1>3. \A q \in All : version[q] # name
  BY <1>2 DEF Uniform
<1> QED BY <1>2, <1>3 DEF IInv, Named, FallsBack, Missing

\* No step lets a counter outrun what was counted before and came in since:
\* an event counts in the window as soon as the peer was asked, a restart only
\* takes away.
LEMMA NotMoreStep ==
  ASSUME IInv, [Next]_vars
  PROVE  NotMore'
<1> USE ThroughputAssumption
<1> SUFFICES ASSUME Uniform', NEW p \in All
             PROVE  NotMoreAt(p)'
  BY DEF NotMore, All
<1> USE DEF NotMoreAt
<1>0. Uniform /\ version' = version
  BY DEF Next, ManagerStep, PollBefore, PollAfter, AskForOldName, StartRun, EndRun, Judge,
         RequestFails, Event, Restart, vars, Uniform, manager
<1>a. /\ Sampled(p) => counter[p] <= OrZero(before[p]) + window[p]
      /\ after[p] # None => after[p] <= OrZero(before[p]) + window[p]
  BY <1>0 DEF IInv, NotMore
<1>b. /\ counter[p] \in Nat /\ window[p] \in Nat /\ before[p] \in Count /\ after[p] \in Count
      /\ OrZero(before[p]) \in Nat
  BY DEF IInv, TypeOK, OrZero, Count, None
<1>1. CASE PollBefore
  <2>1. CASE p = k
    <3>1. before'[p] = Metric(p) /\ UNCHANGED <<counter, window, after, stage, verdict, name>> /\ stage = "before"
      BY <1>1, <2>1 DEF PollBefore, IInv, TypeOK
    <3>2. CASE version[p] = name
      BY <3>1, <3>2, Samples, <1>b DEF IInv, Named, Unknown
    <3>3. CASE version[p] # name
      BY <3>1, <3>3, Samples, <1>a, <1>b, <1>0 DEF IInv, Named, Unknown, Sampled, Asked
    <3> QED BY <3>2, <3>3
  <2>2. CASE p # k
    <3>1. before'[p] = before[p] /\ UNCHANGED <<counter, window, after, stage, verdict, name>> /\ k' = k + 1
      BY <1>1, <2>2 DEF PollBefore, IInv, TypeOK
    <3>2. Sampled(p)' => Sampled(p)
      BY <3>1, <2>2, <1>0 DEF Sampled, Asked, IInv, TypeOK, All
    <3> QED BY <3>1, <3>2, <1>a
  <2> QED BY <2>1, <2>2
<1>2. CASE PollAfter
  <2>0. Sampled(p)
    BY <1>2 DEF PollAfter, IInv, Judged, Sampled
  <2>1. CASE p = k
    <3>1. after'[p] = Metric(p) /\ UNCHANGED <<counter, window, before>>
      BY <1>2, <2>1 DEF PollAfter, IInv, TypeOK
    <3> QED BY <3>1, <2>0, <1>a, <1>b, Samples DEF IInv
  <2>2. CASE p # k
    <3>1. after'[p] = after[p] /\ UNCHANGED <<counter, window, before>>
      BY <1>2, <2>2 DEF PollAfter, IInv, TypeOK
    <3> QED BY <3>1, <2>0, <1>a
  <2> QED BY <2>1, <2>2
<1>3. CASE AskForOldName
  <2>1. Sampled(p)' => Sampled(p)
    BY <1>3, <1>0 DEF AskForOldName, FallsBack, Sampled, Asked, IInv, TypeOK, All
  <2> QED BY <1>3, <2>1, <1>a DEF AskForOldName
<1>4. CASE StartRun
  <2>1. Sampled(p)
    BY <1>4, <1>0, AllAsked DEF StartRun, Sampled
  <2> QED BY <1>4, <2>1, <1>a DEF StartRun
<1>5. CASE EndRun
  BY <1>5, <1>a DEF EndRun, Sampled, IInv, Judged
<1>6. CASE Judge
  BY <1>6, <1>a DEF Judge, Sampled, IInv, Judged
<1>7. CASE RequestFails
  BY <1>7, <1>a, <1>0 DEF RequestFails, Sampled, Asked, IInv, Judged
<1>8. ASSUME NEW q \in All, Event(q)
      PROVE  NotMoreAt(p)'
  <2>1. UNCHANGED <<before, after, stage, name, k, verdict>>
    BY <1>8 DEF Event, manager
  <2>2. Sampled(p)' <=> Sampled(p)
    BY <2>1, <1>0 DEF Sampled, Asked
  <2>3. CASE p # q
    <3>1. counter'[p] = counter[p] /\ window'[p] = window[p]
      BY <1>8, <2>3 DEF Event, IInv, TypeOK
    <3> QED BY <2>1, <2>2, <3>1, <1>a
  <2>4. CASE p = q /\ Seen(q)
    <3>1. counter'[p] = counter[p] + 1 /\ window'[p] = window[p] + 1
      BY <1>8, <2>4 DEF Event, IInv, TypeOK
    <3> QED BY <2>1, <2>2, <3>1, <1>a, <1>b DEF Count, None
  <2>5. CASE p = q /\ ~ Seen(q)
    <3>1. window'[p] = window[p]
      BY <1>8, <2>5 DEF Event
    <3>2. ~ Sampled(p)
      BY <2>5 DEF Sampled, Asked, Seen, IInv, TypeOK, All
    <3> QED BY <2>1, <2>2, <3>1, <3>2, <1>a
  <2> QED BY <2>3, <2>4, <2>5
<1>10. ASSUME NEW q \in All, Restart(q)
       PROVE  NotMoreAt(p)'
  <2>1. UNCHANGED <<before, after, stage, name, k, verdict, window>>
    BY <1>10 DEF Restart, manager
  <2>2. Sampled(p)' <=> Sampled(p)
    BY <2>1, <1>0 DEF Sampled, Asked
  <2>3. counter'[p] = 0 \/ counter'[p] = counter[p]
    BY <1>10 DEF Restart, IInv, TypeOK
  <2> QED BY <2>1, <2>2, <2>3, <1>a, <1>b
<1>9. CASE UNCHANGED vars
  BY <1>9, <1>a, <1>0 DEF vars, manager, Sampled, Asked
<1> HIDE DEF NotMoreAt
<1> QED
  BY <1>1, <1>2, <1>3, <1>4, <1>5, <1>6, <1>7, <1>8, <1>9, <1>10 DEF Next, ManagerStep

\* Without restarts, no step lets a counter fall behind.
LEMMA NotLessStep ==
  ASSUME IInv, [Next]_vars
  PROVE  NotLess'
<1> USE ThroughputAssumption
<1> SUFFICES ASSUME restarts' = 0, NEW p \in All
             PROVE  NotLessAt(p)'
  BY DEF NotLess, All
<1> USE DEF NotLessAt
<1>0. version' = version /\ (Uniform' <=> Uniform)
  BY DEF Next, ManagerStep, PollBefore, PollAfter, AskForOldName, StartRun, EndRun, Judge,
         RequestFails, Event, Restart, vars, Uniform, manager
<1>b. /\ counter[p] \in Nat /\ inside[p] \in Nat /\ before[p] \in Count /\ after[p] \in Count
      /\ OrZero(before[p]) \in Nat
  BY DEF IInv, TypeOK, OrZero, Count, None
<1>c. ASSUME NEW q \in All, Restart(q) PROVE FALSE
  BY <1>c DEF Restart, IInv, TypeOK
<1>a. restarts = 0 /\ NotLessAt(p)
  <2>1. restarts = 0
    BY <1>c DEF Next, ManagerStep, PollBefore, PollAfter, AskForOldName, StartRun, EndRun, Judge,
           RequestFails, Event, vars, manager
  <2> QED BY <2>1 DEF IInv, NotLess
<1>1. CASE PollBefore
  <2>0. stage' = "before" /\ UNCHANGED <<counter, inside>>
    BY <1>1 DEF PollBefore
  <2>1. CASE p = k
    <3>1. before'[p] = Metric(p)
      BY <1>1, <2>1 DEF PollBefore, IInv, TypeOK
    <3> QED BY <2>0, <3>1, <1>1, <1>a, <1>b, Samples DEF IInv, PollBefore, OrZero, SampledAgain
  <2>2. CASE p # k
    <3>1. before'[p] = before[p]
      BY <1>1, <2>2 DEF PollBefore, IInv, TypeOK
    <3> QED BY <2>0, <3>1, <1>1, <1>a DEF PollBefore, SampledAgain
  <2> QED BY <2>1, <2>2
<1>2. CASE PollAfter
  <2>0. stage' = "after" /\ UNCHANGED <<counter, inside, before, name, verdict>> /\ k' = k + 1
    BY <1>2 DEF PollAfter
  <2>1. CASE p = k
    <3>1. after'[p] = Metric(p)
      BY <1>2, <2>1 DEF PollAfter, IInv, TypeOK
    <3>2. CASE version[p] = name
      BY <3>1, <3>2, <2>0, <1>a, <1>b, Samples DEF IInv
    <3>3. CASE version[p] # name
      <4>1. after[p] = None /\ after'[p] = None
        BY <3>1, <3>3, Samples DEF IInv, Named
      <4>2. SampledAgain(p)' => SampledAgain(p)
        BY <3>3, <2>0, <1>0, <1>2 DEF SampledAgain, Asked, PollAfter
      <4> QED BY <4>1, <4>2, <2>0, <1>a, <1>0
    <3> QED BY <3>2, <3>3
  <2>2. CASE p # k
    <3>1. after'[p] = after[p]
      BY <1>2, <2>2 DEF PollAfter, IInv, TypeOK
    <3>2. SampledAgain(p)' => SampledAgain(p)
      BY <2>2, <2>0, <1>0, <1>2 DEF SampledAgain, Asked, PollAfter, IInv, TypeOK, All
    <3> QED BY <3>1, <3>2, <2>0, <1>a, <1>0
  <2> QED BY <2>1, <2>2
<1>3. CASE AskForOldName
  <2>1. SampledAgain(p)' => SampledAgain(p)
    BY <1>3, <1>0 DEF AskForOldName, FallsBack, SampledAgain, Asked, IInv, TypeOK, All
  <2> QED BY <1>3, <2>1, <1>a, <1>0 DEF AskForOldName
<1>4. CASE StartRun
  BY <1>4, <1>a DEF StartRun, SampledAgain
<1>5. CASE EndRun
  <2>1. ~ SampledAgain(p)'
    BY <1>5, <1>0 DEF EndRun, SampledAgain, Asked, All
  <2> QED BY <1>5, <2>1, <1>a DEF EndRun
<1>6. CASE Judge
  <2>1. SampledAgain(p)' => SampledAgain(p)
    BY <1>6, <1>0 DEF Judge, SampledAgain, Asked, IInv, Judged
  <2> QED BY <1>6, <2>1, <1>a, <1>0 DEF Judge
<1>7. CASE RequestFails
  <2>1. SampledAgain(p)' => SampledAgain(p)
    BY <1>7, <1>0 DEF RequestFails, SampledAgain, Asked, IInv, Judged
  <2> QED BY <1>7, <2>1, <1>a, <1>0 DEF RequestFails
<1>8. ASSUME NEW q \in All, Event(q)
      PROVE  NotLessAt(p)'
  <2>1. UNCHANGED <<before, after, stage, name, k, verdict>>
    BY <1>8 DEF Event, manager
  <2>2. SampledAgain(p)' <=> SampledAgain(p)
    BY <2>1, <1>0 DEF SampledAgain, Asked
  <2>3. counter'[p] = IF p = q THEN counter[p] + 1 ELSE counter[p]
    BY <1>8 DEF Event, IInv, TypeOK
  <2>4. CASE stage = "run"
    <3>1. inside'[p] = IF p = q THEN inside[p] + 1 ELSE inside[p]
      BY <1>8, <2>4 DEF Event, IInv, TypeOK
    <3> QED BY <2>1, <2>2, <2>3, <2>4, <3>1, <1>a, <1>b DEF SampledAgain
  <2>5. CASE stage # "run"
    <3>1. inside' = inside
      BY <1>8, <2>5 DEF Event
    <3> QED BY <2>1, <2>2, <2>3, <3>1, <1>a, <1>b, <1>0
  <2> QED BY <2>4, <2>5
<1>9. CASE UNCHANGED vars
  BY <1>9, <1>a, <1>0 DEF vars, manager, SampledAgain, Asked
<1> HIDE DEF NotLessAt
<1> QED
  BY <1>1, <1>2, <1>3, <1>4, <1>5, <1>6, <1>7, <1>8, <1>c, <1>9 DEF Next, ManagerStep

\* A verdict is given once, of complete samples.
LEMMA JudgedStep ==
  ASSUME IInv, [Next]_vars
  PROVE  Judged'
<1> USE DEF IInv, Judged
<1>1. CASE PollBefore
  BY <1>1 DEF PollBefore
<1>2. CASE PollAfter
  BY <1>2 DEF PollAfter
<1>3. CASE AskForOldName
  BY <1>3 DEF AskForOldName
<1>4. CASE StartRun
  BY <1>4 DEF StartRun
<1>5. CASE EndRun
  BY <1>5 DEF EndRun
<1>6. CASE Judge
  <2>1. UNCHANGED <<before, after, name, k, failures>> /\ verdict = "none"
    BY <1>6 DEF Judge
  <2>2. (MeetsThreshold' <=> MeetsThreshold) /\ (FallsBack(after)' <=> FallsBack(after))
    BY <2>1 DEF MeetsThreshold, Gain, FallsBack, Missing
  <2> QED BY <1>6, <2>1, <2>2 DEF Judge
<1>7. CASE RequestFails
  BY <1>7 DEF RequestFails, TypeOK
<1>8. ASSUME NEW p \in All, Event(p) \/ Restart(p) PROVE Judged'
  BY <1>8 DEF Event, Restart, manager
<1>9. CASE UNCHANGED vars
  <2>1. UNCHANGED <<before, after, name, k, failures, stage, verdict>>
    BY <1>9 DEF vars, manager
  <2>2. (MeetsThreshold' <=> MeetsThreshold) /\ (FallsBack(after)' <=> FallsBack(after))
    BY <2>1 DEF MeetsThreshold, Gain, FallsBack, Missing
  <2> QED BY <2>1, <2>2
<1> QED
  BY <1>1, <1>2, <1>3, <1>4, <1>5, <1>6, <1>7, <1>8, <1>9 DEF Next, ManagerStep

\* The invariant of the manager's judgement of the throughput.
THEOREM Invariance == Spec => []IInv
<1>1. IInv /\ [Next]_vars => IInv'
  BY TypeStep, NamedStep, NotMoreStep, NotLessStep, JudgedStep DEF IInv
<1> QED BY InitIInv, <1>1, PTL DEF Spec

-----------------------------------------------------------------------------
(* What a verdict stands for *)

\* A success stands for the target of events at every peer, whatever restarts,
\* mixed versions and missing metrics did to the counters.
THEOREM SuccessIsEarned == Spec => []SuccessEarned
<1>1. IInv => SuccessEarned
  <2> SUFFICES ASSUME IInv, verdict = "success", NEW p \in All
               PROVE  window[p] >= Target
    BY DEF SuccessEarned
  <2> USE ThroughputAssumption
  <2>1. \A q \in All : Gain(q) >= Target
    BY DEF IInv, Judged, MeetsThreshold
  <2>2. CASE Target = 0
    BY <2>2 DEF IInv, TypeOK
  <2>3. CASE Target > 0
    <3>1. \A q \in All : after[q] # None
      BY <2>1, <2>3 DEF Gain, OrZero, IInv, TypeOK, Count, None
    <3>2. Uniform
      BY <3>1 DEF IInv, Named, Uniform
    <3>3. after[p] <= OrZero(before[p]) + window[p]
      BY <3>1, <3>2 DEF IInv, NotMore, NotMoreAt
    <3> QED BY <3>1, <3>3, <2>1, <2>3 DEF Gain, OrZero, IInv, TypeOK, Count, None
  <2> QED BY <2>2, <2>3
<1> QED BY Invariance, <1>1, PTL

\* A failure of a run without restarts, failed requests and mixed versions is
\* due to a peer that missed the target during the run.
THEOREM FailureIsDeserved == Spec => []FailureDeserved
<1>1. IInv => FailureDeserved
  <2> SUFFICES ASSUME IInv, verdict = "failure", restarts = 0, failures = 0, Uniform
               PROVE  \E p \in All : inside[p] < Target
    BY DEF FailureDeserved, Uniform
  <2> USE ThroughputAssumption
  <2>1. stage = "judged" /\ k > Peers /\ ~ FallsBack(after) /\ ~ MeetsThreshold
    BY DEF IInv, Judged
  <2>2. PICK p \in All : ~ (Gain(p) >= Target)
    BY <2>1 DEF MeetsThreshold
  <2>3. OrZero(before[p]) + inside[p] <= OrZero(after[p])
    BY <2>1, AllAsked DEF IInv, NotLess, NotLessAt, SampledAgain
  <2> QED BY <2>2, <2>3 DEF Gain, OrZero, IInv, TypeOK, Count, None
<1> QED BY Invariance, <1>1, PTL

-----------------------------------------------------------------------------
(* The reported minimum *)

\* Every set of natural numbers has a least element.
LEMMA LeastNumber ==
  ASSUME NEW T, T \subseteq Nat, T # {}
  PROVE  \E m \in T : \A n \in T : m <= n
<1> DEFINE R == OpToRel(<, Nat)
<1>1. IsWellFoundedOn(R, Nat)
  BY NatLessThanWellFounded, Zenon
<1> HIDE DEF R
<1>2. PICK m \in T : \A n \in T : ~ (<<n, m>> \in R)
  BY <1>1, WFMin
<1>3. \A n \in T : ~ (n < m)
  BY <1>2 DEF OpToRel, R
<1> QED BY <1>3

\* Min is it.
LEMMA MinIsLeast ==
  ASSUME NEW T, T \subseteq Nat, T # {}
  PROVE  Min(T) \in T /\ \A n \in T : Min(T) <= n
BY LeastNumber DEF Min

\* Where every rate counts, the comparison of PeerRps::min finds the minimum,
\* although it is no order on rates that may be zero.
LEMMA ComparesWell ==
  ASSUME \A p \in All : Gain(p) \in Nat /\ Gain(p) > 0
  PROVE  MinRps = Min({Gain(p) : p \in All})
<1> USE ThroughputAssumption
<1> DEFINE G(p) == {Gain(q) : q \in 1 .. p}
           least == [p \in All |-> Min(G(p))]
           Turn(f, p) == IF p = 1 THEN Gain(1)
                         ELSE IF f[p - 1] > 0 /\ Gain(p) > 0
                         THEN Min({f[p - 1], Gain(p)}) ELSE Gain(p)
<1>1. \A p \in All : G(p) \subseteq Nat /\ Gain(p) \in G(p)
  BY DEF All
<1>2. \A p \in All : Min(G(p)) \in G(p) /\ \A n \in G(p) : Min(G(p)) <= n
  BY <1>1, MinIsLeast
<1>3. ASSUME NEW p \in All
      PROVE  Min(G(p)) = Turn(least, p)
  <2>1. CASE p = 1
    <3>1. G(1) = {Gain(1)}
      OBVIOUS
    <3> QED BY <2>1, <3>1, <1>2
  <2>2. CASE p # 1
    <3>1. p - 1 \in All /\ least[p - 1] = Min(G(p - 1))
      BY <2>2 DEF All
    <3>2. least[p - 1] \in G(p - 1) /\ \A n \in G(p - 1) : least[p - 1] <= n
      BY <3>1, <1>2
    <3>3. G(p) = G(p - 1) \cup {Gain(p)}
      <4>1. 1 .. p = (1 .. p - 1) \cup {p}
        BY DEF All
      <4> QED BY <4>1
    <3>4. least[p - 1] \in Nat /\ least[p - 1] > 0
      BY <3>1, <3>2, <1>1 DEF All
    <3>5. /\ Min({least[p - 1], Gain(p)}) \in {least[p - 1], Gain(p)}
          /\ Min({least[p - 1], Gain(p)}) <= least[p - 1]
          /\ Min({least[p - 1], Gain(p)}) <= Gain(p)
      BY <3>4, MinIsLeast
    <3> DEFINE m == Min({least[p - 1], Gain(p)})
               w == Min(G(p))
    <3>6. m \in G(p) /\ w \in G(p) /\ w <= m
      BY <3>2, <3>3, <3>5, <1>1, <1>2
    <3>7. m <= w
      <4> HIDE DEF G, least
      <4>1. w \in G(p - 1) \/ w = Gain(p)
        BY <3>3, <3>6
      <4>2. m \in Nat /\ w \in Nat
        BY <3>6, <1>1
      <4> HIDE DEF m, w
      <4>3. CASE w \in G(p - 1)
        <5>1. least[p - 1] <= w
          BY <3>2, <4>3
        <5> QED BY <5>1, <4>2, <3>4, <3>5 DEF m
      <4> QED BY <4>1, <4>3, <3>5 DEF m
    <3> HIDE DEF G, least
    <3>8. m \in Nat /\ w \in Nat
      BY <3>6, <1>1
    <3>9. m = w
      <4> HIDE DEF m, w
      <4> QED BY <3>6, <3>7, <3>8
    <3> QED BY <3>9, <3>4, <2>2
  <2> QED BY <2>1, <2>2
<1>4. least = [p \in All |-> Turn(least, p)]
  <2> HIDE DEF G
  <2> QED BY <1>3
<1>5. LeastUpTo = [p \in All |-> Turn(LeastUpTo, p)]
  <2>1. \E f : f = [p \in All |-> Turn(f, p)]
    BY <1>4
  <2>2. LeastUpTo = CHOOSE f : f = [p \in All |-> Turn(f, p)]
    BY DEF LeastUpTo
  <2> QED BY <2>1, <2>2
<1> HIDE DEF least
<1>6. {p \in All : LeastUpTo[p] # least[p]} = {}
  <2> SUFFICES ASSUME {p \in All : LeastUpTo[p] # least[p]} # {} PROVE FALSE
    OBVIOUS
  <2>1. PICK p \in All : /\ LeastUpTo[p] # least[p]
                         /\ \A q \in All : LeastUpTo[q] # least[q] => p <= q
    <3>1. {p \in All : LeastUpTo[p] # least[p]} \subseteq Nat
      BY DEF All
    <3> QED BY <3>1, LeastNumber
  <2>2. p # 1 => p - 1 \in All /\ LeastUpTo[p - 1] = least[p - 1]
    BY <2>1 DEF All
  <2>3. LeastUpTo[p] = Turn(LeastUpTo, p) /\ least[p] = Turn(least, p)
    BY <1>4, <1>5
  <2> QED BY <2>1, <2>2, <2>3
<1>7. Peers \in All
  BY DEF All
<1> QED BY <1>6, <1>7 DEF MinRps, least, All

\* The rate a success reports is the minimum of the peers', for any number of
\* them and any rates.
THEOREM SuccessReportsTheMinimum == Spec => []SuccessReportsMinimum
<1>1. IInv => SuccessReportsMinimum
  <2> SUFFICES ASSUME IInv, verdict = "success", Target > 0
               PROVE  MinRps = Min({Gain(p) : p \in All})
    BY DEF SuccessReportsMinimum
  <2>1. \A p \in All : Gain(p) \in Nat
    BY DEF Gain, OrZero, IInv, TypeOK, Count, None
  <2>2. \A p \in All : Gain(p) >= Target
    BY DEF IInv, Judged, MeetsThreshold
  <2> QED BY <2>1, <2>2, ComparesWell, ThroughputAssumption
<1> QED BY Invariance, <1>1, PTL
=============================================================================
