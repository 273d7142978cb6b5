------------------------- MODULE LoadGeneratorProofs -------------------------
(***************************************************************************)
(* TLAPS proofs about LoadGenerator, for any tasks, durations and sizes of *)
(* the channel and its batches: which results the collector may miss.      *)
(*                                                                         *)
(* Every request is counted, in the channel or with its task (Accounted).  *)
(* When the clock passes the buffer no task starts another request, so     *)
(* that from then on only what was in the channel or in front of it can be *)
(* missed, and what was waiting at that instant, one of each task (Missed).*)
(***************************************************************************)
EXTENDS LoadGenerator, FiniteSetTheorems, TLAPS

TaskStates == {"off", "ready", "waiting", "holding", "done", "aborted"}
Stages == {"file", "credentials", "peers", "model", "code", "index", "run", "exit", "failed"}

TypeOK ==
  /\ stage \in Stages
  /\ {clock, queue, asked, counted, backlog} \subseteq Nat
  /\ task \in [Tasks -> TaskStates]
  /\ since \in [Tasks -> Nat]

\* The tasks with a request that is neither in the channel nor counted.
InFlight == {t \in Tasks : task[t] \in {"waiting", "holding"}}

Late == {t \in Tasks : since[t] + Timeout + Lateness > Duration + Buffer}

Accounted ==
  stage \notin {"exit", "failed"} => asked = counted + queue + Cardinality(InFlight)

Missed ==
  (stage = "run" /\ Over) \/ stage = "exit" => asked - counted <= backlog + Cardinality(Late)

\* Before the run there are no tasks, and no time that counts.
NotYet ==
  stage \notin {"run", "exit"} => clock = 0 /\ \A t \in Tasks : task[t] = "off"

IInv == TypeOK /\ NotYet /\ Accounted /\ Missed

-----------------------------------------------------------------------------

\* Sets of tasks are finite.
LEMMA TasksFinite ==
  ASSUME NEW S, S \subseteq Tasks
  PROVE  IsFiniteSet(S) /\ Cardinality(S) \in Nat
BY LoadAssumption, FS_Subset, FS_CardinalityType

\* Every step keeps the types.
LEMMA TypeStep ==
  ASSUME TypeOK, [Next]_vars
  PROVE  TypeOK'
<1> USE LoadAssumption DEF TypeOK, Stages
<1>1. CASE SettingUp
  <2>1. CASE IndexModel
    BY <2>1 DEF IndexModel, TaskStates
  <2>2. CASE ~ IndexModel
    BY <1>1, <2>2 DEF SettingUp, SetUp, ParsePeers, InitializeConfig, ChoosePeers,
                      GenerateModel, GetAdminCode
  <2> QED BY <2>1, <2>2
<1>2. CASE Collect
  <2>1. Least(queue, Batch) \in Nat /\ queue - Least(queue, Batch) \in Nat
    BY DEF Least
  <2>2. task' \in [Tasks -> TaskStates]
    BY <1>2 DEF Collect, TaskStates
  <2> QED BY <1>2, <2>1, <2>2 DEF Collect
<1>3. CASE Tick
  <2>1. Cardinality(Sending) \in Nat
    BY TasksFinite DEF Sending
  <2> QED BY <1>3, <2>1 DEF Tick
<1>4. ASSUME NEW t \in Tasks, Check(t) PROVE TypeOK'
  BY <1>4 DEF Check, TaskStates
<1>5. ASSUME NEW t \in Tasks, Answer(t) PROVE TypeOK'
  BY <1>5 DEF Answer, TaskStates
<1>6. ASSUME NEW t \in Tasks, Send(t) PROVE TypeOK'
  BY <1>6 DEF Send, TaskStates
<1>7. CASE UNCHANGED vars
  BY <1>7 DEF vars
<1> QED
  BY <1>1, <1>2, <1>3, <1>4, <1>5, <1>6, <1>7 DEF Next, LocalStep, TimeOut

\* It holds at first: nothing was asked.
LEMMA InitIInv == Init => IInv
<1> SUFFICES ASSUME Init PROVE IInv
  OBVIOUS
<1>1. TypeOK
  BY DEF Init, TypeOK, Stages, TaskStates
<1>2. InFlight = {}
  BY DEF Init, InFlight
<1> QED BY <1>1, <1>2, FS_EmptySet DEF Init, IInv, NotYet, Accounted, Missed

\* Only a task that checks asks, only one that sends stops being in flight.
LEMMA FlightStep ==
  ASSUME IInv, [Next]_vars, stage' \notin {"exit", "failed"}
  PROVE  Accounted'
<1> USE LoadAssumption DEF IInv, Accounted
<1>0. IsFiniteSet(InFlight) /\ Cardinality(InFlight) \in Nat
  BY TasksFinite DEF InFlight
<1>1. CASE SettingUp
  <2>1. UNCHANGED <<asked, counted, queue>> /\ stage \notin {"exit", "failed"}
    BY <1>1 DEF SettingUp, SetUp, ParsePeers, InitializeConfig, ChoosePeers,
                GenerateModel, GetAdminCode, IndexModel
  <2>2. InFlight' = InFlight
    <3>1. CASE IndexModel
      BY <3>1 DEF IndexModel, InFlight, NotYet
    <3>2. CASE ~ IndexModel
      BY <1>1, <3>2 DEF SettingUp, SetUp, ParsePeers, InitializeConfig, ChoosePeers,
                        GenerateModel, GetAdminCode, InFlight
    <3> QED BY <3>1, <3>2
  <2> QED BY <2>1, <2>2
<1>2. CASE Collect
  <2>1. UNCHANGED <<stage, task, asked>> /\ stage = "run"
    BY <1>2 DEF Collect
  <2>2. InFlight' = InFlight
    BY <2>1 DEF InFlight
  <2>3. Least(queue, Batch) \in Nat
    BY DEF Least, TypeOK
  <2> QED BY <1>2, <2>1, <2>2, <2>3, <1>0 DEF Collect, TypeOK
<1>3. CASE Tick
  BY <1>3 DEF Tick, InFlight
<1>4. ASSUME NEW t \in Tasks, Check(t) PROVE Accounted'
  <2>1. CASE clock > Duration
    <3>1. InFlight' = InFlight
      BY <1>4, <2>1 DEF Check, InFlight, TypeOK
    <3> QED BY <1>4, <2>1, <3>1 DEF Check, TypeOK
  <2>2. CASE ~ (clock > Duration)
    <3>1. InFlight' = InFlight \cup {t} /\ t \notin InFlight
      BY <1>4, <2>2 DEF Check, InFlight, TypeOK
    <3>2. Cardinality(InFlight') = Cardinality(InFlight) + 1
      BY <3>1, <1>0, FS_AddElement
    <3>3. stage = "run" /\ asked' = asked + 1 /\ UNCHANGED <<counted, queue>>
      BY <1>4, <2>2 DEF Check, TypeOK
    <3> QED BY <3>2, <3>3, <1>0 DEF TypeOK
  <2> QED BY <2>1, <2>2
<1>5. ASSUME NEW t \in Tasks, Answer(t) PROVE Accounted'
  BY <1>5 DEF Answer, InFlight, TypeOK
<1>6. ASSUME NEW t \in Tasks, Send(t) PROVE Accounted'
  <2>1. InFlight' = InFlight \ {t} /\ t \in InFlight
    BY <1>6 DEF Send, InFlight, TypeOK
  <2>2. Cardinality(InFlight') = Cardinality(InFlight) - 1
    BY <2>1, <1>0, FS_RemoveElement
  <2>3. stage = "run" /\ queue' = queue + 1 /\ UNCHANGED <<counted, asked>>
    BY <1>6 DEF Send
  <2> QED BY <2>2, <2>3, <1>0 DEF TypeOK
<1>7. CASE UNCHANGED vars
  BY <1>7 DEF vars, InFlight
<1> QED
  BY <1>1, <1>2, <1>3, <1>4, <1>5, <1>6, <1>7 DEF Next, LocalStep, TimeOut

\* Past the buffer nobody asks, and the tick that gets there finds the channel
\* empty and each waiting request young enough to be counted among the late.
LEMMA MissedStep ==
  ASSUME IInv, [Next]_vars
  PROVE  Missed'
<1> USE LoadAssumption DEF IInv, Missed
<1>0. IsFiniteSet(Late) /\ Cardinality(Late) \in Nat
  BY TasksFinite DEF Late
<1>a. CASE SettingUp
  BY <1>a DEF SettingUp, SetUp, ParsePeers, InitializeConfig, ChoosePeers,
              GenerateModel, GetAdminCode, IndexModel, Over, NotYet, TypeOK
<1>2. CASE Collect
  <2>1. Late' = Late /\ (Over' <=> Over) /\ asked' = asked
    BY <1>2 DEF Collect, Late, Over
  <2>2. counted' \in Nat /\ counted' >= counted
    BY <1>2 DEF Collect, Least, TypeOK
  <2> QED BY <1>2, <2>1, <2>2, <1>0 DEF Collect, TypeOK
<1>3. CASE Tick
  <2>0. UNCHANGED <<stage, asked, counted>> /\ Late' = Late /\ stage = "run"
    BY <1>3 DEF Tick, Late
  <2>1. CASE Over
    BY <1>3, <2>0, <2>1 DEF Tick
  <2>2. CASE ~ Over /\ Over'
    <3> DEFINE Waiting == {t \in Tasks : task[t] = "waiting"}
    <3>1. Waiting \subseteq Late /\ InFlight = Waiting \cup Sending
      BY <1>3, <2>2 DEF Tick, InFlight, Sending, Late, Over, Lateness, TypeOK
    <3>2. /\ IsFiniteSet(Waiting) /\ Cardinality(Waiting) \in Nat
          /\ IsFiniteSet(Sending) /\ Cardinality(Sending) \in Nat
          /\ Cardinality(Waiting \cap Sending) \in Nat
      BY TasksFinite DEF Sending
    <3>3. Cardinality(Waiting) <= Cardinality(Late)
      BY <3>1, <1>0, FS_Subset
    <3>4. Cardinality(InFlight)
            = Cardinality(Waiting) + Cardinality(Sending) - Cardinality(Waiting \cap Sending)
      BY <3>1, <3>2, FS_Union
    <3>5. asked - counted = queue + Cardinality(InFlight) /\ queue \in Nat
      <4>1. Cardinality(InFlight) \in Nat
        BY TasksFinite DEF InFlight
      <4> QED BY <4>1, <1>3 DEF Tick, Accounted, TypeOK
    <3>6. backlog' = queue + Cardinality(Sending)
      BY <1>3, <2>2 DEF Tick
    <3> HIDE DEF Waiting
    <3> QED BY <2>0, <1>0, <3>2, <3>3, <3>4, <3>5, <3>6
  <2> QED BY <2>0, <2>1, <2>2
<1>4. ASSUME NEW t \in Tasks, Check(t) PROVE Missed'
  <2>1. Over => clock > Duration
    BY DEF Over, TypeOK
  <2>2. (Over' <=> Over) /\ stage = "run" /\ stage' = "run"
    BY <1>4 DEF Check, Over
  <2>4. counted' = counted /\ backlog' = backlog
    BY <1>4 DEF Check
  <2>3. Over => asked' = asked /\ Late' = Late
    BY <1>4, <2>1 DEF Check, Late, TypeOK
  <2> QED BY <2>2, <2>3, <2>4
<1>5. ASSUME NEW t \in Tasks, Answer(t) PROVE Missed'
  BY <1>5 DEF Answer, Over, Late
<1>6. ASSUME NEW t \in Tasks, Send(t) PROVE Missed'
  BY <1>6 DEF Send, Over, Late
<1>7. CASE UNCHANGED vars
  BY <1>7 DEF vars, Over, Late
<1> QED
  BY <1>a, <1>2, <1>3, <1>4, <1>5, <1>6, <1>7 DEF Next, LocalStep, TimeOut

\* Tasks are there from the run on.
LEMMA NotYetStep ==
  ASSUME IInv, [Next]_vars
  PROVE  NotYet'
BY DEF IInv, NotYet, TypeOK, Next, SettingUp, SetUp, ParsePeers, InitializeConfig, ChoosePeers,
       GenerateModel, GetAdminCode, IndexModel, Collect, Tick, LocalStep, Check, TimeOut, Answer,
       Send, vars

\* The invariant of the generator and its collector.
THEOREM Invariance == Spec => []IInv
<1>1. IInv /\ [Next]_vars => IInv'
  BY TypeStep, NotYetStep, FlightStep, MissedStep DEF IInv, Accounted
<1> QED BY InitIInv, <1>1, PTL DEF Spec

\* What the collector has not counted at the end was stuck in the channel or in
\* front of it when the buffer ended, or belongs to requests that were started so
\* late that a late timer falls beyond the buffer, at most one of each task,
\* however small the channel and the batches are.
THEOREM EarlyResultsAreCounted == Spec => []EarlyResultsCounted
<1>1. IInv => EarlyResultsCounted
  BY DEF IInv, Missed, EarlyResultsCounted, Late
<1> QED BY Invariance, <1>1, PTL
=============================================================================
