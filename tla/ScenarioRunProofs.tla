--------------------------- MODULE ScenarioRunProofs ---------------------------
(***************************************************************************)
(* TLAPS proofs about ScenarioRun, for any workers, users, targets, old    *)
(* documents and bounds: what users share, and what a success stands for.  *)
(*                                                                         *)
(* None of the properties is inductive.  SharedModels needs what a user    *)
(* holds at every place of the setup (TwoModels, OneModel) and that no id  *)
(* of an older run comes into a redis of its own (NothingOld).             *)
(* SuccessEarned needs that a worker has exactly one leader (Leaders), so  *)
(* that its two numbers are counts of one model at one node, in order      *)
(* (NumbersOf): their difference counts documents of this run.             *)
(* AnchoringSuccessEarned needs that each document of the lead worker is   *)
(* in the set or cost a failure (Judged), and that nobody adds one between *)
(* the two parts of the judgement (Over).                                  *)
(***************************************************************************)
EXTENDS ScenarioRun, TLAPS, FiniteSetTheorems, SequenceTheorems

Id == Models \cup {NoKey}
Ops == {"lead", "create", "publish", "read", "ensure", "index", "prepare", "subscribe",
        "before", "run", "ended", "panicked"}
Places == [op : Ops, size : Sizes]
Documents == 1 .. MaxDocs
Number == Int \cup {NoKey}
Verdicts == {"none", "waiting", "success", "failure", "panicked"}

UserTypes ==
  /\ firstUser \in [Workers -> BOOLEAN]
  /\ at \in [Users -> Places]
  /\ lead \in [Users -> BOOLEAN]
  /\ ids \in [Users -> [Sizes -> Id]]

StoreTypes ==
  redis \in [model : [Sizes -> Id],
            start : [Workers -> Number], end : [Workers -> Number],
            docs : SUBSET (Documents \cup {OldDoc})]

NodeTypes ==
  /\ synced \in [Workers -> SUBSET Sizes]
  /\ interests \in [Workers -> SUBSET Id]
  /\ made \in Seq(Id) /\ Len(made) <= MaxDocs
  /\ docs \in [Workers -> SUBSET (1 .. Len(made))]
  /\ anchors \in [Documents -> {"other", "failed"}]

RunTypes ==
  /\ scenario \in Scenarios /\ last \in Workers /\ stale \in BOOLEAN
  /\ stopped \in BOOLEAN /\ verdict \in Verdicts
  /\ failures \in 0 .. MaxFailures

TypeOK == UserTypes /\ StoreTypes /\ NodeTypes /\ RunTypes

\* In a redis of its own u holds the run's model of this size.
Holds(u, s) == ids[u][s] = "run"
\* ... and its node has it.
Shares(u, s) == Holds(u, s) /\ s \in synced[u[1]]

\* What a user of a redis of its own has got at each place of the setup of the
\* scenarios with two models.
TwoModels(u) ==
  LET op == at[u].op
      second == at[u].size = "large"
  IN  /\ op = "create" /\ second => Shares(u, "small")
      /\ op = "read" /\ second => Holds(u, "small")
      /\ op = "publish" => \A s \in Sizes : Shares(u, s)
      /\ op = "ensure" => /\ \A s \in Sizes : Holds(u, s)
                          /\ second => Shares(u, "small")
      /\ op \in {"index", "subscribe", "prepare", "before", "run", "ended"} =>
           \A s \in Sizes : Shares(u, s)

\* The same of reconSync, with its one model.
OneModel(u) ==
  /\ at[u].size = "small"
  /\ at[u].op \in {"lead", "publish", "read", "subscribe", "run", "ended", "panicked"}
  /\ at[u].op \in {"publish", "subscribe", "run", "ended"} => Holds(u, "small")

\* Nothing of an older run is around.
NothingOld ==
  /\ \A s \in Sizes : redis.model[s] # "old"
  /\ \A u \in Users, s \in Sizes : ids[u][s] # "old"

\* The setup, in a redis of its own.
OwnRedis ==
  ~ stale =>
    /\ NothingOld
    /\ \A u \in Users : IF scenario = "reconSync" THEN OneModel(u)
                        ELSE scenario # "cas" => TwoModels(u)

\* The first user of a worker leads it.
Leaders ==
  /\ \A u \in Users : lead[u] => ~ firstUser[u[1]]
  /\ \A u, v \in Users : lead[u] /\ lead[v] /\ u[1] = v[1] => u = v
  /\ \A w \in Workers : ~ firstUser[w] => \E u \in Users : u[1] = w /\ lead[u]
  /\ \A u \in Users : at[u].op # "lead" /\ scenario # "cas" => ~ firstUser[u[1]]
  /\ \A u \in Users : at[u].op = "lead" => ~ lead[u]
  /\ failures = 0 => \A u \in Users : at[u].op # "panicked"

\* The documents of u's large model at its node.
Of(u) == {d \in docs[u[1]] : made[d] = ids[u]["large"]}

\* What the count of u's node contains that is not of this run.
OldPart(u) == IF ids[u]["large"] = "old" THEN OldDocs ELSE 0

\* One of the two is needed: old ids, or failures, alone are harmless.
Earned == ~ stale \/ failures = 0

\* A worker without a leader has no numbers.
Unmeasured(w) == firstUser[w] => redis.start[w] = NoKey /\ redis.end[w] = NoKey

\* The numbers of a worker are its leader's, taken in order.
NumbersOf(u) ==
  LET w == u[1] IN
  lead[u] =>
    /\ redis.end[w] # NoKey => at[u].op = "ended"
    /\ redis.start[w] # NoKey => at[u].op \in {"run", "ended"}
    /\ Earned /\ redis.start[w] # NoKey =>
         /\ OldPart(u) <= redis.start[w] /\ redis.start[w] <= Count(u)
         /\ redis.end[w] # NoKey =>
              redis.start[w] <= redis.end[w] /\ redis.end[w] <= Count(u)
    /\ failures = 0 /\ at[u].op \in {"run", "ended"} => redis.start[w] # NoKey
    /\ failures = 0 /\ at[u].op = "ended" => redis.end[w] # NoKey

\* The numbers of newStreams.
Counts ==
  scenario = "newStreams" =>
    (\A w \in Workers : Unmeasured(w)) /\ (\A u \in Users : NumbersOf(u))

\* Its judgement.
JudgedCounts ==
  scenario = "newStreams" =>
    /\ verdict # "none" => Over
    /\ verdict = "success" => Measured # {} /\ \A w \in Measured : MeetsTarget(w)

\* The set of ids of the anchoring scenario, and its judgement.
Judged ==
  scenario = "anchoring" =>
    /\ \A w \in Workers : docs[w] \subseteq docs[1]
    /\ redis.docs \subseteq docs[1] \cup (IF stale THEN {OldDoc} ELSE {})
    /\ verdict # "none" => Over
    /\ verdict \in {"none", "waiting"} => Cardinality(docs[1] \ redis.docs) <= failures
    /\ verdict = "waiting" => redis.docs \ {OldDoc} \subseteq docs[last]
    /\ verdict = "success" =>
         /\ redis.docs = {}
         /\ Cardinality(docs[1] \ docs[last]) <= failures
         /\ docs[1] # {} \/ stale

\* The inductive invariant; Judged is added where the sample is the whole set.
IInv == TypeOK /\ OwnRedis /\ Leaders /\ Counts /\ JudgedCounts

-----------------------------------------------------------------------------
\* The places of a user.
LEMMA BeginPlace == \A op \in Ops : Begin(op) \in Places
BY DEF Begin, Places, Sizes

\* Advancing leads to a place.
LEMMA AdvanceType ==
  ASSUME UserTypes, NEW u \in Users, Advance(u),
         at[u].op \in {"create", "publish", "read", "ensure", "subscribe"}
  PROVE  at' \in [Users -> Places]
<1>1. at[u] \in Places
  BY DEF UserTypes
<1>2. FollowUp(u) \in Ops
  BY DEF FollowUp, Prepared, Load, Ops
<1>3. [at[u] EXCEPT !.size = "large"] \in Places
  BY <1>1 DEF Places, Sizes
<1> QED
  BY <1>1, <1>2, <1>3, BeginPlace DEF Advance, UserTypes

\* The set of documents of a scenario is bounded.
LEMMA DocumentsFinite ==
  /\ IsFiniteSet(Documents \cup {OldDoc})
  /\ Cardinality(Documents \cup {OldDoc}) = MaxDocs + 1
<1>1. MaxDocs \in Nat
  BY BenchmarkAssumption
<1>2. IsFiniteSet(Documents) /\ Cardinality(Documents) = MaxDocs
  BY <1>1, FS_Interval DEF Documents
<1>3. OldDoc \notin Documents
  BY <1>1 DEF Documents, OldDoc
<1> QED
  BY <1>2, <1>3, FS_AddElement

\* The count of u's node: documents of this run, and those of an older one.
LEMMA CountInt ==
  ASSUME TypeOK, NEW u \in Users
  PROVE  /\ Of(u) \subseteq docs[u[1]] /\ IsFiniteSet(docs[u[1]]) /\ IsFiniteSet(Of(u))
         /\ Cardinality(Of(u)) \in Nat /\ OldPart(u) \in Nat
         /\ Count(u) = Cardinality(Of(u)) + OldPart(u)
         /\ Count(u) \in Nat
<1>1. u[1] \in Workers /\ OldDocs \in Nat
  BY BenchmarkAssumption
<1>2. Of(u) \subseteq docs[u[1]] /\ docs[u[1]] \subseteq 1 .. Len(made)
  BY <1>1 DEF Of, TypeOK, NodeTypes
<1>3. IsFiniteSet(1 .. Len(made))
  BY LenProperties, FS_Interval DEF TypeOK, NodeTypes
<1>4. IsFiniteSet(docs[u[1]]) /\ IsFiniteSet(Of(u))
  BY <1>2, <1>3, FS_Subset
<1>5. Cardinality(Of(u)) \in Nat
  BY <1>4, FS_CardinalityType
<1>6. OldPart(u) \in Nat
  BY <1>1 DEF OldPart
<1>7. Count(u) = Cardinality(Of(u)) + OldPart(u)
  BY DEF Count, Of, OldPart
<1> QED
  BY <1>2, <1>4, <1>5, <1>6, <1>7

\* A new document has a number within the bound.
LEMMA AppendLen ==
  ASSUME TypeOK, NEW x \in Id, made' = Append(made, x), Len(made) < MaxDocs
  PROVE  Len(made') \in Documents
<1>1. Len(made') = Len(made) + 1 /\ Len(made) \in Nat /\ MaxDocs \in Nat
  BY AppendProperties, LenProperties, BenchmarkAssumption DEF TypeOK, NodeTypes
<1> QED
  BY <1>1 DEF Documents

\* Types of what the users hold.
LEMMA UserTypesStep == ASSUME TypeOK, Next PROVE UserTypes'
<1> USE BenchmarkAssumption DEF TypeOK, UserTypes
<1>1. ASSUME NEW u \in Users, Enter(u) PROVE UserTypes'
  <2>1. u[1] \in Workers
    OBVIOUS
  <2>2. \A op \in Ops : at' = [at EXCEPT ![u] = Begin(op)] => at' \in [Users -> Places]
    BY BeginPlace
  <2>3. at' \in [Users -> Places]
    <3>1. \E op \in Ops : at' = [at EXCEPT ![u] = Begin(op)]
      BY <1>1 DEF Enter, Ops
    <3> QED
      BY <2>2, <3>1
  <2>4. ids' \in [Users -> [Sizes -> Id]]
    <3>1. [ids[u] EXCEPT !["small"] = "run"] \in [Sizes -> Id]
      BY DEF Id, Models
    <3>2. ids' = ids \/ ids' = [ids EXCEPT ![u] = [ids[u] EXCEPT !["small"] = "run"]]
      BY <1>1 DEF Enter
    <3> QED
      BY <3>1, <3>2
  <2>5. firstUser' \in [Workers -> BOOLEAN] /\ lead' \in [Users -> BOOLEAN]
    BY <1>1, <2>1 DEF Enter, IsLeadUser
  <2> QED
    BY <2>3, <2>4, <2>5
<1>2. ASSUME NEW u \in Users, CreateModel(u) PROVE UserTypes'
  <2>1. at' \in [Users -> Places]
    BY <1>2, AdvanceType DEF CreateModel
  <2> QED
    BY <1>2, <2>1 DEF CreateModel, Id, Models, Sizes
<1>3. ASSUME NEW u \in Users, Publish(u) PROVE UserTypes'
  <2>1. at' \in [Users -> Places]
    BY <1>3, AdvanceType DEF Publish
  <2> QED
    BY <1>3, <2>1 DEF Publish
<1>4. ASSUME NEW u \in Users, ReadId(u) PROVE UserTypes'
  <2>1. at' \in [Users -> Places]
    BY <1>4, AdvanceType DEF ReadId
  <2>2. at[u].size \in Sizes /\ redis.model[at[u].size] \in Id
    BY DEF Places, StoreTypes
  <2> QED
    BY <1>4, <2>1, <2>2 DEF ReadId
<1>5. ASSUME NEW u \in Users, EnsureModel(u) PROVE UserTypes'
  <2>1. at' \in [Users -> Places]
    BY <1>5, AdvanceType DEF EnsureModel
  <2> QED
    BY <1>5, <2>1 DEF EnsureModel
<1>6. ASSUME NEW u \in Users,
             \/ IndexModels(u) \/ PrepareDocuments(u) \/ Panic(u)
             \/ StoreBefore(u) \/ StoreAfter(u) \/ End(u) \/ RequestAnchor(u)
      PROVE UserTypes'
  <2>1. \A op \in Ops : at' = [at EXCEPT ![u] = Begin(op)] => at' \in [Users -> Places]
    BY BeginPlace
  <2>2. Load \in Ops /\ Prepared \in Ops /\ {"subscribe", "run", "ended", "panicked"} \subseteq Ops
    BY DEF Load, Prepared, Ops
  <2>3. UNCHANGED <<firstUser, lead, ids>>
    BY <1>6 DEF IndexModels, PrepareDocuments, Panic, StoreBefore,
                StoreAfter, End, RequestAnchor
  <2>4. at' = at \/ \E op \in Ops : at' = [at EXCEPT ![u] = Begin(op)]
    BY <1>6, <2>2 DEF IndexModels, PrepareDocuments, Panic, StoreBefore,
                      StoreAfter, End, RequestAnchor
  <2> QED
    BY <2>1, <2>3, <2>4
<1>7. CASE UNCHANGED <<firstUser, user>>
  BY <1>7 DEF user
<1>8. ASSUME NEW u \in Users, SubscribeNode(u) PROVE UserTypes'
  <2>1. at' \in [Users -> Places]
    BY <1>8, AdvanceType DEF SubscribeNode
  <2> QED
    BY <1>8, <2>1 DEF SubscribeNode
<1> QED
  BY <1>1, <1>2, <1>3, <1>4, <1>5, <1>6, <1>7, <1>8
  DEF Next, UserStep, LoadStep, Manager, CreateDocument, CreateEvent, CreateStored,
      SyncDocument, SyncModel, AnchorFails, RunTimeOver, Judge, JudgeSync, JudgeAnchors,
      JudgeRequests, JudgeOthers


\* Types of redis.
LEMMA StoreTypesStep == ASSUME TypeOK, Next PROVE StoreTypes'
<1> USE BenchmarkAssumption DEF TypeOK, StoreTypes
<1>0. /\ redis.model \in [Sizes -> Id] /\ redis.start \in [Workers -> Number]
      /\ redis.end \in [Workers -> Number] /\ redis.docs \in SUBSET (Documents \cup {OldDoc})
  OBVIOUS
<1>7. \A d \in Documents :
        redis' = [redis EXCEPT !.docs = redis.docs \cup {d}] => StoreTypes'
  <2> TAKE d \in Documents
  <2>1. redis.docs \cup {d} \in SUBSET (Documents \cup {OldDoc})
    BY <1>0
  <2> QED
    BY <1>0, <2>1
<1>1. ASSUME NEW u \in Users, Publish(u) PROVE StoreTypes'
  <2>1. at[u].size \in Sizes /\ ids[u][at[u].size] \in Id
    BY DEF UserTypes, Places
  <2>2. redis' = [redis EXCEPT !.model = [redis.model EXCEPT ![at[u].size] = ids[u][at[u].size]]]
    BY <1>1 DEF Publish
  <2>3. [redis.model EXCEPT ![at[u].size] = ids[u][at[u].size]] \in [Sizes -> Id]
    BY <1>0, <2>1
  <2> QED
    BY <2>2, <2>3
<1>2. ASSUME NEW u \in Users, StoreBefore(u) \/ StoreAfter(u) PROVE StoreTypes'
  <2>1. u[1] \in Workers /\ Count(u) \in Number /\ 0 \in Number
    BY CountInt DEF Number
  <2>2. \A n \in Number : /\ [redis.start EXCEPT ![u[1]] = n] \in [Workers -> Number]
                          /\ [redis.end EXCEPT ![u[1]] = n] \in [Workers -> Number]
    BY <1>0, <2>1
  <2>3. CASE redis' = [redis EXCEPT !.start = [redis.start EXCEPT ![u[1]] = Count(u)]]
    BY <2>1, <2>2, <2>3
  <2>4. CASE redis' = [redis EXCEPT !.start = [redis.start EXCEPT ![u[1]] = 0]]
    BY <2>1, <2>2, <2>4
  <2>5. CASE redis' = [redis EXCEPT !.end = [redis.end EXCEPT ![u[1]] = Count(u)]]
    BY <2>1, <2>2, <2>5
  <2> QED
    BY <1>2, <2>3, <2>4, <2>5 DEF StoreBefore, StoreAfter
<1>3. ASSUME NEW u \in Users, CreateStored(u) PROVE StoreTypes'
  <2>1. Len(made') \in Documents
    <3>1. ids[u]["small"] \in Id
      BY DEF UserTypes, Sizes
    <3> QED
      BY <1>3, <3>1, AppendLen DEF CreateStored, Create
  <2> QED
    BY <1>7, <1>3, <2>1 DEF CreateStored
<1>4. ASSUME NEW u \in Users, RequestAnchor(u) PROVE StoreTypes'
  <2>1. Cardinality(redis.docs \ {OldDoc}) \in Nat
    BY <1>0, DocumentsFinite, FS_Subset, FS_CardinalityType
  <2>2. MaxDocs \in Nat
    OBVIOUS
  <2> QED
    <3>1. CASE UNCHANGED redis
      BY <3>1
    <3>2. CASE /\ Cardinality(redis.docs \ {OldDoc}) < MaxDocs
               /\ redis' = [redis EXCEPT !.docs =
                             redis.docs \cup {Cardinality(redis.docs \ {OldDoc}) + 1}]
      <4>1. Cardinality(redis.docs \ {OldDoc}) + 1 \in Documents
        BY <2>1, <2>2, <3>2 DEF Documents
      <4> QED
        BY <1>7, <3>2, <4>1
    <3> QED
      BY <1>4, <3>1, <3>2 DEF RequestAnchor
<1>5. CASE JudgeAnchors \/ JudgeRequests
  BY <1>0, <1>5 DEF JudgeAnchors, JudgeRequests, Remove
<1>6. CASE UNCHANGED redis
  BY <1>6
<1> QED
  BY <1>1, <1>2, <1>3, <1>4, <1>5, <1>6
  DEF Next, UserStep, LoadStep, Manager, Enter, CreateModel, ReadId, EnsureModel, IndexModels,
      PrepareDocuments, SubscribeNode, End, Panic, CreateDocument, CreateEvent, SyncDocument,
      SyncModel, AnchorFails, RunTimeOver, Judge, JudgeSync, JudgeOthers, nodes, user

\* A function of sets stays one if one of the sets grows.
LEMMA ExtendOne ==
  ASSUME NEW D, NEW R, NEW f \in [D -> SUBSET R], NEW x \in D, NEW m \in SUBSET R
  PROVE  [f EXCEPT ![x] = @ \cup m] \in [D -> SUBSET R]
OBVIOUS

\* Types of the nodes.
LEMMA NodeTypesStep == ASSUME TypeOK, Next PROVE NodeTypes'
<1> USE BenchmarkAssumption DEF TypeOK, NodeTypes
<1>1. ASSUME NEW u \in Users, CreateModel(u) PROVE NodeTypes'
  <2>1. at[u].size \in Sizes /\ u[1] \in Workers
    BY DEF UserTypes, Places
  <2> QED
    BY <1>1, <2>1 DEF CreateModel, documents
<1>2. ASSUME NEW u \in Users, SubscribeNode(u) PROVE NodeTypes'
  <2>1. u[1] \in Workers /\ at[u].size \in Sizes
    BY DEF UserTypes, Places
  <2>2. \A s \in Sizes : ids[u][s] \in Id
    BY DEF UserTypes
  <2> DEFINE m == {ids[u][at[u].size]}
  <2>3. interests \in [Workers -> SUBSET Id] /\ m \in SUBSET Id
    <3>1. interests \in [Workers -> SUBSET Id]
      OBVIOUS
    <3>2. ids[u][at[u].size] \in Id
      BY ONLY <2>1, <2>2
    <3> QED BY ONLY <3>1, <3>2
  <2>4. Subscribe(u) => interests' \in [Workers -> SUBSET Id]
    <3>1. Subscribe(u) => interests' = [interests EXCEPT ![u[1]] = @ \cup m]
      BY DEF Subscribe
    <3> HIDE DEF TypeOK, NodeTypes, Id, m
    <3>2. [interests EXCEPT ![u[1]] = @ \cup m] \in [Workers -> SUBSET Id]
      BY <2>1, <2>3, ExtendOne
    <3> QED
      BY <3>1, <3>2
  <2> QED
    BY <1>2, <2>3, <2>4 DEF SubscribeNode, documents
<1>3. ASSUME NEW u \in Users, CreateDocument(u) \/ CreateEvent(u) \/ CreateStored(u)
      PROVE NodeTypes'
  <2>1. PICK size \in Sizes : Create(u, size)
    BY <1>3 DEF CreateDocument, CreateEvent, CreateStored, Sizes
  <2>2. UNCHANGED <<synced, interests, anchors>>
    BY <1>3 DEF CreateDocument, CreateEvent, CreateStored
  <2>3. made' = Append(made, ids[u][size]) /\ ids[u][size] \in Id
    BY <2>1 DEF Create, UserTypes
  <2>4. made' \in Seq(Id) /\ Len(made') = Len(made) + 1 /\ Len(made) \in Nat
    BY <2>3, AppendProperties, LenProperties
  <2>5. Len(made') <= MaxDocs
    BY <2>1, <2>4 DEF Create
  <2>6. docs' \in [Workers -> SUBSET (1 .. Len(made'))]
    <3>1. \A w \in Workers : docs[w] \subseteq 1 .. Len(made')
      <4>1. 1 .. Len(made) \subseteq 1 .. Len(made')
        BY <2>4
      <4> QED
        BY <4>1
    <3>2. docs' = [docs EXCEPT ![1] = @ \cup {Len(made')}]
      BY <2>1 DEF Create
    <3>3. Len(made') \in 1 .. Len(made')
      BY <2>4
    <3> QED
      BY <3>1, <3>2, <3>3
  <2> QED
    BY <2>2, <2>4, <2>5, <2>6
<1>4. ASSUME NEW w \in Workers, NEW d, SyncDocument(w, d) PROVE NodeTypes'
  <2>1. d \in 1 .. Len(made) /\ docs \in [Workers -> SUBSET (1 .. Len(made))] /\ 1 \in Workers
    BY <1>4 DEF SyncDocument
  <2>2. docs' \in [Workers -> SUBSET (1 .. Len(made))]
    BY <1>4, <2>1 DEF SyncDocument
  <2>3. UNCHANGED <<synced, interests, made, anchors>>
    BY <1>4 DEF SyncDocument
  <2> QED
    BY <2>2, <2>3
<1>5. ASSUME NEW w \in Workers, NEW s \in Sizes, SyncModel(w, s) PROVE NodeTypes'
  BY <1>5 DEF SyncModel, documents
<1>6. ASSUME NEW d \in DOMAIN made, AnchorFails(d) PROVE NodeTypes'
  BY <1>6 DEF AnchorFails
<1>7. CASE UNCHANGED nodes
  BY <1>7 DEF nodes, documents
<1> QED
  BY <1>1, <1>2, <1>3, <1>4, <1>5, <1>6, <1>7
  DEF Next, UserStep, LoadStep, Manager, Enter, Publish, ReadId, EnsureModel,
      IndexModels, PrepareDocuments, StoreBefore, StoreAfter, End, Panic, RequestAnchor,
      RunTimeOver, Judge, JudgeSync, JudgeAnchors, JudgeRequests, JudgeOthers

\* A step leaves the failures alone or adds one.
LEMMA FailuresMove == ASSUME Next PROVE failures' = failures \/ Fails
<1>1. ASSUME NEW u \in Users, UserStep(u) PROVE failures' = failures \/ Fails
  <2>1. CASE Enter(u) \/ CreateModel(u) \/ Publish(u) \/ ReadId(u) \/ EnsureModel(u)
    BY <2>1 DEF Enter, CreateModel, Publish, ReadId, EnsureModel
  <2>2. CASE IndexModels(u) \/ PrepareDocuments(u) \/ SubscribeNode(u)
    BY <2>2 DEF IndexModels, PrepareDocuments, SubscribeNode
  <2>3. CASE StoreBefore(u) \/ StoreAfter(u) \/ End(u)
    BY <2>3 DEF StoreBefore, StoreAfter, End
  <2> QED
    BY <1>1, <2>1, <2>2, <2>3 DEF UserStep
<1>2. ASSUME NEW u \in Users, LoadStep(u) PROVE failures' = failures \/ Fails
  BY <1>2 DEF LoadStep, CreateDocument, CreateEvent, CreateStored, RequestAnchor
<1>3. CASE Manager
  BY <1>3 DEF Manager, Judge, JudgeSync, JudgeAnchors, JudgeRequests, JudgeOthers
<1> QED
  BY <1>1, <1>2, <1>3 DEF Next, Panic, SyncDocument, SyncModel, AnchorFails, RunTimeOver

\* Types of the rest.
LEMMA RunTypesStep == ASSUME TypeOK, Next PROVE RunTypes'
<1> USE BenchmarkAssumption DEF TypeOK, RunTypes
<1>1. failures' \in 0 .. MaxFailures
  <2>1. failures' = failures \/ Fails
    BY FailuresMove
  <2> QED
    BY <2>1 DEF Fails
<1>2. CASE Manager
  <2>1. UNCHANGED <<scenario, stale, stopped>> /\ last' \in Workers
    BY <1>2 DEF Manager, Judge, JudgeSync, JudgeAnchors, JudgeRequests, JudgeOthers
  <2>2. verdict' \in Verdicts
    BY <1>2 DEF Manager, Judge, JudgeSync, JudgeAnchors, JudgeRequests, JudgeOthers, Verdicts
  <2> QED
    BY <1>1, <2>1, <2>2
<1>3. CASE RunTimeOver
  BY <1>1, <1>3 DEF RunTimeOver
<1>4. CASE UNCHANGED <<scenario, last, stale, stopped, verdict>>
  BY <1>1, <1>4
<1> QED
  BY <1>2, <1>3, <1>4
  DEF Next, UserStep, LoadStep, Enter, CreateModel, Publish, ReadId, EnsureModel,
      IndexModels, SubscribeNode, CreateStored,
      PrepareDocuments, StoreBefore, StoreAfter, End, Panic, RequestAnchor, CreateDocument, CreateEvent,
      SyncDocument, SyncModel, AnchorFails
-----------------------------------------------------------------------------
\* The scenario and the age of the redis stay; nodes do not lose models.
LEMMA RunStep ==
  ASSUME TypeOK, Next
  PROVE  /\ UNCHANGED <<scenario, stale>>
         /\ \A w \in Workers : synced[w] \subseteq synced'[w]
<1> USE BenchmarkAssumption
<1>1. UNCHANGED <<scenario, stale>>
  BY DEF Next, UserStep, LoadStep, Manager, Enter, CreateModel, Publish, ReadId, EnsureModel,
         IndexModels, SubscribeNode, CreateStored, PrepareDocuments, StoreBefore, StoreAfter,
         End, Panic, RequestAnchor, CreateDocument, CreateEvent, SyncDocument, SyncModel,
         AnchorFails, RunTimeOver, Judge, JudgeSync, JudgeAnchors, JudgeRequests, JudgeOthers
<1>2. \/ synced' = synced
      \/ \E w \in Workers, s \in Sizes : synced' = [synced EXCEPT ![w] = @ \cup {s}]
  <2>1. ASSUME NEW u \in Users, CreateModel(u)
        PROVE  \E w \in Workers, s \in Sizes : synced' = [synced EXCEPT ![w] = @ \cup {s}]
    <3>1. u[1] \in Workers /\ at[u].size \in Sizes
      BY DEF TypeOK, UserTypes, Places
    <3> QED
      BY <2>1, <3>1 DEF CreateModel
  <2> QED
    BY <2>1
    DEF Next, UserStep, LoadStep, Manager, Enter, Publish, ReadId, EnsureModel,
         IndexModels, SubscribeNode, CreateStored, PrepareDocuments, StoreBefore, StoreAfter,
         End, Panic, RequestAnchor, CreateDocument, CreateEvent, SyncDocument, SyncModel,
         AnchorFails, RunTimeOver, Judge, JudgeSync, JudgeAnchors, JudgeRequests, JudgeOthers,
         nodes
<1>3. synced \in [Workers -> SUBSET Sizes]
  BY DEF TypeOK, NodeTypes
<1> QED
  BY <1>1, <1>2, <1>3

\* A step of one user leaves the others where they are, with what they hold.
LEMMA OneAtATime ==
  ASSUME TypeOK, NEW u \in Users, UserStep(u) \/ LoadStep(u) \/ Panic(u)
  PROVE  \A v \in Users \ {u} : at'[v] = at[v] /\ lead'[v] = lead[v] /\ ids'[v] = ids[v]
<1> USE DEF TypeOK, UserTypes
<1>1. \A v \in Users \ {u} : at'[v] = at[v]
  BY DEF UserStep, LoadStep, Enter, CreateModel, Publish, ReadId, EnsureModel, Advance,
         IndexModels, SubscribeNode, CreateStored, PrepareDocuments, StoreBefore, StoreAfter,
         End, Panic, RequestAnchor, CreateDocument, CreateEvent, user
<1>2. \A v \in Users \ {u} : lead'[v] = lead[v]
  BY DEF UserStep, LoadStep, Enter, CreateModel, Publish, ReadId, EnsureModel, IsLeadUser,
         IndexModels, SubscribeNode, CreateStored, PrepareDocuments, StoreBefore, StoreAfter,
         End, Panic, RequestAnchor, CreateDocument, CreateEvent, user
<1>3. \A v \in Users \ {u} : ids'[v] = ids[v]
  BY DEF UserStep, LoadStep, Enter, CreateModel, Publish, ReadId, EnsureModel,
         IndexModels, SubscribeNode, CreateStored, PrepareDocuments, StoreBefore, StoreAfter,
         End, Panic, RequestAnchor, CreateDocument, CreateEvent, user
<1> QED
  BY <1>1, <1>2, <1>3

\* From the small model to the large one, and on to the next operation.
LEMMA AdvancePlace ==
  ASSUME TypeOK, NEW u \in Users, Advance(u)
  PROVE  IF at[u].size = "small" /\ scenario # "reconSync"
           THEN at'[u].op = at[u].op /\ at'[u].size = "large"
           ELSE at'[u].op = FollowUp(u) /\ at'[u].size = "small"
<1>1. at \in [Users -> Places] /\ at[u] \in Places
  BY DEF TypeOK, UserTypes
<1>2. at'[u] = IF at[u].size = "small" /\ scenario # "reconSync"
                 THEN [at[u] EXCEPT !.size = "large"] ELSE Begin(FollowUp(u))
  BY <1>1 DEF Advance
<1> QED
  BY <1>1, <1>2 DEF Places, Begin

\* The place of a user that begins an operation.
LEMMA BeginAt ==
  ASSUME TypeOK, NEW u \in Users, NEW op, at' = [at EXCEPT ![u] = Begin(op)]
  PROVE  at'[u].op = op /\ at'[u].size = "small"
BY DEF Begin, TypeOK, UserTypes

\* An id of an older run comes only from an older id.
LEMMA NothingOldStep ==
  ASSUME TypeOK, OwnRedis, Next, ~ stale
  PROVE  NothingOld'
<1> USE DEF TypeOK
<1>0. NothingOld
  BY DEF OwnRedis
<1>1. \A s \in Sizes : redis'.model[s] # "old"
  <2>1. ASSUME NEW u \in Users, Publish(u) PROVE \A s \in Sizes : redis'.model[s] # "old"
    <3>1. at[u].size \in Sizes /\ ids[u][at[u].size] # "old"
      BY <1>0 DEF UserTypes, Places, NothingOld
    <3>2. redis'.model = [redis.model EXCEPT ![at[u].size] = ids[u][at[u].size]]
      BY <2>1 DEF Publish, StoreTypes
    <3> QED
      BY <1>0, <3>1, <3>2 DEF NothingOld, StoreTypes
  <2>2. CASE redis'.model = redis.model
    BY <1>0, <2>2 DEF NothingOld
  <2>3. \A u \in Users : StoreBefore(u) \/ StoreAfter(u) \/ CreateStored(u) \/ RequestAnchor(u)
                           => redis'.model = redis.model
    BY DEF StoreBefore, StoreAfter, CreateStored, RequestAnchor, StoreTypes
  <2>4. JudgeAnchors \/ JudgeRequests => redis'.model = redis.model
    BY DEF JudgeAnchors, JudgeRequests, Remove, StoreTypes
  <2> QED
    BY <2>1, <2>2, <2>3, <2>4
    DEF Next, UserStep, LoadStep, Manager, Enter, CreateModel, ReadId, EnsureModel,
         IndexModels, SubscribeNode, PrepareDocuments, 
         End, Panic, CreateDocument, CreateEvent, SyncDocument, SyncModel,
         AnchorFails, RunTimeOver, Judge, JudgeSync, JudgeOthers, user
<1>2. \A u \in Users, s \in Sizes : ids'[u][s] # "old"
  <2>1. ASSUME NEW u \in Users, Enter(u) \/ CreateModel(u) \/ ReadId(u) 
        PROVE \A s \in Sizes : ids'[u][s] # "old"
    <3>1. at[u].size \in Sizes /\ redis.model[at[u].size] # "old"
      BY <1>0 DEF UserTypes, Places, NothingOld
    <3>2. \/ ids'[u] = ids[u]
          \/ \E s \in Sizes, i \in {"run", redis.model[at[u].size]} : ids'[u] = [ids[u] EXCEPT ![s] = i]
      BY <2>1, <3>1 DEF Enter, CreateModel, ReadId, UserTypes, Sizes
    <3> QED
      BY <1>0, <3>1, <3>2 DEF NothingOld, UserTypes
  <2>2. ASSUME NEW u \in Users, UserStep(u) \/ LoadStep(u) \/ Panic(u)
        PROVE \A s \in Sizes : ids'[u][s] # "old"
    <3>1. CASE ids' = ids
      BY <1>0, <3>1 DEF NothingOld
    <3> QED
      BY <2>1, <2>2, <3>1
      DEF UserStep, LoadStep, Publish, EnsureModel, StoreBefore, StoreAfter, CreateStored,
         IndexModels, SubscribeNode, PrepareDocuments, RequestAnchor,
         End, Panic, CreateDocument, CreateEvent, user
  <2>3. CASE UNCHANGED user
    BY <1>0, <2>3 DEF NothingOld, user
  <2>4. ASSUME NEW u \in Users, UserStep(u) \/ LoadStep(u) \/ Panic(u)
        PROVE \A v \in Users, s \in Sizes : ids'[v][s] # "old"
    BY <1>0, <2>2, <2>4, OneAtATime DEF NothingOld
  <2> QED
    BY <2>3, <2>4
    DEF Next, Manager, SyncDocument, SyncModel,
         AnchorFails, RunTimeOver, Judge, JudgeSync, JudgeAnchors, JudgeRequests, JudgeOthers
<1> QED
  BY <1>1, <1>2 DEF NothingOld

\* The setup of reconSync keeps to its one model.
LEMMA OneModelStep ==
  ASSUME TypeOK, OwnRedis, Next, ~ stale, scenario = "reconSync"
  PROVE  \A u \in Users : OneModel(u)'
<1>1. NothingOld /\ \A u \in Users : OneModel(u)
  BY DEF OwnRedis
<1>2. ASSUME NEW u \in Users, UserStep(u) \/ LoadStep(u) \/ Panic(u) PROVE OneModel(u)'
  <2> USE <1>1, BeginAt, AdvancePlace DEF OneModel, Holds
  <2>1. CASE Enter(u)
    BY <2>1 DEF Enter, TypeOK, UserTypes, Sizes
  <2>2. CASE Publish(u)
    BY <2>2 DEF Publish, FollowUp
  <2>3. CASE ReadId(u)
    <3>1. redis.model["small"] = "run" /\ at[u].size = "small"
      BY <2>3 DEF ReadId, NothingOld, TypeOK, StoreTypes, Id, Models, Sizes
    <3>2. ids'[u]["small"] = "run"
      BY <2>3, <3>1 DEF ReadId, TypeOK, UserTypes, Sizes
    <3> QED
      BY <2>3, <3>2 DEF ReadId, FollowUp
  <2>4. CASE SubscribeNode(u)
    <3>1. at[u].op = "subscribe" /\ Advance(u) /\ ids' = ids
      BY <2>4 DEF SubscribeNode
    <3>2. at'[u].op = "run" /\ at'[u].size = "small"
      BY <3>1 DEF FollowUp, Prepared, Load
    <3> QED
      BY <3>1, <3>2
  <2>5. CASE End(u)
    <3>1. at'[u].op = "ended" /\ at'[u].size = "small" /\ ids' = ids
      <4>1. at' = [at EXCEPT ![u] = Begin("ended")] /\ ids' = ids
        BY <2>5 DEF End
      <4> QED
        BY <4>1, BeginAt
    <3> QED
      BY <2>5, <3>1 DEF End
  <2>6. CASE Panic(u)
    <3>1. at'[u].op = "panicked" /\ at'[u].size = "small" /\ ids' = ids
      <4>1. at' = [at EXCEPT ![u] = Begin("panicked")] /\ ids' = ids
        BY <2>6 DEF Panic
      <4> QED
        BY <4>1, BeginAt
    <3> QED
      BY <2>6, <3>1 DEF Panic
  <2>7. CASE UNCHANGED user
    BY <2>7 DEF user
  <2> QED
    BY <1>2, <2>1, <2>2, <2>3, <2>4, <2>5, <2>6, <2>7
    DEF UserStep, LoadStep, CreateModel, EnsureModel, IndexModels, PrepareDocuments, StoreBefore,
        StoreAfter, CreateDocument, CreateEvent, CreateStored, RequestAnchor
<1>3. ASSUME NEW u \in Users, UserStep(u) \/ LoadStep(u) \/ Panic(u)
      PROVE  \A v \in Users : OneModel(v)'
  BY <1>1, <1>2, <1>3, OneAtATime DEF OneModel, Holds
<1>4. CASE UNCHANGED user
  BY <1>1, <1>4 DEF OneModel, Holds, user
<1> QED
  BY <1>3, <1>4
  DEF Next, Manager, SyncDocument, SyncModel, AnchorFails, RunTimeOver, Judge, JudgeSync,
      JudgeAnchors, JudgeRequests, JudgeOthers

\* The setup of the scenarios with two models: one step per request.  What another
\* user holds stays, and a node that has a model keeps it.
LEMMA TwoModelsStep ==
  ASSUME TypeOK, OwnRedis, Next, ~ stale, scenario \notin {"reconSync", "cas"}
  PROVE  \A u \in Users : TwoModels(u)'
<1>0. NothingOld /\ \A u \in Users : TwoModels(u)
  BY DEF OwnRedis
<1>1. \A w \in Workers : synced[w] \subseteq synced'[w]
  BY RunStep
<1>2. \A u \in Users : at[u] \in Places /\ u[1] \in Workers /\ ids[u] \in [Sizes -> Id]
  BY BenchmarkAssumption DEF TypeOK, UserTypes
<1>3. ASSUME NEW v \in Users, at'[v] = at[v], ids'[v] = ids[v] PROVE TwoModels(v)'
  BY <1>0, <1>1, <1>2, <1>3 DEF TwoModels, Shares, Holds
<1>4. ASSUME NEW u \in Users, UserStep(u) \/ LoadStep(u) \/ Panic(u) PROVE TwoModels(u)'
  <2> USE <1>0, <1>1, <1>2, BeginAt, AdvancePlace DEF TwoModels, Shares, Holds, Sizes
  <2>1. CASE Enter(u)
    BY <2>1, SMTT(30) DEF Enter
  <2>2. CASE CreateModel(u)
    <3>1. /\ ids'[u] = [ids[u] EXCEPT ![at[u].size] = "run"]
          /\ synced'[u[1]] = synced[u[1]] \cup {at[u].size}
      BY <2>2 DEF CreateModel, TypeOK, UserTypes, NodeTypes
    <3> QED
      BY <2>2, <3>1 DEF CreateModel, FollowUp, Places
  <2>3. CASE Publish(u)
    BY <2>3 DEF Publish, FollowUp, Places
  <2>4. CASE ReadId(u)
    <3>1. redis.model[at[u].size] = "run"
      BY <2>4 DEF ReadId, NothingOld, TypeOK, StoreTypes, Id, Models, Places
    <3>2. ids'[u] = [ids[u] EXCEPT ![at[u].size] = "run"]
      BY <2>4, <3>1 DEF ReadId, TypeOK, UserTypes
    <3> QED
      BY <2>4, <3>2, SMTT(30) DEF ReadId, FollowUp, Places
  <2>5. CASE EnsureModel(u)
    <3>1. at[u].size \in synced[u[1]]
      BY <2>5 DEF EnsureModel, Has, NothingOld, Places
    <3> QED
      BY <2>5, <3>1 DEF EnsureModel, FollowUp, Places, Prepared, Load
  <2>6. CASE IndexModels(u) \/ PrepareDocuments(u)
    BY <2>6 DEF IndexModels, PrepareDocuments, Prepared, Load
  <2>s. CASE SubscribeNode(u)
    <3>1. at[u].op = "subscribe" /\ Advance(u) /\ ids' = ids
      BY <2>s DEF SubscribeNode
    <3>2. at'[u].op \in {"subscribe", "prepare", "before", "run"}
      BY <3>1 DEF FollowUp, Prepared, Load
    <3> QED
      BY <3>1, <3>2
  <2>7. CASE StoreBefore(u) \/ StoreAfter(u) \/ End(u)
    BY <2>7 DEF StoreBefore, StoreAfter, End
  <2>8. CASE Panic(u)
    <3>1. at'[u].op = "panicked"
      BY <2>8 DEF Panic
    <3> QED
      BY <3>1
  <2>9. CASE UNCHANGED user
    BY <1>3, <2>9 DEF user
  <2> QED
    BY <1>4, <2>1, <2>2, <2>3, <2>4, <2>5, <2>6, <2>s, <2>7, <2>8, <2>9
    DEF UserStep, LoadStep, CreateDocument, CreateEvent, CreateStored, RequestAnchor
<1>5. ASSUME NEW u \in Users, UserStep(u) \/ LoadStep(u) \/ Panic(u)
      PROVE  \A v \in Users : TwoModels(v)'
  BY <1>3, <1>4, <1>5, OneAtATime
<1>6. CASE UNCHANGED user
  BY <1>3, <1>6 DEF user
<1> QED
  BY <1>5, <1>6
  DEF Next, Manager, SyncDocument, SyncModel, AnchorFails, RunTimeOver, Judge, JudgeSync,
      JudgeAnchors, JudgeRequests, JudgeOthers

\* The invariant of a redis of its own.
LEMMA OwnRedisStep == ASSUME TypeOK, OwnRedis, Next PROVE OwnRedis'
BY RunStep, NothingOldStep, OneModelStep, TwoModelsStep DEF OwnRedis
-----------------------------------------------------------------------------
\* The failures are only counted up.
LEMMA FailuresStep ==
  ASSUME TypeOK, Next
  PROVE  /\ failures \in Nat /\ failures' \in {failures, failures + 1}
         /\ failures' = 0 => failures = 0
<1>1. failures' = failures \/ Fails
  BY FailuresMove
<1>2. failures \in Nat
  BY BenchmarkAssumption DEF TypeOK, RunTypes
<1> QED
  BY <1>1, <1>2 DEF Fails

\* After the first request users keep their role, and panic only at a failure.
LEMMA Moves ==
  ASSUME TypeOK, NEW u \in Users, UserStep(u) \/ LoadStep(u) \/ Panic(u), ~ Enter(u)
  PROVE  /\ UNCHANGED <<firstUser, lead>>
         /\ at[u].op # "lead" /\ at'[u].op # "lead"
         /\ at'[u].op = "panicked" /\ at[u].op # "panicked" => Fails
<1>1. UNCHANGED <<firstUser, lead>>
  BY DEF UserStep, LoadStep, CreateModel, Publish, ReadId, EnsureModel, user,
      IndexModels, SubscribeNode, CreateStored, Panic, RequestAnchor, CreateDocument, CreateEvent,
      PrepareDocuments, StoreBefore, StoreAfter, End
<1>2. CASE at' = at
  BY <1>2 DEF UserStep, LoadStep, CreateModel, Publish, ReadId, EnsureModel, user,
      IndexModels, SubscribeNode, CreateStored, Panic, RequestAnchor, CreateDocument, CreateEvent,
      PrepareDocuments, StoreBefore, StoreAfter, End, Create
<1>3. CASE CreateModel(u) \/ Publish(u) \/ ReadId(u) \/ EnsureModel(u) \/ SubscribeNode(u)
  <2>1. FollowUp(u) \notin {"lead", "panicked"} /\ at[u].op \notin {"lead", "panicked"}
    BY <1>3 DEF CreateModel, Publish, ReadId, EnsureModel, SubscribeNode, FollowUp, Prepared, Load
  <2> QED
    BY <1>1, <1>3, <2>1, AdvancePlace DEF CreateModel, Publish, ReadId, EnsureModel, SubscribeNode
<1>4. CASE \/ IndexModels(u) \/ PrepareDocuments(u)
           \/ StoreBefore(u) \/ StoreAfter(u) \/ End(u)
  <2>1. PICK op \in {Load, "subscribe", "run", "ended"} : at' = [at EXCEPT ![u] = Begin(op)]
    BY <1>4 DEF IndexModels, PrepareDocuments, StoreBefore, StoreAfter, End
  <2>2. op \notin {"lead", "panicked"}
    BY DEF Load
  <2>3. at[u].op # "lead"
    BY <1>4 DEF IndexModels, PrepareDocuments, StoreBefore, StoreAfter, End
  <2> QED
    BY <1>1, <2>1, <2>2, <2>3, BeginAt
<1>5. CASE Panic(u) \/ RequestAnchor(u)
  <2>1. at' = at \/ (Fails /\ at' = [at EXCEPT ![u] = Begin("panicked")])
    BY <1>5 DEF Panic, RequestAnchor
  <2>2. at[u].op # "lead"
    BY <1>5 DEF Panic, RequestAnchor
  <2> QED
    BY <1>1, <2>1, <2>2, BeginAt
<1> QED
  BY <1>2, <1>3, <1>4, <1>5
  DEF UserStep, LoadStep, CreateDocument, CreateEvent, CreateStored, user

\* The swap of FIRST_USER makes exactly one leader per worker.
LEMMA LeadersStep == ASSUME TypeOK, Leaders, Next PROVE Leaders'
<1>0. /\ failures' = 0 => failures = 0
      /\ Fails => failures' # 0
      /\ scenario' = scenario
  BY FailuresStep, RunStep DEF Fails
<1>1. ASSUME NEW u \in Users, Enter(u) PROVE Leaders'
  <2>1. /\ u[1] \in Workers /\ at[u].op = "lead" /\ ~ lead[u]
        /\ \A v \in Users : v[1] \in Workers
    BY <1>1, BenchmarkAssumption DEF Enter, Leaders
  <2>2. /\ lead'[u] = firstUser[u[1]] /\ ~ firstUser'[u[1]]
        /\ \A w \in Workers \ {u[1]} : firstUser'[w] = firstUser[w]
    BY <1>1, <2>1 DEF Enter, IsLeadUser, TypeOK, UserTypes
  <2>3. \A v \in Users \ {u} : at'[v] = at[v] /\ lead'[v] = lead[v]
    BY <1>1, OneAtATime DEF UserStep
  <2>4. at'[u].op \notin {"lead", "panicked"}
    <3>1. at' = [at EXCEPT ![u] = Begin("publish")] \/ at' = [at EXCEPT ![u] = Begin("create")]
          \/ at' = [at EXCEPT ![u] = Begin("read")]
      BY <1>1 DEF Enter
    <3> QED
      BY <3>1, BeginAt
  <2>5. \A v \in Users : lead'[v] => ~ firstUser'[v[1]]
    BY <2>1, <2>2, <2>3 DEF Leaders
  <2>6. \A v, x \in Users : lead'[v] /\ lead'[x] /\ v[1] = x[1] => v = x
    BY <2>1, <2>2, <2>3 DEF Leaders
  <2>7. \A w \in Workers : ~ firstUser'[w] => \E v \in Users : v[1] = w /\ lead'[v]
    BY <2>1, <2>2, <2>3 DEF Leaders
  <2>8. \A v \in Users : at'[v].op # "lead" /\ scenario # "cas" => ~ firstUser'[v[1]]
    BY <2>1, <2>2, <2>3 DEF Leaders
  <2>9. \A v \in Users : at'[v].op = "lead" => ~ lead'[v]
    BY <2>3, <2>4 DEF Leaders
  <2>10. failures' = 0 => \A v \in Users : at'[v].op # "panicked"
    BY <1>0, <2>3, <2>4 DEF Leaders
  <2> QED
    BY <1>0, <2>5, <2>6, <2>7, <2>8, <2>9, <2>10 DEF Leaders
<1>2. ASSUME NEW u \in Users, UserStep(u) \/ LoadStep(u) \/ Panic(u), ~ Enter(u)
      PROVE  Leaders'
  <2>1. \A v \in Users \ {u} : at'[v] = at[v]
    BY <1>2, OneAtATime
  <2>2. /\ UNCHANGED <<firstUser, lead>>
        /\ at[u].op # "lead" /\ at'[u].op # "lead"
        /\ at'[u].op = "panicked" /\ at[u].op # "panicked" => Fails
    BY <1>2, Moves
  <2>3. /\ \A v \in Users : at'[v].op # "lead" /\ scenario # "cas" => ~ firstUser'[v[1]]
        /\ \A v \in Users : at'[v].op = "lead" => ~ lead'[v]
    BY <2>1, <2>2 DEF Leaders
  <2>4. failures' = 0 => \A v \in Users : at'[v].op # "panicked"
    BY <1>0, <2>1, <2>2 DEF Leaders
  <2>5. /\ \A v \in Users : lead'[v] => ~ firstUser'[v[1]]
        /\ \A v, x \in Users : lead'[v] /\ lead'[x] /\ v[1] = x[1] => v = x
        /\ \A w \in Workers : ~ firstUser'[w] => \E v \in Users : v[1] = w /\ lead'[v]
    BY <2>2 DEF Leaders
  <2> QED
    BY <1>0, <2>3, <2>4, <2>5 DEF Leaders
<1>3. CASE UNCHANGED <<firstUser, user>>
  BY <1>0, <1>3 DEF Leaders, user
<1> QED
  BY <1>1, <1>2, <1>3
  DEF Next, Manager, SyncDocument, SyncModel, AnchorFails, RunTimeOver, Judge, JudgeSync,
      JudgeAnchors, JudgeRequests, JudgeOthers
-----------------------------------------------------------------------------
\* Documents stay where they are, and stay documents of their model.
LEMMA DocsGrow ==
  ASSUME TypeOK, Next
  PROVE  /\ \A w \in Workers : docs[w] \subseteq docs'[w]
         /\ Len(made) \in Nat /\ Len(made) <= Len(made')
         /\ \A d \in 1 .. Len(made) : made'[d] = made[d]
<1>0. docs \in [Workers -> SUBSET (1 .. Len(made))] /\ made \in Seq(Id) /\ Len(made) \in Nat
  BY LenProperties DEF TypeOK, NodeTypes
<1>1. ASSUME NEW u \in Users, NEW size, Create(u, size), size \in Sizes
      PROVE  /\ \A w \in Workers : docs[w] \subseteq docs'[w]
             /\ Len(made) <= Len(made')
             /\ \A d \in 1 .. Len(made) : made'[d] = made[d]
  <2>1. made' = Append(made, ids[u][size]) /\ ids[u][size] \in Id
    BY <1>1 DEF Create, TypeOK, UserTypes
  <2>2. Len(made') = Len(made) + 1 /\ \A d \in 1 .. Len(made) : made'[d] = made[d]
    BY <1>0, <2>1, AppendProperties
  <2>3. docs' = [docs EXCEPT ![1] = @ \cup {Len(made')}]
    BY <1>1 DEF Create
  <2> QED
    BY <1>0, <2>2, <2>3
<1>2. ASSUME NEW u \in Users, CreateDocument(u) \/ CreateEvent(u) \/ CreateStored(u)
      PROVE  \E size \in Sizes : Create(u, size)
  BY <1>2 DEF CreateDocument, CreateEvent, CreateStored, Sizes
<1>3. ASSUME NEW w \in Workers, NEW d, SyncDocument(w, d)
      PROVE  /\ \A x \in Workers : docs[x] \subseteq docs'[x]
             /\ made' = made
  BY <1>0, <1>3 DEF SyncDocument
<1>4. CASE UNCHANGED <<made, docs>>
  BY <1>0, <1>4
<1>5. \/ UNCHANGED <<made, docs>>
      \/ \E u \in Users : CreateDocument(u) \/ CreateEvent(u) \/ CreateStored(u)
      \/ \E w \in Workers, d \in DOMAIN made : SyncDocument(w, d)
  <2>1. ASSUME NEW u \in Users, UserStep(u) PROVE UNCHANGED <<made, docs>>
    BY <2>1 DEF UserStep, Enter, CreateModel, Publish, ReadId, EnsureModel, IndexModels,
      SubscribeNode, PrepareDocuments, StoreBefore, StoreAfter, End, nodes, documents
  <2>2. CASE Manager
    BY <2>2 DEF Manager, Judge, JudgeSync, JudgeAnchors, JudgeRequests, JudgeOthers, nodes, documents
  <2> QED
    BY <2>1, <2>2 DEF Next, LoadStep, RequestAnchor, Panic, SyncModel, AnchorFails, RunTimeOver,
      nodes, documents
<1> QED
  BY <1>0, <1>1, <1>2, <1>3, <1>4, <1>5

\* The count of a user that keeps its models does not shrink.
LEMMA CountGrows ==
  ASSUME TypeOK, TypeOK', Next, NEW u \in Users, ids'[u] = ids[u]
  PROVE  /\ OldPart(u)' = OldPart(u) /\ OldPart(u) \in Nat
         /\ Count(u) \in Nat /\ Count(u)' \in Nat /\ Count(u) <= Count(u)'
<1>1. u[1] \in Workers
  BY BenchmarkAssumption
<1>2. OldPart(u)' = OldPart(u)
  BY DEF OldPart
<1>3. Of(u) \subseteq Of(u)'
  <2>1. docs[u[1]] \subseteq 1 .. Len(made)
    BY <1>1 DEF TypeOK, NodeTypes
  <2> QED
    BY <1>1, <2>1, DocsGrow DEF Of
<1>4. IsFiniteSet(Of(u)')
  <2>1. docs'[u[1]] \subseteq 1 .. Len(made') /\ Len(made') \in Nat
    BY <1>1, LenProperties DEF TypeOK, NodeTypes
  <2>2. IsFiniteSet(1 .. Len(made'))
    BY <2>1, FS_Interval
  <2>3. Of(u)' \subseteq 1 .. Len(made')
    BY <2>1 DEF Of
  <2> QED
    BY <2>2, <2>3, FS_Subset
<1>5. Cardinality(Of(u)) <= Cardinality(Of(u)') /\ Cardinality(Of(u)') \in Nat
  BY <1>3, <1>4, FS_Subset, FS_CardinalityType
<1>6. Count(u)' = Cardinality(Of(u)') + OldPart(u)'
  BY DEF Count, Of, OldPart
<1> QED
  BY <1>2, <1>5, <1>6, CountInt

\* What is true of the numbers of a worker stays true while its leader rests.
LEMMA NumbersKept ==
  ASSUME TypeOK, TypeOK', Next, NEW u \in Users, NumbersOf(u),
         at'[u] = at[u], lead'[u] = lead[u], ids'[u] = ids[u],
         redis'.start[u[1]] = redis.start[u[1]], redis'.end[u[1]] = redis.end[u[1]]
  PROVE  NumbersOf(u)'
<1>1. Earned' => Earned
  BY FailuresStep, RunStep DEF Earned
<1>2. /\ OldPart(u)' = OldPart(u)
      /\ Count(u) \in Nat /\ Count(u)' \in Nat /\ Count(u) <= Count(u)'
  BY CountGrows
<1>3. redis.start[u[1]] \in Number /\ redis.end[u[1]] \in Number /\ NoKey \notin Int
  BY BenchmarkAssumption DEF TypeOK, StoreTypes
<1>4. failures' = 0 => failures = 0
  BY FailuresStep
<1> QED
  BY <1>1, <1>2, <1>3, <1>4 DEF NumbersOf, Number

\* Only the leader of a worker stores its numbers.
LEMMA NumbersStored ==
  ASSUME TypeOK, Next, NEW w \in Workers
  PROVE  \/ redis'.start[w] = redis.start[w] /\ redis'.end[w] = redis.end[w]
         \/ \E u \in Users : u[1] = w /\ lead[u] /\ (StoreBefore(u) \/ StoreAfter(u))
<1>0. redis.start \in [Workers -> Number] /\ redis.end \in [Workers -> Number]
  BY DEF TypeOK, StoreTypes
<1>1. ASSUME NEW u \in Users, StoreBefore(u) \/ StoreAfter(u)
      PROVE  \/ redis'.start[w] = redis.start[w] /\ redis'.end[w] = redis.end[w]
             \/ u[1] = w /\ lead[u]
  <2>1. CASE ~ lead[u]
    BY <1>1, <2>1 DEF StoreBefore, StoreAfter, Reports
  <2>2. CASE u[1] # w
    BY <1>0, <1>1, <2>2 DEF StoreBefore, StoreAfter, TypeOK, StoreTypes
  <2> QED
    BY <2>1, <2>2
<1>2. ASSUME UNCHANGED <<redis.start, redis.end>>
      PROVE  redis'.start[w] = redis.start[w] /\ redis'.end[w] = redis.end[w]
  BY <1>2
<1>3. ASSUME NEW u \in Users, Publish(u) \/ CreateStored(u) \/ RequestAnchor(u)
      PROVE  redis'.start[w] = redis.start[w] /\ redis'.end[w] = redis.end[w]
  BY <1>3 DEF Publish, CreateStored, RequestAnchor, TypeOK, StoreTypes
<1>4. ASSUME JudgeAnchors \/ JudgeRequests
      PROVE  redis'.start[w] = redis.start[w] /\ redis'.end[w] = redis.end[w]
  BY <1>4 DEF JudgeAnchors, JudgeRequests, Remove, TypeOK, StoreTypes
<1>5. CASE redis' = redis
  BY <1>5
<1> QED
  BY <1>1, <1>3, <1>4, <1>5
  DEF Next, UserStep, LoadStep, Manager, Enter, CreateModel, ReadId, EnsureModel,
      IndexModels, SubscribeNode, PrepareDocuments, End, Panic, CreateDocument, CreateEvent,
      SyncDocument, SyncModel, AnchorFails, RunTimeOver, Judge, JudgeSync, JudgeOthers,
      nodes, user

\* The numbers of newStreams: the only steps that matter are StoreBefore and
\* StoreAfter of the leader, and every other one keeps what NumbersOf says.
LEMMA CountsStep ==
  ASSUME IInv, TypeOK', Next
  PROVE  Counts'
<1> SUFFICES ASSUME scenario = "newStreams"
             PROVE  /\ \A w \in Workers : Unmeasured(w)'
                    /\ \A u \in Users : NumbersOf(u)'
  BY RunStep DEF Counts, IInv
<1>0. TypeOK /\ OwnRedis /\ Leaders /\ scenario' = scenario
  BY RunStep DEF IInv
<1>1. (\A w \in Workers : Unmeasured(w)) /\ (\A u \in Users : NumbersOf(u))
  BY DEF IInv, Counts
<1>2. \A u \in Users : u[1] \in Workers
  BY BenchmarkAssumption
<1>3. ASSUME NEW w \in Workers PROVE Unmeasured(w)'
  <2>1. firstUser'[w] => firstUser[w]
    <3>1. ASSUME NEW u \in Users, Enter(u) PROVE firstUser'[w] => firstUser[w]
      BY <1>0, <1>2, <3>1 DEF Enter, IsLeadUser, TypeOK, UserTypes
    <3>2. ASSUME NEW u \in Users, UserStep(u) \/ LoadStep(u) \/ Panic(u)
          PROVE  firstUser'[w] => firstUser[w]
      BY <1>0, <3>1, <3>2, Moves
    <3> QED
      BY <3>2
      DEF Next, Manager, SyncDocument, SyncModel, AnchorFails, RunTimeOver, Judge, JudgeSync,
          JudgeAnchors, JudgeRequests, JudgeOthers
  <2>2. firstUser[w] => redis'.start[w] = redis.start[w] /\ redis'.end[w] = redis.end[w]
    BY <1>0, NumbersStored DEF Leaders
  <2> QED
    BY <1>1, <2>1, <2>2 DEF Unmeasured
<1>4. ASSUME NEW u \in Users, UserStep(u) \/ LoadStep(u) \/ Panic(u),
             NEW v \in Users \ {u}
      PROVE  NumbersOf(v)'
  <2>1. at'[v] = at[v] /\ lead'[v] = lead[v] /\ ids'[v] = ids[v]
    BY <1>0, <1>4, OneAtATime
  <2>2. CASE ~ lead[v]
    BY <2>1, <2>2 DEF NumbersOf
  <2>3. CASE lead[v]
    <3>1. redis'.start[v[1]] = redis.start[v[1]] /\ redis'.end[v[1]] = redis.end[v[1]]
      <4>1. ASSUME NEW x \in Users, x[1] = v[1], lead[x], StoreBefore(x) \/ StoreAfter(x)
            PROVE  FALSE
        <5>1. x = v
          BY <1>0, <2>3, <4>1 DEF Leaders
        <5>2. at'[v] # at[v]
          <6>1. at[v].op \in {"before", "run"} /\ at'[v].op \in {"run", "ended"} /\ at'[v].op # at[v].op
            <7>1. CASE StoreBefore(v)
              <8>1. at' = [at EXCEPT ![v] = Begin("run")] /\ at[v].op = "before"
                BY <7>1 DEF StoreBefore
              <8>2. at'[v].op = "run"
                BY <1>0, <8>1, BeginAt
              <8> QED
                BY <8>1, <8>2
            <7>2. CASE StoreAfter(v)
              <8>1. at' = [at EXCEPT ![v] = Begin("ended")] /\ at[v].op = "run"
                BY <7>2 DEF StoreAfter
              <8>2. at'[v].op = "ended"
                BY <1>0, <8>1, BeginAt
              <8> QED
                BY <8>1, <8>2
            <7> QED
              BY <4>1, <5>1, <7>1, <7>2
          <6> QED
            BY <6>1
        <5> QED
          BY <2>1, <5>2
      <4> QED
        BY <1>0, <1>2, <4>1, NumbersStored
    <3> QED
      BY <1>0, <1>1, <2>1, <3>1, NumbersKept
  <2> QED
    BY <2>2, <2>3
<1>5. ASSUME NEW u \in Users, UserStep(u) \/ LoadStep(u) \/ Panic(u)
      PROVE  NumbersOf(u)'
  <2>0. /\ redis.start[u[1]] \in Number /\ redis.end[u[1]] \in Number /\ NoKey \notin Int
        /\ redis.start \in [Workers -> Number] /\ redis.end \in [Workers -> Number]
    BY <1>0, <1>2, BenchmarkAssumption DEF TypeOK, StoreTypes
  <2>1. CASE Enter(u)
    <3>1. lead'[u] => redis.start[u[1]] = NoKey /\ redis.end[u[1]] = NoKey
      BY <1>0, <1>1, <1>2, <2>1 DEF Enter, IsLeadUser, Unmeasured, TypeOK, UserTypes
    <3>2. at'[u].op \notin {"run", "ended"}
      <4>1. at' = [at EXCEPT ![u] = Begin("publish")] \/ at' = [at EXCEPT ![u] = Begin("create")]
            \/ at' = [at EXCEPT ![u] = Begin("read")]
        BY <2>1 DEF Enter
      <4> QED
        BY <1>0, <4>1, BeginAt
    <3>3. redis' = redis
      BY <2>1 DEF Enter
    <3> QED
      BY <3>1, <3>2, <3>3 DEF NumbersOf
  <2>2. CASE CreateModel(u) \/ Publish(u) \/ ReadId(u) \/ EnsureModel(u) \/ SubscribeNode(u)
    <3>1. /\ at[u].op \in {"create", "publish", "read", "ensure", "subscribe"}
          /\ Advance(u) /\ lead' = lead
      BY <2>2 DEF CreateModel, Publish, ReadId, EnsureModel, SubscribeNode
    <3>2. at'[u].op \notin {"run", "ended"}
      BY <1>0, <3>1, AdvancePlace DEF FollowUp, Prepared, Load
    <3>3. redis'.start = redis.start /\ redis'.end = redis.end
      BY <1>0, <2>2 DEF CreateModel, Publish, ReadId, EnsureModel, SubscribeNode, TypeOK, StoreTypes
    <3> QED
      BY <1>1, <3>1, <3>2, <3>3 DEF NumbersOf
  <2>3. CASE IndexModels(u) \/ PrepareDocuments(u) \/ Panic(u)
    <3>1. /\ at[u].op \in {"create", "publish", "read", "ensure", "index", "prepare"}
          /\ lead' = lead
      BY <2>3 DEF IndexModels, PrepareDocuments, Panic
    <3>2. at'[u].op \notin {"run", "ended"}
      <4>1. PICK op \in {"before", "subscribe", "panicked"} : at' = [at EXCEPT ![u] = Begin(op)]
        BY <2>3 DEF IndexModels, PrepareDocuments, Panic, Load
      <4> QED
        BY <1>0, <4>1, BeginAt
    <3>3. redis' = redis
      BY <2>3 DEF IndexModels, PrepareDocuments, Panic
    <3> QED
      BY <1>1, <3>1, <3>2, <3>3 DEF NumbersOf
  <2>4. CASE StoreBefore(u)
    <3> SUFFICES ASSUME lead'[u] PROVE NumbersOf(u)'
      BY DEF NumbersOf
    <3>1. at[u].op = "before" /\ lead[u] /\ at'[u].op = "run" /\ ids' = ids
      BY <1>0, <2>4, BeginAt DEF StoreBefore
    <3>2. redis.start[u[1]] = NoKey /\ redis.end[u[1]] = NoKey
      BY <1>1, <3>1 DEF NumbersOf
    <3>3. redis'.end[u[1]] = NoKey
      BY <1>0, <2>4, <3>2 DEF StoreBefore, TypeOK, StoreTypes
    <3>4. \/ redis'.start[u[1]] = Count(u)
          \/ redis'.start[u[1]] \in {0, NoKey} /\ Fails
      BY <1>0, <1>2, <2>0, <2>4, <3>1, <3>2 DEF StoreBefore, TypeOK, StoreTypes
    <3>5. Fails => failures' # 0
      BY <1>0, FailuresStep DEF Fails
    <3>6. ~ stale => OldPart(u) = 0
      BY <1>0 DEF OwnRedis, NothingOld, OldPart, Sizes
    <3>7. /\ OldPart(u)' = OldPart(u) /\ OldPart(u) \in Nat
          /\ Count(u) \in Nat /\ Count(u)' \in Nat /\ Count(u) <= Count(u)'
      BY <1>0, <3>1, CountGrows
    <3>8. OldPart(u) <= Count(u)
      BY <1>0, CountInt
    <3>9. Earned' => ~ stale \/ failures' = 0
      BY RunStep, <1>0 DEF Earned
    <3> QED
      BY <2>0, <3>1, <3>3, <3>4, <3>5, <3>6, <3>7, <3>8, <3>9 DEF NumbersOf
  <2>5. CASE StoreAfter(u)
    <3> SUFFICES ASSUME lead'[u] PROVE NumbersOf(u)'
      BY DEF NumbersOf
    <3>1. at[u].op = "run" /\ lead[u] /\ at'[u].op = "ended" /\ ids' = ids
      BY <1>0, <2>5, BeginAt DEF StoreAfter
    <3>2. redis.end[u[1]] = NoKey
      BY <1>1, <3>1 DEF NumbersOf
    <3>3. redis'.start[u[1]] = redis.start[u[1]]
      BY <1>0, <2>5 DEF StoreAfter, TypeOK, StoreTypes
    <3>4. \/ redis'.end[u[1]] = Count(u)
          \/ redis'.end[u[1]] = NoKey /\ Fails
      BY <1>0, <1>2, <2>0, <2>5, <3>1, <3>2 DEF StoreAfter, Reports, TypeOK, StoreTypes
    <3>5. Fails => failures' # 0
      BY <1>0, FailuresStep DEF Fails
    <3>7. /\ OldPart(u)' = OldPart(u) /\ OldPart(u) \in Nat
          /\ Count(u) \in Nat /\ Count(u)' \in Nat /\ Count(u) <= Count(u)'
      BY <1>0, <3>1, CountGrows
    <3>8. (Earned' => Earned) /\ (failures' = 0 => failures = 0)
      BY <1>0, FailuresStep, RunStep DEF Earned
    <3> QED
      BY <1>1, <2>0, <3>1, <3>2, <3>3, <3>4, <3>5, <3>7, <3>8 DEF NumbersOf, Number
  <2>6. CASE UNCHANGED user /\ redis'.start = redis.start /\ redis'.end = redis.end
    BY <1>0, <1>1, <2>6, NumbersKept DEF user
  <2>7. CASE CreateDocument(u)
    BY <2>6, <2>7 DEF CreateDocument
  <2> QED
    BY <1>5, <2>1, <2>2, <2>3, <2>4, <2>5, <2>7
    DEF UserStep, LoadStep, End, CreateEvent, CreateStored, RequestAnchor
<1>6. ASSUME UNCHANGED user, UNCHANGED redis, NEW u \in Users PROVE NumbersOf(u)'
  BY <1>0, <1>1, <1>6, NumbersKept DEF user
<1>7. \A u \in Users : NumbersOf(u)'
  BY <1>4, <1>5, <1>6
  DEF Next, Manager, SyncDocument, SyncModel, AnchorFails, RunTimeOver, Judge, JudgeSync,
      JudgeAnchors, JudgeRequests, JudgeOthers, nodes
<1> QED
  BY <1>3, <1>7
-----------------------------------------------------------------------------
\* Once every user is through nobody moves or stores any more.
LEMMA OverQuiet ==
  ASSUME TypeOK, Over, Next
  PROVE  /\ Over' /\ UNCHANGED <<firstUser, user, made>>
         /\ redis'.start = redis.start /\ redis'.end = redis.end
         /\ \A u \in Users : ~ (UserStep(u) \/ LoadStep(u) \/ Panic(u))
<1>1. \A u \in Users : at[u].op \in {"ended", "panicked"}
  BY DEF Over
<1>2. ASSUME NEW u \in Users, UserStep(u) \/ LoadStep(u) \/ Panic(u) PROVE FALSE
  BY <1>1, <1>2
  DEF Over, UserStep, LoadStep, Enter, CreateModel, Publish, ReadId, EnsureModel,
      IndexModels, SubscribeNode, CreateStored, Panic, RequestAnchor, CreateDocument, CreateEvent,
      PrepareDocuments, StoreBefore, StoreAfter, End, Create
<1>3. UNCHANGED <<firstUser, user, made, stopped>>
  BY <1>2
  DEF Over, Next, Manager, SyncDocument, SyncModel, AnchorFails, RunTimeOver, Judge, JudgeSync,
      JudgeAnchors, JudgeRequests, JudgeOthers, nodes, documents
<1>4. redis'.start = redis.start /\ redis'.end = redis.end
  <2>1. CASE JudgeAnchors \/ JudgeRequests
    BY <2>1 DEF JudgeAnchors, JudgeRequests, Remove, TypeOK, StoreTypes
  <2>2. CASE redis' = redis
    BY <2>2
  <2> QED
    BY <1>2, <2>1, <2>2
    DEF Next, Manager, SyncDocument, SyncModel, AnchorFails, RunTimeOver, Judge, JudgeSync,
        JudgeOthers, nodes
<1> QED
  BY <1>2, <1>3, <1>4 DEF Over, user

\* The judgement of newStreams comes after the users, and stays true.
LEMMA JudgedCountsStep ==
  ASSUME IInv, Next
  PROVE  JudgedCounts'
<1> SUFFICES ASSUME scenario = "newStreams"
             PROVE  /\ verdict' # "none" => Over'
                    /\ verdict' = "success" => Measured' # {} /\ \A w \in Measured' : MeetsTarget(w)'
  BY RunStep DEF JudgedCounts, IInv
<1>0. TypeOK /\ JudgedCounts
  BY DEF IInv
<1>1. verdict # "none" => Over
  BY <1>0 DEF JudgedCounts
<1>2. CASE Over
  <2>1. Over' /\ redis'.start = redis.start /\ redis'.end = redis.end
    BY <1>0, <1>2, OverQuiet
  <2>2. Measured' = Measured /\ \A w \in Workers : MeetsTarget(w)' <=> MeetsTarget(w)
    BY <2>1 DEF Measured, MeetsTarget
  <2>3. CASE Judge
    BY <2>1, <2>2, <2>3 DEF Judge, Measured
  <2>4. CASE verdict' = verdict
    BY <1>0, <2>1, <2>2, <2>4 DEF JudgedCounts, Measured
  <2>5. Judge \/ verdict' = verdict
    BY DEF Next, UserStep, LoadStep, Manager, Enter, CreateModel, Publish, ReadId, EnsureModel,
      IndexModels, SubscribeNode, CreateStored, PrepareDocuments, StoreBefore, StoreAfter, End,
      Panic, RequestAnchor, CreateDocument, CreateEvent, SyncDocument, SyncModel, AnchorFails,
      RunTimeOver, JudgeSync, JudgeAnchors, JudgeRequests, JudgeOthers
  <2> QED
    BY <2>3, <2>4, <2>5
<1>3. CASE ~ Over
  <2>1. verdict = "none"
    BY <1>1, <1>3
  <2>2. verdict' = verdict
    BY <1>3 DEF Next, UserStep, LoadStep, Manager, Enter, CreateModel, Publish, ReadId, EnsureModel,
      IndexModels, SubscribeNode, CreateStored, PrepareDocuments, StoreBefore, StoreAfter, End,
      Panic, RequestAnchor, CreateDocument, CreateEvent, SyncDocument, SyncModel, AnchorFails,
      RunTimeOver, Judge, JudgeSync, JudgeAnchors, JudgeRequests, JudgeOthers
  <2> QED
    BY <2>1, <2>2
<1> QED
  BY <1>2, <1>3

\* Nobody holds, counted or judged anything at the start.
LEMMA InitIInv == Init => IInv
<1> SUFFICES ASSUME Init PROVE IInv
  OBVIOUS
<1> USE BenchmarkAssumption
<1>1. /\ at \in [Users -> Places]
      /\ \A u \in Users : at[u].op \in {"run", "lead"} /\ at[u].size = "small"
      /\ scenario # "cas" => \A u \in Users : at[u].op = "lead"
  BY DEF Init, Begin, Places, Ops, Sizes
<1>2. made \in Seq(Id) /\ Len(made) = 0
  BY EmptySeq DEF Init
<1>3. TypeOK
  <2>1. UserTypes
    BY <1>1 DEF Init, UserTypes, Id
  <2>2. StoreTypes
    BY DEF Init, StoreTypes, Id, Models, Number, Documents, OldDoc
  <2>3. NodeTypes
    BY <1>2 DEF Init, NodeTypes, Id, Models, Documents
  <2>4. RunTypes
    <3>1. scenario \in Scenarios /\ last \in Workers /\ stale \in BOOLEAN
      BY DEF Init
    <3>2. stopped \in BOOLEAN /\ verdict \in Verdicts
      BY DEF Init, Verdicts
    <3>3. failures \in 0 .. MaxFailures
      BY DEF Init
    <3> QED
      BY <3>1, <3>2, <3>3 DEF RunTypes
  <2> QED
    BY <2>1, <2>2, <2>3, <2>4 DEF TypeOK
<1>4. OwnRedis
  <2>1. ~ stale => NothingOld
    BY DEF Init, NothingOld, Models
  <2>2. scenario = "reconSync" => \A u \in Users : OneModel(u)
    BY <1>1 DEF OneModel
  <2>3. scenario # "cas" => \A u \in Users : TwoModels(u)
    BY <1>1 DEF TwoModels
  <2> QED
    BY <2>1, <2>2, <2>3 DEF OwnRedis
<1>5. Leaders
  BY <1>1 DEF Init, Leaders
<1>6. Counts
  BY DEF Init, Counts, Unmeasured, NumbersOf
<1>7. JudgedCounts
  BY DEF Init, JudgedCounts
<1> QED
  BY <1>3, <1>4, <1>5, <1>6, <1>7 DEF IInv

\* A stuttering step keeps the invariant.
LEMMA StutterIInv == ASSUME IInv, UNCHANGED vars PROVE IInv'
<1> USE DEF vars, user, nodes, documents
<1>1. TypeOK'
  BY DEF IInv, TypeOK, UserTypes, StoreTypes, NodeTypes, RunTypes
<1>2. OwnRedis' /\ Leaders'
  BY DEF IInv, OwnRedis, NothingOld, OneModel, TwoModels, Shares, Holds, Leaders
<1>3. Counts' /\ JudgedCounts'
  BY DEF IInv, Counts, Unmeasured, NumbersOf, Earned, OldPart, Count, JudgedCounts, Over,
         Measured, MeetsTarget
<1> QED
  BY <1>1, <1>2, <1>3 DEF IInv

\* Every step keeps the invariant.
LEMMA NextIInv == ASSUME IInv, [Next]_vars PROVE IInv'
<1>1. CASE Next
  <2>1. TypeOK'
    BY <1>1, UserTypesStep, StoreTypesStep, NodeTypesStep, RunTypesStep DEF IInv, TypeOK
  <2> QED
    BY <1>1, <2>1, OwnRedisStep, LeadersStep, CountsStep, JudgedCountsStep DEF IInv
<1> QED
  BY <1>1, StutterIInv

\* The invariant holds in every run.
LEMMA SpecIInv == Spec => []IInv
BY InitIInv, NextIInv, PTL DEF Spec

\* Past the setup, TwoModels and OneModel are what SharedModels says.
LEMMA IInvSharedModels == IInv => SharedModels
<1> SUFFICES ASSUME IInv, ~ stale, NEW u \in Users, SetUp(u)
             PROVE  IF scenario = "reconSync" THEN ids[u]["small"] = "run"
                    ELSE \A s \in Sizes : ids[u][s] = "run" /\ s \in synced[u[1]]
  BY DEF SharedModels
<1>1. at[u].op \in {"prepare", "before", "run", "ended"} /\ scenario # "cas"
  BY DEF SetUp
<1>2. CASE scenario = "reconSync"
  BY <1>1, <1>2 DEF IInv, OwnRedis, OneModel, Holds
<1>3. CASE scenario # "reconSync"
  BY <1>1, <1>3 DEF IInv, OwnRedis, TwoModels, Shares, Holds
<1> QED
  BY <1>2, <1>3

\* The difference the manager takes counts documents of this run at that node.
LEMMA IInvSuccessEarned == IInv => SuccessEarned
<1> SUFFICES ASSUME IInv, scenario = "newStreams", verdict = "success", Earned
             PROVE  /\ \A w \in Measured : Cardinality(docs[w]) >= Target
                    /\ failures = 0 => Measured = Workers
  BY DEF SuccessEarned, Earned
<1>0. /\ TypeOK /\ Leaders /\ Over
      /\ \A w \in Measured : MeetsTarget(w)
      /\ \A w \in Workers : Unmeasured(w)
      /\ \A u \in Users : NumbersOf(u)
  BY DEF IInv, JudgedCounts, Counts
<1>1. ASSUME NEW w \in Measured PROVE Cardinality(docs[w]) >= Target
  <2>1. w \in Workers /\ redis.start[w] # NoKey /\ redis.end[w] # NoKey
    BY DEF Measured
  <2>2. PICK u \in Users : u[1] = w /\ lead[u]
    BY <1>0, <2>1 DEF Unmeasured, Leaders
  <2>3. /\ OldPart(u) <= redis.start[w] /\ redis.start[w] <= redis.end[w]
        /\ redis.end[w] <= Count(u)
    BY <1>0, <2>1, <2>2 DEF NumbersOf
  <2>4. redis.start[w] \in Int /\ redis.end[w] \in Int
    BY <1>0, <2>1 DEF TypeOK, StoreTypes, Number
  <2>5. redis.end[w] - redis.start[w] >= Target
    BY <1>0, <2>3, <2>4, BenchmarkAssumption DEF MeetsTarget
  <2>6. /\ Of(u) \subseteq docs[w] /\ IsFiniteSet(docs[w])
        /\ Cardinality(Of(u)) \in Nat /\ OldPart(u) \in Nat
        /\ Count(u) = Cardinality(Of(u)) + OldPart(u)
    BY <1>0, <2>2, CountInt
  <2>7. Cardinality(Of(u)) <= Cardinality(docs[w]) /\ Cardinality(docs[w]) \in Nat
    BY <2>6, FS_Subset, FS_CardinalityType
  <2> QED
    BY <2>3, <2>4, <2>5, <2>6, <2>7, BenchmarkAssumption
<1>2. ASSUME failures = 0, NEW w \in Workers PROVE w \in Measured
  <2>1. \A u \in Users : at[u].op = "ended"
    BY <1>0, <1>2 DEF Leaders, Over
  <2>2. PICK v \in Users : v[1] = w
    BY BenchmarkAssumption
  <2>3. ~ firstUser[w]
    BY <1>0, <2>1, <2>2 DEF Leaders
  <2>4. PICK u \in Users : u[1] = w /\ lead[u]
    BY <1>0, <2>3 DEF Leaders
  <2> QED
    BY <1>0, <1>2, <2>1, <2>4 DEF NumbersOf, Measured
<1> QED
  BY <1>1, <1>2 DEF Measured

\* All variables keep their types.
THEOREM TypeCorrect == Spec => []TypeOK
<1>1. IInv => TypeOK
  BY DEF IInv
<1> QED
  BY <1>1, SpecIInv, PTL

\* "Reuse the same model or model instance document for all users": for any number
\* of workers, users and failures, users past the setup of a fresh redis hold the
\* leader's models and their nodes have them.
THEOREM ModelsAreShared == Spec => []SharedModels
BY SpecIInv, IInvSharedModels, PTL

\* A success of newStreams stands for the target at every node that was measured,
\* for any target, any number of workers and users, and any count of old documents.
THEOREM SuccessIsEarned == Spec => []SuccessEarned
BY SpecIInv, IInvSuccessEarned, PTL
-----------------------------------------------------------------------------
\* A sample of at most 65 documents is all of them.
LEMMA SampleIsAll ==
  ASSUME NEW p \in 0 .. 65
  PROVE  SampleSize(p) = p
<1> DEFINE a == 4149 * p + 4146
           b == p + 4147
           q == a \div b
<1>1. p * p <= 65 * p
  OBVIOUS
<1>2. a = p * b + (4146 + 2 * p - p * p) /\ a \in Nat /\ b \in Nat \ {0}
  OBVIOUS
<1>3. p * b <= a /\ a < p * b + b
  OBVIOUS
<1>4. q \in Int /\ b * q <= a /\ a < b * q + b
  BY <1>2
<1>5. q = p
  <2>1. CASE q <= p - 1
    OBVIOUS
  <2>2. CASE q >= p + 1
    OBVIOUS
  <2> QED
    BY <1>4, <2>1, <2>2
<1> QED
  BY <1>5 DEF SampleSize

\* The sample of a set with at most 64 documents of this run is the set.
LEMMA WholeSample ==
  ASSUME TypeOK, MaxDocs <= 64
  PROVE  Sample = redis.docs
<1>1. redis.docs \subseteq Documents \cup {OldDoc}
  BY DEF TypeOK, StoreTypes
<1>2. IsFiniteSet(redis.docs) /\ Cardinality(redis.docs) \in 0 .. 65
  <2>1. /\ IsFiniteSet(redis.docs)
        /\ Cardinality(redis.docs) <= Cardinality(Documents \cup {OldDoc})
    BY <1>1, DocumentsFinite, FS_Subset
  <2>2. Cardinality(redis.docs) \in Nat
    BY <2>1, FS_CardinalityType
  <2>3. Cardinality(Documents \cup {OldDoc}) = MaxDocs + 1 /\ MaxDocs \in Nat
    BY DocumentsFinite, BenchmarkAssumption
  <2> QED
    BY <2>1, <2>2, <2>3
<1>3. SampleSize(Cardinality(redis.docs)) = Cardinality(redis.docs)
  BY <1>2, SampleIsAll
<1>4. Sample \in SUBSET redis.docs /\ Cardinality(Sample) = Cardinality(redis.docs)
  <2>1. \E s \in SUBSET redis.docs : Cardinality(s) = SampleSize(Cardinality(redis.docs))
    BY <1>3
  <2> QED
    BY <1>3, <2>1 DEF Sample
<1> QED
  BY <1>2, <1>4, FS_Subset

\* The lead worker's node has every document, and only CreateStored adds one.
LEMMA DocsOfFirst ==
  ASSUME TypeOK, Judged, scenario = "anchoring", Next
  PROVE  /\ \A w \in Workers : docs'[w] \subseteq docs'[1]
         /\ docs[1] \subseteq docs'[1]
         /\ docs'[1] # docs[1] => \E u \in Users : CreateStored(u)
<1> USE BenchmarkAssumption
<1>0. /\ docs \in [Workers -> SUBSET (1 .. Len(made))]
      /\ \A w \in Workers : docs[w] \subseteq docs[1]
  BY DEF Judged, TypeOK, NodeTypes
<1>1. ASSUME NEW u \in Users, CreateStored(u)
      PROVE  docs[1] \subseteq docs'[1] /\ \A w \in Workers : docs'[w] \subseteq docs'[1]
  BY <1>0, <1>1 DEF CreateStored, Create
<1>2. ASSUME NEW w \in Workers, NEW d, SyncDocument(w, d)
      PROVE  docs'[1] = docs[1] /\ \A x \in Workers : docs'[x] \subseteq docs'[1]
  BY <1>0, <1>2 DEF SyncDocument
<1>3. CASE docs' = docs
  BY <1>0, <1>3
<1>4. \/ docs' = docs
      \/ \E u \in Users : CreateStored(u)
      \/ \E w \in Workers, d \in DOMAIN made : SyncDocument(w, d)
  BY DEF Next, UserStep, LoadStep, Manager, Enter, CreateModel, Publish, ReadId, EnsureModel,
      IndexModels, SubscribeNode, CreateDocument, CreateEvent, PrepareDocuments, StoreBefore,
      StoreAfter, End, Panic, RequestAnchor, SyncModel, AnchorFails, RunTimeOver, Judge,
      JudgeSync, JudgeAnchors, JudgeRequests, JudgeOthers, nodes, documents
<1> QED
  BY <1>1, <1>2, <1>3, <1>4

\* A part of a finite set has no more elements than the bound on it.
LEMMA FewerMissing ==
  ASSUME NEW S, NEW T, S \subseteq T, IsFiniteSet(T),
         NEW m \in Nat, NEW n \in Nat, Cardinality(T) <= m, m <= n
  PROVE  Cardinality(S) <= n
<1>1. Cardinality(S) <= Cardinality(T) /\ Cardinality(S) \in Nat /\ Cardinality(T) \in Nat
  BY FS_Subset, FS_CardinalityType
<1> QED
  BY <1>1

\* The set of ids and the judgement of the anchoring scenario: CreateStored adds an
\* id or counts a failure, JudgeSync compares the set with the last peer, and
\* JudgeAnchors empties it.
LEMMA JudgedStep ==
  ASSUME TypeOK, TypeOK', Judged, Next, MaxDocs <= 64
  PROVE  Judged'
<1> SUFFICES ASSUME scenario = "anchoring" PROVE Judged'
  BY RunStep DEF Judged
<1>0. /\ scenario' = scenario /\ stale' = stale
      /\ failures \in Nat /\ failures' \in Nat /\ failures <= failures'
      /\ 1 \in Workers /\ last \in Workers
  BY RunStep, FailuresStep, BenchmarkAssumption DEF TypeOK, RunTypes
<1>1. /\ \A w \in Workers : docs[w] \subseteq docs[1]
      /\ redis.docs \subseteq docs[1] \cup (IF stale THEN {OldDoc} ELSE {})
      /\ verdict # "none" => Over
      /\ verdict \in {"none", "waiting"} => Cardinality(docs[1] \ redis.docs) <= failures
      /\ verdict = "waiting" => redis.docs \ {OldDoc} \subseteq docs[last]
      /\ verdict = "success" =>
           /\ redis.docs = {}
           /\ Cardinality(docs[1] \ docs[last]) <= failures
           /\ docs[1] # {} \/ stale
  BY DEF Judged
<1>2. /\ IsFiniteSet(docs[1]) /\ docs[1] \subseteq 1 .. Len(made)
      /\ OldDoc \notin docs[1]
      /\ \A S : IsFiniteSet(docs[1] \ S)
  <2>1. docs[1] \subseteq 1 .. Len(made) /\ Len(made) \in Nat
    BY <1>0, LenProperties DEF TypeOK, NodeTypes
  <2>2. IsFiniteSet(docs[1])
    <3>1. IsFiniteSet(1 .. Len(made))
      BY <2>1, FS_Interval
    <3> QED
      BY <2>1, <3>1, FS_Subset
  <2>3. \A S : IsFiniteSet(docs[1] \ S)
    BY <2>2, FS_Difference
  <2> QED
    BY <2>1, <2>2, <2>3 DEF OldDoc
<1>3. \A w \in Workers : docs'[w] \subseteq docs'[1]
  BY <1>0, DocsOfFirst
<1>4. ASSUME NEW u \in Users, CreateStored(u) PROVE Judged'
  <2>1. ~ Over /\ verdict = "none" /\ verdict' = "none"
    BY <1>1, <1>4 DEF CreateStored, Create, Over
  <2> DEFINE n == Len(made')
  <2>2. docs'[1] = docs[1] \cup {n}
    BY <1>0, <1>4 DEF CreateStored, Create, TypeOK, NodeTypes
  <2>3. CASE redis'.docs = redis.docs \cup {n}
    <3>1. docs'[1] \ redis'.docs \subseteq docs[1] \ redis.docs
      BY <2>2, <2>3
    <3>2. Cardinality(docs'[1] \ redis'.docs) <= failures'
      BY <1>0, <1>1, <1>2, <2>1, <3>1, FewerMissing
    <3> QED
      BY <1>0, <1>1, <1>3, <2>1, <2>2, <2>3, <3>2 DEF Judged
  <2>4. CASE redis'.docs = redis.docs /\ Fails
    <3>1. docs'[1] \ redis'.docs \subseteq (docs[1] \ redis.docs) \cup {n}
      BY <2>2, <2>4
    <3>2. /\ IsFiniteSet((docs[1] \ redis.docs) \cup {n})
          /\ Cardinality((docs[1] \ redis.docs) \cup {n}) <= failures'
      <4>1. /\ IsFiniteSet((docs[1] \ redis.docs) \cup {n})
            /\ Cardinality((docs[1] \ redis.docs) \cup {n}) \in
                 {Cardinality(docs[1] \ redis.docs), Cardinality(docs[1] \ redis.docs) + 1}
        BY <1>2, FS_AddElement
      <4>2. Cardinality(docs[1] \ redis.docs) \in Nat
        BY <1>2, FS_CardinalityType
      <4> QED
        BY <1>0, <1>1, <2>1, <2>4, <4>1, <4>2 DEF Fails
    <3>3. Cardinality(docs'[1] \ redis'.docs) <= failures'
      BY <1>0, <3>1, <3>2, FewerMissing
    <3> QED
      BY <1>0, <1>1, <1>3, <2>1, <2>2, <2>4, <3>3 DEF Judged
  <2>5. \/ redis'.docs = redis.docs \cup {n}
        \/ redis'.docs = redis.docs /\ Fails
    BY <1>4 DEF CreateStored, TypeOK, StoreTypes
  <2> QED
    BY <2>3, <2>4, <2>5
<1>5. CASE \A u \in Users : ~ CreateStored(u)
  <2>0. docs'[1] = docs[1]
    BY <1>0, <1>5, DocsOfFirst
  <2>1. \A w \in Workers : docs[w] \subseteq docs'[w]
    BY DocsGrow
  <2>2. verdict # "none" => Over'
    BY <1>1, OverQuiet
  <2>3. CASE JudgeSync
    <3>1. Over' /\ redis' = redis /\ docs' = docs /\ last' \in Workers
      BY <2>3, OverQuiet DEF JudgeSync, nodes, documents
    <3>2. verdict' \in {"waiting", "failure"} /\ verdict = "none"
      BY <2>3 DEF JudgeSync
    <3>3. verdict' = "waiting" => redis.docs \ {OldDoc} \subseteq docs[last']
      BY <2>3, WholeSample DEF JudgeSync, OnNode
    <3>4. Cardinality(docs[1] \ redis.docs) <= failures'
      BY <1>0, <1>1, <1>2, <3>2, FewerMissing
    <3> QED
      BY <1>0, <1>1, <3>1, <3>2, <3>3, <3>4 DEF Judged
  <2>4. CASE JudgeAnchors
    <3>1. Over' /\ docs' = docs /\ last' = last /\ verdict = "waiting"
      BY <2>2, <2>4 DEF JudgeAnchors, nodes, documents
    <3>2. verdict' \in {"success", "failure"}
      BY <2>4 DEF JudgeAnchors
    <3>3. redis'.docs \subseteq redis.docs
      BY <2>4 DEF JudgeAnchors, Remove, TypeOK, StoreTypes
    <3>4. verdict' = "success" => redis.docs # {} /\ redis'.docs = {}
      BY <2>4 DEF JudgeAnchors, Remove, TypeOK, StoreTypes
    <3>5. docs[1] \ docs[last] \subseteq docs[1] \ redis.docs
      BY <1>1, <1>2, <3>1
    <3>6. Cardinality(docs[1] \ docs[last]) <= failures'
      BY <1>0, <1>1, <1>2, <3>1, <3>5, FewerMissing
    <3> QED
      BY <1>0, <1>1, <3>1, <3>2, <3>3, <3>4, <3>6 DEF Judged
  <2>5. CASE UNCHANGED <<verdict, last>> /\ redis'.docs = redis.docs
    <3>1. docs[1] \ docs'[last] \subseteq docs[1] \ docs[last]
      BY <1>0, <2>1
    <3>2. verdict = "success" => Cardinality(docs[1] \ docs'[last]) <= failures'
      BY <1>0, <1>1, <1>2, <3>1, FewerMissing
    <3>3. verdict \in {"none", "waiting"} => Cardinality(docs[1] \ redis.docs) <= failures'
      BY <1>0, <1>1, <1>2, FewerMissing
    <3> QED
      BY <1>0, <1>1, <1>3, <2>0, <2>1, <2>2, <2>5, <3>2, <3>3 DEF Judged
  <2>6. ASSUME NEW u \in Users, Publish(u) \/ StoreBefore(u) \/ StoreAfter(u)
        PROVE  UNCHANGED <<verdict, last>> /\ redis'.docs = redis.docs
    BY <2>6 DEF Publish, StoreBefore, StoreAfter, TypeOK, StoreTypes
  <2>7. CASE UNCHANGED <<verdict, last, redis>>
    BY <2>5, <2>7
  <2> QED
    BY <1>5, <2>3, <2>4, <2>5, <2>6, <2>7
    DEF Next, UserStep, LoadStep, Manager, Enter, CreateModel, ReadId, EnsureModel,
      IndexModels, SubscribeNode, CreateDocument, CreateEvent, PrepareDocuments, End, Panic,
      RequestAnchor, SyncDocument, SyncModel, AnchorFails, RunTimeOver, Judge, JudgeRequests,
      JudgeOthers, nodes, user
<1> QED
  BY <1>4, <1>5

\* Nothing is created or judged at the start.
LEMMA InitJudged == Init => Judged
<1> SUFFICES ASSUME Init, scenario = "anchoring" PROVE Judged
  BY DEF Judged
<1>1. 1 \in Workers /\ docs = [w \in Workers |-> {}] /\ failures = 0 /\ verdict = "none"
  BY BenchmarkAssumption DEF Init
<1>2. docs[1] \ redis.docs = {} /\ Cardinality({}) = 0
  BY <1>1, FS_EmptySet
<1>3. redis.docs \subseteq IF stale THEN {OldDoc} ELSE {}
  BY DEF Init
<1> QED
  BY <1>1, <1>2, <1>3 DEF Judged

\* The invariant of the anchoring scenario holds in every run.
LEMMA SpecJudged ==
  ASSUME MaxDocs <= 64
  PROVE  Spec => [](IInv /\ Judged)
<1>1. Init => IInv /\ Judged
  BY InitIInv, InitJudged
<1>2. IInv /\ Judged /\ [Next]_vars => (IInv /\ Judged)'
  <2> SUFFICES ASSUME IInv, Judged, [Next]_vars PROVE IInv' /\ Judged'
    OBVIOUS
  <2>1. IInv'
    BY NextIInv
  <2>2. CASE Next
    BY <2>1, <2>2, JudgedStep DEF IInv
  <2>3. CASE UNCHANGED vars
    <3>1. UNCHANGED <<scenario, stale, docs, redis, verdict, last, failures, at, stopped>>
      BY <2>3 DEF vars, user, nodes, documents
    <3>2. Over' <=> Over
      BY <3>1 DEF Over
    <3> QED
      BY <2>1, <3>1, <3>2 DEF Judged
  <2> QED
    BY <2>1, <2>2, <2>3
<1> QED
  BY <1>1, <1>2, PTL DEF Spec

\* A success of the anchoring scenario: the last peer has every document whose id was
\* stored, and the set is left empty.  The hypothesis says that the sample is the
\* whole set (one id may be of an older run); of a larger set
\* calculate_sample_size takes only a part, and nothing is promised for the rest.
THEOREM AnchoringSuccessIsEarned ==
  ASSUME MaxDocs <= 64
  PROVE  Spec => []AnchoringSuccessEarned
<1>1. IInv /\ Judged => AnchoringSuccessEarned
  BY DEF Judged, AnchoringSuccessEarned
<1> QED
  BY <1>1, SpecJudged, PTL

\* Ids leave the set only when the last peer has every document of this run among them.
THEOREM OnlySyncedIdsLeave ==
  ASSUME MaxDocs <= 64
  PROVE  Spec => RemovedWhenSynced
<1> DEFINE Removes == scenario = "anchoring" /\ ~ redis.docs \subseteq redis'.docs
                        => redis.docs \ {OldDoc} \subseteq docs[last]
<1>1. IInv /\ Judged /\ [Next]_vars => [Removes]_vars
  <2> SUFFICES ASSUME TypeOK, Judged, Next, scenario = "anchoring", ~ redis.docs \subseteq redis'.docs
               PROVE  redis.docs \ {OldDoc} \subseteq docs[last]
    BY DEF IInv
  <2>1. CASE JudgeAnchors
    BY <2>1 DEF JudgeAnchors, Judged
  <2>2. ASSUME NEW u \in Users, Publish(u) \/ StoreBefore(u) \/ StoreAfter(u) \/ CreateStored(u)
        PROVE  redis.docs \subseteq redis'.docs
    BY <2>2 DEF Publish, StoreBefore, StoreAfter, CreateStored, TypeOK, StoreTypes
  <2>3. JudgeAnchors \/ redis' = redis
         \/ \E u \in Users : Publish(u) \/ StoreBefore(u) \/ StoreAfter(u) \/ CreateStored(u)
    BY DEF Next, UserStep, LoadStep, Manager, Enter, CreateModel, ReadId, EnsureModel,
      IndexModels, SubscribeNode, CreateDocument, CreateEvent, PrepareDocuments, End, Panic,
      RequestAnchor, SyncDocument, SyncModel, AnchorFails, RunTimeOver, Judge, JudgeSync,
      JudgeRequests, JudgeOthers, nodes, user
  <2> QED
    BY <2>1, <2>2, <2>3
<1> QED
  BY <1>1, SpecJudged, PTL DEF Spec, RemovedWhenSynced
=============================================================================
