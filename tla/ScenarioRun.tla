----------------------------- MODULE ScenarioRun -----------------------------
(***************************************************************************)
(* One run of a scenario whose users share what they need through redis    *)
(* (runner/src/scenario/ceramic/model_instance.rs, new_streams.rs,         *)
(* anchor.rs, runner/src/scenario/recon_sync.rs and mod.rs, and            *)
(* runner/src/simulate.rs):                                                *)
(*                                                                         *)
(*   newStreams  CeramicNewStreamsBenchmark: the lead users store what     *)
(*               their nodes hold before and after the load                *)
(*   anchoring   CeramicAnchoringBenchmark: the users of the lead worker   *)
(*               store the ids of their documents; the manager looks for   *)
(*               them on the last peer and for their anchors on the first  *)
(*   cas         CASBenchmark: no setup, every user stores the ids of what *)
(*               it asked the anchor service to anchor                     *)
(*   modelReuse  CeramicModelReuse and CeramicWriteOnly: every user        *)
(*               prepares a document of the shared models for itself       *)
(*   reconSync   ReconEventSync: one made-up model id, to which every user *)
(*               subscribes its node                                       *)
(*                                                                         *)
(* Users share nothing but a flag of their worker process and a redis.     *)
(* One user of worker 1 creates the two models and publishes their ids;    *)
(* the others poll redis for the ids.  The keys of the ids are the same in *)
(* every run, so a redis that was used before may hold ids of an older     *)
(* run, and so may the set of documents; the keys of the metrics carry the *)
(* nonce of the run and are new.                                           *)
(*                                                                         *)
(* A document reaches the nodes that subscribed to its model.              *)
(***************************************************************************)
EXTENDS Integers, FiniteSets, Sequences

CONSTANTS
  Scenarios,      \* the scenarios a run may be of
  Workers,        \* goose worker ids, from 1
  Users,          \* <<worker, number>>
  NoKey,          \* a redis key that is not set
  Target,         \* documents each node must receive: target rate * duration
  OldDocs,        \* documents of an older run's large model at every node
  MaxDocs,        \* bound: documents created in the run
  MaxFailures     \* bound: failed requests

Sizes == {"small", "large"}
Models == {"old", "run"}

\* A document of an older run that did not remove it from the set.
OldDoc == 0

ASSUME BenchmarkAssumption ==
  /\ Scenarios \subseteq {"newStreams", "anchoring", "cas", "modelReuse", "reconSync"}
  /\ Workers \subseteq Nat \ {0} /\ 1 \in Workers
  /\ Users \subseteq Workers \X Nat /\ Workers = {u[1] : u \in Users}
  /\ NoKey \notin Models /\ NoKey \notin Int
  /\ {OldDocs, MaxDocs, MaxFailures} \subseteq Nat /\ Target \in Nat \ {0}

VARIABLES
  scenario,
  last,      \* the worker at the last peer of the peers file: any, 1 until it matters
  stale,     \* the redis was used by an older run
  firstUser, \* FIRST_USER of each worker process
  at,        \* where each user is: operation, and which of the two models it is about
  lead,      \* user_info.lead_user
  ids,       \* the model ids each user holds
  redis,     \* model id keys, the start and end counts of each worker, and the
             \* set of documents of the scenario (anchor_mids, anchor_requests)
  synced,    \* which of the run's models each node has
  interests, \* the models each node subscribed to
  made,      \* the documents of the run: the model of each
  docs,      \* the documents of the run each node has
  anchors,   \* anchor status of each document: failed, or one of the others
  stopped,   \* the run time is over
  verdict,
  failures

user == <<at, lead, ids>>
documents == <<made, docs, anchors>>
nodes == <<synced, interests, documents>>
vars == <<scenario, last, stale, firstUser, user, redis, nodes, stopped, verdict, failures>>

Begin(op) == [op |-> op, size |-> "small"]

Init ==
  /\ scenario \in Scenarios
  /\ last = 1
  /\ stale \in BOOLEAN
  /\ firstUser = [w \in Workers |-> TRUE]
  /\ at = [u \in Users |-> Begin(IF scenario = "cas" THEN "run" ELSE "lead")]
  /\ lead = [u \in Users |-> FALSE]
  /\ ids = [u \in Users |-> [s \in Sizes |-> NoKey]]
  /\ redis = [model |-> [s \in Sizes |-> IF stale THEN "old" ELSE NoKey],
              start |-> [w \in Workers |-> NoKey], end |-> [w \in Workers |-> NoKey],
              docs |-> IF stale /\ scenario \in {"anchoring", "cas"} THEN {OldDoc} ELSE {}]
  /\ synced = [w \in Workers |-> {}]
  /\ interests = [w \in Workers |-> IF stale THEN {"old"} ELSE {}]
  /\ made = <<>>
  /\ docs = [w \in Workers |-> {}]
  /\ anchors = [d \in 1 .. MaxDocs |-> "other"]
  /\ stopped = FALSE /\ verdict = "none"
  /\ failures = 0

Fails == failures < MaxFailures /\ failures' = failures + 1

-----------------------------------------------------------------------------
(* setup_scenario, and setup of recon_sync.rs, one action per request of    *)
(* user u on worker u[1].                                                   *)

GlobalLeader(u) == u[1] = 1 /\ lead'[u]

\* is_goose_lead_user: swap the flag.
IsLeadUser(u) ==
  /\ lead' = [lead EXCEPT ![u] = firstUser[u[1]]]
  /\ firstUser' = [firstUser EXCEPT ![u[1]] = FALSE]

\* The leader of reconSync makes its model id up.
Enter(u) ==
  /\ at[u].op = "lead"
  /\ IsLeadUser(u)
  /\ IF GlobalLeader(u) /\ scenario = "reconSync"
       THEN /\ ids' = [ids EXCEPT ![u]["small"] = "run"]
            /\ at' = [at EXCEPT ![u] = Begin("publish")]
       ELSE /\ at' = [at EXCEPT ![u] = Begin(IF GlobalLeader(u) THEN "create" ELSE "read")]
            /\ UNCHANGED ids
  /\ UNCHANGED <<scenario, last, stale, redis, nodes, stopped, verdict, failures>>

\* The transaction after the setup: only the new streams scenario counts first.
Load == IF scenario = "newStreams" THEN "before" ELSE "run"

\* number_of_documents of the scenario: one, or none.
Prepared == IF scenario = "modelReuse" THEN "prepare" ELSE Load

\* What follows when u has done its operation for the models.
FollowUp(u) ==
  CASE at[u].op = "create" -> "publish"
    [] at[u].op \in {"publish", "read"} -> IF scenario = "reconSync" THEN "subscribe" ELSE "ensure"
    [] at[u].op = "ensure" -> IF lead[u] THEN "index" ELSE Prepared
    [] at[u].op = "subscribe" -> Prepared

Advance(u) ==
  at' = [at EXCEPT ![u] = IF @.size = "small" /\ scenario # "reconSync"
                            THEN [@ EXCEPT !.size = "large"] ELSE Begin(FollowUp(u))]

\* setup_model on the leader's own node.
CreateModel(u) ==
  /\ at[u].op = "create"
  /\ ids' = [ids EXCEPT ![u][at[u].size] = "run"]
  /\ synced' = [synced EXCEPT ![u[1]] = @ \cup {at[u].size}]
  /\ Advance(u)
  /\ UNCHANGED <<scenario, last, stale, firstUser, lead, redis, interests, documents, stopped, verdict, failures>>

\* set_key_to_stream_id.
Publish(u) ==
  /\ at[u].op = "publish"
  /\ redis' = [redis EXCEPT !.model[at[u].size] = ids[u][at[u].size]]
  /\ Advance(u)
  /\ UNCHANGED <<scenario, last, stale, firstUser, lead, ids, nodes, stopped, verdict, failures>>

\* loop_until_key_value_set: polls until the key is there, whoever set it.
ReadId(u) ==
  /\ at[u].op = "read"
  /\ redis.model[at[u].size] # NoKey
  /\ ids' = [ids EXCEPT ![u][at[u].size] = redis.model[at[u].size]]
  /\ Advance(u)
  /\ UNCHANGED <<scenario, last, stale, firstUser, lead, redis, nodes, stopped, verdict, failures>>

Has(w, size, id) == id = "old" \/ (id = "run" /\ size \in synced[w])

\* Mutant of EnsureModel: the user does not wait for its node.
EnsureModelUnchecked(u) ==
  /\ at[u].op = "ensure"
  /\ Advance(u)
  /\ UNCHANGED <<scenario, last, stale, firstUser, lead, ids, redis, nodes, stopped, verdict, failures>>

\* ensure_model_exists: polls the user's own node.
EnsureModel(u) ==
  /\ at[u].op = "ensure"
  /\ Has(u[1], at[u].size, ids[u][at[u].size])
  /\ Advance(u)
  /\ UNCHANGED <<scenario, last, stale, firstUser, lead, ids, redis, nodes, stopped, verdict, failures>>

\* index_model for both models, by the lead user of each worker: nobody waits for
\* the index.
IndexModels(u) ==
  /\ at[u].op = "index"
  /\ at' = [at EXCEPT ![u] = Begin("subscribe")]
  /\ UNCHANGED <<scenario, last, stale, firstUser, lead, ids, redis, nodes, stopped, verdict, failures>>

\* generate_mids for one document: nobody else reads what it publishes.
PrepareDocuments(u) ==
  /\ at[u].op = "prepare"
  /\ at' = [at EXCEPT ![u] = Begin(Load)]
  /\ UNCHANGED <<scenario, last, stale, firstUser, lead, ids, redis, nodes, stopped, verdict, failures>>

Subscribe(u) == interests' = [interests EXCEPT ![u[1]] = @ \cup {ids[u][at[u].size]}]

\* Mutant of SubscribeNode: the nodes of the other workers are forgotten.
SubscribeNodeLeader(u) ==
  /\ at[u].op = "subscribe"
  /\ IF u[1] = 1 THEN Subscribe(u) ELSE UNCHANGED interests
  /\ Advance(u)
  /\ UNCHANGED <<scenario, last, stale, firstUser, lead, ids, redis, synced, documents, stopped, verdict, failures>>

\* subscribe_to_model, by the lead users, and by every user of reconSync: goose
\* logs the failure of the request and goes on.
SubscribeNode(u) ==
  /\ at[u].op = "subscribe"
  /\ \/ Subscribe(u) /\ UNCHANGED failures
     \/ Fails /\ UNCHANGED interests
  /\ Advance(u)
  /\ UNCHANGED <<scenario, last, stale, firstUser, lead, ids, redis, synced, documents, stopped, verdict>>

\* A request fails, or ensure_model_exists times out: the unwrap of
\* setup_mid_scenario ends the user.
Panic(u) ==
  /\ at[u].op \in {"create", "publish", "read", "ensure", "index", "prepare"}
  /\ Fails
  /\ at' = [at EXCEPT ![u] = Begin("panicked")]
  /\ UNCHANGED <<scenario, last, stale, firstUser, lead, ids, redis, nodes, stopped, verdict>>

-----------------------------------------------------------------------------
(* store_metrics and the load. *)

\* Documents of u's large model that its node knows.
Count(u) ==
  LET model == ids[u]["large"]
  IN  Cardinality({d \in docs[u[1]] : made[d] = model}) + (IF model = "old" THEN OldDocs ELSE 0)

\* before_metrics: the count; or 0 when the answer cannot be parsed; a failed
\* request stores nothing and the user goes on.
StoreBefore(u) ==
  /\ at[u].op = "before"
  /\ \/ /\ lead[u]
        /\ \/ redis' = [redis EXCEPT !.start[u[1]] = Count(u)] /\ UNCHANGED failures
           \/ redis' = [redis EXCEPT !.start[u[1]] = 0] /\ Fails
           \/ UNCHANGED redis /\ Fails
     \/ ~ lead[u] /\ UNCHANGED <<redis, failures>>
  /\ at' = [at EXCEPT ![u] = Begin("run")]
  /\ UNCHANGED <<scenario, last, stale, firstUser, lead, ids, nodes, stopped, verdict>>

\* Only the lead worker's users create documents, of the model that they hold.
Create(u, size) ==
  /\ at[u].op = "run" /\ ~ stopped
  /\ u[1] = 1 /\ Len(made) < MaxDocs
  /\ made' = Append(made, ids[u][size])
  /\ docs' = [docs EXCEPT ![1] = @ \cup {Len(made')}]

\* instantiate_large_model_1kb.
CreateDocument(u) ==
  /\ scenario = "newStreams" /\ Create(u, "large")
  /\ UNCHANGED <<scenario, last, stale, firstUser, user, redis, synced, interests, anchors, stopped, verdict, failures>>

\* create_new_event.
CreateEvent(u) ==
  /\ scenario = "reconSync" /\ Create(u, "small")
  /\ UNCHANGED <<scenario, last, stale, firstUser, user, redis, synced, interests, anchors, stopped, verdict, failures>>

\* instantiate_small_model of the anchoring scenario: the document is created and
\* its id stored; a failure to store is only logged.
CreateStored(u) ==
  /\ scenario = "anchoring" /\ Create(u, "small")
  /\ \/ redis' = [redis EXCEPT !.docs = @ \cup {Len(made')}] /\ UNCHANGED failures
     \/ UNCHANGED redis /\ Fails
  /\ UNCHANGED <<scenario, last, stale, firstUser, user, synced, interests, anchors, stopped, verdict>>

\* create_anchor_request_on_cas, by every user: the id is stored whatever the
\* service answers, but not when the request cannot be made (`?`); a failure to
\* store ends the user.
RequestAnchor(u) ==
  /\ scenario = "cas" /\ at[u].op = "run" /\ ~ stopped
  /\ \/ /\ Cardinality(redis.docs \ {OldDoc}) < MaxDocs
        /\ redis' = [redis EXCEPT !.docs = @ \cup {Cardinality(@ \ {OldDoc}) + 1}]
        /\ UNCHANGED <<at, failures>>
     \/ Fails /\ UNCHANGED <<at, redis>>
     \/ Fails /\ at' = [at EXCEPT ![u] = Begin("panicked")] /\ UNCHANGED redis
  /\ UNCHANGED <<scenario, last, stale, firstUser, lead, ids, nodes, stopped, verdict>>

\* Users of the scenarios without after_metrics just end.
End(u) ==
  /\ scenario # "newStreams" /\ at[u].op = "run" /\ stopped
  /\ at' = [at EXCEPT ![u] = Begin("ended")]
  /\ UNCHANGED <<scenario, last, stale, firstUser, lead, ids, redis, nodes, stopped, verdict, failures>>

\* lead_user as cached at setup.
Reports(u) == lead[u]

\* after_metrics: a failed request or answer stores nothing.
StoreAfter(u) ==
  /\ scenario = "newStreams" /\ at[u].op = "run" /\ stopped
  /\ \/ /\ Reports(u)
        /\ \/ redis' = [redis EXCEPT !.end[u[1]] = Count(u)] /\ UNCHANGED failures
           \/ UNCHANGED redis /\ Fails
     \/ ~ Reports(u) /\ UNCHANGED <<redis, failures>>
  /\ at' = [at EXCEPT ![u] = Begin("ended")]
  /\ UNCHANGED <<scenario, last, stale, firstUser, lead, ids, nodes, stopped, verdict>>

-----------------------------------------------------------------------------
(* The Ceramic network, and the goose manager. *)

SyncModel(w, size) ==
  /\ size \in synced[1] \ synced[w]
  /\ synced' = [synced EXCEPT ![w] = @ \cup {size}]
  /\ UNCHANGED <<scenario, last, stale, firstUser, user, redis, interests, documents, stopped, verdict, failures>>

\* Document d reaches node w: it may fetch any, and will be sent what it subscribed to.
SyncDocument(w, d) ==
  /\ d \in docs[1] \ docs[w]
  /\ docs' = [docs EXCEPT ![w] = @ \cup {d}]
  /\ UNCHANGED <<scenario, last, stale, firstUser, user, redis, synced, interests, made, anchors, stopped, verdict, failures>>

\* The anchor service fails to anchor document d.
AnchorFails(d) ==
  /\ scenario = "anchoring" /\ d \in DOMAIN made
  /\ anchors' = [anchors EXCEPT ![d] = "failed"]
  /\ UNCHANGED <<scenario, last, stale, firstUser, user, redis, synced, interests, made, docs, stopped, verdict, failures>>

\* The run time passes, whatever the users are doing.
RunTimeOver ==
  /\ ~ stopped
  /\ stopped' = TRUE
  /\ UNCHANGED <<scenario, last, stale, firstUser, user, redis, nodes, verdict, failures>>

\* benchmark_scenario_metrics leaves workers without both entries out.
Measured == {w \in Workers : redis.start[w] # NoKey /\ redis.end[w] # NoKey}

\* Mutant of MeetsTarget: any growth will do.
MeetsAnyGrowth(w) == redis.end[w] >= redis.start[w]

\* rps() of (after - before) as u64, in which a negative i32 becomes huge.
MeetsTarget(w) ==
  LET count == redis.end[w] - redis.start[w] IN count < 0 \/ count >= Target

\* validate_scenario_success comes after the users of the run are through.
Over == stopped /\ \A u \in Users : at[u].op \in {"ended", "panicked"}

Judge ==
  /\ scenario = "newStreams" /\ Over /\ verdict = "none"
  /\ verdict' = IF Measured # {} /\ (\A w \in Measured : MeetsTarget(w))
                THEN "success" ELSE "failure"
  /\ UNCHANGED <<scenario, last, stale, firstUser, user, redis, nodes, stopped, failures>>

\* Workers get their numbers in the order they connect: any other one may be at
\* the first peer.
FirstPeers == IF Workers = {last} THEN Workers ELSE Workers \ {last}

\* The documents of the set that node w has; an old one it may have or not.
OnNode(w, old) == {d \in redis.docs : d \in docs[w] \/ (d = OldDoc /\ old)}

\* calculate_sample_size for a confidence of 0.99 and an error of 0.02, where the
\* size for an infinite population is 4148: all of a population below 66.
SampleSize(population) == (4149 * population + 4146) \div (population + 4147)

\* select_sample_set_ids: one sample serves both parts of the judgement.
Sample ==
  CHOOSE s \in SUBSET redis.docs : Cardinality(s) = SampleSize(Cardinality(redis.docs))

\* Mutant of JudgeSync: the documents are looked for where they were written.
JudgeSyncAtWriter ==
  /\ scenario = "anchoring" /\ Over /\ verdict = "none"
  /\ last' \in Workers
  /\ verdict' = IF Sample \subseteq OnNode(1, TRUE) THEN "waiting" ELSE "failure"
  /\ UNCHANGED <<scenario, stale, firstUser, user, redis, nodes, stopped, failures>>

\* Mutant of JudgeSync: missing documents do not end the judgement.
JudgeSyncGoesOn ==
  /\ scenario = "anchoring" /\ Over /\ verdict = "none"
  /\ last' \in Workers /\ verdict' = "waiting"
  /\ UNCHANGED <<scenario, stale, firstUser, user, redis, nodes, stopped, failures>>

\* validate_anchoring_benchmark_scenario_success, first part: with a sampled
\* document missing on the last peer the run has failed and the set stays as it is.
JudgeSync ==
  /\ scenario = "anchoring" /\ Over /\ verdict = "none"
  /\ last' \in Workers
  /\ \/ /\ \E old \in BOOLEAN :
             verdict' = IF Sample \subseteq OnNode(last', old) THEN "waiting" ELSE "failure"
        /\ UNCHANGED failures
     \/ Fails /\ verdict' = "failure"
  /\ UNCHANGED <<scenario, stale, firstUser, user, redis, nodes, stopped>>

\* What the first peer answers about a document: it has none of it, its anchor
\* failed, or anything else, which is fine.
AnchorOk(first, old, d) ==
  d \in OnNode(first, old) /\ (d # OldDoc => anchors[d] # "failed")

\* SREM refuses an empty list.
Remove ==
  redis.docs # {} /\ redis' = [redis EXCEPT !.docs = {}]

\* Second part, after the anchor wait time.  The documents leave the set.
JudgeAnchors ==
  /\ scenario = "anchoring" /\ verdict = "waiting"
  /\ \/ /\ Remove
        /\ \E first \in FirstPeers, old \in BOOLEAN :
             verdict' = IF \A d \in Sample : AnchorOk(first, old, d)
                          THEN "success" ELSE "failure"
        /\ UNCHANGED failures
     \/ Remove /\ Fails /\ verdict' = "failure"
     \/ redis.docs = {} /\ verdict' = "failure" /\ UNCHANGED <<redis, failures>>
     \/ Fails /\ verdict' = "failure" /\ UNCHANGED redis
  /\ UNCHANGED <<scenario, last, stale, firstUser, user, nodes, stopped>>

\* CASBenchmark: the manager only empties the set; it panics if it cannot.
JudgeRequests ==
  /\ scenario = "cas" /\ Over /\ verdict = "none"
  /\ \/ Remove /\ verdict' = "success" /\ UNCHANGED failures
     \/ redis.docs = {} /\ verdict' = "panicked" /\ UNCHANGED <<redis, failures>>
     \/ Fails /\ verdict' = "panicked" /\ UNCHANGED redis
  /\ UNCHANGED <<scenario, last, stale, firstUser, user, nodes, stopped>>

\* The other scenarios: a success without a criterion, or what SyncThroughput says.
JudgeOthers ==
  /\ scenario \in {"modelReuse", "reconSync"} /\ Over /\ verdict = "none"
  /\ verdict' \in (IF scenario = "modelReuse" THEN {"success"} ELSE {"success", "failure"})
  /\ UNCHANGED <<scenario, last, stale, firstUser, user, redis, nodes, stopped, failures>>

Manager == Judge \/ JudgeSync \/ JudgeAnchors \/ JudgeRequests \/ JudgeOthers

UserStep(u) ==
  \/ Enter(u) \/ CreateModel(u) \/ Publish(u) \/ ReadId(u) \/ EnsureModel(u)
  \/ IndexModels(u) \/ PrepareDocuments(u) \/ SubscribeNode(u)
  \/ StoreBefore(u) \/ StoreAfter(u) \/ End(u)

LoadStep(u) == CreateDocument(u) \/ CreateEvent(u) \/ CreateStored(u) \/ RequestAnchor(u)

Deliver == \E w \in Workers, d \in DOMAIN made : made[d] \in interests[w] /\ SyncDocument(w, d)
Sync == Deliver \/ \E w \in Workers, size \in Sizes : SyncModel(w, size)

Next ==
  \/ \E u \in Users : UserStep(u) \/ LoadStep(u) \/ Panic(u)
  \/ \E w \in Workers, d \in DOMAIN made : SyncDocument(w, d)
  \/ \E w \in Workers, size \in Sizes : SyncModel(w, size)
  \/ \E d \in DOMAIN made : AnchorFails(d)
  \/ RunTimeOver \/ Manager

Spec == Init /\ [][Next]_vars

\* Users are tasks of a runtime that schedules them, the nodes synchronize, time
\* passes.  Each of these steps can be taken finitely often in a run, so that being
\* fair to all of them together is being fair to each.
Progress == Sync \/ RunTimeOver \/ Manager \/ \E u \in Users : UserStep(u)

FairSpec == Spec /\ WF_vars(Progress)

-----------------------------------------------------------------------------
(* Properties *)

SetUp(u) == scenario # "cas" /\ at[u].op \in {"prepare", "before", "run", "ended"}

\* "Reuse the same model or model instance document for all users"
\* (scenario/ceramic/mod.rs, ReuseType::Shared): in a redis of its own every
\* user that completes the setup holds the leader's models, and its node has
\* them unless they are made up, in whatever order users start, poll, fail and
\* nodes synchronize.
SharedModels ==
  ~ stale => \A u \in Users : SetUp(u) =>
               IF scenario = "reconSync" THEN ids[u]["small"] = "run"
               ELSE \A s \in Sizes : ids[u][s] = "run" /\ s \in synced[u[1]]

\* A success of newStreams is earned: every node the manager has numbers of did
\* receive the target in this run, and if nothing failed these are all nodes.
\* Not even ids of an older run make it pass, and neither do failed requests;
\* only both together could.
SuccessEarned ==
  scenario = "newStreams" /\ verdict = "success" /\ (~ stale \/ failures = 0) =>
    /\ \A w \in Measured : Cardinality(docs[w]) >= Target
    /\ failures = 0 => Measured = Workers

\* A success of the anchoring scenario is earned: the last peer has the documents
\* of the lead worker, but for those whose id could not be stored, there was
\* something to judge, and no id is left for the next run to trip over.
AnchoringSuccessEarned ==
  scenario = "anchoring" /\ verdict = "success" =>
    /\ Cardinality(docs[1] \ docs[last]) <= failures
    /\ docs[1] # {} \/ stale
    /\ redis.docs = {}

\* Ids leave the set of the anchoring scenario only when every document of this
\* run among them is on the last peer (all are sampled here): a run that fails
\* before leaves them all to the next run.
RemovedWhenSynced ==
  [][scenario = "anchoring" /\ ~ redis.docs \subseteq redis'.docs =>
       redis.docs \ {OldDoc} \subseteq docs[last]]_vars

\* The leader of all workers panicked before every id was published.
LeaderLost ==
  /\ \E u \in Users : u[1] = 1 /\ lead[u] /\ at[u].op = "panicked"
  /\ \E s \in Sizes : redis.model[s] = NoKey

\* Every run is judged, whichever requests fail, unless the one user panics whom
\* all others wait for, before it has published what they poll for: they poll
\* without end.  And if nothing fails "one node generates new events, recon syncs
\* event keys and data to peers" (simulate.rs, Scenario): in a redis of its own
\* every document of the lead worker's users reaches every node, because the
\* setup has subscribed every node to the model, whichever users came first.
Concludes ==
  <>[](/\ ~ LeaderLost => verdict \notin {"none", "waiting"}
       /\ failures = 0 /\ ~ stale => \A w \in Workers : docs[w] = docs[1])
=============================================================================
