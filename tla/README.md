# TLA+ models of Keramik

Keramik runs simulations of Ceramic networks on Kubernetes. The repository
holds an operator, which turns `Network`, `Simulation` and `LoadGenerator`
resources into pods, and a runner, which is what those pods execute. This
directory models the parts in which order, failure and arithmetic decide
whether a network comes up and a simulation runs and is judged correctly.

Paths below are relative to the repository. `PROJECT.json` has the map from
every definition to the lines it models, the runs, the mutants that each
property must refuse, the hazards, and the theorems.

## 1. Inventory

| Component | State | Operations | What is hard | What makes it correct |
|---|---|---|---|---|
| Network controller, Ceramic sets (`operator/src/network/controller.rs` 241-464) | StatefulSets and Services of up to `MAX_CERAMICS` Ceramic specs | divide replicas by weight, fix up, delete leftovers, apply | f64 to i32 truncation, passes cut short between deletes and applies, edits | all replicas placed, in proportion; the cluster settles on the spec |
| Network controller, peers and bootstrap (466-510, 828-1026) | peers config map, bootstrap Job, status | poll peers, write the map, reset and apply the Job, patch the status | three objects written one by one, an immutable Job, peers that restart | Job has its file, map not behind status, everyone connected in the end |
| Network controller, dev mode (100, 248-251; `cas.rs`, `ceramic.rs`, `ipfs.rs`, `resource_limits.rs`) | one process-wide flag | stored per pass, loaded by the defaults of the resources | passes of several networks interleave at every await | each network gets the mode it asks for |
| Network controller, the rest of the pass (253-381, 512-826, 962-997) | namespace, three secrets, pod monitors, config maps, services and sets of the CAS, expiration | look and create if missing, apply, delete when expired | two calls per secret, edits, deletions, the collector, passes cut short | nothing refers to what is missing, secrets are drawn once, nothing expired or orphaned stays |
| Objects of a network and a simulation (`cas.rs`, `ceramic.rs`, `ipfs.rs`, `operator/src/monitoring`, `simulation/{manager,worker,redis}.rs`) | constants | build pods, services and maps from a spec | names, ports, keys and files are string literals spread over the files | every reference has its target |
| Simulation controller (`operator/src/simulation/controller.rs`) | status nonce; redis, manager Job, worker Jobs | one pass: peers, monitoring, redis, manager, gate, workers, status | nonce only in memory until the last call, stale cache, delete and reapply, garbage collection | manager and workers share a nonce, workers after the manager, the run completes |
| LoadGenerator controller (`operator/src/lgen/controller.rs`) | status nonces; one Job per namespace | one pass: monitoring, Job, status | several LoadGenerators share the Job's name, stale cache, deletion | a status names the load that runs; a deleted LoadGenerator blocks nobody |
| Bootstrap runner (`runner/src/bootstrap.rs`) | the iterator of the chosen method | connect peers by ring, random, sentinel | endless iterators, index arithmetic on short lists, failed connects | documented links, and the command ends |
| Simulate command (`runner/src/simulate.rs`) | before and after metrics | collect, run goose, validate | restarted counters, missing metrics, two metric names | successes earned, failures deserved |
| Scenario setup (`runner/src/scenario/ceramic/model_instance.rs`, `scenario/mod.rs`) | `FIRST_USER` flag, keys in redis | elect lead users, create and share models; store document ids (`new_streams.rs`, `anchor.rs`) | polling without end, keys without a nonce, lagging nodes | everyone works with the same models |
| Scenario bodies (`recon_sync.rs`, `simple.rs`, `query.rs`, `write_only.rs`, ...) | documents, counters | HTTP requests of each user | load; only `recon_sync.rs` and the benchmarks share anything | the documents reach the nodes that are measured |
| Load generator (`runner/src/load_generator/gen.rs`) | tasks, bounded channel, counters | create documents until a deadline, collect results | full channel, hung node, late timers, deadline against queued results | the command ends and counts its results |
| CRDs, telemetry, `common` | constants | generate CRDs, export metrics, construct clients | - | - |

How they interact: the operator's three controllers run in one process. The
network controller writes the config map of the peers, which the simulation
controller counts, and which the bootstrap runner, the manager and the workers
mount as a file. Manager and workers find each other through goose; users of a
scenario exchange stream ids and counts through redis.

Controllers reconcile one object serially, on the copy in a watch cache, and
requeue it 10 s after a pass and 5 s after an error. Any call of a pass may
fail, which ends the pass, and any await lets other objects' passes run.

## 2. Modules

### ReplicaAllocation, MCReplicaAllocation, ReplicaAllocationProofs

The second third of `reconcile_`. `Weigh` and `Divide` are the two loops over
the specs; `weightSum` and `shareSum` keep the partial sums of the code's folds
so that an invariant can talk about them. `Share` is
`((weight / total) * replicas) as i32`: the quotient truncates, and for triples
in `LossyQuotients` the f64 product lies below the integer it should be.
`DeleteExtra`, `Adjust`, `ApplyService` and `ApplyStatefulSet` are the API
calls in their order. `Abort` ends the pass at any of them and leaves the
cluster as it is.

### NetworkBootstrap, BootstrapRunner, NetworkBootstrapProofs

`BootstrapRunner` is the command on its own: the iterator chain of each method
with its cursor, over any peers file. `NetworkBootstrap` EXTENDS it with the
pass that makes the file and the Job and with peers that come, restart under a
new address and lose their links: `PollPeer`, `CountPeer`, `SavePeersMap`,
`ReadJob` and `DeleteJob` (the two calls of `reset_bootstrap_job`), `ApplyJob`,
`PatchStatus`. The pod's steps are the runner's own actions.

### NetworkObjects, NetworkPass, MCNetworkPass, NetworkPassProofs

`NetworkObjects` has no variables. It builds what `cas.rs`, `ceramic.rs`, `ipfs.rs`,
`monitoring/` and `simulation/` build: for each set or job a pod with its containers,
for each of them the environment, mounts, ports and limits, and for each service and
config map what it offers. Of these it keeps the names by which they refer to one
another and the resource limits. `Up` computes which pods come up together: the ones
whose references all lead somewhere, the hosts and ports they call included.

`NetworkPass` is one Network's pass from the dev mode flag to the peers config map.
A pass is what it has left to do (`todo`), computed from the cached spec when it
starts, and one action takes the first step off. The first ones are the loads of the flag for
the ceramic configurations (`LoadMode`), the others API calls: `ApplyNamespace`,
`FindMonitor` and `CreateMonitor`, `ApplyConfigMap`, `ApplyService`, `ApplyAccount`,
`ApplyStatefulSet`, `ApplyRight` (the cluster role and its binding), `FindSecret`,
`ReadSource` and `CreateSecret`, `ListCeramics` with the deletions it leads to, and
`DeleteNetwork` for a network past its TTL. `Abort` ends it at any call, by an error
or a restart of the operator. An object in the cluster remembers its owner, the spec
and the mode it was built from; what it looks like is then a matter of
`NetworkObjects`. Around the pass act the user (`UserEdits`, `UserDeletes`,
`UserCreates`), the watch (`Observe`), the garbage collector, databases that keep the
password they were created with (`DatabasesStart`), and a second network of the same
operator, of which only the flag and the cluster role are left. `ReplicaAllocation`
and `NetworkBootstrap` are the stages of the same pass that this module leaves out.

### SimulationRun, SimulationController and their companions

One action per API call of the pass, which carries uid, nonce and number of
peers from call to call; everyone else (user, garbage collector, pods, network
controller, monitoring) acts between any two of them. A Job's template is
immutable and holds the nonce, so an apply with another nonce fails
(`Conflict`). `patch_status` addresses the Simulation by name.

`SimulationRun` is what all this promises, in six actions: a run is launched under a
nonce, opened to workers, joined by them under that nonce, closed and stopped, and
a run whose Simulation was deleted can be adopted by its successor.
`SimulationController` has it as an instance (`Run`), in which the nonce is that of
the live manager, the stage is the manager's phase and the members are the live
workers: `ImplementsRun`. `SimulationControllerProofs` proves it.

### LoadGeneratorController, LoadGeneratorControllerProofs

Any number of LoadGenerators in one namespace, each with its pass of three API
calls and its cached copy, and the Job that all of them apply under the name
`load-gen-job`. `Conflict` is the immutable template again; `NewJob` has the owner
reference by which the garbage collector finds it. A user deletes LoadGenerators
but does not apply one again under the same name; `SimulationController` has that
for the same pattern.

### LoadGenerator, LoadGeneratorProofs

The `generate-load` command in the Job's pod. The set-up is one action per step that
may end the command. A task is at the head of its loop (`Check`), waits for the node
(`Answer`, `TimeOut`), or holds a result that the channel has no room for (`Send`).
`Collect` is one turn of the collector, which has no await between `recv_many`
and its look at the clock. Time is counted in instants. The clock waits neither for the
collector nor for tasks held up by a full channel; only a timer is at most one instant late.
`backlog` is a history variable: the results in the channel or in front of it when the buffer
ends.

### ScenarioRun, MCScenarioRun, ScenarioRunProofs

The scenarios of the runner whose users share something through redis. The setup
goes one request at a time: `Enter`, `CreateModel`, `Publish`, `ReadId`,
`EnsureModel`, and for the lead user of each worker `IndexModels` and
`SubscribeNode`, one model at a time; then `PrepareDocuments` in
CeramicModelReuse and CeramicWriteOnly. In ReconEventSync the leader makes an id up,
and every user subscribes its node. A failed request ends the user (`Panic`), but for
the subscription, whose failure is only logged.

In CeramicNewStreamsBenchmark the lead user of each worker stores its node's count
before and after the run, and `Judge` is what the manager makes of the counts. In
CeramicAnchoringBenchmark the lead worker's users create documents and
store their ids (`CreateStored`); the manager looks for them on the last peer
(`JudgeSync`), waits, asks the first peer for their anchors and empties the set
(`JudgeAnchors`). In CASBenchmark every user stores the ids of its requests
(`RequestAnchor`) and the manager only empties the set (`JudgeRequests`). The verdict
over ReconEventSync is any here, and `SyncThroughput` has it.

Nodes receive models in their own time, and the documents of the models they
subscribed to; a node may fetch others. The redis, the nodes and the set of ids may
have been used before: `SimulationController` shows that a reapplied Simulation can
take over its predecessor's redis (`ApplyRedis`).

What the anchoring verdict does not say: pending and not requested anchors count
as fine, so that a success means "synced, and none failed yet".

### SyncThroughput, SyncThroughputProofs

The verdict over ReconEventSync. The manager polls a counter per peer before
and after the run, with the fall-back to the old metric name each time; peers
sync events and restart in between. `window` and `inside` are history
variables that the properties compare the verdict with.

## 3. Runs

| Run | Checks | Bounds |
|---|---|---|
| `allocation` | `TypeOK`, `TotalPlaced`, `ProportionalShares`, `HeavierNeverFewer`, `CompletedPassDeploys`, `Converges` | up to 3 specs, all weights 0..3 with replicas 0, 1, 2, 4, 7, the lossy quotients of double arithmetic; 2 edits among four overlapping specs, 2 aborts |
| `simulation_crash` | `SavedRunCompletes`, `UncutPassesLaunch` | 2 peers, 2 aborts, 1 disruption |
| `simulation_rerun` | `TypeOK`, `OneNoncePerRun`, `WorkersAfterManager`, `ImplementsRun` | delete and reapply, one abort, change of the peers or disruption, symmetric draws |
| `simulation_interrupted` | `Launches`, violated | 1 peer, 1 abort |
| `bootstrap_methods` | `RunnerTypeOK`, `LinksDocumented`, `ExitComplete`, `EndsUnlessRing` | 4 peers, n in 0, 1, 2, 3, 5, every file, every set of answering peers |
| `bootstrap_ring` | `Terminates`, violated | 3 peers |
| `network_settles` | `MapServesReaders`, `Settles` | 3 peers, 1 fault of any kind, 1 edit |
| `network_pass` | `TypeOK`, `NoDanglingReference`, `SecretsKept`, `AgreedModeReached`, `EverythingStarts`, `ExpiredRemoved`, `NothingLeftBehind` | 7 specs, 7 histories (below), up to 2 ceramics |
| `load_generator` | `EarlyResultsCounted`, `Stops` | 3 tasks, channel and batch of 2, 6 requests, run time, timeout and buffer of 2 instants |
| `load_generator_controller` | `TypeOK`, `StatusNamesJob`, `SavedLoadEnds`, `TurnComes` | 2 LoadGenerators, both may be deleted, 2 draws each, 2 aborts |
| `scenario_run` | `SharedModels`, `SuccessEarned`, `AnchoringSuccessEarned`, `RemovedWhenSynced`, `Concludes` | all five kinds of scenarios; 2 workers, 3 users, 1 document, 1 failed request, fresh and used redis |
| `sync_throughput` | `SuccessEarned`, `FailureDeserved`, `SuccessReportsMinimum` | 2 peers, 2 events each, 1 restart, 1 failed request, all mixes of versions |

Why the bounds suffice: the arithmetic of the allocation is done for every
input of the bound and proved for all inputs (section 5). Every protocol here
has a fault between two writes as its worst case, and one fault may strike at
each of them; a second one of the same kind finds the system in a state the
first one could have left. Three peers are the smallest network with a peer
that is neither first nor last; two networks, workers, runs and versions
are what it takes to disagree. `CHECK_DEADLOCK FALSE` is used only where the
modelled command ends (`BootstrapRunner`, `ScenarioRun`, `SyncThroughput`,
`LoadGenerator`) or the user may have deleted everything
(`LoadGeneratorController`, `NetworkPass`). The 6 requests let a task fill the channel while two
others wait, and results do get lost at the end of a run within these bounds.

### The histories of `network_pass`

The specs of a network and the faults around it are too many for one product, and most
combinations repeat what a smaller one shows. `MCHistories` has seven, each a spec to
start with, specs it may be edited to, and numbers of edits, deletions,
creations and failed calls:

1. another network in the same operator, and an edit of the dev mode: the shared
   flag and the shared cluster role;
2. a furnished local network (monitoring, both IPFS nodes, a secret of its own, an
   init script of the user's) that becomes a public one, with a failed call;
3. a spec with more ceramics than the operator allows, or with a source secret that
   does not exist, until it is edited to one that works;
4. and 5. a network past its time to live, extended too late or in time, with a creation
   under the same name after it, or with a failed call;
6. a deletion in the middle of a pass, with a failed call;
7. a deletion, and a creation of the same name before or after the collector.

`MAX_CERAMICS` is 2 here, the smallest number with a ceramic that is not the first.
The mode is recorded for three sets: one whose monitoring object loads the flag when it
is built, one that loads it when it is applied, and a ceramic, whose configuration is built
right after the pass has stored the flag. The operator runs its passes as tasks on several
threads (`operator/src/main.rs:29`), so that the store and each load are steps of
their own, between which another network's pass may store. The
collector takes all orphans of a kind at once, and databases that can start start
together, since nothing tells them apart. Pods of the bootstrap, the manager, the
workers and redis are judged with those of the network by `EverythingStarts`.

### What the violated runs show

- `simulation_interrupted`: the nonce is drawn at the start of a pass and reaches
  the status only with its last call. A pass that ends after `apply_manager`
  loses it; every later pass draws another, and the immutable manager Job refuses
  it. The workers are never started.
- `bootstrap_ring`: `skip_while(|(other, _)| other <= idx)` on the endless
  `cycle()` drops every element for the last peer, and the command spins.

Divergences from the documents that the models also show, without a run of
their own:

- After an edit of `spec.bootstrap` each pass fails at the immutable bootstrap Job,
  before `patch_status`, and the status stays what it was, against
  `keramik/src/simulation.md:42`; `Settles` therefore excludes edits.
- Networks with different `devMode` overwrite each other's flag between its store
  and its loads, against `operator/src/network/spec.rs:49`; `AgreedModeReached`
  therefore speaks of networks that agree. The ceramics are no exception: no await lies between
  the store and the loads of their configurations, but other threads run meanwhile, and a ceramic
  can be built under the other network's mode.
- A network created again under its name can find the secrets of its predecessor and
  keep them; the collector then takes them, and the next pass draws new passwords for
  databases that have the old ones (`operator/src/network/controller.rs:962`).
  `SecretsKept` and `NoDanglingReference` therefore speak of the network created first.
- A network is deleted by its name, for an age and a TTL from the cache: one that was
  extended, or created anew without a TTL, can be deleted for what it no longer says
  (`operator/src/network/controller.rs:274`, against `operator/src/network/spec.rs:46`).
- A spec with too many ceramics fails before its TTL is looked at
  (`operator/src/network/controller.rs:259`): such a network never expires, and
  `ExpiredRemoved` excludes it.
- A network edited from the local type to a public one keeps the objects of its CAS;
  `EverythingStarts` asks for what the spec wants, not for nothing else. Pod monitors
  are created once and not updated, and an edit of `privateKeySecret` has no effect
  once the admin secret exists.
- Peers on a go-ipfs node are published with a flight address, for which that node has
  no port (`operator/src/network/ceramic.rs:262`); `EverythingStarts` allows it.
- The load generator's controller loses the nonce of an interrupted pass like the
  simulation's, after which its status stays empty (`TurnComes` excludes it).
- `operator/src/lgen/spec.rs:20` gives `runTime` in minutes; the command and
  `keramik/src/load_generator.md:9` take it as hours. The operator sets
  `GENERATOR_THROTTLE_REQUESTS`, the command reads `GENERATOR_THROTTLE_REQUESTS_RATE`
  and uses neither.
- The buffer of the load generator's collector equals the timeout of a request, so
  that results of requests started at the very end of the run time can be left
  out, and those of an overloaded channel with them, against the comment at `runner/src/load_generator/gen.rs:194`;
  `EarlyResultsCounted` says which.
- With weights that are all zero, fewer replicas are placed than configured
  (`TotalPlaced` needs a positive total), against `keramik/src/mixed_networks.md:56`.
- The manager counts the peers file when its pod starts, the operator when it
  reconciles; the number of workers can differ from the number the manager
  expects, against `runner/src/simulate.rs:414`.
- `patch_status` by name can give a reapplied Simulation the nonce of its
  predecessor, against `runner/src/simulate.rs:82`; `OneNoncePerRun` still holds.
- `reset_bootstrap_job` may delete a Job that became active after it was read,
  against the comment on it; `Settles` shows that the network recovers.
- Defaults of an absent `cas` or `ipfs` section ignore `devMode`, against
  `operator/src/network/spec.rs:49`. The models compare with what the code builds for
  the section, so that `AgreedModeReached` says the flag is read right, not that every
  section looks at it.
- Only a peer without any connection triggers a new bootstrap
  (`operator/src/network/controller.rs:477`): two islands of connected peers are not
  joined, and `Settles` asks only that every peer is connected to some other.
- `PeerRps::min` does not return the minimum if a peer's rate is zero, since its
  comparison calls such pairs `Greater` in both orders, against
  `runner/src/simulate.rs:877`. No property covers the rate a failure reports;
  for a success, where all rates are positive, it is the minimum (`SuccessReportsMinimum`).
- With an empty peers file the random bootstrap subtracts 1 from 0
  (`runner/src/bootstrap.rs:88`): it panics where overflow is checked, and ends quietly in a
  release build, which is what `BootstrapRunner` has.
- In a used redis the followers of a scenario may read the ids of an older run, against
  `runner/src/scenario/ceramic/mod.rs:112`, and in ReconEventSync their nodes then subscribe to
  the old id and receive none of the new events, against `runner/src/simulate.rs:187`.
  `SharedModels` and the second half of `Concludes` therefore need a fresh redis;
  `SuccessEarned` holds in both, as long as no request fails on top of it: a start count
  that falls back to 0 would then count the documents of the older run.
- Ids that a failed anchoring run leaves in `anchor_mids` are judged again by the next
  run; a run that stored no id at all fails, or panics in CASBenchmark, because redis
  refuses SREM without members (`runner/src/simulate.rs:856`, `:681`).
- If the leader of all workers panics before it has published every id, the other users poll redis
  without end; this is the one case in which `Concludes` does not ask for a verdict.
- The scenarios without a criterion succeed whatever their users met, also when every
  user panicked in the setup, against "successful if they complete without error"
  (`runner/src/simulate.rs:574`).
- `is_goose_lead_user` is asked a second time at the end of ReconEventSync
  (`runner/src/scenario/recon_sync.rs:42`) and says no: its results are never logged.
- `get_small_model` reads the large document (`runner/src/scenario/ceramic/simple.rs:57`).
  The ids of `runner/src/scenario/ipfs_block_fetch.rs:39` are unique only while a worker has no more users than
  there are workers. Where every user has models of its own, only those of the lead user
  are indexed (`runner/src/scenario/ceramic/model_instance.rs:189`).

## 4. Fairness

Each assumption is weak fairness unless noted, and has its reason in the code
or in Kubernetes.

- `PassStep`, and `Pass` of `NetworkPass`, in all controllers: passes are requeued after 10 s or 5 s, and each
  call returns or fails within the client's timeout.
- `Refresh`, `Observe`: a watch delivers.
- `RedisStarts`, `ManagerStarts`, `WorkerStarts`, `JobActivates`, `PodRuns`,
  `JobCompletes`, `JobGone`: Kubernetes starts, completes and deletes what it is
  asked to; `CollectNamespace`, `CollectObjects` and `CollectRights` are its collector, of
  which each kind is worked through. `JobActivates` is strongly fair, and never only between the two
  calls of `reset_bootstrap_job`: the Job controller reacts in milliseconds and
  is enabled again after each deletion.
- `PodStep`, `RunnerNext`: a process and its tasks run.
- `Progress` of `ScenarioRun`: users' tasks run, nodes synchronize models and deliver
  documents to subscribers, the run time passes and the manager judges. Each of these
  steps can be taken finitely often, so that fairness to their disjunction is fairness to
  each. `ReadId` and `EnsureModel` are polling loops, enabled
  when the poll would succeed.
- `Collect`, `Tick`, `LocalStep` of the load generator: its tasks, timers and channel
  run; that the node answers (`Answer`) is not assumed. `JobController`,
  `CollectJob`: Kubernetes, as above.
- Nothing is assumed of users, crashes, restarts, failures and edits; they are
  bounded.

## 5. Proofs

Everything here is checked by TLAPS for all values of the constants that the
named ASSUMEs allow, and one theorem (`AnchoringSuccessIsEarned`) under a hypothesis of
its own. With it, each of the invariants that the runs check is a theorem, and so are
the action property `RemovedWhenSynced` and the refinement `ImplementsRun`. Hardly any
of them is inductive as it stands; what each needs besides is said below.

**ReplicaAllocation** (`AllocationAssumption`: weights and replicas are natural
numbers, and a quotient can only come out short where the division is exact).
`TotalPlaced` is not inductive: it says nothing before the last apply. The
invariant `IInv` has one part per stage of the pass. While the shares are being
computed, `FoldBounds` bounds the sum of the first k shares from both sides: it
is at most `weightSum[k] * replicas / total`, and less than k below it, because a
share loses less than one replica or exactly one (`ShareBounds`). After
the last bundle the deficit lies between 0 and the number of bundles, so that
`Adjust` can hand out all of it, one replica per bundle. From then on `placed`
plus what is still to be applied is `replicas`. From `IInv` follow
`ReplicasSumToSpec` and, from the same bounds per share, `SharesAreProportional`;
`TypeCorrect` is one of its parts.

`OrderIsKept` (`HeavierNeverFewer`) needs to know who was incremented: at any time the
bundles that come first in the stable sort (`HeaviestFirst`). A heavier bundle has a
share at least as large (`ShareMonotone`, lossy quotients included: where one loses a
replica, the exact quotient is a positive integer that a lighter bundle does not
reach), and it is incremented before a lighter one. `CompletedPassesDeploy` needs what
has reached the cluster (`ClusterInv`): after the deletions there is nothing that is not
configured, and each turn of the last loop puts one more bundle in place. That the
cluster's replicas then sum to the spec's compares a sum over a set with the code's
running total. It is not proved by induction, which the prover cannot instantiate, but by
counting the pairs of a bundle and one of its replicas (`SumCounts`) and by taking
the least number at which two sums would differ (`LeastNumber`, from well-foundedness).

**NetworkPass** (`PassAssumption`: the flag is Boolean, and what a user writes
as a variable's value is text or an address, as in the CRD; `NamesAssumption`: ceramics
have names of their own, and other ones than the fixed sets), for any specs, histories and bounds. The calls
of a pass form a fixed sequence per spec, which is built by concatenation. Three facts
about it matter, and concatenation preserves them (`SoundJoined`): a secret's creation
directly follows its look or the read of its source (`Linked`), a stateful set follows the
maps, secrets and account that its pods name (`NeedsBefore`), and calls are well formed.
What the pods name is derived from the builders of `NetworkObjects` (`TemplateFacts`).

`IInv` says where a pass stands in that sequence (`Reached`) and that, while the
network created first exists, what the calls before that place made is there
(`Applied`), and a secret about to be created is not (`MissingAt`). A pass from a spec that
has been edited since is covered, since it keeps the spec it started from. Nothing
takes away what was applied: a pass deletes only sets and services of ceramics, and the
collector has nothing to do as long as that network lives (`NothingToCollect`). So a set
finds what it needs when it is applied and ever after (`PodsFindWhatTheyName`), and a
secret is only drawn where there was none, so that no database loses the password it was
started with (`LoginsStay`). `TypeCorrect` is the type invariant. Neither property holds
for a network created again under the same name (section 3), which is why `Alive` asks
for the first.

**BootstrapRunner and NetworkBootstrap** (`RunnerAssumption`, `BootstrapAssumption`), for
any peers. The runner's invariant says where the iterator of the current peer stands
(`Progress`: how far the ring or sentinel chain has come, which of the drawn peers are
left) and what the earlier ones left behind (`Finished`). From it follow
`RunnerStaysWithinTheList` (no index leaves the list: the index arithmetic of short
lists), `OnlyDocumentedLinks` and `EndsComplete`. For the controller, `MapIsServed` rests on
the addresses that a pass has assembled so far: they lie between those of the status
and the peers' present ones (`Assembled`), each peer occurs once and in the order of the poll
(`InOrder`), and past `SavePeersMap` the config map is what the pass found (`Saved`).

**ScenarioRun** (`BenchmarkAssumption`), for any workers, users and bounds.
`ModelsAreShared` needs what a user holds at every place of the setup (`TwoModels`,
`OneModel`) and that no id of an older run comes into a redis of its own (`NothingOld`).
`SuccessIsEarned` needs that each worker has exactly one leader (`Leaders`), so that its two
numbers are counts of one model at one node, in order (`NumbersOf`): then their difference
counts documents of this run, and `Judge` compares it with the target.
`AnchoringSuccessIsEarned` and `OnlySyncedIdsLeave` need that each document of the lead worker
is in the set of ids or cost a failed request, and that nobody adds one between the two
parts of the judgement (`Judged`). They have the hypothesis `MaxDocs <= 64`: of a larger set
`calculate_sample_size` takes only a part, a document outside of it is never looked for, and
the code promises nothing.

**SyncThroughput** (`ThroughputAssumption`), for any number of peers. The samples are bounded
by the history from both sides. With equal versions, a counter never exceeds its sample
before the run plus what came in since the first look (`NotMore`), whatever restarts
in between; without restarts it is never below that sample plus what came in during the run
(`NotLess`). The one earns a success (`SuccessIsEarned`), the other deserves a
failure (`FailureIsDeserved`). `SuccessReportsTheMinimum` is about `PeerRps::min`: where all rates
are positive its comparison is an order (`ComparesWell`), and a least element exists.

**LoadGenerator** (`LoadAssumption`), for any tasks, durations and sizes. Every request is
counted, in the channel or with its task (`Accounted`). When the clock passes the
buffer no task starts another request, so that nothing is missed later but what was in the
channel or in front of it then (`backlog`), and the requests of tasks that started them so late
that they still waited (`Missed`): `EarlyResultsAreCounted`.

**SimulationController** (`SimulationAssumption`). `OneNoncePerRun` relates workers
and manager of the Simulation that exists now; a step of the garbage collector
or of the user may change what that is. The invariant adds that uids in
use are ordered (what is cached, carried by the pass or owned is never newer
than the Simulation itself), and that a pass which is past its manager call
*holds* the manager: if it is about the current Simulation, the manager is live,
has the pass's nonce, and has started when the pass is at the workers. Together
these make an applied worker agree with its manager
(`WorkersShareManagersNonce`, `ManagerFirst`); `TypeCorrect` comes first.

`ControllerImplementsRun` proves the refinement from the
same invariant and from one more, that a pass has a nonce (`NextPassHasNonce`). Most steps
leave the mapped run as it is (`UnseenStep`, `UntouchedStep`); the others have a lemma
each: `ApplyManager` launches or adopts, or changes nothing if the Job refuses it;
`ApplyWorker` joins, which needs that the pass holds a manager that has started;
the phases of the pods open and close the run; `UserDelete` stops it, and
what it leaves behind is no part of a run any more, so that neither the collector nor a
reapplication is seen (`LeftoversUnseen`), but for the manager a reapplied
Simulation takes over.

**LoadGeneratorController** (`ControllerAssumption`), for any number of LoadGenerators.
`StatusNamesJob` needs to know what a pass that is about to save has seen: if its
LoadGenerator still exists, the Job is its own and has the nonce of the pass
(`SaversHoldJob`); and the Job's nonce was drawn for its owner, so that only the owner
gets past `Conflict`. The collector takes the Job of a deleted LoadGenerator
only, which no status of an existing one names.

Only model-checked: the liveness properties, since the prover has no ENABLED and hence no
fairness, and the anchoring verdict over more than 64 documents, about which nothing is
claimed. Recursion is written with functions and folds, and no module declares a RECURSIVE
operator. The library's induction theorems take an operator as a parameter, which no
installed prover can instantiate; where an argument is inductive (running totals, the
concatenated calls, orders on peers), it is put as "take the least number for which it
fails", with the well-foundedness of the natural numbers.

## 6. Not modelled

- The scenarios without shared state (CeramicSimple, CeramicNewStreams, CeramicQuery,
  IpfsRpc): each user works on what it created, at its own node.
- Of the Kubernetes objects: images, probes, storage, datadog, labels that select
  nothing. Expect tests in the repository compare the whole objects.
- The anchoring benchmark without an anchor wait time: `unwrap` panics after the
  sync check (`runner/src/simulate.rs:833`), whatever happened before.
- Goose: how users are spread over workers and how the end of a run reaches
  them is reduced to "users start, run until the run time is over, and stop".
- CRD generation, telemetry, HTTP clients:
  no state of their own.
- The three stages of the network controller's pass are not composed into one module.
  They meet at the calls where one ends and the next begins, and share the objects only
  that `NetworkPass` has.

## 7. Plan

Done: the modules above, the refinement of `SimulationRun`, and the theorems of section 5,
which include all safety properties. Left, in this order:

1. A deployment as one atomic change of the cluster, with `ReplicaAllocation` as its
   refinement, proved like that of `SimulationRun`.
2. The safety cores of the liveness properties, which are in the prover's reach: for instance that
   a Job refused by `Conflict` stays refused, or that what `EverythingStarts` waits for is
   among the calls a pass has left.
