------------------------ MODULE SimulationController ------------------------
(***************************************************************************)
(* The reconcile pass of the simulation controller                         *)
(* (operator/src/simulation/controller.rs) against an API server that      *)
(* other actors keep changing.                                             *)
(*                                                                         *)
(* A pass is a sequence of API calls.  It works on the copy of the         *)
(* Simulation that the watch cache held when it started, and carries the   *)
(* run's nonce from there, or draws a new one; the nonce reaches the       *)
(* status only with the last call of the pass.  Between two calls the      *)
(* cache may move on, the user may delete the Simulation and apply it      *)
(* again (a new uid under the same name), the garbage collector may take   *)
(* objects of a deleted uid, pods may start, finish or crash, the network  *)
(* controller may rewrite the peers config map, and the pass itself may    *)
(* end: an API call fails or the operator restarts.                        *)
(***************************************************************************)
EXTENDS Integers, FiniteSets

CONSTANTS
  Draws,          \* random (name, nonce) pairs that one Simulation may draw
  NoNonce,        \* status is None
  MaxPeers,       \* bound: Ceramic peers in the config map
  MaxReruns,      \* bound: times the user deletes and reapplies
  MaxAborts,      \* bound: passes that end early
  MaxPeerChanges, \* bound: rewrites of the peers config map
  MaxDisruptions, \* bound: manager crashes and monitoring outages
  MaxFaults       \* bound: all of these together, reruns aside

\* The random name and nonce, tagged with the uid they were drawn for.
Nonce == [run : Nat, draw : Draws]

ASSUME SimulationAssumption ==
  /\ NoNonce \notin Nonce
  /\ MaxPeers \in Nat \ {0}
  /\ {MaxReruns, MaxAborts, MaxPeerChanges, MaxDisruptions, MaxFaults} \subseteq Nat

VARIABLES
  sim,        \* the Simulation at the API server: uid, exists, status nonce
  cached,     \* the controller's watch cache of it
  pass,       \* the running pass: next call, uid, nonce, peers seen, worker loop
  redis,      \* the redis Service and StatefulSet: owner uid (0: absent), ready
  manager,    \* the manager Service and Job
  workers,    \* the worker Jobs
  peers,      \* Ceramic peers in the peers config map, or NoMap
  monitoring, \* jaeger, prometheus and opentelemetry: "absent", "starting", "ready"
  spent       \* how much of each bound is used up

objects == <<redis, manager, workers>>
environment == <<peers, monitoring>>
vars == <<sim, cached, pass, objects, environment, spent>>

NoMap == -1
Workers == 0 .. MaxPeers - 1
BackoffLimit == 1      \* of the manager Job

NoRedis == [owner |-> 0, ready |-> FALSE]
NoManager == [owner |-> 0, nonce |-> NoNonce, phase |-> "pending", expects |-> 0, failures |-> 0]
NoWorker == [owner |-> 0, nonce |-> NoNonce, phase |-> "pending"]
IdlePass == [at |-> "idle", uid |-> 0, nonce |-> NoNonce, n |-> 0, w |-> 0]

\* Ends the pass, by `?` or by a requeue: the next one starts from scratch.
Leave == pass' = IdlePass

Goto(stage) == pass' = [pass EXCEPT !.at = stage]

Spend(kind, limit) ==
  /\ spent[kind] < limit
  /\ kind # "reruns" => spent.aborts + spent.peerChanges + spent.disruptions < MaxFaults
  /\ spent' = [spent EXCEPT ![kind] = @ + 1]

Init ==
  /\ sim = [uid |-> 1, exists |-> TRUE, nonce |-> NoNonce]
  /\ cached = [uid |-> 0, exists |-> FALSE, nonce |-> NoNonce]
  /\ pass = IdlePass
  /\ redis = NoRedis
  /\ manager = NoManager
  /\ workers = [w \in Workers |-> NoWorker]
  /\ peers = NoMap
  /\ monitoring = "absent"
  /\ spent = [reruns |-> 0, aborts |-> 0, peerChanges |-> 0, disruptions |-> 0]

-----------------------------------------------------------------------------
(* The pass, one action per API call. *)

\* A random draw never meets a nonce that is still around.
Fresh ==
  [run : {cached.uid}, draw : Draws]
    \ ({sim.nonce, manager.nonce} \cup {workers[w].nonce : w \in Workers})

\* Mutant of Carried: the status is not consulted.
CarriedNever == Fresh

\* The nonce of the cached status, or a new random one.
Carried == IF cached.nonce # NoNonce THEN {cached.nonce} ELSE Fresh

\* reconcile_ starts on the cached Simulation.
StartPass ==
  /\ pass.at = "idle"
  /\ cached.exists
  /\ \E nonce \in Carried :
       pass' = [IdlePass EXCEPT !.at = "peers", !.uid = cached.uid, !.nonce = nonce]
  /\ UNCHANGED <<sim, cached, objects, environment, spent>>

\* Mutant of ReadPeers: a missing config map is not an error.
ReadPeersUnchecked ==
  /\ pass.at = "peers"
  /\ pass' = [pass EXCEPT !.at = "monitoring", !.n = peers]
  /\ UNCHANGED <<sim, cached, objects, environment, spent>>

\* get_num_peers: an error without the config map.
ReadPeers ==
  /\ pass.at = "peers"
  /\ IF peers = NoMap
     THEN Leave
     ELSE pass' = [pass EXCEPT !.at = "monitoring", !.n = peers]
  /\ UNCHANGED <<sim, cached, objects, environment, spent>>

\* monitoring_ready: an error if a set is missing, a requeue if one is not ready.
ReadMonitoring ==
  /\ pass.at = "monitoring"
  /\ IF monitoring = "ready" THEN Goto("redis") ELSE Leave
  /\ UNCHANGED <<sim, cached, objects, environment, spent>>

\* Server-side apply creates redis, or makes this pass's Simulation its owner.
ApplyRedis ==
  /\ pass.at = "redis"
  /\ redis' = [redis EXCEPT !.owner = pass.uid]
  /\ Goto("redisReady")
  /\ UNCHANGED <<sim, cached, manager, workers, environment, spent>>

ReadRedis ==
  /\ pass.at = "redisReady"
  /\ IF redis.owner # 0 /\ redis.ready THEN Goto("manager") ELSE Leave
  /\ UNCHANGED <<sim, cached, objects, environment, spent>>

\* Mutant of Conflict: the Job is replaced instead.
ConflictNever(job) == FALSE

\* A Job's pod template is immutable, and the nonce is part of it.
Conflict(job) == job.owner # 0 /\ job.nonce # pass.nonce

\* Mutant of Apply: the Job is deleted and created again.
ApplyAnew(job) == [job EXCEPT !.owner = pass.uid, !.nonce = pass.nonce, !.phase = "pending"]

\* apply_job: creates the Job, or only takes over the ownership of an equal one.
Apply(job) == [job EXCEPT !.owner = pass.uid, !.nonce = pass.nonce]

ApplyManager ==
  /\ pass.at = "manager"
  /\ IF Conflict(manager)
     THEN /\ Leave
          /\ UNCHANGED manager
     ELSE /\ manager' = Apply(manager)
          /\ Goto("gate")
  /\ UNCHANGED <<sim, cached, redis, workers, environment, spent>>

\* Mutants of ReadManager: the gate does not look at the status; a manager
\* that is not ready is an error like redis that is not ready.
ReadManagerAnyPhase ==
  /\ pass.at = "gate"
  /\ IF manager.owner = 0 THEN Leave ELSE Goto("workers")
  /\ UNCHANGED <<sim, cached, objects, environment, spent>>

ReadManagerStrict ==
  /\ pass.at = "gate"
  /\ IF manager.owner # 0 /\ manager.phase = "ready" THEN Goto("workers") ELSE Leave
  /\ UNCHANGED <<sim, cached, objects, environment, spent>>

\* The manager Job's status.  Not ready: skip the workers, but save the status.
ReadManager ==
  /\ pass.at = "gate"
  /\ \/ manager.owner = 0 /\ Leave
     \/ manager.owner # 0 /\ manager.phase = "ready" /\ Goto("workers")
     \/ manager.owner # 0 /\ manager.phase # "ready" /\ Goto("save")
  /\ UNCHANGED <<sim, cached, objects, environment, spent>>

\* One turn of the loop of apply_n_workers.
ApplyWorker ==
  /\ pass.at = "workers"
  /\ IF pass.w < pass.n
     THEN IF Conflict(workers[pass.w])
          THEN /\ Leave
               /\ UNCHANGED workers
          ELSE /\ workers' = [workers EXCEPT ![pass.w] = Apply(workers[pass.w])]
               /\ pass' = [pass EXCEPT !.w = @ + 1]
     ELSE /\ Goto("save")
          /\ UNCHANGED workers
  /\ UNCHANGED <<sim, cached, redis, manager, environment, spent>>

\* patch_status addresses the Simulation by name, whatever its uid is by now.
PatchStatus ==
  /\ pass.at = "save"
  /\ sim' = IF sim.exists THEN [sim EXCEPT !.nonce = pass.nonce] ELSE sim
  /\ Leave
  /\ UNCHANGED <<cached, objects, environment, spent>>

Abort ==
  /\ pass.at # "idle"
  /\ Spend("aborts", MaxAborts)
  /\ Leave
  /\ UNCHANGED <<sim, cached, objects, environment>>

PassStep ==
  \/ StartPass \/ ReadPeers \/ ReadMonitoring \/ ApplyRedis \/ ReadRedis
  \/ ApplyManager \/ ReadManager \/ ApplyWorker \/ PatchStatus

-----------------------------------------------------------------------------
(* Everyone else. *)

\* The watch delivers the current object.
Refresh ==
  /\ cached # sim
  /\ cached' = sim
  /\ UNCHANGED <<sim, pass, objects, environment, spent>>

UserDelete ==
  /\ sim.exists
  /\ Spend("reruns", MaxReruns)
  /\ sim' = [sim EXCEPT !.exists = FALSE, !.nonce = NoNonce]
  /\ UNCHANGED <<cached, pass, objects, environment>>

UserReapply ==
  /\ ~ sim.exists
  /\ sim' = [uid |-> sim.uid + 1, exists |-> TRUE, nonce |-> NoNonce]
  /\ UNCHANGED <<cached, pass, objects, environment, spent>>

Orphan(owner) == owner # 0 /\ ~ (sim.exists /\ owner = sim.uid)

\* Kubernetes removes what a deleted Simulation owned, in any order.
CollectRedis ==
  /\ Orphan(redis.owner)
  /\ redis' = NoRedis
  /\ UNCHANGED <<sim, cached, pass, manager, workers, environment, spent>>

CollectManager ==
  /\ Orphan(manager.owner)
  /\ manager' = NoManager
  /\ UNCHANGED <<sim, cached, pass, redis, workers, environment, spent>>

CollectWorker(w) ==
  /\ Orphan(workers[w].owner)
  /\ workers' = [workers EXCEPT ![w] = NoWorker]
  /\ UNCHANGED <<sim, cached, pass, redis, manager, environment, spent>>

RedisStarts ==
  /\ redis.owner # 0 /\ ~ redis.ready
  /\ redis' = [redis EXCEPT !.ready = TRUE]
  /\ UNCHANGED <<sim, cached, pass, manager, workers, environment, spent>>

\* The manager reads the peers file and expects one worker per Ceramic peer.
ManagerStarts ==
  /\ manager.owner # 0
  /\ manager.phase \in {"pending", "retrying"}
  /\ peers # NoMap
  /\ manager' = [manager EXCEPT !.phase = "ready", !.expects = peers]
  /\ UNCHANGED <<sim, cached, pass, redis, workers, environment, spent>>

\* "No peers found", or a crash of the pod; the Job retries BackoffLimit times.
ManagerFails ==
  /\ manager.phase = "ready"
  /\ manager' = [manager EXCEPT
                   !.phase = IF manager.failures < BackoffLimit THEN "retrying" ELSE "failed",
                   !.failures = @ + 1]
  /\ IF manager.expects = 0 THEN UNCHANGED spent ELSE Spend("disruptions", MaxDisruptions)
  /\ UNCHANGED <<sim, cached, pass, redis, workers, environment>>

\* A worker finds its target peer in the peers file and connects.
WorkerStarts(w) ==
  /\ workers[w].owner # 0 /\ workers[w].phase = "pending"
  /\ w < peers
  /\ workers' = [workers EXCEPT ![w].phase = "running"]
  /\ UNCHANGED <<sim, cached, pass, redis, manager, environment, spent>>

\* Its target peer stays missing through all retries of the Job.
WorkerFails(w) ==
  /\ workers[w].owner # 0 /\ workers[w].phase = "pending"
  /\ peers # NoMap /\ peers <= w
  /\ workers' = [workers EXCEPT ![w].phase = "failed"]
  /\ UNCHANGED <<sim, cached, pass, redis, manager, environment, spent>>

Running == {w \in Workers : workers[w].owner # 0 /\ workers[w].phase = "running"}

\* All expected workers connected, the run time passed, everyone stops.
RunCompletes ==
  /\ manager.phase = "ready" /\ manager.expects > 0
  /\ Cardinality(Running) >= manager.expects
  /\ manager' = [manager EXCEPT !.phase = "done"]
  /\ workers' = [w \in Workers |->
                   IF w \in Running THEN [workers[w] EXCEPT !.phase = "done"] ELSE workers[w]]
  /\ UNCHANGED <<sim, cached, pass, redis, environment, spent>>

PublishPeers ==
  /\ peers = NoMap
  /\ peers' \in 1 .. MaxPeers
  /\ UNCHANGED <<sim, cached, pass, objects, monitoring, spent>>

\* Peers that are not ready drop out of the config map.
ChangePeers ==
  /\ peers # NoMap
  /\ Spend("peerChanges", MaxPeerChanges)
  /\ peers' \in 0 .. MaxPeers
  /\ UNCHANGED <<sim, cached, pass, objects, monitoring>>

MonitoringComesUp ==
  /\ monitoring # "ready"
  /\ monitoring' = IF monitoring = "absent" THEN "starting" ELSE "ready"
  /\ UNCHANGED <<sim, cached, pass, objects, peers, spent>>

MonitoringOutage ==
  /\ monitoring = "ready"
  /\ Spend("disruptions", MaxDisruptions)
  /\ monitoring' = "starting"
  /\ UNCHANGED <<sim, cached, pass, objects, peers>>

Cluster ==
  \/ RedisStarts \/ ManagerStarts \/ RunCompletes
  \/ PublishPeers \/ MonitoringComesUp

Collect == CollectRedis \/ CollectManager \/ \E w \in Workers : CollectWorker(w)

Disturbance ==
  \/ UserDelete \/ UserReapply \/ ChangePeers \/ MonitoringOutage
  \/ ManagerFails \/ \E w \in Workers : WorkerFails(w)

Next ==
  \/ PassStep \/ Abort \/ Refresh
  \/ Cluster \/ \E w \in Workers : WorkerStarts(w)
  \/ Collect \/ Disturbance

Spec == Init /\ [][Next]_vars

\* Passes are requeued after 10s (5s on an error) and no call blocks; the
\* watch delivers; Kubernetes starts the pods it is asked for.
FairSpec ==
  /\ Spec
  /\ WF_vars(PassStep) /\ WF_vars(Refresh)
  /\ WF_vars(RedisStarts) /\ WF_vars(ManagerStarts) /\ WF_vars(RunCompletes)
  /\ WF_vars(PublishPeers) /\ WF_vars(MonitoringComesUp)
  /\ \A w \in Workers : WF_vars(WorkerStarts(w))

-----------------------------------------------------------------------------
(* Properties *)

Stages ==
  {"idle", "peers", "monitoring", "redis", "redisReady", "manager", "gate",
   "workers", "save"}
JobPhases == {"pending", "ready", "retrying", "running", "done", "failed"}
MaybeNonce == Nonce \cup {NoNonce}
Passes == [at : Stages, uid : Nat, nonce : MaybeNonce, n : 0 .. MaxPeers, w : 0 .. MaxPeers]
ManagerJobs ==
  [owner : Nat, nonce : MaybeNonce, phase : JobPhases, expects : 0 .. MaxPeers, failures : Nat]
WorkerJobs == [owner : Nat, nonce : MaybeNonce, phase : JobPhases]

\* Types; the worker loop never leaves the Jobs that exist.
TypeOK ==
  /\ sim \in [uid : Nat \ {0}, exists : BOOLEAN, nonce : MaybeNonce]
  /\ cached \in [uid : Nat, exists : BOOLEAN, nonce : MaybeNonce]
  /\ pass \in Passes
  /\ redis \in [owner : Nat, ready : BOOLEAN]
  /\ manager \in ManagerJobs
  /\ workers \in [Workers -> WorkerJobs]
  /\ peers \in NoMap .. MaxPeers
  /\ monitoring \in {"absent", "starting", "ready"}
  /\ spent \in [{"reruns", "aborts", "peerChanges", "disruptions"} -> Nat]

\* Object o belongs to the Simulation that exists now.
Live(o) == sim.exists /\ o.owner = sim.uid

\* Every worker of the current Simulation has a manager of the same Simulation
\* and the same nonce, through stale caches, lost nonces, reruns and leftovers
\* of earlier runs: "All workers and manager must be given the same nonce"
\* (runner/src/simulate.rs:83).
OneNoncePerRun ==
  \A w \in Workers :
    Live(workers[w]) => Live(manager) /\ workers[w].nonce = manager.nonce

\* The manager has started before any worker of its run exists
\* (keramik/src/simulation.md:60).
WorkersAfterManager ==
  \A w \in Workers : Live(workers[w]) => manager.phase # "pending"

\* The run of the Simulation that exists, as far as its Jobs tell.
Run == INSTANCE SimulationRun WITH
  Nonces  <- Nonce,
  nonce   <- IF Live(manager) THEN manager.nonce ELSE NoNonce,
  stage   <- IF ~ Live(manager) THEN "none"
             ELSE IF manager.phase = "pending" THEN "launched"
             ELSE IF manager.phase \in {"ready", "retrying"} THEN "open" ELSE "over",
  members <- [w \in {v \in Workers : Live(workers[v])} |-> workers[w].nonce]

\* The controller implements SimulationRun: until the user deletes the
\* Simulation no pass, stale cache or garbage collection changes the nonce of
\* its run, restarts its manager, takes a worker away or lets one join under
\* another nonce (runner/src/simulate.rs:83).
ImplementsRun == Run!Spec

\* A run whose nonce reached the status gets its manager and all its workers
\* and completes, whatever passes are cut short later.
SavedRunCompletes == sim.nonce # NoNonce ~> manager.phase = "done"

\* The launch sequence of keramik/src/simulation.md:60: once everything it needs
\* is ready, the simulation is started and stops when complete.
Launches == <>(manager.phase = "done")

\* It is, whatever the order in which caches, redis, monitoring and manager
\* become ready, unless a pass is cut short.
UncutPassesLaunch == Launches \/ <>(spent.aborts > 0)
=============================================================================
