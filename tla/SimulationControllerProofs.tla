--------------------- MODULE SimulationControllerProofs ---------------------
(***************************************************************************)
(* TLAPS proofs about SimulationController: for any number of peers,       *)
(* draws, reruns and aborted passes, the Jobs of the Simulation that       *)
(* exists agree on one nonce, its workers follow its manager, and every    *)
(* step is one of the abstract SimulationRun or leaves it as it is.        *)
(*                                                                         *)
(* OneNoncePerRun is not inductive.  A step of a pass for an old uid could *)
(* take the manager away from the current one, unless the uids are ordered *)
(* (owners <= pass <= cache <= API server: Ordered), and a worker could be *)
(* created under a manager of another nonce, unless the pass still holds   *)
(* the manager it applied (HoldsManager).  The refinement rests on the     *)
(* same invariant: a live worker has a live manager of its nonce, and a    *)
(* pass at its workers holds a manager that has started.                   *)
(***************************************************************************)
EXTENDS SimulationController, TLAPS

Owners == {redis.owner, manager.owner} \cup {workers[w].owner : w \in Workers}

\* Uids only grow along owner, pass, cache and API server.
Ordered ==
  /\ pass.uid <= cached.uid
  /\ cached.uid <= sim.uid
  /\ manager.owner <= cached.uid
  /\ \A w \in Workers : workers[w].owner <= cached.uid
  /\ pass.at # "idle" =>
       /\ manager.owner <= pass.uid
       /\ \A w \in Workers : workers[w].owner <= pass.uid

LivePass == sim.exists /\ pass.uid = sim.uid

\* After apply_manager, a pass for the existing Simulation owns the manager,
\* with its own nonce, and past the gate the manager has started.
HoldsManager ==
  /\ pass.at \in {"gate", "workers"} /\ LivePass =>
       manager.owner = pass.uid /\ manager.nonce = pass.nonce
  /\ pass.at = "workers" /\ LivePass => manager.phase # "pending"

IInv ==
  /\ TypeOK
  /\ Ordered
  /\ HoldsManager
  /\ OneNoncePerRun
  /\ WorkersAfterManager

-----------------------------------------------------------------------------
\* Nothing is owned and no pass runs at the start.
LEMMA InitIInv == Init => IInv
<1> SUFFICES ASSUME Init PROVE IInv
  OBVIOUS
<1> USE SimulationAssumption
<1>1. TypeOK
  BY DEF Init, TypeOK, IdlePass, NoRedis, NoManager, NoWorker, MaybeNonce, NoMap,
         Stages, JobPhases, Workers, Passes, ManagerJobs, WorkerJobs
<1>2. Ordered
  BY DEF Init, Ordered, IdlePass, NoManager, NoWorker
<1>3. HoldsManager
  BY DEF Init, HoldsManager, IdlePass
<1>4. OneNoncePerRun /\ WorkersAfterManager
  BY DEF Init, OneNoncePerRun, WorkersAfterManager, Live, NoWorker
<1> QED
  BY <1>1, <1>2, <1>3, <1>4 DEF IInv

-----------------------------------------------------------------------------
(* Types *)

\* A pass that ends or moves to another stage stays a pass.
LEMMA PassTypes ==
  /\ IdlePass \in Passes
  /\ Leave => pass' \in Passes
  /\ \A stage \in Stages : pass \in Passes /\ Goto(stage) => pass' \in Passes
<1> USE SimulationAssumption DEF Passes
<1>1. IdlePass \in Passes
  BY DEF IdlePass, Stages, MaybeNonce
<1>2. \A stage \in Stages : pass \in Passes /\ Goto(stage) => pass' \in Passes
  BY DEF Goto
<1> QED
  BY <1>1, <1>2 DEF Leave

\* Every pass step leaves a typed pass.
LEMMA PassStepPass == TypeOK /\ PassStep => pass' \in Passes
<1> SUFFICES ASSUME TypeOK, PassStep PROVE pass' \in Passes
  OBVIOUS
<1>0. pass \in Passes /\ peers \in NoMap .. MaxPeers /\ MaxPeers \in Nat
  BY SimulationAssumption DEF TypeOK
<1> DEFINE Jump(stage) == stage \in Stages /\ Goto(stage)
<1>1. Leave \/ (\E stage \in Stages : Goto(stage)) => pass' \in Passes
  BY <1>0, PassTypes
<1>2. CASE StartPass
  <2>1. PICK nonce \in Carried :
          pass' = [IdlePass EXCEPT !.at = "peers", !.uid = cached.uid, !.nonce = nonce]
    BY <1>2 DEF StartPass
  <2>2. cached.uid \in Nat /\ cached.nonce \in MaybeNonce
    BY DEF TypeOK
  <2>3. nonce \in MaybeNonce
    BY <2>1, <2>2 DEF Carried, Fresh, Nonce, MaybeNonce
  <2> QED
    BY <2>1, <2>2, <2>3, PassTypes DEF Passes, Stages
<1>3. CASE ReadPeers
  <2>1. peers # NoMap => peers \in 0 .. MaxPeers
    BY <1>0 DEF NoMap
  <2>2. CASE peers # NoMap /\ pass' = [pass EXCEPT !.at = "monitoring", !.n = peers]
    BY <1>0, <2>1, <2>2 DEF Passes, Stages
  <2> QED
    BY <1>1, <1>3, <2>2 DEF ReadPeers
<1>4. CASE ReadMonitoring
  BY <1>1, <1>4 DEF ReadMonitoring, Stages
<1>5. CASE ApplyRedis
  BY <1>1, <1>5 DEF ApplyRedis, Stages
<1>6. CASE ReadRedis
  BY <1>1, <1>6 DEF ReadRedis, Stages
<1>7. CASE ApplyManager
  BY <1>1, <1>7 DEF ApplyManager, Stages
<1>8. CASE ReadManager
  BY <1>1, <1>8 DEF ReadManager, Stages
<1>9. CASE ApplyWorker
  <2>1. CASE pass.w < pass.n /\ pass' = [pass EXCEPT !.w = @ + 1]
    BY <1>0, <2>1 DEF Passes
  <2> QED
    BY <1>1, <1>9, <2>1 DEF ApplyWorker, Stages
<1>10. CASE PatchStatus
  BY <1>1, <1>10 DEF PatchStatus
<1> QED
  BY <1>2, <1>3, <1>4, <1>5, <1>6, <1>7, <1>8, <1>9, <1>10 DEF PassStep

\* apply_job keeps a Job's record of the same kind.
LEMMA ApplyTypes ==
  ASSUME TypeOK
  PROVE  /\ Apply(manager) \in ManagerJobs
         /\ \A w \in Workers : Apply(workers[w]) \in WorkerJobs
<1>1. pass.uid \in Nat /\ pass.nonce \in MaybeNonce
  BY DEF TypeOK, Passes
<1>2. Apply(manager) \in ManagerJobs
  BY <1>1 DEF TypeOK, Apply, ManagerJobs
<1>3. \A w \in Workers : Apply(workers[w]) \in WorkerJobs
  <2> TAKE w \in Workers
  <2>1. workers[w] \in WorkerJobs
    BY DEF TypeOK
  <2> QED
    BY <1>1, <2>1 DEF Apply, WorkerJobs
<1> QED
  BY <1>2, <1>3

\* What each pass step leaves behind in the cluster.
LEMMA PassStepTypes == TypeOK /\ PassStep => TypeOK'
<1> SUFFICES ASSUME TypeOK, PassStep PROVE TypeOK'
  OBVIOUS
<1>0. pass' \in Passes
  BY PassStepPass
<1>1. CASE UNCHANGED <<sim, cached, objects, environment, spent>>
  BY <1>0, <1>1 DEF TypeOK, objects, environment
<1>2. CASE ApplyRedis
  <2>1. redis' \in [owner : Nat, ready : BOOLEAN]
    BY <1>2 DEF ApplyRedis, TypeOK, Passes
  <2> QED
    BY <1>0, <1>2, <2>1 DEF ApplyRedis, TypeOK, environment
<1>3. CASE ApplyManager
  <2>1. manager' \in ManagerJobs
    BY <1>3, ApplyTypes DEF ApplyManager, TypeOK
  <2> QED
    BY <1>0, <1>3, <2>1 DEF ApplyManager, TypeOK, environment
<1>4. CASE ApplyWorker
  <2>1. pass.w < pass.n => pass.w \in Workers
    BY SimulationAssumption, SMTT(30) DEF TypeOK, Passes, Workers
  <2>2. workers' \in [Workers -> WorkerJobs]
    BY <1>4, <2>1, ApplyTypes DEF ApplyWorker, TypeOK
  <2> QED
    BY <1>0, <1>4, <2>2 DEF ApplyWorker, TypeOK, environment
<1>5. CASE PatchStatus
  <2>1. sim' \in [uid : Nat \ {0}, exists : BOOLEAN, nonce : MaybeNonce]
    BY <1>5 DEF PatchStatus, TypeOK, Passes
  <2> QED
    BY <1>0, <1>5, <2>1 DEF PatchStatus, TypeOK, objects, environment
<1> QED
  BY <1>1, <1>2, <1>3, <1>4, <1>5
  DEF PassStep, StartPass, ReadPeers, ReadMonitoring, ReadRedis, ReadManager

\* Spending keeps the budget typed.
LEMMA SpendTypes ==
  ASSUME TypeOK, NEW kind \in {"reruns", "aborts", "peerChanges", "disruptions"},
         NEW limit, Spend(kind, limit)
  PROVE  spent' \in [{"reruns", "aborts", "peerChanges", "disruptions"} -> Nat]
<1>1. spent[kind] + 1 \in Nat
  BY DEF TypeOK
<1> QED
  BY <1>1 DEF TypeOK, Spend

\* The pods of the cluster keep the variables typed.
LEMMA ClusterTypes ==
  TypeOK /\ (Cluster \/ \E w \in Workers : WorkerStarts(w)) => TypeOK'
<1> SUFFICES ASSUME TypeOK, Cluster \/ \E w \in Workers : WorkerStarts(w) PROVE TypeOK'
  OBVIOUS
<1>1. CASE RedisStarts
  BY <1>1 DEF RedisStarts, TypeOK, environment
<1>2. CASE ManagerStarts
  <2>1. peers \in 0 .. MaxPeers
    BY <1>2, SimulationAssumption DEF ManagerStarts, TypeOK, NoMap
  <2>2. manager' \in ManagerJobs
    BY <1>2, <2>1 DEF ManagerStarts, TypeOK, ManagerJobs, JobPhases
  <2> QED
    BY <1>2, <2>2 DEF ManagerStarts, TypeOK, environment
<1>3. CASE RunCompletes
  <2>1. manager' \in ManagerJobs
    BY <1>3 DEF RunCompletes, TypeOK, ManagerJobs, JobPhases
  <2>2. workers' \in [Workers -> WorkerJobs]
    BY <1>3 DEF RunCompletes, TypeOK, WorkerJobs, JobPhases
  <2> QED
    BY <1>3, <2>1, <2>2 DEF RunCompletes, TypeOK, environment
<1>4. CASE PublishPeers
  <2>1. peers' \in NoMap .. MaxPeers
    BY <1>4, SimulationAssumption DEF PublishPeers, NoMap
  <2> QED
    BY <1>4, <2>1 DEF PublishPeers, TypeOK, objects
<1>5. CASE MonitoringComesUp
  BY <1>5 DEF MonitoringComesUp, TypeOK, objects
<1>6. CASE \E w \in Workers : WorkerStarts(w)
  <2>1. workers' \in [Workers -> WorkerJobs]
    BY <1>6 DEF WorkerStarts, TypeOK, WorkerJobs, JobPhases
  <2> QED
    BY <1>6, <2>1 DEF WorkerStarts, TypeOK, environment
<1> QED
  BY <1>1, <1>2, <1>3, <1>4, <1>5, <1>6 DEF Cluster

\* The collector keeps the variables typed.
LEMMA CollectTypes == TypeOK /\ Collect => TypeOK'
<1> SUFFICES ASSUME TypeOK, Collect PROVE TypeOK'
  OBVIOUS
<1>1. CASE CollectRedis
  BY <1>1 DEF CollectRedis, NoRedis, TypeOK, environment
<1>2. CASE CollectManager
  <2>1. NoManager \in ManagerJobs
    BY SimulationAssumption DEF NoManager, ManagerJobs, MaybeNonce, JobPhases
  <2> QED
    BY <1>2, <2>1 DEF CollectManager, TypeOK, environment
<1>3. CASE \E w \in Workers : CollectWorker(w)
  <2>1. NoWorker \in WorkerJobs
    BY DEF NoWorker, WorkerJobs, MaybeNonce, JobPhases
  <2> QED
    BY <1>3, <2>1 DEF CollectWorker, TypeOK, environment
<1> QED
  BY <1>1, <1>2, <1>3 DEF Collect

\* So do the user and the failures.
LEMMA DisturbanceTypes == TypeOK /\ Disturbance => TypeOK'
<1> SUFFICES ASSUME TypeOK, Disturbance PROVE TypeOK'
  OBVIOUS
<1>1. CASE UserDelete
  <2>1. sim' \in [uid : Nat \ {0}, exists : BOOLEAN, nonce : MaybeNonce]
    BY <1>1 DEF UserDelete, TypeOK, MaybeNonce
  <2> QED
    BY <1>1, <2>1, SpendTypes DEF UserDelete, TypeOK, objects, environment
<1>2. CASE UserReapply
  <2>1. sim.uid + 1 \in Nat \ {0}
    BY DEF TypeOK
  <2>2. sim' \in [uid : Nat \ {0}, exists : BOOLEAN, nonce : MaybeNonce]
    BY <1>2, <2>1 DEF UserReapply, MaybeNonce
  <2> QED
    BY <1>2, <2>2 DEF UserReapply, TypeOK, objects, environment
<1>3. CASE ChangePeers
  <2>1. peers' \in NoMap .. MaxPeers
    BY <1>3, SimulationAssumption DEF ChangePeers, NoMap
  <2> QED
    BY <1>3, <2>1, SpendTypes DEF ChangePeers, TypeOK, objects
<1>4. CASE MonitoringOutage
  BY <1>4, SpendTypes DEF MonitoringOutage, TypeOK, objects
<1>5. CASE ManagerFails
  <2>1. manager.failures + 1 \in Nat
    BY DEF TypeOK, ManagerJobs
  <2>2. manager' \in ManagerJobs
    BY <1>5, <2>1 DEF ManagerFails, TypeOK, ManagerJobs, JobPhases
  <2>3. spent' \in [{"reruns", "aborts", "peerChanges", "disruptions"} -> Nat]
    BY <1>5, SpendTypes DEF ManagerFails, TypeOK
  <2> QED
    BY <1>5, <2>2, <2>3 DEF ManagerFails, TypeOK, environment
<1>6. CASE \E w \in Workers : WorkerFails(w)
  <2>1. workers' \in [Workers -> WorkerJobs]
    BY <1>6 DEF WorkerFails, TypeOK, WorkerJobs, JobPhases
  <2> QED
    BY <1>6, <2>1 DEF WorkerFails, TypeOK, environment
<1> QED
  BY <1>1, <1>2, <1>3, <1>4, <1>5, <1>6 DEF Disturbance

\* Every step keeps the variables typed.
LEMMA TypeStep == TypeOK /\ [Next]_vars => TypeOK'
<1> SUFFICES ASSUME TypeOK, [Next]_vars PROVE TypeOK'
  OBVIOUS
<1>1. CASE Abort
  BY <1>1, SpendTypes, PassTypes DEF Abort, TypeOK, objects, environment
<1>2. CASE Refresh
  BY <1>2 DEF Refresh, TypeOK, objects, environment
<1>3. CASE UNCHANGED vars
  BY <1>3 DEF vars, TypeOK, objects, environment
<1> QED
  BY <1>1, <1>2, <1>3, PassStepTypes, ClusterTypes, CollectTypes, DisturbanceTypes DEF Next

-----------------------------------------------------------------------------
(* The invariant *)

\* Numbers behind the uids.
LEMMA UidTypes ==
  ASSUME TypeOK
  PROVE  /\ sim.uid \in Nat /\ sim.uid > 0 /\ sim.exists \in BOOLEAN
         /\ cached.uid \in Nat /\ pass.uid \in Nat /\ manager.owner \in Nat
         /\ \A w \in Workers : workers[w].owner \in Nat
BY DEF TypeOK, Passes, ManagerJobs, WorkerJobs

\* A step that leaves the Jobs to their owners, with their nonces, and takes the
\* pass out of the stages that rely on the manager, or leaves it where it is.
LEMMA QuietStep ==
  ASSUME IInv, TypeOK',
         sim'.uid = sim.uid, sim'.exists => sim.exists,
         cached.uid <= cached'.uid, cached'.uid <= sim.uid,
         manager'.owner = manager.owner, manager'.nonce = manager.nonce,
         manager.phase # "pending" => manager'.phase # "pending",
         \A w \in Workers : workers'[w].owner = workers[w].owner
                            /\ workers'[w].nonce = workers[w].nonce,
         \/ pass' = pass
         \/ pass' = IdlePass
         \/ pass.at # "idle" /\ pass'.uid = pass.uid /\ pass'.at \notin {"gate", "workers"}
  PROVE  IInv'
<1> USE DEF IInv
<1>1. Ordered'
  <2>1. IdlePass.uid = 0 /\ IdlePass.at = "idle"
    BY DEF IdlePass
  <2>2. pass'.uid = pass.uid \/ pass'.uid = 0
    BY <2>1
  <2>3. pass'.at # "idle" => pass.at # "idle" /\ pass'.uid = pass.uid
    BY <2>1
  <2>4. cached'.uid \in Nat
    BY DEF TypeOK
  <2>5. pass'.uid <= cached'.uid
    BY <2>2, <2>4, UidTypes DEF Ordered
  <2>6. /\ manager'.owner <= cached'.uid
        /\ \A w \in Workers : workers'[w].owner <= cached'.uid
    BY <2>4, UidTypes DEF Ordered
  <2> QED
    BY <2>3, <2>5, <2>6 DEF Ordered
<1>2. HoldsManager'
  <2>1. pass'.at \in {"gate", "workers"} => pass' = pass
    BY DEF IdlePass
  <2> QED
    BY <2>1 DEF HoldsManager, LivePass
<1>3. OneNoncePerRun' /\ WorkersAfterManager'
  BY DEF OneNoncePerRun, WorkersAfterManager, Live
<1> QED
  BY <1>1, <1>2, <1>3

\* A pass starts with the uid of the cache, the newest that owns anything.
LEMMA StartPassIInv == IInv /\ StartPass => IInv'
<1> SUFFICES ASSUME IInv, StartPass PROVE IInv'
  OBVIOUS
<1>1. TypeOK'
  BY PassStepTypes DEF IInv, PassStep
<1>2. /\ UNCHANGED <<sim, cached, manager, workers>>
      /\ pass'.uid = cached.uid /\ pass'.at = "peers"
  BY DEF StartPass, objects, IdlePass
<1>3. Ordered'
  BY <1>2, UidTypes DEF IInv, Ordered
<1>4. HoldsManager' /\ OneNoncePerRun' /\ WorkersAfterManager'
  BY <1>2 DEF IInv, HoldsManager, OneNoncePerRun, WorkersAfterManager, Live
<1> QED
  BY <1>1, <1>3, <1>4 DEF IInv

\* The pass steps that read, and those on redis and the status.
LEMMA ReadIInv ==
  IInv /\ (ReadPeers \/ ReadMonitoring \/ ApplyRedis \/ ReadRedis \/ PatchStatus) => IInv'
<1> SUFFICES ASSUME IInv, ReadPeers \/ ReadMonitoring \/ ApplyRedis \/ ReadRedis \/ PatchStatus
             PROVE  IInv'
  OBVIOUS
<1>1. TypeOK /\ TypeOK' /\ Ordered
  BY PassStepTypes DEF IInv, PassStep
<1>2. UNCHANGED <<cached, manager, workers>> /\ sim'.uid = sim.uid /\ sim'.exists = sim.exists
  BY <1>1 DEF ReadPeers, ReadMonitoring, ApplyRedis, ReadRedis, PatchStatus, objects, TypeOK
<1>3. \/ pass' = IdlePass
      \/ pass.at # "idle" /\ pass'.uid = pass.uid /\ pass'.at \notin {"gate", "workers"}
  <2>0. pass \in Passes
    BY <1>1 DEF TypeOK
  <2>1. CASE ReadPeers
    <3>1. pass.at = "peers" /\ (Leave \/ pass' = [pass EXCEPT !.at = "monitoring", !.n = peers])
      BY <2>1 DEF ReadPeers
    <3>2. LET p == [pass EXCEPT !.at = "monitoring", !.n = peers]
          IN  p.at = "monitoring" /\ p.uid = pass.uid
      BY <2>0 DEF Passes
    <3> QED
      BY <3>1, <3>2 DEF Leave
  <2>3. CASE ReadMonitoring
    BY <2>0, <2>3, SMTT(30) DEF ReadMonitoring, Leave, Goto, Passes
  <2>2. CASE ApplyRedis \/ ReadRedis \/ PatchStatus
    BY <2>0, <2>2, SMTT(30) DEF ApplyRedis, ReadRedis, PatchStatus, Leave, Goto, Passes
  <2> QED
    BY <2>1, <2>2, <2>3
<1>4. cached.uid <= cached'.uid /\ cached'.uid <= sim.uid
  BY <1>1, <1>2, UidTypes DEF Ordered
<1> QED
  BY <1>1, <1>2, <1>3, <1>4, QuietStep

\* Applying the manager with the pass's nonce takes it from nobody alive.
LEMMA ApplyManagerIInv == IInv /\ ApplyManager => IInv'
<1> SUFFICES ASSUME IInv, ApplyManager PROVE IInv'
  OBVIOUS
<1>1. TypeOK /\ TypeOK' /\ Ordered /\ HoldsManager /\ OneNoncePerRun /\ WorkersAfterManager
  BY PassStepTypes DEF IInv, PassStep
<1>2. UNCHANGED <<sim, cached, workers>> /\ pass.at = "manager"
  BY DEF ApplyManager
<1>3. CASE Conflict(manager)
  <2>1. manager' = manager /\ pass' = IdlePass
    BY <1>3 DEF ApplyManager, Leave
  <2>2. cached.uid <= cached'.uid /\ cached'.uid <= sim.uid
    BY <1>1, <1>2, UidTypes DEF Ordered
  <2> QED
    BY <1>1, <1>2, <2>1, <2>2, QuietStep
<1>4. CASE ~ Conflict(manager)
  <2>1. /\ manager'.owner = pass.uid /\ manager'.nonce = pass.nonce
        /\ manager'.phase = manager.phase
        /\ pass'.at = "gate" /\ pass'.uid = pass.uid /\ pass'.nonce = pass.nonce
    <3>1. manager' = Apply(manager) /\ Goto("gate")
      BY <1>4 DEF ApplyManager
    <3>2. manager \in ManagerJobs /\ pass \in Passes
      BY <1>1 DEF TypeOK
    <3> QED
      BY <3>1, <3>2 DEF Apply, Goto, ManagerJobs, Passes
  <2>2. Live(manager) => pass.uid = sim.uid /\ manager.nonce = pass.nonce
    BY <1>1, <1>2, <1>4, UidTypes DEF Live, Ordered, Conflict
  <2>3. Ordered'
    BY <1>1, <1>2, <2>1, UidTypes DEF Ordered
  <2>4. HoldsManager'
    BY <2>1 DEF HoldsManager
  <2>5. OneNoncePerRun' /\ WorkersAfterManager'
    BY <1>1, <1>2, <2>1, <2>2 DEF OneNoncePerRun, WorkersAfterManager, Live
  <2> QED
    BY <1>1, <2>3, <2>4, <2>5 DEF IInv
<1> QED
  BY <1>3, <1>4

\* The gate lets a pass through only when the manager has started.
LEMMA ReadManagerIInv == IInv /\ ReadManager => IInv'
<1> SUFFICES ASSUME IInv, ReadManager PROVE IInv'
  OBVIOUS
<1>1. TypeOK /\ TypeOK' /\ Ordered /\ HoldsManager
  BY PassStepTypes DEF IInv, PassStep
<1>2. UNCHANGED <<sim, cached, manager, workers>> /\ pass.at = "gate"
  BY DEF ReadManager, objects
<1>3. CASE Leave \/ Goto("save")
  <2>1. \/ pass' = IdlePass
        \/ pass'.uid = pass.uid /\ pass'.at \notin {"gate", "workers"}
    BY <1>1, <1>3 DEF Leave, Goto, TypeOK, Passes
  <2>2. cached.uid <= cached'.uid /\ cached'.uid <= sim.uid
    BY <1>1, <1>2, UidTypes DEF Ordered
  <2> QED
    BY <1>1, <1>2, <2>1, <2>2, QuietStep
<1>4. CASE manager.phase = "ready" /\ Goto("workers")
  <2>1. pass'.at = "workers" /\ pass'.uid = pass.uid /\ pass'.nonce = pass.nonce
    BY <1>1, <1>4 DEF Goto, TypeOK, Passes
  <2>2. Ordered'
    BY <1>1, <1>2, <2>1 DEF Ordered
  <2>3. HoldsManager'
    BY <1>1, <1>2, <1>4, <2>1 DEF HoldsManager, LivePass
  <2>4. OneNoncePerRun' /\ WorkersAfterManager'
    BY <1>2 DEF IInv, OneNoncePerRun, WorkersAfterManager, Live
  <2> QED
    BY <1>1, <2>2, <2>3, <2>4 DEF IInv
<1> QED
  BY <1>3, <1>4 DEF ReadManager

\* A worker gets the pass's nonce; if the pass is for the existing Simulation,
\* that is the manager's.
LEMMA ApplyWorkerIInv == IInv /\ ApplyWorker => IInv'
<1> SUFFICES ASSUME IInv, ApplyWorker PROVE IInv'
  OBVIOUS
<1>1. TypeOK /\ TypeOK' /\ Ordered /\ HoldsManager /\ OneNoncePerRun /\ WorkersAfterManager
  BY PassStepTypes DEF IInv, PassStep
<1>2. UNCHANGED <<sim, cached, manager>> /\ pass.at = "workers"
  BY DEF ApplyWorker
<1>3. cached.uid <= cached'.uid /\ cached'.uid <= sim.uid
  BY <1>1, <1>2, UidTypes DEF Ordered
<1>4. CASE UNCHANGED workers /\ (Leave \/ Goto("save"))
  <2>1. \/ pass' = IdlePass
        \/ pass'.uid = pass.uid /\ pass'.at \notin {"gate", "workers"}
    BY <1>1, <1>4 DEF Leave, Goto, TypeOK, Passes
  <2> QED
    BY <1>1, <1>2, <1>3, <1>4, <2>1, QuietStep
<1>5. CASE /\ pass.w < pass.n
           /\ workers' = [workers EXCEPT ![pass.w] = Apply(workers[pass.w])]
           /\ pass' = [pass EXCEPT !.w = @ + 1]
  <2>1. pass.w \in Workers
    BY <1>1, <1>5, SimulationAssumption DEF TypeOK, Passes, Workers
  <2>2. pass'.at = "workers" /\ pass'.uid = pass.uid /\ pass'.nonce = pass.nonce
    BY <1>1, <1>2, <1>5 DEF TypeOK, Passes
  <2>3. workers'[pass.w] = Apply(workers[pass.w])
    BY <1>1, <1>5, <2>1 DEF TypeOK
  <2>4. workers'[pass.w].owner = pass.uid /\ workers'[pass.w].nonce = pass.nonce
    BY <1>1, <2>1, <2>3 DEF Apply, TypeOK, WorkerJobs
  <2>5. \A w \in Workers : w # pass.w => workers'[w] = workers[w]
    BY <1>1, <1>5 DEF TypeOK
  <2>6. Ordered'
    <3>1. \A w \in Workers : workers'[w].owner <= pass.uid /\ workers'[w].owner <= cached.uid
      BY <1>1, <1>2, <2>4, <2>5, UidTypes DEF Ordered
    <3> QED
      BY <1>1, <1>2, <2>2, <3>1 DEF Ordered
  <2>7. HoldsManager'
    BY <1>1, <1>2, <2>2 DEF HoldsManager, LivePass
  <2>8. LivePass => Live(manager) /\ pass.nonce = manager.nonce /\ manager.phase # "pending"
    BY <1>1, <1>2 DEF Live, HoldsManager, LivePass
  <2>9. OneNoncePerRun' /\ WorkersAfterManager'
    <3> SUFFICES ASSUME NEW w \in Workers, Live(workers[w])'
                 PROVE  /\ Live(manager)' /\ workers'[w].nonce = manager'.nonce
                        /\ manager'.phase # "pending"
      BY DEF OneNoncePerRun, WorkersAfterManager
    <3>1. CASE w = pass.w
      BY <1>2, <2>4, <2>8, <3>1 DEF Live, LivePass
    <3>2. CASE w # pass.w
      BY <1>1, <1>2, <2>5, <3>2 DEF Live, OneNoncePerRun, WorkersAfterManager
    <3> QED
      BY <3>1, <3>2
  <2> QED
    BY <1>1, <2>6, <2>7, <2>9 DEF IInv
<1> QED
  BY <1>4, <1>5 DEF ApplyWorker

\* Only orphans are collected, so no manager or worker of the existing
\* Simulation goes.
LEMMA CollectIInv == IInv /\ Collect => IInv'
<1> SUFFICES ASSUME IInv, Collect PROVE IInv'
  OBVIOUS
<1>1. TypeOK /\ TypeOK' /\ Ordered /\ HoldsManager /\ OneNoncePerRun /\ WorkersAfterManager
  BY CollectTypes DEF IInv
<1>2. UNCHANGED <<sim, cached, pass>>
  BY DEF Collect, CollectRedis, CollectManager, CollectWorker
<1>3. CASE CollectRedis
  <2>1. cached.uid <= cached'.uid /\ cached'.uid <= sim.uid
    BY <1>1, <1>2, UidTypes DEF Ordered
  <2> QED
    BY <1>1, <1>2, <1>3, <2>1, QuietStep DEF CollectRedis
<1>4. CASE CollectManager
  <2>1. manager' = NoManager /\ UNCHANGED workers /\ ~ Live(manager) /\ manager'.owner = 0
    BY <1>4 DEF CollectManager, Orphan, Live, NoManager
  <2>2. Ordered'
    BY <1>1, <1>2, <2>1, UidTypes DEF Ordered
  <2>3. HoldsManager'
    BY <1>1, <1>2, <2>1 DEF HoldsManager, LivePass, Live
  <2>4. OneNoncePerRun' /\ WorkersAfterManager'
    BY <1>1, <1>2, <2>1 DEF OneNoncePerRun, WorkersAfterManager, Live
  <2> QED
    BY <1>1, <2>2, <2>3, <2>4 DEF IInv
<1>5. CASE \E v \in Workers : CollectWorker(v)
  <2>1. PICK v \in Workers : CollectWorker(v)
    BY <1>5
  <2>2. workers'[v] = NoWorker /\ workers'[v].owner = 0
    BY <1>1, <2>1 DEF CollectWorker, NoWorker, TypeOK
  <2>3. \A w \in Workers : w # v => workers'[w] = workers[w]
    BY <1>1, <2>1 DEF CollectWorker, TypeOK
  <2>4. UNCHANGED manager
    BY <2>1 DEF CollectWorker
  <2>5. \A w \in Workers : workers'[w].owner <= cached.uid
                           /\ (pass.at # "idle" => workers'[w].owner <= pass.uid)
    BY <1>1, <2>2, <2>3, UidTypes DEF Ordered
  <2>6. Ordered'
    BY <1>1, <1>2, <2>4, <2>5 DEF Ordered
  <2>7. HoldsManager'
    BY <1>1, <1>2, <2>4 DEF HoldsManager, LivePass
  <2>8. \A w \in Workers : Live(workers[w])' => w # v
    BY <1>2, <2>2, UidTypes, <1>1 DEF Live
  <2>9. OneNoncePerRun' /\ WorkersAfterManager'
    BY <1>1, <1>2, <2>3, <2>4, <2>8 DEF OneNoncePerRun, WorkersAfterManager, Live
  <2> QED
    BY <1>1, <2>6, <2>7, <2>9 DEF IInv
<1> QED
  BY <1>3, <1>4, <1>5 DEF Collect

\* A new uid owns nothing yet.
LEMMA ReapplyIInv == IInv /\ UserReapply => IInv'
<1> SUFFICES ASSUME IInv, UserReapply PROVE IInv'
  OBVIOUS
<1>1. TypeOK /\ TypeOK' /\ Ordered
  BY DisturbanceTypes DEF IInv, Disturbance
<1>2. UNCHANGED <<cached, pass, manager, workers>> /\ sim'.uid = sim.uid + 1
  BY DEF UserReapply, objects
<1>3. Ordered'
  BY <1>1, <1>2, UidTypes DEF Ordered
<1>4. /\ pass'.uid # sim'.uid
      /\ \A w \in Workers : workers'[w].owner # sim'.uid
  BY <1>1, <1>2, UidTypes DEF Ordered
<1> QED
  BY <1>1, <1>3, <1>4 DEF IInv, HoldsManager, LivePass, OneNoncePerRun, WorkersAfterManager, Live

\* The steps of the user, the cluster and the watch that touch no ownership.
LEMMA OtherIInv ==
  IInv /\ (Abort \/ Refresh \/ Cluster \/ (\E w \in Workers : WorkerStarts(w))
           \/ (Disturbance /\ ~ UserReapply) \/ UNCHANGED vars) => IInv'
<1> SUFFICES ASSUME IInv,
                    Abort \/ Refresh \/ Cluster \/ (\E w \in Workers : WorkerStarts(w))
                      \/ (Disturbance /\ ~ UserReapply) \/ UNCHANGED vars
             PROVE  IInv'
  OBVIOUS
<1>1. TypeOK /\ TypeOK' /\ Ordered
  BY TypeStep DEF IInv, Next
<1>2. cached.uid <= cached'.uid /\ cached'.uid <= sim.uid
  <2>1. cached' = cached \/ cached' = sim
    BY DEF Abort, Refresh, Cluster, RedisStarts, ManagerStarts, RunCompletes, PublishPeers,
           MonitoringComesUp, WorkerStarts, Disturbance, UserDelete, UserReapply, ChangePeers,
           MonitoringOutage, ManagerFails, WorkerFails, vars
  <2> QED
    BY <1>1, <2>1, UidTypes DEF Ordered
<1>3. sim'.uid = sim.uid /\ (sim'.exists => sim.exists)
  BY <1>1 DEF Abort, Refresh, Cluster, RedisStarts, ManagerStarts, RunCompletes, PublishPeers,
         MonitoringComesUp, WorkerStarts, Disturbance, UserDelete, UserReapply, ChangePeers,
         MonitoringOutage, ManagerFails, WorkerFails, vars, TypeOK
<1>4. pass' = pass \/ pass' = IdlePass
  BY DEF Abort, Refresh, Cluster, RedisStarts, ManagerStarts, RunCompletes, PublishPeers,
         MonitoringComesUp, WorkerStarts, Disturbance, UserDelete, UserReapply, ChangePeers,
         MonitoringOutage, ManagerFails, WorkerFails, vars, Leave
<1>5. /\ manager'.owner = manager.owner /\ manager'.nonce = manager.nonce
      /\ manager.phase # "pending" => manager'.phase # "pending"
  <2>1. manager \in ManagerJobs
    BY <1>1 DEF TypeOK
  <2> QED
    BY <2>1 DEF Abort, Refresh, Cluster, RedisStarts, ManagerStarts, RunCompletes, PublishPeers,
           MonitoringComesUp, WorkerStarts, Disturbance, UserDelete, UserReapply, ChangePeers,
           MonitoringOutage, ManagerFails, WorkerFails, vars, objects, ManagerJobs
<1>6. \A w \in Workers : workers'[w].owner = workers[w].owner
                         /\ workers'[w].nonce = workers[w].nonce
  <2>1. workers \in [Workers -> WorkerJobs]
    BY <1>1 DEF TypeOK
  <2>2. ASSUME NEW v \in Workers, WorkerStarts(v) \/ WorkerFails(v)
        PROVE  \A w \in Workers : workers'[w].owner = workers[w].owner
                                  /\ workers'[w].nonce = workers[w].nonce
    BY <2>1, <2>2 DEF WorkerStarts, WorkerFails, WorkerJobs
  <2>3. RunCompletes => \A w \in Workers : workers'[w].owner = workers[w].owner
                                           /\ workers'[w].nonce = workers[w].nonce
    BY <2>1 DEF RunCompletes, WorkerJobs
  <2>4. \/ workers' = workers \/ RunCompletes
        \/ \E v \in Workers : WorkerStarts(v) \/ WorkerFails(v)
    BY DEF Abort, Refresh, Cluster, RedisStarts, ManagerStarts, PublishPeers,
           MonitoringComesUp, Disturbance, UserDelete, UserReapply, ChangePeers,
           MonitoringOutage, ManagerFails, vars, objects
  <2> QED
    BY <2>2, <2>3, <2>4
<1> QED
  BY <1>1, <1>2, <1>3, <1>4, <1>5, <1>6, QuietStep

\* IInv is inductive.
LEMMA NextIInv == IInv /\ [Next]_vars => IInv'
BY StartPassIInv, ReadIInv, ApplyManagerIInv, ReadManagerIInv, ApplyWorkerIInv, CollectIInv,
   ReapplyIInv, OtherIInv
DEF Next, PassStep, Disturbance

\* And holds throughout.
LEMMA SpecIInv == Spec => []IInv
BY InitIInv, NextIInv, PTL DEF Spec

-----------------------------------------------------------------------------
(* Theorems *)

\* The types, and with them the bounds of the worker loop, hold for every
\* number of peers.
THEOREM TypeCorrect == Spec => []TypeOK
<1>1. IInv => TypeOK
  BY DEF IInv
<1> QED
  BY <1>1, SpecIInv, PTL

\* runner/src/simulate.rs:83: the manager and all workers of the Simulation that
\* exists have one nonce, for any number of peers, reruns, lost passes and
\* cache delays.
THEOREM WorkersShareManagersNonce == Spec => []OneNoncePerRun
<1>1. IInv => OneNoncePerRun
  BY DEF IInv
<1> QED
  BY <1>1, SpecIInv, PTL

\* keramik/src/simulation.md:60: no worker exists before its manager started.
THEOREM ManagerFirst == Spec => []WorkersAfterManager
<1>1. IInv => WorkersAfterManager
  BY DEF IInv
<1> QED
  BY <1>1, SpecIInv, PTL

-----------------------------------------------------------------------------
(* The controller implements the abstract run. *)

\* The abstract run, as the Run instance maps it.
RunNonce == IF Live(manager) THEN manager.nonce ELSE NoNonce
RunStage ==
  IF ~ Live(manager) THEN "none"
  ELSE IF manager.phase = "pending" THEN "launched"
  ELSE IF manager.phase \in {"ready", "retrying"} THEN "open" ELSE "over"
LiveWorkers == {v \in Workers : Live(workers[v])}
RunMembers == [w \in LiveWorkers |-> workers[w].nonce]

\* The instance's actions over these names.
LEMMA RunActions ==
  /\ UNCHANGED <<RunNonce, RunStage, RunMembers>> => UNCHANGED Run!vars
  /\ RunStage = "none" /\ RunStage' = "launched" /\ RunNonce' \in Nonce /\ UNCHANGED RunMembers
       => Run!Launch
  /\ RunStage = "none" /\ RunStage' \in {"open", "over"} /\ RunNonce' \in Nonce /\ UNCHANGED RunMembers
       => Run!Adopt
  /\ RunStage = "launched" /\ RunStage' = "open" /\ UNCHANGED <<RunNonce, RunMembers>> => Run!Open
  /\ RunStage = "open" /\ RunStage' = "over" /\ UNCHANGED <<RunNonce, RunMembers>> => Run!Close
<1> USE DEF RunNonce, RunStage, RunMembers, LiveWorkers
<1>1. UNCHANGED <<RunNonce, RunStage, RunMembers>> => UNCHANGED Run!vars
  BY DEF Run!vars
<1>2. RunStage = "none" /\ RunStage' = "launched" /\ RunNonce' \in Nonce /\ UNCHANGED RunMembers
        => Run!Launch
  BY DEF Run!Launch
<1>3. RunStage = "none" /\ RunStage' \in {"open", "over"} /\ RunNonce' \in Nonce /\ UNCHANGED RunMembers
        => Run!Adopt
  BY DEF Run!Adopt
<1>4. RunStage = "launched" /\ RunStage' = "open" /\ UNCHANGED <<RunNonce, RunMembers>> => Run!Open
  BY DEF Run!Open
<1>5. RunStage = "open" /\ RunStage' = "over" /\ UNCHANGED <<RunNonce, RunMembers>> => Run!Close
  BY DEF Run!Close
<1> QED
  BY <1>1, <1>2, <1>3, <1>4, <1>5

LEMMA RunJoin ==
  ASSUME NEW u \in Workers, RunStage \in {"open", "over"}, u \notin LiveWorkers,
         UNCHANGED <<RunNonce, RunStage>>,
         LiveWorkers' = LiveWorkers \cup {u}, workers'[u].nonce = RunNonce,
         \A w \in LiveWorkers : workers'[w].nonce = workers[w].nonce
  PROVE  Run!Join(u)
<1>1. DOMAIN RunMembers = LiveWorkers
  BY DEF RunMembers
<1>2. RunMembers' = [v \in DOMAIN RunMembers \cup {u} |-> IF v = u THEN RunNonce ELSE RunMembers[v]]
  BY <1>1 DEF RunMembers
<1> QED
  BY <1>1, <1>2 DEF Run!Join, RunNonce, RunStage, RunMembers, LiveWorkers

LEMMA RunStop ==
  ASSUME RunStage # "none", RunStage' = "none", RunNonce' = NoNonce, LiveWorkers' = {}
  PROVE  Run!Stop
<1>1. RunMembers' = <<>>
  BY DEF RunMembers
<1> QED
  BY <1>1 DEF Run!Stop, RunNonce, RunStage, RunMembers, LiveWorkers

-----------------------------------------------------------------------------
(* Steps that the abstract run does not see *)

\* Only what the Jobs of the Simulation that exists say matters.
LEMMA UnseenStep ==
  ASSUME Live(manager)' <=> Live(manager),
         Live(manager) => manager'.nonce = manager.nonce /\ RunStage' = RunStage,
         \A w \in Workers : Live(workers[w])' <=> Live(workers[w]),
         \A w \in Workers : Live(workers[w]) => workers'[w].nonce = workers[w].nonce
  PROVE  UNCHANGED Run!vars
<1>1. RunNonce' = RunNonce /\ RunStage' = RunStage
  BY DEF RunNonce, RunStage
<1>2. LiveWorkers' = LiveWorkers
  BY DEF LiveWorkers
<1>3. RunMembers' = RunMembers
  BY <1>2 DEF RunMembers, LiveWorkers
<1> QED
  BY <1>1, <1>3, RunActions

\* A step that leaves the Jobs and the uid alone.
LEMMA UntouchedStep ==
  ASSUME UNCHANGED <<manager, workers>>, sim'.uid = sim.uid, sim'.exists = sim.exists
  PROVE  UNCHANGED Run!vars
BY UnseenStep DEF Live, RunStage

\* Every pass under way has a nonce: from the status it started from, or drawn.
PassHasNonce == pass.at # "idle" => pass.nonce \in Nonce

LEMMA NextPassHasNonce == TypeOK /\ PassHasNonce /\ [Next]_vars => PassHasNonce'
<1> SUFFICES ASSUME TypeOK, PassHasNonce, [Next]_vars PROVE PassHasNonce'
  OBVIOUS
<1>1. pass \in Passes /\ cached.uid \in Nat /\ cached.nonce \in Nonce \cup {NoNonce}
  BY DEF TypeOK, MaybeNonce
<1>2. CASE StartPass
  <2>1. PICK nonce \in Carried :
          pass' = [IdlePass EXCEPT !.at = "peers", !.uid = cached.uid, !.nonce = nonce]
    BY <1>2 DEF StartPass
  <2>2. Fresh \subseteq Nonce
    BY <1>1 DEF Fresh, Nonce
  <2>3. nonce \in Nonce
    BY <1>1, <2>1, <2>2 DEF Carried
  <2> QED
    BY <2>1, <2>3 DEF PassHasNonce, IdlePass
<1>3. CASE pass' = pass
  BY <1>3 DEF PassHasNonce
<1>4. CASE pass' = IdlePass
  BY <1>4 DEF PassHasNonce, IdlePass
<1>5. CASE pass.at # "idle" /\ pass'.nonce = pass.nonce
  BY <1>5 DEF PassHasNonce
<1>6. PassStep /\ ~ StartPass => \/ pass' = IdlePass
                                 \/ pass.at # "idle" /\ pass'.nonce = pass.nonce
  BY <1>1 DEF PassStep, ReadPeers, ReadMonitoring, ApplyRedis, ReadRedis, ApplyManager, ReadManager,
         ApplyWorker, PatchStatus, Leave, Goto, Passes
<1>7. Abort => pass' = IdlePass
  BY DEF Abort, Leave
<1>8. Refresh \/ Cluster \/ (\E w \in Workers : WorkerStarts(w)) \/ Collect \/ Disturbance
        \/ UNCHANGED vars => pass' = pass
  BY DEF Refresh, Cluster, RedisStarts, ManagerStarts, RunCompletes, PublishPeers,
         MonitoringComesUp, WorkerStarts, Collect, CollectRedis, CollectManager, CollectWorker,
         Disturbance, UserDelete, UserReapply, ChangePeers, MonitoringOutage, ManagerFails,
         WorkerFails, vars
<1> QED
  BY <1>2, <1>3, <1>4, <1>5, <1>6, <1>7, <1>8 DEF Next

-----------------------------------------------------------------------------
(* Steps that may be steps of the abstract run *)

\* The first pass of a Simulation launches its run, or adopts the manager of its
\* predecessor; a pass about an older one takes nothing.
LEMMA ApplyManagerRuns == IInv /\ PassHasNonce /\ ApplyManager => [Run!Next]_(Run!vars)
<1> SUFFICES ASSUME IInv, PassHasNonce, ApplyManager PROVE [Run!Next]_(Run!vars)
  OBVIOUS
<1>1. TypeOK /\ Ordered /\ OneNoncePerRun
  BY DEF IInv
<1>2. UNCHANGED <<sim, workers>> /\ pass.at = "manager" /\ pass.nonce \in Nonce
  BY DEF ApplyManager, PassHasNonce
<1>3. CASE Conflict(manager)
  BY <1>2, <1>3, UntouchedStep DEF ApplyManager
<1>4. CASE ~ Conflict(manager)
  <2>1. /\ manager'.owner = pass.uid /\ manager'.nonce = pass.nonce
        /\ manager'.phase = manager.phase
    BY <1>1, <1>4 DEF ApplyManager, Apply, TypeOK, ManagerJobs
  <2>2. Live(manager) => pass.uid = sim.uid /\ manager.nonce = pass.nonce
    BY <1>1, <1>2, <1>4, UidTypes DEF Live, Ordered, Conflict
  <2>3. Live(manager)' <=> LivePass
    BY <1>2, <2>1 DEF Live, LivePass
  <2>4. CASE Live(manager) \/ ~ LivePass
    <3>1. Live(manager)' <=> Live(manager)
      BY <2>2, <2>3, <2>4 DEF Live, LivePass
    <3>2. Live(manager) => manager'.nonce = manager.nonce /\ RunStage' = RunStage
      BY <2>1, <2>2, <3>1 DEF RunStage
    <3> QED
      BY <1>2, <3>1, <3>2, UnseenStep DEF Live
  <2>5. CASE ~ Live(manager) /\ LivePass
    <3>1. UNCHANGED RunMembers
      BY <1>2 DEF RunMembers, LiveWorkers, Live
    <3>2. RunStage = "none" /\ RunNonce' = pass.nonce
      BY <2>1, <2>3, <2>5 DEF RunStage, RunNonce
    <3>3. RunStage' \in {"launched", "open", "over"}
      BY <2>3, <2>5 DEF RunStage
    <3> QED
      BY <1>2, <3>1, <3>2, <3>3, RunActions DEF Run!Next
  <2> QED
    BY <2>4, <2>5
<1> QED
  BY <1>3, <1>4

\* A worker that is applied joins, if the pass is about the Simulation that
\* exists and the worker is new to it.
LEMMA ApplyWorkerRuns == IInv /\ ApplyWorker => [Run!Next]_(Run!vars)
<1> SUFFICES ASSUME IInv, ApplyWorker PROVE [Run!Next]_(Run!vars)
  OBVIOUS
<1>1. TypeOK /\ Ordered /\ HoldsManager /\ OneNoncePerRun
  BY DEF IInv
<1>2. UNCHANGED <<sim, manager>> /\ pass.at = "workers"
  BY DEF ApplyWorker
<1>3. CASE UNCHANGED workers
  BY <1>2, <1>3, UntouchedStep
<1>4. CASE /\ pass.w < pass.n /\ ~ Conflict(workers[pass.w])
           /\ workers' = [workers EXCEPT ![pass.w] = Apply(workers[pass.w])]
  <2>1. PICK u \in Workers : u = pass.w
    BY <1>1, <1>4, SimulationAssumption, SMTT(30) DEF TypeOK, Passes, Workers
  <2>2. workers'[u].owner = pass.uid /\ workers'[u].nonce = pass.nonce
    BY <1>1, <1>4, <2>1 DEF Apply, TypeOK, WorkerJobs
  <2>3. \A w \in Workers : w # u => workers'[w] = workers[w]
    BY <1>1, <1>4, <2>1 DEF TypeOK
  <2>4. Live(workers[u]) => pass.uid = sim.uid /\ workers[u].nonce = pass.nonce
    BY <1>1, <1>2, <1>4, <2>1, UidTypes DEF Live, Ordered, Conflict
  <2>5. Live(workers[u])' <=> LivePass
    BY <1>2, <2>2 DEF Live, LivePass
  <2>6. Live(manager)' <=> Live(manager)
    BY <1>2 DEF Live
  <2>7. UNCHANGED <<RunNonce, RunStage>>
    BY <1>2, <2>6 DEF RunNonce, RunStage
  <2>8. CASE Live(workers[u]) \/ ~ LivePass
    <3>1. \A w \in Workers : Live(workers[w])' <=> Live(workers[w])
      BY <1>2, <2>3, <2>4, <2>5, <2>8 DEF Live, LivePass
    <3>2. \A w \in Workers : Live(workers[w]) => workers'[w].nonce = workers[w].nonce
      BY <2>2, <2>3, <2>4
    <3> QED
      BY <1>2, <2>6, <2>7, <3>1, <3>2, UnseenStep
  <2>9. CASE ~ Live(workers[u]) /\ LivePass
    <3>1. Live(manager) /\ manager.nonce = pass.nonce /\ manager.phase # "pending"
      BY <1>1, <1>2, <2>9 DEF HoldsManager, LivePass, Live
    <3>2. RunStage \in {"open", "over"} /\ RunNonce = workers'[u].nonce
      BY <2>2, <3>1 DEF RunStage, RunNonce
    <3>3. u \notin LiveWorkers
      BY <2>9 DEF LiveWorkers
    <3>4. LiveWorkers' = LiveWorkers \cup {u}
      BY <1>2, <2>1, <2>3, <2>5, <2>9 DEF LiveWorkers, Live
    <3>5. \A w \in LiveWorkers : workers'[w].nonce = workers[w].nonce
      BY <2>3, <3>3 DEF LiveWorkers
    <3>6. Run!Join(u)
      BY <2>1, <2>7, <3>2, <3>3, <3>4, <3>5, RunJoin
    <3> QED
      BY <2>1, <3>6 DEF Run!Next
  <2> QED
    BY <2>8, <2>9
<1> QED
  BY <1>3, <1>4 DEF ApplyWorker

\* The manager's phases: it opens the run once and closes it once.
LEMMA PhaseRuns ==
  ASSUME UNCHANGED sim, manager'.owner = manager.owner, manager'.nonce = manager.nonce,
         \/ manager.phase \in {"pending", "retrying"} /\ manager'.phase = "ready"
         \/ manager.phase = "ready" /\ manager'.phase \in {"retrying", "failed", "done"},
         \A w \in Workers : workers'[w].owner = workers[w].owner
                            /\ workers'[w].nonce = workers[w].nonce
  PROVE  [Run!Next]_(Run!vars)
<1>1. Live(manager)' <=> Live(manager)
  BY DEF Live
<1>2. RunNonce' = RunNonce
  BY <1>1 DEF RunNonce
<1>3. LiveWorkers' = LiveWorkers
  BY DEF LiveWorkers, Live
<1>4. RunMembers' = RunMembers
  BY <1>3 DEF RunMembers, LiveWorkers
<1>5. \/ RunStage' = RunStage
      \/ RunStage = "launched" /\ RunStage' = "open"
      \/ RunStage = "open" /\ RunStage' = "over"
  BY <1>1 DEF RunStage
<1> QED
  BY <1>2, <1>4, <1>5, RunActions DEF Run!Next

LEMMA ManagerPhaseRuns ==
  IInv /\ (ManagerStarts \/ ManagerFails \/ RunCompletes) => [Run!Next]_(Run!vars)
<1> SUFFICES ASSUME IInv, ManagerStarts \/ ManagerFails \/ RunCompletes PROVE [Run!Next]_(Run!vars)
  OBVIOUS
<1>1. manager \in ManagerJobs /\ workers \in [Workers -> WorkerJobs]
  BY DEF IInv, TypeOK
<1>2. UNCHANGED sim /\ manager'.owner = manager.owner /\ manager'.nonce = manager.nonce
  BY <1>1 DEF ManagerStarts, ManagerFails, RunCompletes, ManagerJobs
<1>3. \/ manager.phase \in {"pending", "retrying"} /\ manager'.phase = "ready"
      \/ manager.phase = "ready" /\ manager'.phase \in {"retrying", "failed", "done"}
  BY <1>1 DEF ManagerStarts, ManagerFails, RunCompletes, ManagerJobs
<1>4. \A w \in Workers : workers'[w].owner = workers[w].owner /\ workers'[w].nonce = workers[w].nonce
  BY <1>1 DEF ManagerStarts, ManagerFails, RunCompletes, WorkerJobs
<1> QED
  BY <1>2, <1>3, <1>4, PhaseRuns

\* The phase of a worker is nothing the run tells of.
LEMMA WorkerPhaseRuns ==
  ASSUME IInv, NEW u \in Workers, WorkerStarts(u) \/ WorkerFails(u)
  PROVE  UNCHANGED Run!vars
<1>1. workers \in [Workers -> WorkerJobs]
  BY DEF IInv, TypeOK
<1>2. UNCHANGED <<sim, manager>>
  BY DEF WorkerStarts, WorkerFails
<1>3. \A w \in Workers : workers'[w].owner = workers[w].owner /\ workers'[w].nonce = workers[w].nonce
  BY <1>1 DEF WorkerStarts, WorkerFails, WorkerJobs
<1> QED
  BY <1>2, <1>3, UnseenStep DEF Live, RunStage

\* The deletion of the Simulation stops its run, if there is one.
LEMMA UserDeleteRuns == IInv /\ UserDelete => [Run!Next]_(Run!vars)
<1> SUFFICES ASSUME IInv, UserDelete PROVE [Run!Next]_(Run!vars)
  OBVIOUS
<1>1. OneNoncePerRun /\ UNCHANGED <<manager, workers>> /\ ~ sim'.exists
  BY DEF IInv, TypeOK, UserDelete, objects
<1>2. ~ Live(manager)' /\ \A w \in Workers : ~ Live(workers[w])'
  BY <1>1 DEF Live
<1>3. CASE Live(manager)
  <2>1. RunStage # "none" /\ RunStage' = "none" /\ RunNonce' = NoNonce
    BY <1>2, <1>3 DEF RunStage, RunNonce
  <2>2. LiveWorkers' = {}
    BY <1>2 DEF LiveWorkers
  <2> QED
    BY <2>1, <2>2, RunStop DEF Run!Next
<1>4. CASE ~ Live(manager)
  <2>1. \A w \in Workers : ~ Live(workers[w])
    BY <1>1, <1>4 DEF OneNoncePerRun
  <2> QED
    BY <1>2, <1>4, <2>1, UnseenStep
<1> QED
  BY <1>3, <1>4

\* A new uid has no run yet, and the collector takes what has none.
LEMMA LeftoversUnseen == IInv /\ (UserReapply \/ Collect) => UNCHANGED Run!vars
<1> SUFFICES ASSUME IInv, UserReapply \/ Collect PROVE UNCHANGED Run!vars
  OBVIOUS
<1>1. TypeOK /\ Ordered /\ workers \in [Workers -> WorkerJobs]
  BY DEF IInv, TypeOK
<1>2. CASE UserReapply
  <2>1. UNCHANGED <<manager, workers>> /\ ~ sim.exists /\ sim'.uid = sim.uid + 1
    BY <1>2 DEF UserReapply, objects
  <2>2. ~ Live(manager)' /\ \A w \in Workers : ~ Live(workers[w])'
    BY <1>1, <2>1, UidTypes DEF Live, Ordered
  <2> QED
    BY <2>1, <2>2, UnseenStep DEF Live
<1>3. CASE CollectRedis
  BY <1>3, UntouchedStep DEF CollectRedis
<1>4. CASE CollectManager
  <2>1. UNCHANGED <<sim, workers>> /\ ~ Live(manager) /\ manager'.owner = 0
    BY <1>4 DEF CollectManager, Orphan, Live, NoManager
  <2>2. ~ Live(manager)'
    BY <1>1, <2>1, UidTypes DEF Live
  <2> QED
    BY <2>1, <2>2, UnseenStep DEF Live
<1>5. CASE \E u \in Workers : CollectWorker(u)
  <2>1. PICK u \in Workers : CollectWorker(u)
    BY <1>5
  <2>2. UNCHANGED <<sim, manager>> /\ ~ Live(workers[u])
    BY <2>1 DEF CollectWorker, Orphan, Live
  <2>3. workers'[u].owner = 0 /\ \A w \in Workers : w # u => workers'[w] = workers[w]
    BY <1>1, <2>1 DEF CollectWorker, NoWorker
  <2>4. ~ Live(workers[u])'
    BY <1>1, <2>2, <2>3, UidTypes DEF Live
  <2> QED
    BY <2>2, <2>3, <2>4, UnseenStep DEF Live, RunStage
<1> QED
  BY <1>2, <1>3, <1>4, <1>5 DEF Collect

\* All other steps leave the Jobs alone.
LEMMA OtherStepsUnseen ==
  ASSUME TypeOK,
         \/ StartPass \/ ReadPeers \/ ReadMonitoring \/ ApplyRedis \/ ReadRedis \/ ReadManager
         \/ PatchStatus \/ Abort \/ Refresh \/ RedisStarts \/ PublishPeers \/ MonitoringComesUp
         \/ ChangePeers \/ MonitoringOutage \/ UNCHANGED vars
  PROVE  UNCHANGED Run!vars
<1>1. UNCHANGED <<manager, workers>> /\ sim'.uid = sim.uid /\ sim'.exists = sim.exists
  BY DEF StartPass, ReadPeers, ReadMonitoring, ApplyRedis, ReadRedis, ReadManager, PatchStatus,
         Abort, Refresh, RedisStarts, PublishPeers, MonitoringComesUp, ChangePeers,
         MonitoringOutage, vars, objects, TypeOK
<1> QED
  BY <1>1, UntouchedStep

LEMMA NextRuns == IInv /\ PassHasNonce /\ [Next]_vars => [Run!Next]_(Run!vars)
BY ApplyManagerRuns, ApplyWorkerRuns, ManagerPhaseRuns, WorkerPhaseRuns, UserDeleteRuns,
   LeftoversUnseen, OtherStepsUnseen
DEF IInv, Next, PassStep, Cluster, Disturbance

LEMMA InitRuns == Init => Run!Init
<1> SUFFICES ASSUME Init PROVE Run!Init
  OBVIOUS
<1>1. ~ Live(manager) /\ LiveWorkers = {}
  BY DEF Init, Live, LiveWorkers, NoManager, NoWorker
<1>2. RunNonce = NoNonce /\ RunStage = "none"
  BY <1>1 DEF RunNonce, RunStage
<1>3. RunMembers = <<>>
  BY <1>1 DEF RunMembers
<1> QED
  BY <1>2, <1>3 DEF Run!Init, RunNonce, RunStage, RunMembers, LiveWorkers

-----------------------------------------------------------------------------
\* runner/src/simulate.rs:83: for any number of peers, draws, reruns, aborted
\* passes and stale caches, the Jobs of the Simulation that exists behave as one
\* abstract run: one nonce from its launch to the deletion, a manager that is
\* never started anew, workers that only join.
THEOREM ControllerImplementsRun == Spec => ImplementsRun
<1>1. Init => PassHasNonce
  BY DEF Init, PassHasNonce, IdlePass
<1>2. IInv /\ PassHasNonce /\ [Next]_vars => PassHasNonce'
  BY NextPassHasNonce DEF IInv
<1> QED
  BY <1>1, <1>2, InitIInv, NextIInv, InitRuns, NextRuns, PTL DEF Spec, ImplementsRun, Run!Spec
=============================================================================
