-------------------------- MODULE NetworkBootstrap --------------------------
(***************************************************************************)
(* How the network controller assembles the peers and keeps them           *)
(* bootstrapped: the second half of reconcile_, from update_peer_status to *)
(* patch_status (operator/src/network/controller.rs), with the bootstrap   *)
(* Job it creates, the pod of that Job, which is BootstrapRunner, and the  *)
(* peers, which come and go while a pass polls them one by one.            *)
(*                                                                         *)
(* A pass reports a peer when its pod is ready and its RPC answers, counts *)
(* the connections among the reported peers, writes the peers config map,  *)
(* deletes a finished Job when some reported peer has no connection,       *)
(* applies the Job again, and saves the status.                            *)
(***************************************************************************)
EXTENDS BootstrapRunner

CONSTANTS
  NoMap,     \* there is no peers config map
  MaxFaults, \* bound: restarts, failed calls, crashed pods, deleted Jobs
  MaxEdits   \* bound: edits of spec.bootstrap

PeerList == Seq([peer : Peers, addr : Nat])

ASSUME BootstrapAssumption ==
  /\ NoMap \notin PeerList
  /\ {MaxFaults, MaxEdits} \subseteq Nat

VARIABLES
  spec,     \* spec.bootstrap: enabled, and a version for everything in the Job template
  op,       \* the running pass: stage, loop index, its spec, minimum of connections
  found,    \* status.peers as the pass assembles it
  peersMap, \* the peers config map, or NoMap
  status,   \* status.peers at the API server
  job,      \* the bootstrap Job: phase, version of its template
  faults, edits

operator == <<op, found, peersMap, status>>
vars == <<RunnerVars, spec, operator, job, faults, edits>>

NoMin == -1    \* min_connected_peers is None

IdleOp == [at |-> "idle", k |-> 0, enabled |-> FALSE, version |-> 0, min |-> NoMin]
NoJob == [phase |-> "absent", version |-> 0]

Goto(stage) == op' = [op EXCEPT !.at = stage, !.k = 1]
Leave == op' = IdleOp /\ found' = <<>>

Init ==
  /\ method \in Methods /\ fanout \in Fanouts
  /\ NoRun
  /\ links = {} /\ up = {} /\ addr = [p \in Peers |-> 0]
  /\ spec = [enabled |-> TRUE, version |-> 0]
  /\ op = IdleOp /\ found = <<>>
  /\ peersMap = NoMap /\ status = <<>>
  /\ job = NoJob
  /\ faults = 0 /\ edits = 0

Fault == faults < MaxFaults /\ faults' = faults + 1

-----------------------------------------------------------------------------
(* The pass. *)

\* status.peers.clear().
StartPass ==
  /\ op.at = "idle"
  /\ op' = [IdleOp EXCEPT !.at = "poll", !.k = 1,
                          !.enabled = spec.enabled, !.version = spec.version]
  /\ found' = <<>>
  /\ UNCHANGED <<RunnerVars, spec, peersMap, status, job, faults, edits>>

\* The peers in the order the pass looks at them.
PeerAt(k) == CHOOSE p \in Peers : Cardinality({q \in Peers : q <= p}) = k

\* What a peer tells about itself: its identity does not change, its address does.
PeerInfo(p) == [peer |-> p, addr |-> addr[p]]

\* get_status of the pod and peer_info of the k-th peer.  A failed call skips
\* the peer like one that is down.
PollPeer ==
  /\ op.at = "poll" /\ op.k <= Cardinality(Peers)
  /\ LET p == PeerAt(op.k)
     IN \/ /\ p \in up
           /\ found' = Append(found, PeerInfo(p))
           /\ UNCHANGED faults
        \/ /\ UNCHANGED found
           /\ IF p \in up THEN Fault ELSE UNCHANGED faults
  /\ op' = [op EXCEPT !.k = @ + 1]
  /\ UNCHANGED <<RunnerVars, spec, peersMap, status, job, edits>>

AllPolled ==
  /\ op.at = "poll" /\ op.k > Cardinality(Peers)
  /\ Goto("count")
  /\ UNCHANGED <<RunnerVars, spec, found, peersMap, status, job, faults, edits>>

Reported == {found[k].peer : k \in 1 .. Len(found)}
ConnectedPeers(p) == {q \in Peers : {p, q} \in links /\ q # p}

Connections(p) == Cardinality(Reported \cap ConnectedPeers(p))

\* connected_peers of the k-th reported peer; a peer that fails to answer now
\* is left out of the minimum.
CountPeer ==
  /\ op.at = "count" /\ op.k <= Len(found)
  /\ LET p == found[op.k].peer
         n == Connections(p)
     IN \/ /\ p \in up
           /\ op' = [op EXCEPT !.k = @ + 1,
                               !.min = IF @ = NoMin \/ n < @ THEN n ELSE @]
           /\ UNCHANGED faults
        \/ /\ op' = [op EXCEPT !.k = @ + 1]
           /\ IF p \in up THEN Fault ELSE UNCHANGED faults
  /\ UNCHANGED <<RunnerVars, spec, found, peersMap, status, job, edits>>

\* Mutant of WriteMap: the config map is only created.
CreateMapOnly == peersMap' = IF peersMap = NoMap THEN found ELSE peersMap

\* Server-side apply of the peers config map.
WriteMap == peersMap' = found

\* Mutant of Lonely: an unconnected peer does not matter.
LonelyNever == FALSE

\* min_connected_peers is Some(0).
Lonely == op.min = 0

\* The config map, then what to do about the Job.
SavePeersMap ==
  /\ op.at = "count" /\ op.k > Len(found)
  /\ WriteMap
  /\ Goto(CASE ~ op.enabled \/ Len(found) < 2 -> "status"
            [] op.enabled /\ Len(found) >= 2 /\ Lonely -> "get"
            [] op.enabled /\ Len(found) >= 2 /\ ~ Lonely -> "apply")
  /\ UNCHANGED <<RunnerVars, spec, found, status, job, faults, edits>>

JobActive == job.phase = "active"

\* reset_bootstrap_job, the read: is there a Job without an active pod?
ReadJob ==
  /\ op.at = "get"
  /\ Goto(IF job.phase = "absent" \/ JobActive THEN "apply" ELSE "delete")
  /\ UNCHANGED <<RunnerVars, spec, found, peersMap, status, job, faults, edits>>

\* reset_bootstrap_job, the delete (foreground); an error if the Job is gone.
DeleteJob ==
  /\ op.at = "delete"
  /\ IF job.phase = "absent"
     THEN /\ Leave
          /\ UNCHANGED job
     ELSE /\ job' = [job EXCEPT !.phase = "deleting"]
          /\ Goto("apply")
          /\ UNCHANGED found
  /\ UNCHANGED <<RunnerVars, spec, peersMap, status, faults, edits>>

\* apply_job: creates the Job; the template of an existing one is immutable.
ApplyJob ==
  /\ op.at = "apply"
  /\ IF job.phase # "absent" /\ job.version # op.version
     THEN /\ Leave
          /\ UNCHANGED job
     ELSE /\ job' = IF job.phase = "absent" THEN [phase |-> "new", version |-> op.version]
                    ELSE job
          /\ Goto("status")
          /\ UNCHANGED found
  /\ UNCHANGED <<RunnerVars, spec, peersMap, status, faults, edits>>

PatchStatus ==
  /\ op.at = "status"
  /\ status' = found
  /\ Leave
  /\ UNCHANGED <<RunnerVars, spec, peersMap, job, faults, edits>>

PassStep ==
  \/ StartPass \/ PollPeer \/ AllPolled \/ CountPeer \/ SavePeersMap
  \/ ReadJob \/ DeleteJob \/ ApplyJob \/ PatchStatus

\* A call fails and `?` leaves the pass, or the operator restarts.
Abort ==
  /\ op.at # "idle"
  /\ Fault
  /\ Leave
  /\ UNCHANGED <<RunnerVars, spec, peersMap, status, job, edits>>

-----------------------------------------------------------------------------
(* The Job and its pod. *)

KillRun ==
  /\ list' = <<>> /\ phase' = "off"
  /\ i' = 0 /\ cursor' = 0 /\ taken' = 0 /\ sample' = {}
  /\ UNCHANGED <<method, fanout, swarm>>

\* The Job controller creates the pod and reports it in status.active.
JobActivates ==
  /\ job.phase = "new"
  /\ job' = [job EXCEPT !.phase = "active"]
  /\ UNCHANGED <<RunnerVars, spec, operator, faults, edits>>

\* The pod mounts the config map and the runner reads it.
PodRuns ==
  /\ JobActive /\ peersMap # NoMap
  /\ Launch(peersMap)
  /\ UNCHANGED <<spec, operator, job, faults, edits>>

PodStep ==
  /\ RunnerStep
  /\ UNCHANGED <<spec, operator, job, faults, edits>>

JobCompletes ==
  /\ JobActive /\ phase = "exit"
  /\ job' = [job EXCEPT !.phase = "complete"]
  /\ KillRun
  /\ UNCHANGED <<spec, operator, faults, edits>>

\* Within the back-off limit: no pod is active until the next one is created.
PodCrashes ==
  /\ JobActive /\ phase # "off"
  /\ Fault
  /\ job' = [job EXCEPT !.phase = "new"]
  /\ KillRun
  /\ UNCHANGED <<spec, operator, edits>>

\* Foreground deletion: first the pod, then the Job.
JobGone ==
  /\ job.phase = "deleting"
  /\ job' = NoJob
  /\ KillRun
  /\ UNCHANGED <<spec, operator, faults, edits>>

UserDeletesJob ==
  /\ job.phase \notin {"absent", "deleting"}
  /\ Fault
  /\ job' = [job EXCEPT !.phase = "deleting"]
  /\ UNCHANGED <<RunnerVars, spec, operator, edits>>

-----------------------------------------------------------------------------
(* Peers and user. *)

PeerComesUp(p) ==
  /\ p \notin up
  /\ up' = up \cup {p}
  /\ UNCHANGED <<method, fanout, runner, links, addr, spec, operator, job, faults, edits>>

\* The peer loses its connections and comes back under another address.
PeerRestarts(p) ==
  /\ p \in up
  /\ Fault
  /\ up' = up \ {p}
  /\ links' = {l \in links : p \notin l}
  /\ addr' = [addr EXCEPT ![p] = @ + 1]
  /\ UNCHANGED <<method, fanout, runner, spec, operator, job, edits>>

EditBootstrap ==
  /\ edits < MaxEdits
  /\ edits' = edits + 1
  /\ spec' = [spec EXCEPT !.version = @ + 1]
  /\ UNCHANGED <<RunnerVars, operator, job, faults>>

JobStep == JobActivates \/ PodRuns \/ PodStep \/ JobCompletes \/ JobGone

Next ==
  \/ PassStep \/ Abort
  \/ JobStep \/ PodCrashes \/ UserDeletesJob
  \/ \E p \in Peers : PeerComesUp(p) \/ PeerRestarts(p)
  \/ EditBootstrap

Spec == Init /\ [][Next]_vars

\* Passes are requeued (10s, 5s after an error) and every call in them returns;
\* pods start and the runner runs.  JobActivates can lose its chance when the
\* next pass deletes the Job first: the Job controller acts within milliseconds,
\* a pass comes back after polling all peers, so it wins infinitely often, and
\* not only between the read and the delete of reset_bootstrap_job.
FairSpec ==
  /\ Spec
  /\ WF_vars(PassStep)
  /\ SF_vars(JobActivates /\ op.at # "delete")
  /\ WF_vars(PodRuns) /\ WF_vars(PodStep) /\ WF_vars(JobCompletes) /\ WF_vars(JobGone)
  /\ \A p \in Peers : WF_vars(PeerComesUp(p))

-----------------------------------------------------------------------------
(* Properties *)

\* The config map is there for whoever reads it: no Job exists without the file
\* its pod mounts, and nobody works with an older address of a peer than the
\* status already shows, whatever pass was cut short after which write.
MapServesReaders ==
  /\ job.phase # "absent" => peersMap # NoMap
  /\ peersMap # NoMap =>
       \A j \in 1 .. Len(status), k \in 1 .. Len(peersMap) :
         status[j].peer = peersMap[k].peer => status[j].addr <= peersMap[k].addr

\* Once the faults stop, unless spec.bootstrap is edited, every peer ends up
\* reported, at its current address, in the config map and the status,
\* connected to at least one other, and the
\* bootstrap Job is left alone: no partial failure, restart, lost pass or
\* deleted Job keeps a peer out, and the controller does not thrash.
Settles ==
  <>[](/\ job.phase = "complete"
       /\ peersMap = FileOf(Peers)
       /\ status = peersMap
       /\ \A p \in Peers : \E q \in Peers : {p, q} \in links)
  \/ <>(edits > 0)
=============================================================================
