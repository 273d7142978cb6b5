----------------------- MODULE LoadGeneratorController -----------------------
(***************************************************************************)
(* The reconcile passes of the load generator controller                   *)
(* (operator/src/lgen/controller.rs) for several LoadGenerators of one     *)
(* namespace and the one Job they all apply under one name.  The command   *)
(* in its pod is LoadGenerator's; here it runs and succeeds or fails.      *)
(*                                                                         *)
(* A pass works on the cached LoadGenerator, carries the nonce of its      *)
(* status or draws a new one, and saves it with its last call.  Passes of  *)
(* different LoadGenerators run side by side.  A LoadGenerator may be      *)
(* deleted at any time; what it owns is collected some time later.         *)
(***************************************************************************)
EXTENDS Integers

CONSTANTS
  Generators,  \* LoadGenerators the user applied to the namespace
  Draws,       \* random (name, nonce) pairs that one LoadGenerator may draw
  NoNonce,     \* status is None
  MaxAborts    \* bound: passes that end early

\* The random name and nonce, tagged with the LoadGenerator they were drawn for.
Nonce == Generators \X Draws

ASSUME ControllerAssumption ==
  /\ NoNonce \notin Nonce
  /\ MaxAborts \in Nat

VARIABLES
  generator,   \* at the API server: exists, nonce of the status
  cached,      \* the controller's watch cache
  pass,        \* generator -> its running pass: next call, nonce
  monitoring,  \* jaeger, prometheus and opentelemetry are ready
  job,         \* load-gen-job: phase, owner, nonce, failed pods
  aborts       \* passes that ended early

passes == <<cached, pass, monitoring>>
vars == <<generator, passes, job, aborts>>

BackoffLimit == 1
Idle == [at |-> "idle", nonce |-> NoNonce]
NoJob == [phase |-> "absent", owner |-> "nobody", nonce |-> NoNonce, failures |-> 0]

Init ==
  /\ generator = [g \in Generators |-> [exists |-> TRUE, nonce |-> NoNonce]]
  /\ cached = [g \in Generators |-> [exists |-> FALSE, nonce |-> NoNonce]]
  /\ pass = [g \in Generators |-> Idle]
  /\ monitoring = FALSE
  /\ job = NoJob
  /\ aborts = 0

-----------------------------------------------------------------------------
(* The pass of generator g, one action per API call. *)

Leave(g) == pass' = [pass EXCEPT ![g] = Idle]
Goto(g, call) == pass' = [pass EXCEPT ![g].at = call]

\* A random draw never meets a nonce that is still around.
Fresh(g) == ({g} \X Draws) \ {generator[g].nonce, job.nonce}

\* Mutant of Carried: a status that is not there is carried too.
CarriedAlways(g) == {cached[g].nonce}

Carried(g) == IF cached[g].nonce # NoNonce THEN {cached[g].nonce} ELSE Fresh(g)

StartPass(g) ==
  /\ pass[g].at = "idle"
  /\ cached[g].exists
  /\ \E nonce \in Carried(g) :
       pass' = [pass EXCEPT ![g] = [at |-> "monitoring", nonce |-> nonce]]
  /\ UNCHANGED <<generator, cached, monitoring, job, aborts>>

\* monitoring_ready: an error or a requeue if it is not.
ReadMonitoring(g) ==
  /\ pass[g].at = "monitoring"
  /\ IF monitoring THEN Goto(g, "job") ELSE Leave(g)
  /\ UNCHANGED <<generator, cached, monitoring, job, aborts>>

\* Mutant of Conflict: an existing Job is taken for the generator's own.
ConflictNever(g) == FALSE

\* The pod template holds name and nonce and is immutable.
Conflict(g) == job.phase # "absent" /\ job.nonce # pass[g].nonce

\* Mutant of NewJob: without the owner reference.
NewJobUnowned(g) == [NoJob EXCEPT !.phase = "pending", !.nonce = pass[g].nonce]

NewJob(g) ==
  [NoJob EXCEPT !.phase = "pending", !.owner = g, !.nonce = pass[g].nonce]

\* Mutant of ApplyJob: a Job that is in the way is replaced.
ApplyJobReplacing(g) ==
  /\ pass[g].at = "job"
  /\ job' = IF job.phase = "absent" \/ Conflict(g) THEN NewJob(g) ELSE job
  /\ Goto(g, "save")
  /\ UNCHANGED <<generator, cached, monitoring, aborts>>

\* apply_job: creates the Job, finds its own, or fails on another one.
ApplyJob(g) ==
  /\ pass[g].at = "job"
  /\ job' = IF job.phase = "absent" THEN NewJob(g) ELSE job
  /\ IF Conflict(g) THEN Leave(g) ELSE Goto(g, "save")
  /\ UNCHANGED <<generator, cached, monitoring, aborts>>

PatchStatus(g) ==
  /\ pass[g].at = "save"
  /\ generator' = IF generator[g].exists
                  THEN [generator EXCEPT ![g].nonce = pass[g].nonce]
                  ELSE generator
  /\ Leave(g)
  /\ UNCHANGED <<cached, monitoring, job, aborts>>

\* A call fails, or the operator restarts.
Abort(g) ==
  /\ pass[g].at # "idle"
  /\ aborts < MaxAborts
  /\ aborts' = aborts + 1
  /\ Leave(g)
  /\ UNCHANGED <<generator, cached, monitoring, job>>

PassStep(g) == StartPass(g) \/ ReadMonitoring(g) \/ ApplyJob(g) \/ PatchStatus(g)

-----------------------------------------------------------------------------
(* The cluster and the user. *)

Refresh(g) ==
  /\ cached[g] # generator[g]
  /\ cached' = [cached EXCEPT ![g] = generator[g]]
  /\ UNCHANGED <<generator, pass, monitoring, job, aborts>>

UserDelete(g) ==
  /\ generator[g].exists
  /\ generator' = [generator EXCEPT ![g] = [exists |-> FALSE, nonce |-> NoNonce]]
  /\ UNCHANGED <<passes, job, aborts>>

MonitoringComesUp ==
  /\ ~ monitoring
  /\ monitoring' = TRUE
  /\ UNCHANGED <<generator, cached, pass, job, aborts>>

Owned == job.owner \in Generators

\* Kubernetes removes the Job of a deleted LoadGenerator, and its pod.
CollectJob ==
  /\ Owned /\ ~ generator[job.owner].exists
  /\ job' = NoJob
  /\ UNCHANGED <<generator, passes, aborts>>

PodStarts ==
  /\ job.phase \in {"pending", "retrying"}
  /\ job' = [job EXCEPT !.phase = "running"]
  /\ UNCHANGED <<generator, passes, aborts>>

PodSucceeds ==
  /\ job.phase = "running"
  /\ job' = [job EXCEPT !.phase = "done"]
  /\ UNCHANGED <<generator, passes, aborts>>

PodFails ==
  /\ job.phase = "running"
  /\ job' = [job EXCEPT
               !.phase = IF job.failures < BackoffLimit THEN "retrying" ELSE "failed",
               !.failures = @ + 1]
  /\ UNCHANGED <<generator, passes, aborts>>

JobController == PodStarts \/ PodSucceeds \/ PodFails

Next ==
  \/ \E g \in Generators : PassStep(g) \/ Abort(g) \/ Refresh(g) \/ UserDelete(g)
  \/ MonitoringComesUp \/ CollectJob
  \/ JobController

Spec == Init /\ [][Next]_vars

\* Passes are requeued after 10s (5s on an error); the watch delivers; Kubernetes
\* collects, starts and reports Jobs, and a command ends (Stops, LoadGenerator).
FairSpec ==
  /\ Spec
  /\ \A g \in Generators : WF_vars(PassStep(g)) /\ WF_vars(Refresh(g))
  /\ WF_vars(MonitoringComesUp) /\ WF_vars(CollectJob) /\ WF_vars(JobController)

-----------------------------------------------------------------------------
(* Properties *)

MaybeNonce == Nonce \cup {NoNonce}
JobPhases == {"absent", "pending", "running", "retrying", "done", "failed"}

\* Types; a Job is retried at most once, and never without a nonce.
TypeOK ==
  /\ generator \in [Generators -> [exists : BOOLEAN, nonce : MaybeNonce]]
  /\ cached \in [Generators -> [exists : BOOLEAN, nonce : MaybeNonce]]
  /\ pass \in [Generators -> [at : {"idle", "monitoring", "job", "save"}, nonce : MaybeNonce]]
  /\ monitoring \in BOOLEAN
  /\ job \in [phase : JobPhases, owner : Generators \cup {"nobody"}, nonce : MaybeNonce,
              failures : 0 .. BackoffLimit + 1]
  /\ job.phase # "absent" => job.nonce \in Nonce
  /\ aborts \in 0 .. MaxAborts

\* A status that names a load names the one in the namespace's only Job: no
\* interleaving of passes, caches and deletions of several LoadGenerators makes
\* one report a load that another one runs.
StatusNamesJob ==
  \A g \in Generators :
    generator[g].nonce # NoNonce =>
      job.owner = g /\ job.nonce = generator[g].nonce

\* A load that reached the status ends, with or without a retry.
SavedLoadEnds ==
  \A g \in Generators :
    generator[g].nonce # NoNonce
      ~> \/ job.owner = g /\ job.phase \in {"done", "failed"}
         \/ ~ generator[g].exists

\* A LoadGenerator no pass of which was cut short gets the Job, unless another
\* one that stays holds it: the Job of a deleted one does not block its successors.
TurnComes ==
  \A g \in Generators :
    \/ <>(generator[g].nonce # NoNonce)
    \/ <>(~ generator[g].exists)
    \/ <>(aborts > 0)
    \/ <>[](\E h \in Generators \ {g} : generator[h].exists /\ job.owner = h)
=============================================================================
