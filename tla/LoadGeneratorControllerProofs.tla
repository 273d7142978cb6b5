-------------------- MODULE LoadGeneratorControllerProofs --------------------
(***************************************************************************)
(* For any number of LoadGenerators in a namespace and any bounds, a       *)
(* status that names a load names the one in the Job they all share.       *)
(***************************************************************************)
EXTENDS LoadGeneratorController, TLAPS

NoncesOf(g) == {g} \X Draws

Passes == [at : {"idle", "monitoring", "job", "save"}, nonce : MaybeNonce]
Copies == [exists : BOOLEAN, nonce : MaybeNonce]
Jobs ==
  [phase : JobPhases, owner : Generators \cup {"nobody"}, nonce : MaybeNonce,
   failures : 0 .. BackoffLimit + 1]

Types ==
  /\ generator \in [Generators -> Copies]
  /\ cached \in [Generators -> Copies]
  /\ pass \in [Generators -> Passes]
  /\ monitoring \in BOOLEAN
  /\ job \in Jobs
  /\ job.phase # "absent" => job.nonce \in Nonce
  /\ aborts \in 0 .. MaxAborts

\* A Job that still may run another pod has not used up its retries.
RetriesCounted ==
  job.phase \in {"pending", "running", "retrying"} => job.failures \in 0 .. BackoffLimit

\* Nonces stay with the LoadGenerator they were drawn for.
NoncesMatch ==
  /\ \A g \in Generators :
       /\ cached[g].nonce # NoNonce => cached[g].nonce \in NoncesOf(g)
       /\ generator[g].nonce # NoNonce => generator[g].nonce \in NoncesOf(g)
       /\ pass[g].at # "idle" => pass[g].nonce \in NoncesOf(g)
  /\ job.phase # "absent" => job.owner \in Generators /\ job.nonce \in NoncesOf(job.owner)

\* The Job is g's and has nonce n.
Holds(g, n) == job.phase # "absent" /\ job.owner = g /\ job.nonce = n

\* A pass that is about to save, for a LoadGenerator that still exists, has found
\* or created the Job of its own nonce.
SaversHoldJob ==
  \A g \in Generators :
    pass[g].at = "save" /\ generator[g].exists => Holds(g, pass[g].nonce)

\* So does a status that is saved; a deleted LoadGenerator has none.
StatusHoldsJob ==
  \A g \in Generators :
    generator[g].nonce # NoNonce =>
      generator[g].exists /\ Holds(g, generator[g].nonce)

IInv == Types /\ RetriesCounted /\ NoncesMatch /\ SaversHoldJob /\ StatusHoldsJob

USE DEF Nonce, NoncesOf, Copies, Passes, Jobs, MaybeNonce, JobPhases, BackoffLimit

LEMMA InitIInv == Init => IInv
<1> SUFFICES ASSUME Init PROVE IInv
  OBVIOUS
<1> USE DEF Init, Idle, NoJob
<1>1. Types
  <2>1. job \in Jobs /\ job.phase = "absent"
    OBVIOUS
  <2>2. generator \in [Generators -> Copies] /\ cached \in [Generators -> Copies]
    OBVIOUS
  <2>3. pass \in [Generators -> Passes]
    OBVIOUS
  <2>4. monitoring \in BOOLEAN
    OBVIOUS
  <2>5. aborts \in 0 .. MaxAborts
    <3>1. MaxAborts \in Nat /\ aborts = 0
      BY ControllerAssumption
    <3> QED
      BY <3>1
  <2> QED
    BY <2>1, <2>2, <2>3, <2>4, <2>5 DEF Types
<1>2. RetriesCounted
  BY DEF RetriesCounted
<1>3. NoncesMatch
  BY DEF NoncesMatch
<1>4. SaversHoldJob /\ StatusHoldsJob
  BY DEF SaversHoldJob, StatusHoldsJob
<1> QED
  BY <1>1, <1>2, <1>3, <1>4 DEF IInv

\* The steps that neither write a LoadGenerator nor touch the Job.
LEMMA QuietStepIInv ==
  ASSUME IInv, NEW g \in Generators,
         StartPass(g) \/ ReadMonitoring(g) \/ Abort(g) \/ Refresh(g) \/ MonitoringComesUp
  PROVE  IInv'
<1> USE ControllerAssumption DEF IInv
<1>1. CASE StartPass(g)
  <2>1. PICK n \in Carried(g) : pass' = [pass EXCEPT ![g] = [at |-> "monitoring", nonce |-> n]]
    BY <1>1 DEF StartPass
  <2>2. n \in NoncesOf(g)
    BY <2>1 DEF Carried, Fresh, NoncesMatch
  <2>3. UNCHANGED <<generator, cached, monitoring, job, aborts>>
    BY <1>1 DEF StartPass
  <2>4. Types' /\ RetriesCounted'
    BY <2>1, <2>2, <2>3 DEF Types, RetriesCounted
  <2>5. NoncesMatch'
    BY <2>1, <2>2, <2>3 DEF Types, NoncesMatch
  <2>6. SaversHoldJob' /\ StatusHoldsJob'
    BY <2>1, <2>3 DEF Types, SaversHoldJob, StatusHoldsJob, Holds
  <2> QED
    BY <2>4, <2>5, <2>6
<1>2. CASE ReadMonitoring(g)
  <2>1. /\ pass[g].at = "monitoring"
        /\ UNCHANGED <<generator, cached, monitoring, job, aborts>>
    BY <1>2 DEF ReadMonitoring
  <2>2. CASE pass' = [pass EXCEPT ![g].at = "job"]
    BY <2>1, <2>2 DEF Types, RetriesCounted, NoncesMatch, SaversHoldJob, StatusHoldsJob,
       Holds
  <2>3. CASE pass' = [pass EXCEPT ![g] = [at |-> "idle", nonce |-> NoNonce]]
    BY <2>1, <2>3 DEF Types, RetriesCounted, NoncesMatch, SaversHoldJob, StatusHoldsJob,
       Holds
  <2> QED
    BY <1>2, <2>2, <2>3 DEF ReadMonitoring, Leave, Goto, Idle
<1>3. CASE Abort(g)
  BY <1>3 DEF Abort, Leave, Idle, Types, RetriesCounted, NoncesMatch, SaversHoldJob,
     StatusHoldsJob, Holds
<1>4. CASE Refresh(g)
  BY <1>4 DEF Refresh, Types, RetriesCounted, NoncesMatch, SaversHoldJob, StatusHoldsJob,
     Holds
<1>5. CASE MonitoringComesUp
  BY <1>5 DEF MonitoringComesUp, Types, RetriesCounted, NoncesMatch, SaversHoldJob,
     StatusHoldsJob, Holds
<1> QED
  BY <1>1, <1>2, <1>3, <1>4, <1>5

\* apply_job creates the Job, or gets past Conflict because the Job is g's own.
LEMMA ApplyJobIInv ==
  ASSUME IInv, NEW g \in Generators, ApplyJob(g)
  PROVE  IInv'
<1> USE ControllerAssumption DEF IInv
<1>1. pass[g].nonce \in NoncesOf(g) /\ pass[g] \in Passes
  BY DEF ApplyJob, NoncesMatch, Types
<1>2. CASE job.phase = "absent"
  <2>1. job' = NewJob(g) /\ pass' = [pass EXCEPT ![g].at = "save"]
    BY <1>2 DEF ApplyJob, Conflict, Goto
  <2>2. job' = [phase |-> "pending", owner |-> g, nonce |-> pass[g].nonce, failures |-> 0]
    BY <2>1 DEF NewJob, NoJob
  <2>3. \A h \in Generators : generator[h].nonce = NoNonce
    BY <1>2 DEF StatusHoldsJob, Holds
  <2>4. \A h \in Generators \ {g} : pass[h].at = "save" => ~ generator[h].exists
    BY <1>2 DEF SaversHoldJob, Holds
  <2>5. UNCHANGED <<generator, cached, monitoring, aborts>>
    BY DEF ApplyJob
  <2>6. Types' /\ RetriesCounted'
    BY <1>1, <2>1, <2>2, <2>5 DEF Types, RetriesCounted
  <2>7. NoncesMatch'
    BY <1>1, <2>1, <2>2, <2>5 DEF Types, NoncesMatch
  <2>8. SaversHoldJob' /\ StatusHoldsJob'
    BY <2>1, <2>2, <2>3, <2>4, <2>5 DEF Types, SaversHoldJob, StatusHoldsJob, Holds
  <2> QED
    BY <2>6, <2>7, <2>8
<1>3. CASE job.phase # "absent" /\ Conflict(g)
  <2>1. pass' = [pass EXCEPT ![g] = [at |-> "idle", nonce |-> NoNonce]]
    BY <1>3 DEF ApplyJob, Leave, Idle
  <2>2. UNCHANGED <<generator, cached, monitoring, job, aborts>>
    BY <1>3 DEF ApplyJob
  <2> QED
    BY <2>1, <2>2 DEF Types, RetriesCounted, NoncesMatch, SaversHoldJob, StatusHoldsJob,
       Holds
<1>4. CASE job.phase # "absent" /\ ~ Conflict(g)
  <2>1. job.owner = g /\ job.nonce = pass[g].nonce
    BY <1>1, <1>4 DEF Conflict, NoncesMatch
  <2>2. pass' = [pass EXCEPT ![g].at = "save"]
    BY <1>4 DEF ApplyJob, Goto
  <2>3. UNCHANGED <<generator, cached, monitoring, job, aborts>>
    BY <1>4 DEF ApplyJob
  <2>4. Types' /\ RetriesCounted' /\ NoncesMatch'
    BY <1>1, <2>2, <2>3 DEF Types, RetriesCounted, NoncesMatch
  <2>5. SaversHoldJob' /\ StatusHoldsJob'
    BY <1>4, <2>1, <2>2, <2>3 DEF Types, SaversHoldJob, StatusHoldsJob, Holds
  <2> QED
    BY <2>4, <2>5
<1> QED
  BY <1>2, <1>3, <1>4

\* patch_status saves what the pass holds; a deletion takes the status with it.
LEMMA StatusStepIInv ==
  ASSUME IInv, NEW g \in Generators, PatchStatus(g) \/ UserDelete(g)
  PROVE  IInv'
<1> USE ControllerAssumption DEF IInv
<1>1. CASE PatchStatus(g)
  <2>1. pass[g].nonce \in NoncesOf(g) /\ (generator[g].exists => Holds(g, pass[g].nonce))
    BY <1>1 DEF PatchStatus, NoncesMatch, SaversHoldJob
  <2> QED
    BY <1>1, <2>1 DEF PatchStatus, Leave, Idle, Types, RetriesCounted, NoncesMatch,
       SaversHoldJob, StatusHoldsJob, Holds
<1>2. CASE UserDelete(g)
  BY <1>2 DEF UserDelete, passes, Types, RetriesCounted, NoncesMatch, SaversHoldJob,
     StatusHoldsJob, Holds
<1> QED
  BY <1>1, <1>2

\* The collector takes the Job of a deleted LoadGenerator; its other steps leave
\* owner and nonce alone.
LEMMA ClusterStepIInv ==
  ASSUME IInv, CollectJob \/ JobController
  PROVE  IInv'
<1> USE ControllerAssumption DEF IInv
<1>1. CASE CollectJob
  <2>1. /\ job' = NoJob
        /\ UNCHANGED <<generator, cached, pass, monitoring, aborts>>
        /\ ~ generator[job.owner].exists
    BY <1>1 DEF CollectJob, passes
  <2>2. \A h \in Generators : generator[h].exists => job.owner # h
    BY <2>1
  <2>3. \A h \in Generators :
          generator[h].nonce = NoNonce /\ (pass[h].at = "save" => ~ generator[h].exists)
    BY <2>2 DEF SaversHoldJob, StatusHoldsJob, Holds
  <2>4. Types' /\ RetriesCounted'
    BY <2>1 DEF NoJob, Types, RetriesCounted
  <2>5. NoncesMatch'
    BY <2>1 DEF NoJob, NoncesMatch
  <2>6. SaversHoldJob' /\ StatusHoldsJob'
    BY <2>1, <2>3 DEF SaversHoldJob, StatusHoldsJob
  <2> QED
    BY <2>4, <2>5, <2>6
<1>2. CASE PodStarts
  BY <1>2 DEF PodStarts, passes, Types, RetriesCounted, NoncesMatch, SaversHoldJob,
     StatusHoldsJob, Holds
<1>3. CASE PodSucceeds
  BY <1>3 DEF PodSucceeds, passes, Types, RetriesCounted, NoncesMatch, SaversHoldJob,
     StatusHoldsJob, Holds
<1>4. CASE PodFails
  <2>1. /\ job.phase = "running"
        /\ UNCHANGED <<generator, cached, pass, monitoring, aborts>>
    BY <1>4 DEF PodFails, passes
  <2>2. PICK p \in {"retrying", "failed"} :
          /\ p = "retrying" => job.failures < BackoffLimit
          /\ job' = [job EXCEPT !.phase = p, !.failures = @ + 1]
    BY <1>4 DEF PodFails
  <2>3. job.failures \in 0 .. BackoffLimit
    BY <2>1 DEF RetriesCounted
  <2>4. job' = [phase |-> p, owner |-> job.owner, nonce |-> job.nonce,
                failures |-> job.failures + 1]
    BY <2>2 DEF Types
  <2>5. Types' /\ RetriesCounted'
    BY <2>1, <2>2, <2>3, <2>4 DEF Types, RetriesCounted
  <2>6. NoncesMatch' /\ SaversHoldJob' /\ StatusHoldsJob'
    BY <2>1, <2>4 DEF NoncesMatch, SaversHoldJob, StatusHoldsJob, Holds
  <2> QED
    BY <2>5, <2>6
<1> QED
  BY <1>1, <1>2, <1>3, <1>4 DEF JobController

LEMMA NextIInv == IInv /\ [Next]_vars => IInv'
<1> SUFFICES ASSUME IInv, [Next]_vars PROVE IInv'
  OBVIOUS
<1>1. ASSUME NEW g \in Generators, PassStep(g) PROVE IInv'
  BY <1>1, QuietStepIInv, ApplyJobIInv, StatusStepIInv DEF PassStep
<1>2. ASSUME NEW g \in Generators, Abort(g) \/ Refresh(g) PROVE IInv'
  BY <1>2, QuietStepIInv
<1>3. ASSUME NEW g \in Generators, UserDelete(g) PROVE IInv'
  BY <1>3, StatusStepIInv
<1>4. CASE MonitoringComesUp
  BY <1>4 DEF MonitoringComesUp, IInv, Types, RetriesCounted, NoncesMatch, SaversHoldJob,
     StatusHoldsJob, Holds
<1>5. CASE CollectJob \/ JobController
  BY <1>5, ClusterStepIInv
<1>6. CASE UNCHANGED vars
  BY <1>6 DEF vars, passes, IInv, Types, RetriesCounted, NoncesMatch, SaversHoldJob,
     StatusHoldsJob, Holds
<1> QED
  BY <1>1, <1>2, <1>3, <1>4, <1>5, <1>6 DEF Next

\* IInv holds in every reachable state.
THEOREM Invariant == Spec => []IInv
BY InitIInv, NextIInv, PTL DEF Spec

\* Every variable keeps its type, and a Job is retried at most once.
THEOREM TypeCorrect == Spec => []TypeOK
<1>1. IInv => TypeOK
  BY DEF IInv, Types, TypeOK
<1> QED
  BY <1>1, Invariant, PTL

\* A status names the load that the namespace's only Job runs, for any number of
\* LoadGenerators and however their passes interleave.
THEOREM StatusIsTheJobs == Spec => []StatusNamesJob
<1>1. IInv => StatusNamesJob
  BY DEF IInv, StatusHoldsJob, Holds, StatusNamesJob
<1> QED
  BY <1>1, Invariant, PTL
=============================================================================
