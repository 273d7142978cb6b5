---------------------------- MODULE LoadGenerator ----------------------------
(***************************************************************************)
(* The generate-load command of the runner (runner/src/load_generator):    *)
(* after the set-up requests it spawns tasks that create documents until   *)
(* the run time is over, each with a timeout, and send every result        *)
(* through a bounded channel to one collector, which counts them, waits    *)
(* a buffer beyond the run time and then aborts the tasks.                 *)
(*                                                                         *)
(* The clock counts instants, and waits neither for the collector nor for  *)
(* a task in front of a full channel.  The timer of a request may be one   *)
(* instant late.  Whether a result is an id or an error makes no           *)
(* difference to what follows, so only its presence is kept.               *)
(***************************************************************************)
EXTENDS Integers, FiniteSets

CONSTANTS
  Tasks,       \* GENERATOR_TASKS
  Duration,    \* GENERATOR_RUN_TIME, in instants
  Timeout,     \* of a create request: 5 s
  Buffer,      \* of the collector beyond the run time: 5 s
  Capacity,    \* of the channel: 10000
  Batch,       \* results per recv_many: 10
  MaxRequests  \* bound: create requests of one run

ASSUME LoadAssumption ==
  /\ {Duration, Timeout, Buffer, MaxRequests} \subseteq Nat
  /\ {Capacity, Batch} \subseteq Nat \ {0}
  /\ IsFiniteSet(Tasks)

VARIABLES
  stage,    \* "file", ... "index": the set-up; "run", "exit", "failed"
  clock,    \* instants since start_time
  task,     \* task -> "off", "ready", "waiting", "holding", "done", "aborted"
  since,    \* task -> when its last request started
  queue,    \* results in the channel
  asked,    \* create requests started
  counted,  \* results the collector has counted
  backlog   \* history: results sent or being sent when the buffer ends

vars == <<stage, clock, task, since, queue, asked, counted, backlog>>

Init ==
  /\ stage = "file"
  /\ clock = 0 /\ queue = 0 /\ asked = 0 /\ counted = 0 /\ backlog = 0
  /\ task = [t \in Tasks |-> "off"]
  /\ since = [t \in Tasks |-> 0]

-----------------------------------------------------------------------------
(* Set-up: the peers file, the credentials, two Ceramic peers of the file, a   *)
(* new model on one of them, and its index on the other.                      *)

\* A step of the set-up: whatever goes wrong ends the command, by `?` or by a
\* panic (peers[1], ceramic_addr).
SetUp(step, next) ==
  /\ stage = step
  /\ stage' \in {next, "failed"}
  /\ UNCHANGED <<clock, task, since, queue, asked, counted, backlog>>

ParsePeers == SetUp("file", "credentials")
InitializeConfig == SetUp("credentials", "peers")
ChoosePeers == SetUp("peers", "model")
GenerateModel == SetUp("model", "code")
GetAdminCode == SetUp("code", "index")

\* The last request, and the tasks.
IndexModel ==
  /\ stage = "index"
  /\ \/ /\ stage' = "run"
        /\ task' = [t \in Tasks |-> "ready"]
     \/ /\ stage' = "failed"
        /\ UNCHANGED task
  /\ UNCHANGED <<clock, since, queue, asked, counted, backlog>>

-----------------------------------------------------------------------------
(* A task. *)

\* The head of the loop: is the run time over?
Check(t) ==
  /\ stage = "run" /\ task[t] = "ready"
  /\ \/ /\ clock > Duration
        /\ task' = [task EXCEPT ![t] = "done"]
        /\ UNCHANGED <<since, asked>>
     \/ /\ clock <= Duration
        /\ asked < MaxRequests
        /\ task' = [task EXCEPT ![t] = "waiting"]
        /\ since' = [since EXCEPT ![t] = clock]
        /\ asked' = asked + 1
  /\ UNCHANGED <<stage, clock, queue, counted, backlog>>

\* The node answers, or the request fails.
Answer(t) ==
  /\ stage = "run" /\ task[t] = "waiting"
  /\ task' = [task EXCEPT ![t] = "holding"]
  /\ UNCHANGED <<stage, clock, since, queue, asked, counted, backlog>>

Expired(t) == task[t] = "waiting" /\ clock >= since[t] + Timeout

\* tokio::time::timeout gives up on the request.
TimeOut(t) == Expired(t) /\ Answer(t)

\* tx.send waits while the channel is full.
Send(t) ==
  /\ stage = "run" /\ task[t] = "holding"
  /\ queue < Capacity
  /\ queue' = queue + 1
  /\ task' = [task EXCEPT ![t] = "ready"]
  /\ UNCHANGED <<stage, clock, since, asked, counted, backlog>>

-----------------------------------------------------------------------------
(* The collector. *)

\* Mutant of Over: without the buffer.
OverAtOnce == clock > Duration

Over == clock > Duration + Buffer

\* Mutant of SendersGone: the collector's own sender is not dropped.
SendersKept == FALSE

SendersGone == \A t \in Tasks : task[t] = "done"

Least(a, b) == IF a < b THEN a ELSE b

\* recv_many returns a batch, or nothing from a channel no one can send to;
\* past the buffer the collector aborts the tasks and the command ends.
Collect ==
  /\ stage = "run"
  /\ queue > 0 \/ (SendersGone /\ Over)
  /\ queue' = queue - Least(queue, Batch)
  /\ counted' = counted + Least(queue, Batch)
  /\ IF Over
     THEN /\ stage' = "exit"
          /\ task' = [t \in Tasks |-> IF task[t] = "done" THEN "done" ELSE "aborted"]
     ELSE UNCHANGED <<stage, task>>
  /\ UNCHANGED <<clock, since, asked, backlog>>

\* Timers are at most this late.
Lateness == 1

Sending == {t \in Tasks : task[t] = "holding"}

\* The clock stops soon after the last instant that makes a difference.
Tick ==
  /\ stage = "run"
  /\ clock <= Duration + Buffer + Lateness
  /\ \A t \in Tasks : task[t] = "waiting" => clock < since[t] + Timeout + Lateness
  /\ clock' = clock + 1
  /\ backlog' = IF Over' /\ ~ Over THEN queue + Cardinality(Sending) ELSE backlog
  /\ UNCHANGED <<stage, task, since, queue, asked, counted>>

SettingUp ==
  \/ ParsePeers \/ InitializeConfig \/ ChoosePeers
  \/ GenerateModel \/ GetAdminCode \/ IndexModel

\* What runs without the node: its answers may never come.
LocalStep(t) == Check(t) \/ TimeOut(t) \/ Send(t)

Next ==
  \/ SettingUp \/ Collect \/ Tick
  \/ \E t \in Tasks : LocalStep(t) \/ Answer(t)

Spec == Init /\ [][Next]_vars

\* The process runs, and so do its timers; requests of the set-up end by
\* themselves, since the client has a timeout.
FairSpec ==
  /\ Spec
  /\ WF_vars(SettingUp) /\ WF_vars(Collect) /\ WF_vars(Tick)
  /\ \A t \in Tasks : WF_vars(LocalStep(t))

-----------------------------------------------------------------------------
(* Properties *)

\* The comment at runner/src/load_generator/gen.rs:194 has the buffer cover the
\* time results need: at the end only those results are not counted that were
\* stuck in the channel or in front of it when the buffer ended, and those of
\* tasks that started their last request so late that a late timer falls beyond
\* the buffer, however long a full channel kept tasks from their deadline check.
EarlyResultsCounted ==
  stage = "exit" =>
    asked - counted
      <= backlog + Cardinality({t \in Tasks : since[t] + Timeout + Lateness > Duration + Buffer})

\* "The load generator will automatically stop once the runTime is up"
\* (keramik/src/load_generator.md:33), whether or not the node still answers, the
\* channel fills up or a task is at the head of its loop.
Stops == <>(stage \in {"exit", "failed"})
=============================================================================
