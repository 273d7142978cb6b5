---------------------------- MODULE SimulationRun ----------------------------
(***************************************************************************)
(* What the simulation controller promises of the runs of a Simulation:    *)
(* the run under way has one nonce from its launch to its stop, workers    *)
(* join it under that nonce, and only after its manager has started.  Its  *)
(* manager never starts anew.  SimulationController implements this for    *)
(* the Simulation that exists, whatever its passes went through.           *)
(***************************************************************************)
CONSTANTS
  Workers,  \* the workers a run may have
  Nonces,   \* the random names and nonces of runs
  NoNonce   \* there is no run

VARIABLES
  nonce,   \* the nonce of the run
  stage,   \* "none", "launched", "open" to workers, "over"
  members  \* the workers that joined, with the nonce each was given

vars == <<nonce, stage, members>>

Init == nonce = NoNonce /\ stage = "none" /\ members = <<>>

Launch ==
  /\ stage = "none" /\ stage' = "launched"
  /\ nonce' \in Nonces
  /\ UNCHANGED members

\* The run of a deleted Simulation whose manager its successor takes over is
\* the run of the successor, whatever it has come to.
Adopt ==
  /\ stage = "none" /\ stage' \in {"open", "over"}
  /\ nonce' \in Nonces
  /\ UNCHANGED members

Open ==
  /\ stage = "launched" /\ stage' = "open"
  /\ UNCHANGED <<nonce, members>>

\* Complete, or given up.
Close ==
  /\ stage = "open" /\ stage' = "over"
  /\ UNCHANGED <<nonce, members>>

\* A pass may see the manager started and apply the worker when the run is over.
Join(w) ==
  /\ stage \in {"open", "over"} /\ w \notin DOMAIN members
  /\ members' = [v \in DOMAIN members \cup {w} |-> IF v = w THEN nonce ELSE members[v]]
  /\ UNCHANGED <<nonce, stage>>

\* The Simulation is deleted.
Stop ==
  /\ stage # "none" /\ stage' = "none"
  /\ nonce' = NoNonce /\ members' = <<>>

Next == Launch \/ Adopt \/ Open \/ Close \/ Stop \/ \E w \in Workers : Join(w)

Spec == Init /\ [][Next]_vars
=============================================================================
