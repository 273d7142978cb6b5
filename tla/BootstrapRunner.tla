-------------------------- MODULE BootstrapRunner --------------------------
(***************************************************************************)
(* The bootstrap command of the runner (runner/src/bootstrap.rs): it reads *)
(* the peers file once and asks each peer in turn to connect to others,    *)
(* chosen by the ring, random or sentinel method.  A failed connect is     *)
(* logged and skipped; the command succeeds whatever was connected.        *)
(*                                                                         *)
(* The state is that of the iterator chain the method builds for peer i.   *)
(* The swarm the requests act on is `links`; which peers answer is `up`,   *)
(* and addr[p] stands for the addresses p has now: the file holds those p  *)
(* had when the file was written, and a restarted pod gets a new one.      *)
(***************************************************************************)
EXTENDS Integers, Sequences, FiniteSets, FiniteSetsExt

CONSTANTS
  Peers,    \* all peers, numbered in the order of the peers file
  Methods,  \* the --method values considered
  Fanouts   \* the -n values considered

ASSUME RunnerAssumption ==
  /\ Peers \subseteq Nat /\ IsFiniteSet(Peers)
  /\ Methods \subseteq {"ring", "random", "sentinel"}
  /\ Fanouts \subseteq Nat

VARIABLES
  method, fanout,
  list,    \* Vec<Peer> read from the file: sequence of [peer, addr]
  phase,   \* what the runner does: see Phases
  i,       \* index of the peer being bootstrapped
  cursor,  \* next element of the list the iterator looks at
  taken,   \* elements `take(n)` let through for peer i
  sample,  \* random: indexes drawn for peer i and not connected yet
  links,   \* pairs of connected peers
  up,      \* peers that answer requests
  addr     \* peer -> its current addresses

iterator == <<i, cursor, taken, sample>>
runner == <<list, phase, iterator>>
swarm == <<links, up, addr>>

Phases == {"off", "skip", "take", "sample", "connect", "exit"}

Len1 == Len(list)

\* Mutant of Others: the indexes of the Rust slice, used on a sequence.
OthersZeroBased(k) == (0 .. Len1 - 1) \ {k}

Others(k) == (1 .. Len1) \ {k}

\* swarm/connect from list[k] to list[j]: needs both, and j where the file says.
Connect(k, j) ==
  LET p == list[k].peer
      q == list[j].peer
      works == p # q /\ {p, q} \subseteq up /\ list[j].addr = addr[q]
  IN links' = IF works THEN links \cup {{p, q}} ELSE links

Same == links' = links

\* Mutant of Begin: one iterator, built before the loop over the peers.
BeginResuming(k) ==
  /\ i' = k
  /\ cursor' = IF k = 1 THEN 1 ELSE cursor
  /\ taken' = 0
  /\ sample' = {}
  /\ phase' = IF k > Len(list') THEN "exit"
              ELSE CASE method = "ring" -> "skip"
                     [] method = "random" -> "sample"
                     [] method = "sentinel" -> "take"

\* The iterator chain for the k-th peer, or the end of the command.
Begin(k) ==
  /\ i' = k
  /\ cursor' = 1
  /\ taken' = 0
  /\ sample' = {}
  /\ phase' = IF k > Len(list') THEN "exit"
              ELSE CASE method = "ring" -> "skip"
                     [] method = "random" -> "sample"
                     [] method = "sentinel" -> "take"

NoRun ==
  /\ list = <<>>
  /\ phase = "off"
  /\ i = 0 /\ cursor = 0 /\ taken = 0
  /\ sample = {}

\* parse_peers_info, and the first peer.
Launch(file) ==
  /\ phase = "off"
  /\ list' = file
  /\ Begin(1)
  /\ UNCHANGED <<method, fanout, swarm>>

\* The next peer, with the same list.
NextPeer ==
  /\ list' = list
  /\ Begin(i + 1)
  /\ Same

Rest == UNCHANGED <<method, fanout, list, up, addr>>

-----------------------------------------------------------------------------
(* ring: peers.iter().enumerate().cycle().skip_while(j <= i).take(n)         *)

\* Mutant of Skipped: the next peer is skipped too.
SkippedOneMore == cursor <= i + 1

Skipped == cursor <= i

Cycle(j) == IF j = Len1 THEN 1 ELSE j + 1

\* skip_while drops the element under the cursor, or passes it to take(n),
\* which asks for nothing when n is 0.
RingSkip ==
  /\ method = "ring" /\ phase = "skip"
  /\ \/ fanout = 0 /\ NextPeer
     \/ /\ fanout > 0 /\ Skipped
        /\ cursor' = Cycle(cursor)
        /\ Same
        /\ UNCHANGED <<list, phase, i, taken, sample>>
     \/ /\ fanout > 0 /\ ~ Skipped
        /\ phase' = "take"
        /\ Same
        /\ UNCHANGED <<list, iterator>>
  /\ Rest

RingTake ==
  /\ method = "ring" /\ phase = "take"
  /\ \/ taken = fanout /\ NextPeer
     \/ /\ taken < fanout
        /\ Connect(i, cursor)
        /\ cursor' = Cycle(cursor)
        /\ taken' = taken + 1
        /\ UNCHANGED <<list, phase, i, sample>>
  /\ Rest

-----------------------------------------------------------------------------
(* sentinel: peers.iter().enumerate().filter(idx != i).take(n)               *)

SentinelTake ==
  /\ method = "sentinel" /\ phase = "take"
  /\ \/ (taken = fanout \/ cursor > Len1) /\ NextPeer
     \/ /\ taken < fanout /\ cursor <= Len1
        /\ cursor' = cursor + 1
        /\ IF cursor = i
           THEN Same /\ UNCHANGED taken
           ELSE Connect(i, cursor) /\ taken' = taken + 1
        /\ UNCHANGED <<list, phase, i, sample>>
  /\ Rest

-----------------------------------------------------------------------------
(* random: choose_multiple_fill of min(n, len - 1) other indexes             *)

\* Mutant of RandomSample: n distinct others, even if there are fewer.
RandomSampleUncapped ==
  /\ method = "random" /\ phase = "sample"
  /\ sample' \in kSubset(fanout, Others(i))
  /\ phase' = "connect"
  /\ UNCHANGED <<i, cursor, taken, links>>
  /\ Rest

\* The buffer for a sample has length min(n, len - 1), also for an empty list: there
\* len - 1 wraps around in a release build, which then has no peer to go through, as
\* in Begin; a build with overflow checks panics before it connects anyone.
RandomSample ==
  /\ method = "random" /\ phase = "sample"
  /\ sample' \in kSubset(IF fanout < Len1 - 1 THEN fanout ELSE Len1 - 1, Others(i))
  /\ phase' = "connect"
  /\ UNCHANGED <<i, cursor, taken, links>>
  /\ Rest

RandomConnect ==
  /\ method = "random" /\ phase = "connect"
  /\ \/ sample = {} /\ NextPeer
     \/ \E j \in sample :
          /\ Connect(i, j)
          /\ sample' = sample \ {j}
          /\ UNCHANGED <<list, phase, i, cursor, taken>>
  /\ Rest

RunnerStep == RingSkip \/ RingTake \/ SentinelTake \/ RandomSample \/ RandomConnect

-----------------------------------------------------------------------------
(* The command on its own: any file, any set of peers that answers. *)

\* Peers in file order, with the addresses they have.
FileOf(P) ==
  LET At(k) == CHOOSE p \in P : Cardinality({q \in P : q <= p}) = k
  IN [k \in 1 .. Cardinality(P) |-> [peer |-> At(k), addr |-> addr[At(k)]]]

RunnerInit ==
  /\ method \in Methods
  /\ fanout \in Fanouts
  /\ links = {}
  /\ up \in SUBSET Peers
  /\ addr = [p \in Peers |-> 0]
  /\ NoRun

RunnerNext == RunnerStep \/ \E P \in SUBSET Peers : Launch(FileOf(P))

RunnerVars == <<method, fanout, runner, swarm>>

RunnerSpec == RunnerInit /\ [][RunnerNext]_RunnerVars

\* The process runs until it exits; connect requests answer or time out.
RunnerFairSpec == RunnerSpec /\ WF_RunnerVars(RunnerNext)

-----------------------------------------------------------------------------
(* Properties *)

RunnerTypeOK ==
  /\ method \in Methods /\ fanout \in Fanouts
  /\ list \in Seq([peer : Peers, addr : Nat])
  /\ phase \in Phases
  /\ i \in 0 .. Len1 + 1 /\ cursor \in 0 .. Len1 + 1 /\ taken \in Nat
  /\ sample \subseteq 1 .. Len1
  /\ links \subseteq kSubset(2, Peers) /\ up \subseteq Peers
  /\ addr \in [Peers -> Nat]

Reachable(k) == list[k].peer \in up
Linked(k, j) == {list[k].peer, list[j].peer} \in links

\* How many elements of the list j is after k, going around.
Distance(k, j) == IF k <= j THEN j - k ELSE j - k + Len1

\* Whom the documentation of Method (runner/src/bootstrap.rs:33-38) has peer k
\* connect to: the next N peers, the first N other peers.
Documented(k, j) ==
  /\ k # j
  /\ CASE method = "ring" -> Distance(k, j) <= fanout
       [] method = "sentinel" -> Cardinality(Others(k) \cap (1 .. j)) <= fanout
       [] method = "random" -> fanout > 0

\* No link is made that the documentation of the method does not name.
LinksDocumented ==
  \A k, j \in 1 .. Len1 : Linked(k, j) => Documented(k, j) \/ Documented(j, k)

\* When the command ends, every reachable peer that the method owes a link to a
\* reachable peer has it; the random method gives each peer min(N, all others).
ExitComplete ==
  phase = "exit" =>
    \A k \in 1 .. Len1 :
      IF method = "random"
      THEN (\A j \in 1 .. Len1 : Reachable(j)) =>
             Cardinality({j \in Others(k) : Linked(k, j)})
               >= Min({fanout, Len1 - 1})
      ELSE \A j \in Others(k) :
             Documented(k, j) /\ Reachable(k) /\ Reachable(j) => Linked(k, j)

\* The command ends.
Terminates == <>(phase = "exit")

\* The random and sentinel methods end for every list, an empty or a one-element
\* one included, and whatever n is.
EndsUnlessRing == method # "ring" => Terminates
=============================================================================
