----------------------- MODULE MCReplicaAllocation -----------------------
(***************************************************************************)
(* Instances of ReplicaAllocation for TLC.                                 *)
(***************************************************************************)
EXTENDS ReplicaAllocation

Spread(weights, replicas) == [weights |-> weights, replicas |-> replicas]

Sum3(s) == s[1] + s[2] + s[3]

\* Every way to spread 0, 1, 2, 4 and 7 replicas over three specs with weights 0..3,
\* at least one of them positive, the example of mixed_networks.md, and two
\* specs whose division is lossy in f64.
WideSpecs ==
  {Spread(w, r) : w \in {v \in [1 .. 3 -> 0 .. 3] : Sum3(v) > 0}, r \in {0, 1, 2, 4, 7}}
    \cup {Spread(<<w, r>>, n) : w \in 1 .. 3, r \in 0 .. 3, n \in 0 .. 5}
    \cup {Spread(<<4, 2, 1>>, 16), Spread(<<3, 6, 2>>, 55), Spread(<<3, 8>>, 55)}

\* Two specs that overlap, one with a single Ceramic, and one with more than
\* MaxCeramics.
EditedSpecs ==
  {Spread(<<1>>, 2), Spread(<<1, 2>>, 4), Spread(<<1, 1, 1>>, 2), Spread(<<1, 1, 1, 1>>, 4)}

AllSpecs == WideSpecs \cup EditedSpecs

\* What IEEE double arithmetic loses among the inputs above.
DoubleLosses == {<<3, 11, 55>>, <<6, 11, 55>>}
=============================================================================
