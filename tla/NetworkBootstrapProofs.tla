----------------------- MODULE NetworkBootstrapProofs -----------------------
(***************************************************************************)
(* TLAPS proofs about NetworkBootstrap and the BootstrapRunner in it, for  *)
(* any peers, fan-outs and bounds: which links the runner makes, and what  *)
(* readers of the peers config map can rely on.                            *)
(*                                                                         *)
(* The runner's properties need what its iterators have let through:       *)
(* Progress says where the one of the current peer stands, Finished what   *)
(* the earlier ones left behind.  The config map is served right because a *)
(* pass only assembles addresses that are at least as new as those of the  *)
(* status (Assembled), and writes them before anything else (Saved).       *)
(***************************************************************************)
EXTENDS NetworkBootstrap, FiniteSetTheorems, SequenceTheorems, TLAPS

-----------------------------------------------------------------------------
(* The order of the peers *)

Rank(P, p) == Cardinality({q \in P : q <= p})

\* A larger number has a larger rank, and there is one of each rank.
LEMMA Ranks ==
  ASSUME NEW P, P \subseteq Nat, IsFiniteSet(P)
  PROVE  /\ \A p \in P : Rank(P, p) \in 1 .. Cardinality(P)
         /\ \A p, q \in P : p < q => Rank(P, p) < Rank(P, q)
         /\ \A n \in 1 .. Cardinality(P) : \E p \in P : Rank(P, p) = n
<1> DEFINE Upto(p) == {q \in P : q <= p}
<1>0. Cardinality(P) \in Nat
  BY FS_CardinalityType
<1>1. ASSUME NEW p \in P
      PROVE  IsFiniteSet(Upto(p)) /\ Cardinality(Upto(p)) \in 1 .. Cardinality(P)
  <2>1. IsFiniteSet(Upto(p)) /\ Cardinality(Upto(p)) <= Cardinality(P)
    <3>1. Upto(p) \in SUBSET P
      OBVIOUS
    <3> QED BY <3>1, FS_Subset
  <2>2. p \in Upto(p)
    OBVIOUS
  <2>3. Cardinality(Upto(p)) # 0 /\ Cardinality(Upto(p)) \in Nat
    <3> HIDE DEF Upto
    <3> QED BY <2>1, <2>2, FS_EmptySet, FS_CardinalityType
  <2> QED BY <2>1, <2>3, <1>0
<1>2. ASSUME NEW p \in P, NEW q \in P, p < q
      PROVE  Cardinality(Upto(p)) < Cardinality(Upto(q))
  <2>1. Upto(p) \in SUBSET Upto(q) /\ Upto(p) # Upto(q)
    <3>1. q \in Upto(q) /\ q \notin Upto(p)
      BY <1>2
    <3>2. \A x \in P : x <= p => x <= q
      BY <1>2
    <3> QED BY <3>1, <3>2
  <2>2. Cardinality(Upto(p)) <= Cardinality(Upto(q)) /\ Cardinality(Upto(p)) # Cardinality(Upto(q))
    <3> HIDE DEF Upto
    <3> QED BY <2>1, <1>1, FS_Subset
  <2> QED BY <2>2, <1>1
<1>3. ASSUME NEW n \in 1 .. Cardinality(P)
      PROVE  \E p \in P : Cardinality(Upto(p)) = n
  <2> DEFINE f == [p \in P |-> Cardinality(Upto(p))]
  <2>1. f \in Injection(P, 1 .. Cardinality(P))
    <3>1. f \in [P -> 1 .. Cardinality(P)]
      BY <1>1
    <3>2. ASSUME NEW p \in P, NEW q \in P, f[p] = f[q]
          PROVE  p = q
      <4>1. ~ (p < q) /\ ~ (q < p)
        <5>1. p < q => f[p] < f[q]
          BY <1>2
        <5>2. q < p => f[q] < f[p]
          BY <1>2
        <5>3. f[p] \in Nat
          BY <3>1
        <5> HIDE DEF f
        <5> QED BY <5>1, <5>2, <5>3, <3>2
      <4> QED BY <4>1
    <3> QED BY <3>1, <3>2 DEF Injection, IsInjective
  <2>2. IsFiniteSet(1 .. Cardinality(P)) /\ Cardinality(1 .. Cardinality(P)) = Cardinality(P)
    BY <1>0, FS_Interval
  <2>3. f \in Surjection(P, 1 .. Cardinality(P))
    BY <2>1, <2>2, FS_Injection
  <2> QED BY <2>3 DEF Surjection
<1> QED BY <1>1, <1>2, <1>3 DEF Rank

-----------------------------------------------------------------------------
(* The runner *)

FileType == Seq([peer : Peers, addr : Nat])

\* The file names every peer once, at its present address.
FromFile ==
  /\ \A a, b \in 1 .. Len1 : list[a].peer = list[b].peer => a = b
  /\ \A a \in 1 .. Len1 : list[a].addr = addr[list[a].peer]

\* The number of peers the random method draws for each.
Drawn == IF fanout < Len1 - 1 THEN fanout ELSE Len1 - 1
AllReachable == \A j \in 1 .. Len1 : Reachable(j)

\* What the methods have done for the current peer.
RingTaken ==
  /\ method = "ring" /\ fanout > 0
  /\ i < Len1 /\ cursor \in 1 .. Len1
  /\ Distance(i, cursor) <= taken + 1

SentinelTaken ==
  /\ method = "sentinel"
  /\ cursor \in 1 .. Len1 + 1
  /\ taken = Cardinality(Others(i) \cap (1 .. cursor - 1)) /\ taken <= fanout
  /\ \A j \in Others(i) : j < cursor /\ Reachable(i) /\ Reachable(j) => Linked(i, j)

RandomDrawn ==
  /\ method = "random"
  /\ sample \subseteq Others(i)
  /\ sample # {} => fanout > 0
  /\ AllReachable => \E S \in kSubset(Drawn, Others(i)) :
                       \A j \in S : j \in sample \/ Linked(i, j)

Progress ==
  /\ phase = "off" => links = {} /\ list = <<>>
  /\ phase \in {"skip", "take", "sample", "connect"} => i \in 1 .. Len1
  /\ phase = "skip" => method = "ring" /\ cursor \in 1 .. Len1 /\ cursor <= i + 1
  /\ phase = "take" => RingTaken \/ SentinelTaken
  /\ phase = "sample" => method = "random"
  /\ phase = "connect" => RandomDrawn
  /\ phase = "exit" => i > Len1 /\ (method = "ring" => fanout = 0 \/ Len1 = 0)

\* What they leave behind for peer k.
Complete(k) ==
  /\ method = "sentinel" =>
       \A j \in Others(k) : Documented(k, j) /\ Reachable(k) /\ Reachable(j) => Linked(k, j)
  /\ method = "random" /\ AllReachable =>
       \E S \in kSubset(Drawn, Others(k)) : \A j \in S : Linked(k, j)

Finished == phase # "off" => \A k \in 1 .. Len1 : k < i => Complete(k)

RunnerIInv == RunnerTypeOK /\ FromFile /\ Progress /\ LinksDocumented /\ Finished

\* A file read from a set of peers names each once.
LEMMA FileFits ==
  ASSUME RunnerTypeOK, NEW P \in SUBSET Peers
  PROVE  /\ FileOf(P) \in FileType
         /\ \A a, b \in 1 .. Len(FileOf(P)) : FileOf(P)[a].peer = FileOf(P)[b].peer => a = b
         /\ \A a \in 1 .. Len(FileOf(P)) : FileOf(P)[a].addr = addr[FileOf(P)[a].peer]
<1> USE RunnerAssumption
<1> DEFINE At1(n) == CHOOSE p \in P : Cardinality({q \in P : q <= p}) = n
           N == Cardinality(P)
<1>0. IsFiniteSet(P) /\ P \subseteq Nat /\ N \in Nat
  BY FS_Subset, FS_CardinalityType
<1>1. \A n \in 1 .. N : At1(n) \in P /\ Rank(P, At1(n)) = n
  <2> SUFFICES ASSUME NEW n \in 1 .. N PROVE At1(n) \in P /\ Rank(P, At1(n)) = n
    OBVIOUS
  <2>1. \E p \in P : Cardinality({q \in P : q <= p}) = n
    BY <1>0, Ranks DEF Rank
  <2> QED BY <2>1 DEF Rank
<1>2. FileOf(P) = [n \in 1 .. N |-> [peer |-> At1(n), addr |-> addr[At1(n)]]]
  BY DEF FileOf
<1> HIDE DEF At1
<1>3. FileOf(P) \in FileType /\ Len(FileOf(P)) = N
  <2>1. \A n \in 1 .. N : [peer |-> At1(n), addr |-> addr[At1(n)]] \in [peer : Peers, addr : Nat]
    BY <1>1 DEF RunnerTypeOK
  <2>2. FileOf(P) \in [1 .. N -> [peer : Peers, addr : Nat]]
    BY <1>2, <2>1
  <2>3. FileOf(P) \in Seq([peer : Peers, addr : Nat])
    <3> DEFINE S == [peer : Peers, addr : Nat]
               e(n) == [peer |-> At1(n), addr |-> addr[At1(n)]]
    <3>1. \A n \in 1 .. N : e(n) \in S
      BY <2>1
    <3> HIDE DEF S, e, N
    <3>2. [n \in 1 .. N |-> e(n)] \in Seq(S)
      BY <3>1, <1>0
    <3> QED BY <3>2, <1>2 DEF S, e
  <2>4. DOMAIN FileOf(P) = 1 .. N
    BY <2>2
  <2>5. Len(FileOf(P)) = N
    BY <2>3, <2>4, <1>0, LenProperties
  <2> QED BY <2>3, <2>5 DEF FileType
<1>4. \A n \in 1 .. N : FileOf(P)[n].peer = At1(n) /\ FileOf(P)[n].addr = addr[At1(n)]
  BY <1>2
<1> QED BY <1>1, <1>3, <1>4

\* What a connect request may and must do.
LEMMA ConnectStep ==
  ASSUME RunnerTypeOK, FromFile, NEW k \in 1 .. Len1, NEW j \in 1 .. Len1, Connect(k, j)
  PROVE  /\ links \subseteq links'
         /\ links' \subseteq kSubset(2, Peers)
         /\ k # j /\ Reachable(k) /\ Reachable(j) => {list[k].peer, list[j].peer} \in links'
         /\ \A a, b \in 1 .. Len1 :
              {list[a].peer, list[b].peer} \in links' =>
                \/ {list[a].peer, list[b].peer} \in links
                \/ k # j /\ ((a = k /\ b = j) \/ (a = j /\ b = k))
<1> DEFINE p == list[k].peer
           q == list[j].peer
<1>1. p \in Peers /\ q \in Peers /\ list[j].addr = addr[q]
  <2>1. list \in Seq([peer : Peers, addr : Nat])
    BY DEF RunnerTypeOK
  <2>2. list[k] \in [peer : Peers, addr : Nat] /\ list[j] \in [peer : Peers, addr : Nat]
    BY <2>1, ElementOfSeq DEF Len1
  <2> QED BY <2>2 DEF FromFile
<1>2. p = q <=> k = j
  BY DEF FromFile
<1>3. links' = IF k # j /\ {p, q} \subseteq up THEN links \cup {{p, q}} ELSE links
  BY <1>1, <1>2 DEF Connect
<1>4. k # j => {p, q} \in kSubset(2, Peers)
  <2> HIDE DEF p, q
  <2>1. p # q => Cardinality({p, q}) = 2
    <3>1. {p, q} = {p} \cup {q}
      OBVIOUS
    <3>2. IsFiniteSet({p}) /\ Cardinality({p}) = 1
      BY FS_Singleton
    <3>3. p # q => Cardinality({p} \cup {q}) = 2
      BY <3>2, FS_AddElement
    <3> QED BY <3>1, <3>3
  <2> QED BY <2>1, <1>1, <1>2 DEF kSubset
<1>5. \A a, b \in 1 .. Len1 :
        {list[a].peer, list[b].peer} = {p, q} => (a = k /\ b = j) \/ (a = j /\ b = k)
  <2> SUFFICES ASSUME NEW a \in 1 .. Len1, NEW b \in 1 .. Len1, {list[a].peer, list[b].peer} = {p, q}
               PROVE  (a = k /\ b = j) \/ (a = j /\ b = k)
    OBVIOUS
  <2>1. (list[a].peer = p /\ list[b].peer = q) \/ (list[a].peer = q /\ list[b].peer = p)
    OBVIOUS
  <2> QED BY <2>1 DEF FromFile
<1>6. links \subseteq kSubset(2, Peers)
  BY DEF RunnerTypeOK
<1> QED
  <2> HIDE DEF p, q
  <2>1. k # j /\ Reachable(k) /\ Reachable(j) => {p, q} \in links'
    BY <1>3 DEF Reachable, p, q
  <2> QED BY <1>3, <1>4, <1>5, <1>6, <2>1 DEF p, q

\* What a step that keeps the list keeps with it.
LEMMA Keeps ==
  ASSUME Rest
  PROVE  /\ FromFile => FromFile'
         /\ Len1' = Len1 /\ (AllReachable' <=> AllReachable) /\ Drawn' = Drawn
         /\ \A k : Others(k)' = Others(k) /\ (Reachable(k)' <=> Reachable(k))
         /\ \A k, j : Documented(k, j)' <=> Documented(k, j)
         /\ \A k, j : Distance(k, j)' = Distance(k, j)
<1>1. list' = list /\ addr' = addr /\ up' = up /\ method' = method /\ fanout' = fanout
  BY DEF Rest
<1>2. Len1' = Len1
  BY <1>1 DEF Len1
<1>3. \A k : Others(k)' = Others(k) /\ (Reachable(k)' <=> Reachable(k))
  BY <1>1, <1>2 DEF Others, Reachable
<1>4. \A k, j : Distance(k, j)' = Distance(k, j)
  BY <1>2 DEF Distance
<1>5. \A k, j : Documented(k, j)' <=> Documented(k, j)
  BY <1>1, <1>3, <1>4 DEF Documented
<1>6. (AllReachable' <=> AllReachable) /\ Drawn' = Drawn
  BY <1>1, <1>2, <1>3 DEF AllReachable, Drawn
<1> QED BY <1>1, <1>2, <1>3, <1>4, <1>5, <1>6 DEF FromFile

\* More links spoil nothing.
LEMMA KeepsComplete ==
  ASSUME Rest, links \subseteq links', NEW k
  PROVE  Complete(k) => Complete(k)'
<1>1. list' = list /\ method' = method
  BY DEF Rest
<1>2. \A j : Linked(k, j) => Linked(k, j)'
  BY <1>1 DEF Linked
<1> QED BY <1>1, <1>2, Keeps DEF Complete

\* Going on to the next peer, once the current one has its links.
LEMMA NextPeerStep ==
  ASSUME RunnerIInv, NextPeer, Rest, i \in 1 .. Len1, phase # "off", Complete(i),
         method = "ring" => fanout = 0 \/ i < Len1
  PROVE  RunnerIInv'
<1> USE DEF RunnerIInv
<1>1. /\ list' = list /\ links' = links /\ i' = i + 1 /\ cursor' = 1 /\ taken' = 0 /\ sample' = {}
      /\ method' = method /\ fanout' = fanout /\ up' = up /\ addr' = addr
      /\ Len1' = Len1 /\ Len1 \in Nat
  BY LenProperties DEF NextPeer, Begin, Same, Rest, Len1, RunnerTypeOK
<1>2. phase' = IF i + 1 > Len1 THEN "exit"
               ELSE CASE method = "ring" -> "skip"
                      [] method = "random" -> "sample"
                      [] method = "sentinel" -> "take"
  BY <1>1 DEF NextPeer, Begin, Len1
<1>a. method \in {"ring", "random", "sentinel"}
  BY RunnerAssumption DEF RunnerTypeOK
<1>b. /\ phase' \in {"skip", "take", "sample", "exit"}
      /\ phase' = "exit" <=> i + 1 > Len1
      /\ phase' = "skip" => method = "ring"
      /\ phase' = "sample" => method = "random"
      /\ phase' = "take" => method = "sentinel"
  BY <1>2, <1>a
<1>3. RunnerTypeOK'
  BY <1>1, <1>b DEF RunnerTypeOK, Phases
<1>4. FromFile'
  BY Keeps
<1>5. Progress'
  <2>1. phase' = "take" => SentinelTaken'
    <3>1. 1 .. cursor' - 1 = {} /\ \A j \in Others(i)' : ~ (j < cursor')
      BY <1>1 DEF Others
    <3>2. Cardinality(Others(i)' \cap (1 .. cursor' - 1)) = 0
      BY <3>1, FS_EmptySet
    <3> QED BY <1>1, <1>b, <3>1, <3>2, RunnerAssumption DEF SentinelTaken, RunnerTypeOK
  <2>2. phase' = "exit" => i' > Len1' /\ (method' = "ring" => fanout' = 0 \/ Len1' = 0)
    BY <1>1, <1>b
  <2>3. phase' = "skip" => i' \in 1 .. Len1' /\ cursor' \in 1 .. Len1' /\ cursor' <= i' + 1
    BY <1>1, <1>b
  <2>4. phase' \in {"take", "sample"} => i' \in 1 .. Len1'
    BY <1>1, <1>b
  <2> QED BY <1>b, <1>1, <2>1, <2>2, <2>3, <2>4 DEF Progress
<1>6. LinksDocumented'
  BY <1>1, Keeps DEF LinksDocumented, Linked
<1>7. Finished'
  <2>1. \A k \in 1 .. Len1 : k < i + 1 => Complete(k)
    BY DEF Finished
  <2> QED BY <2>1, <1>1, KeepsComplete DEF Finished
<1> QED BY <1>3, <1>4, <1>5, <1>6, <1>7

\* ring: the iterator is as far around as it has taken elements; for the last
\* peer it never takes one.
LEMMA RingStep ==
  ASSUME RunnerIInv, RingSkip \/ RingTake
  PROVE  RunnerIInv'
<1> USE DEF RunnerIInv
<1>0. Rest /\ Len1 \in Nat /\ fanout \in Nat /\ method = "ring"
  BY RunnerAssumption, LenProperties DEF RingSkip, RingTake, RunnerTypeOK, Len1
<1>1. i \in 1 .. Len1 /\ phase # "off" /\ Complete(i)
  BY <1>0 DEF RingSkip, RingTake, Progress, Complete
<1>2. CASE NextPeer
  <2>1. fanout = 0 \/ i < Len1
    <3>1. i' # i
      BY <1>1, <1>2 DEF NextPeer, Begin
    <3> QED BY <1>0, <3>1 DEF RingSkip, RingTake, iterator, Progress, RingTaken, SentinelTaken
  <2> QED BY <1>0, <1>1, <1>2, <2>1, NextPeerStep
<1>3. CASE ~ NextPeer
  <2>1. /\ list' = list /\ i' = i /\ sample' = sample /\ fanout' = fanout /\ method' = method
        /\ up' = up /\ addr' = addr /\ Len1' = Len1 /\ fanout > 0
    BY <1>0, <1>3, Keeps DEF RingSkip, RingTake, Rest, iterator, Progress, RingTaken, SentinelTaken
  <2>2. CASE RingSkip
    <3>1. links' = links /\ taken' = taken /\ cursor \in 1 .. Len1
      BY <2>2, <1>3 DEF RingSkip, Same, iterator, Progress
    <3>2. CASE Skipped
      <4>1. /\ cursor' \in 1 .. Len1 /\ cursor' <= i + 1
            /\ phase' = "skip" /\ phase = "skip"
        BY <1>0, <1>1, <2>1, <2>2, <3>1, <3>2 DEF RingSkip, Cycle, Skipped
      <4>2. RunnerTypeOK'
        BY <1>0, <2>1, <3>1, <4>1 DEF RunnerTypeOK, Phases
      <4>3. FromFile' /\ LinksDocumented'
        BY <1>0, <2>1, <3>1, Keeps DEF LinksDocumented, Linked
      <4>4. Progress'
        BY <1>0, <1>1, <2>1, <4>1 DEF Progress
      <4>5. Finished'
        BY <1>0, <1>1, <2>1, <3>1, <4>1, KeepsComplete DEF Finished
      <4> QED BY <4>2, <4>3, <4>4, <4>5
    <3>3. CASE ~ Skipped
      <4>1. cursor' = cursor /\ phase' = "take" /\ phase = "skip" /\ i < cursor
        BY <2>2, <3>1, <3>3, <1>1, <1>3 DEF RingSkip, iterator, Skipped
      <4>2. RunnerTypeOK'
        BY <1>0, <2>1, <3>1, <4>1 DEF RunnerTypeOK, Phases
      <4>3. FromFile' /\ LinksDocumented'
        BY <1>0, <2>1, <3>1, Keeps DEF LinksDocumented, Linked
      <4>4. Distance(i, cursor)' <= taken' + 1
        <5>1. cursor = i + 1
          BY <2>2, <4>1, <1>1 DEF Progress
        <5> QED BY <4>1, <3>1, <2>1, <1>1, <5>1 DEF Distance, RunnerTypeOK
      <4>5. Progress'
        BY <1>0, <1>1, <2>1, <3>1, <4>1, <4>4 DEF Progress, RingTaken
      <4>6. Finished'
        BY <1>0, <1>1, <2>1, <3>1, <4>1, KeepsComplete DEF Finished
      <4> QED BY <4>2, <4>3, <4>5, <4>6
    <3> QED BY <3>2, <3>3
  <2>3. CASE RingTake
    <3>1. /\ Connect(i, cursor) /\ cursor' = Cycle(cursor) /\ taken' = taken + 1 /\ taken < fanout
          /\ phase' = "take" /\ phase = "take" /\ RingTaken
      BY <2>3, <1>3, <1>0 DEF RingTake, Progress, SentinelTaken
    <3>2. i < Len1 /\ cursor \in 1 .. Len1 /\ Distance(i, cursor) <= taken + 1
      BY <3>1 DEF RingTaken
    <3>3. cursor' \in 1 .. Len1 /\ taken \in Nat
      BY <1>0, <3>1, <3>2 DEF Cycle, RunnerTypeOK
    <3>4. /\ links \subseteq links' /\ links' \subseteq kSubset(2, Peers)
          /\ \A a, b \in 1 .. Len1 :
               {list[a].peer, list[b].peer} \in links' =>
                 \/ {list[a].peer, list[b].peer} \in links
                 \/ i # cursor /\ ((a = i /\ b = cursor) \/ (a = cursor /\ b = i))
      BY <3>1, <3>2, <1>1, ConnectStep
    <3>5. RunnerTypeOK'
      BY <1>0, <2>1, <3>1, <3>3, <3>4 DEF RunnerTypeOK
    <3>6. LinksDocumented'
      <4>1. i # cursor => Documented(i, cursor)
        BY <1>0, <3>1, <3>2, <3>3, <1>1 DEF Documented, Distance
      <4> QED BY <1>0, <2>1, <3>4, <4>1, Keeps DEF LinksDocumented, Linked
    <3>7. Distance(i, cursor)' <= taken' + 1
      BY <2>1, <3>1, <3>2, <3>3, <1>1, <1>0 DEF Distance, Cycle
    <3>8. Progress'
      BY <1>0, <1>1, <2>1, <3>1, <3>2, <3>3, <3>7 DEF Progress, RingTaken
    <3>9. FromFile' /\ Finished'
      BY <1>0, <1>1, <2>1, <3>1, <3>4, KeepsComplete, Keeps DEF Finished
    <3> QED BY <3>5, <3>6, <3>8, <3>9
  <2> QED BY <2>2, <2>3
<1> QED BY <1>2, <1>3

\* sentinel: what was taken are the other elements before the cursor.
LEMMA SentinelStep ==
  ASSUME RunnerIInv, SentinelTake
  PROVE  RunnerIInv'
<1> USE DEF RunnerIInv
<1>0. /\ Rest /\ Len1 \in Nat /\ fanout \in Nat /\ taken \in Nat
      /\ method = "sentinel" /\ phase = "take"
  BY RunnerAssumption, LenProperties DEF SentinelTake, RunnerTypeOK, Len1
<1>1. i \in 1 .. Len1 /\ SentinelTaken
  BY <1>0 DEF Progress, RingTaken
<1>2. cursor \in 1 .. Len1 + 1 /\ taken <= fanout
  BY <1>1 DEF SentinelTaken
<1> DEFINE Before(c) == Others(i) \cap (1 .. c - 1)
<1>3. \A c \in Nat : IsFiniteSet(Before(c)) /\ Cardinality(Before(c)) \in Nat
  <2> SUFFICES ASSUME NEW c \in Nat PROVE IsFiniteSet(Before(c)) /\ Cardinality(Before(c)) \in Nat
    OBVIOUS
  <2>1. IsFiniteSet(1 .. c - 1) /\ Before(c) \in SUBSET (1 .. c - 1)
    BY FS_Interval
  <2> QED BY <2>1, FS_Subset, FS_CardinalityType
<1>4. taken = Cardinality(Before(cursor))
  BY <1>1 DEF SentinelTaken
\* Up to and with an element that is still to come there is one more.
<1>5. \A c \in Others(i) : c >= cursor => Cardinality(Others(i) \cap (1 .. c)) >= taken + 1
  <2> SUFFICES ASSUME NEW c \in Others(i), c >= cursor
               PROVE  Cardinality(Others(i) \cap (1 .. c)) >= taken + 1
    OBVIOUS
  <2>1. c \in Nat /\ c \notin Before(cursor) /\ Before(cursor) \cup {c} \subseteq Others(i) \cap (1 .. c)
    BY <1>0, <1>2 DEF Others
  <2>2. Cardinality(Before(cursor) \cup {c}) = taken + 1
    <3>1. IsFiniteSet(Before(cursor))
      BY <1>2, <1>3
    <3> HIDE DEF Before
    <3> QED BY <2>1, <3>1, <1>4, FS_AddElement
  <2>3. IsFiniteSet(Others(i) \cap (1 .. c))
    <3>1. IsFiniteSet(1 .. c) /\ Others(i) \cap (1 .. c) \in SUBSET (1 .. c)
      BY <2>1, FS_Interval
    <3> QED BY <3>1, FS_Subset
  <2>4. Cardinality(Before(cursor) \cup {c}) <= Cardinality(Others(i) \cap (1 .. c))
    <3> HIDE DEF Before
    <3> QED BY <2>1, <2>3, FS_Subset
  <2>5. Cardinality(Others(i) \cap (1 .. c)) \in Nat
    BY <2>3, FS_CardinalityType
  <2> QED BY <2>2, <2>4, <2>5, <1>0
<1>6. CASE NextPeer
  <2>1. taken = fanout \/ cursor > Len1
    <3>1. i' # i
      BY <1>1, <1>6 DEF NextPeer, Begin
    <3> QED BY <3>1 DEF SentinelTake
  <2>2. Complete(i)
    <3> SUFFICES ASSUME NEW j \in Others(i), Documented(i, j), Reachable(i), Reachable(j)
                 PROVE  Linked(i, j)
      BY <1>0 DEF Complete
    <3>1. j < cursor
      <4>1. Cardinality(Others(i) \cap (1 .. j)) <= fanout
        BY <1>0 DEF Documented
      <4>2. j >= cursor => Cardinality(Others(i) \cap (1 .. j)) >= taken + 1
        BY <1>5
      <4>3. j \in 1 .. Len1
        BY DEF Others
      <4>4. Cardinality(Others(i) \cap (1 .. j)) \in Nat
        <5>1. IsFiniteSet(1 .. j) /\ Others(i) \cap (1 .. j) \in SUBSET (1 .. j)
          BY <4>3, FS_Interval
        <5> QED BY <5>1, FS_Subset, FS_CardinalityType
      <4> QED BY <4>1, <4>2, <4>3, <4>4, <2>1, <1>0, <1>2
    <3> QED BY <3>1, <1>1 DEF SentinelTaken
  <2> QED BY <1>0, <1>1, <1>6, <2>2, NextPeerStep
<1>7. CASE ~ NextPeer
  <2>0. /\ taken < fanout /\ cursor <= Len1 /\ cursor' = cursor + 1
        /\ list' = list /\ phase' = phase /\ i' = i /\ sample' = sample
        /\ method' = method /\ fanout' = fanout /\ Len1' = Len1
        /\ up' = up /\ addr' = addr
    BY <1>7, <1>0, Keeps DEF SentinelTake, Rest
  <2>1. Before(cursor + 1) = Others(i) \cap (1 .. cursor)
    BY <1>2
  <2>2. CASE cursor = i
    <3>1. links' = links /\ taken' = taken
      BY <1>7, <2>2 DEF SentinelTake, Same
    <3>2. Before(cursor + 1) = Before(cursor)
      BY <1>2, <2>2 DEF Others
    <3>3. taken' = Cardinality(Others(i)' \cap (1 .. cursor' - 1))
      BY <2>0, <3>1, <3>2, <1>4, <1>0, Keeps
    <3>4. \A j \in Others(i)' : j < cursor' => j < cursor
      BY <2>0, <2>2, <1>2, <1>0, Keeps DEF Others
    <3>5. SentinelTaken'
      <4>1. \A j \in Others(i)' : j < cursor' /\ Reachable(i)' /\ Reachable(j)' => Linked(i, j)'
        BY <3>1, <3>4, <2>0, <1>0, <1>1, Keeps DEF SentinelTaken, Linked
      <4>2. cursor' \in 1 .. Len1' + 1
        BY <1>0, <2>0, <1>2
      <4> QED BY <2>0, <1>0, <1>2, <3>1, <3>3, <4>1, <4>2 DEF SentinelTaken
    <3>6. RunnerTypeOK'
      BY <1>0, <1>2, <2>0, <3>1 DEF RunnerTypeOK
    <3>7. FromFile' /\ LinksDocumented'
      BY <1>0, <2>0, <3>1, Keeps DEF LinksDocumented, Linked
    <3>8. Progress'
      BY <3>5, <1>0, <1>1, <2>0 DEF Progress
    <3>9. Finished'
      BY <1>0, <2>0, <3>1, KeepsComplete DEF Finished
    <3> QED BY <3>6, <3>7, <3>8, <3>9
  <2>3. CASE cursor # i
    <3>1. Connect(i, cursor) /\ taken' = taken + 1 /\ cursor \in Others(i)
      BY <1>0, <1>2, <1>7, <2>0, <2>3 DEF SentinelTake, Others
    <3>2. /\ links \subseteq links' /\ links' \subseteq kSubset(2, Peers)
          /\ Reachable(i) /\ Reachable(cursor) => {list[i].peer, list[cursor].peer} \in links'
          /\ \A a, b \in 1 .. Len1 :
               {list[a].peer, list[b].peer} \in links' =>
                 \/ {list[a].peer, list[b].peer} \in links
                 \/ i # cursor /\ ((a = i /\ b = cursor) \/ (a = cursor /\ b = i))
      <4>1. cursor \in 1 .. Len1
        BY <1>0, <1>2, <2>0
      <4> QED BY <3>1, <2>3, <1>1, <4>1, ConnectStep
    <3>3. Cardinality(Others(i) \cap (1 .. cursor)) = taken + 1
      <4>1. Before(cursor + 1) = Before(cursor) \cup {cursor} /\ cursor \notin Before(cursor)
        BY <1>2, <3>1 DEF Others
      <4>2. IsFiniteSet(Before(cursor))
        BY <1>2, <1>3
      <4>3. Cardinality(Before(cursor + 1)) = taken + 1
        <5> HIDE DEF Before
        <5> QED BY <4>1, <4>2, <1>4, FS_AddElement
      <4> QED BY <4>3, <2>1
    <3>4. taken' = Cardinality(Others(i)' \cap (1 .. cursor' - 1))
      <4>1. Others(i)' = Others(i) /\ 1 .. cursor' - 1 = 1 .. cursor
        BY <2>0, <1>0, <1>2, Keeps
      <4> QED BY <3>1, <3>3, <4>1
    <3>5. LinksDocumented'
      <4>1. Documented(i, cursor)
        BY <1>0, <2>0, <2>3, <3>3 DEF Documented
      <4> QED BY <1>0, <2>0, <3>2, <4>1, Keeps DEF LinksDocumented, Linked
    <3>6. SentinelTaken'
      <4>1. \A j \in Others(i)' : j < cursor' /\ Reachable(i)' /\ Reachable(j)' => Linked(i, j)'
        <5> SUFFICES ASSUME NEW j \in Others(i), j < cursor + 1, Reachable(i), Reachable(j)
                     PROVE  {list[i].peer, list[j].peer} \in links'
          BY <1>0, <2>0, Keeps DEF Linked
        <5>1. CASE j = cursor
          BY <5>1, <3>2
        <5>2. CASE j # cursor
          <6>1. j < cursor
            BY <5>2, <1>2 DEF Others
          <6> QED BY <6>1, <3>2, <1>1 DEF SentinelTaken, Linked
        <5> QED BY <5>1, <5>2
      <4>2. cursor' \in 1 .. Len1' + 1 /\ taken' <= fanout'
        BY <1>0, <2>0, <1>2, <3>1
      <4> QED BY <2>0, <1>0, <3>4, <4>1, <4>2 DEF SentinelTaken
    <3>7. RunnerTypeOK'
      BY <1>0, <1>2, <2>0, <3>1, <3>2 DEF RunnerTypeOK
    <3>8. Progress'
      BY <3>6, <1>0, <1>1, <2>0 DEF Progress
    <3>9. FromFile' /\ Finished'
      BY <1>0, <2>0, <3>2, KeepsComplete, Keeps DEF Finished
    <3> QED BY <3>5, <3>7, <3>8, <3>9
  <2> QED BY <2>2, <2>3
<1> QED BY <1>6, <1>7

\* random: the indexes drawn are connected one by one.
LEMMA RandomStep ==
  ASSUME RunnerIInv, RandomSample \/ RandomConnect
  PROVE  RunnerIInv'
<1> USE DEF RunnerIInv
<1>0. /\ Rest /\ Len1 \in Nat /\ fanout \in Nat /\ method = "random"
      /\ phase \in {"sample", "connect"} /\ i \in 1 .. Len1
  BY RunnerAssumption, LenProperties DEF RandomSample, RandomConnect, Progress, RunnerTypeOK, Len1
<1>1. CASE RandomSample
  <2>1. /\ links' = links /\ taken' = taken /\ cursor' = cursor /\ i' = i /\ phase' = "connect"
        /\ list' = list /\ method' = method /\ fanout' = fanout /\ Len1' = Len1
        /\ up' = up /\ addr' = addr
    BY <1>0, <1>1, Keeps DEF RandomSample, Rest
  <2>2. sample' \in kSubset(Drawn, Others(i)) /\ sample' \subseteq Others(i)
    BY <1>1 DEF RandomSample, Drawn, kSubset
  <2>3. sample' # {} => fanout > 0
    <3>1. SUFFICES ASSUME fanout = 0 PROVE sample' = {}
      BY <1>0
    <3>2. Drawn = 0 \/ Len1 = 1
      BY <1>0, <3>1 DEF Drawn
    <3>3. Drawn = 0
      BY <1>0, <3>1, <3>2 DEF Drawn
    <3>4. IsFiniteSet(sample') /\ Cardinality(sample') = 0
      <4>1. IsFiniteSet(1 .. Len1) /\ sample' \in SUBSET (1 .. Len1)
        BY <1>0, <2>2, FS_Interval DEF Others
      <4> QED BY <4>1, <2>2, <3>3, FS_Subset DEF kSubset
    <3> QED BY <3>4, FS_EmptySet
  <2>4. RandomDrawn'
    BY <1>0, <2>1, <2>2, <2>3, Keeps DEF RandomDrawn
  <2>5. RunnerTypeOK'
    BY <1>0, <2>1, <2>2 DEF RunnerTypeOK, Phases, Others
  <2>6. Progress'
    BY <1>0, <2>1, <2>4 DEF Progress
  <2>7. FromFile' /\ LinksDocumented'
    BY <1>0, <2>1, Keeps DEF LinksDocumented, Linked
  <2>8. Finished'
    BY <1>0, <2>1, KeepsComplete DEF Finished
  <2> QED BY <2>5, <2>6, <2>7, <2>8
<1>2. CASE RandomConnect /\ NextPeer
  <2>1. phase = "connect" /\ sample = {} /\ RandomDrawn
    <3>1. i' # i
      BY <1>0, <1>2 DEF NextPeer, Begin
    <3> QED BY <3>1, <1>2 DEF RandomConnect, Progress
  <2>2. Complete(i)
    BY <2>1, <1>0 DEF RandomDrawn, Complete
  <2> QED BY <1>0, <1>2, <2>2, NextPeerStep
<1>3. CASE RandomConnect /\ ~ NextPeer
  <2>0. /\ phase = "connect" /\ phase' = "connect"
        /\ list' = list /\ i' = i /\ cursor' = cursor /\ taken' = taken
        /\ method' = method /\ fanout' = fanout /\ Len1' = Len1
        /\ up' = up /\ addr' = addr
    BY <1>3, <1>0, Keeps DEF RandomConnect, Rest
  <2>1. PICK j \in sample : Connect(i, j) /\ sample' = sample \ {j}
    BY <1>3 DEF RandomConnect
  <2>2. RandomDrawn /\ j \in Others(i) /\ j \in 1 .. Len1 /\ j # i
    BY <2>0, <2>1 DEF Progress, RandomDrawn, Others
  <2>3. /\ links \subseteq links' /\ links' \subseteq kSubset(2, Peers)
        /\ Reachable(i) /\ Reachable(j) => {list[i].peer, list[j].peer} \in links'
        /\ \A a, b \in 1 .. Len1 :
             {list[a].peer, list[b].peer} \in links' =>
               \/ {list[a].peer, list[b].peer} \in links
               \/ i # j /\ ((a = i /\ b = j) \/ (a = j /\ b = i))
    BY <2>1, <2>2, <1>0, ConnectStep
  <2>4. LinksDocumented'
    <3>1. Documented(i, j)
      BY <1>0, <2>1, <2>2 DEF Documented, RandomDrawn
    <3> QED BY <1>0, <2>0, <2>3, <3>1, Keeps DEF LinksDocumented, Linked
  <2>5. RandomDrawn'
    <3>1. AllReachable' => \E S \in kSubset(Drawn, Others(i))' :
                             \A a \in S : a \in sample' \/ Linked(i, a)'
      <4> SUFFICES ASSUME AllReachable
                   PROVE  \E S \in kSubset(Drawn, Others(i)) :
                            \A a \in S : a \in sample' \/ Linked(i, a)'
        BY <1>0, <2>0, Keeps
      <4>1. PICK S \in kSubset(Drawn, Others(i)) : \A a \in S : a \in sample \/ Linked(i, a)
        BY <2>2 DEF RandomDrawn
      <4>2. Linked(i, j)'
        BY <2>0, <2>2, <2>3, <1>0 DEF AllReachable, Linked
      <4>3. \A a : Linked(i, a) => Linked(i, a)'
        BY <2>0, <2>3 DEF Linked
      <4>4. \A a \in S : a \in sample' \/ Linked(i, a)'
        BY <2>1, <4>1, <4>2, <4>3
      <4> QED BY <4>4
    <3>2. sample' \subseteq Others(i)' /\ (sample' # {} => fanout' > 0) /\ method' = "random"
      BY <2>0, <2>1, <2>2, <1>0, Keeps DEF RandomDrawn
    <3> QED BY <3>1, <3>2, <2>0 DEF RandomDrawn
  <2>6. RunnerTypeOK'
    BY <1>0, <2>0, <2>1, <2>3 DEF RunnerTypeOK
  <2>7. Progress'
    BY <1>0, <2>0, <2>5 DEF Progress
  <2>8. FromFile' /\ Finished'
    BY <1>0, <2>0, <2>3, KeepsComplete, Keeps DEF Finished
  <2> QED BY <2>4, <2>6, <2>7, <2>8
<1> QED BY <1>1, <1>2, <1>3

\* The command starts with the file of some peers.
LEMMA LaunchStep ==
  ASSUME RunnerIInv, NEW P \in SUBSET Peers, Launch(FileOf(P))
  PROVE  RunnerIInv'
<1> USE DEF RunnerIInv
<1>0. /\ list' = FileOf(P) /\ i' = 1 /\ cursor' = 1 /\ taken' = 0 /\ sample' = {}
      /\ method' = method /\ fanout' = fanout /\ links' = links /\ up' = up /\ addr' = addr
      /\ phase = "off"
  BY DEF Launch, Begin, swarm
<1>1. list' \in Seq([peer : Peers, addr : Nat]) /\ FromFile'
  BY <1>0, FileFits DEF FileType, FromFile, Len1
<1>2. Len1' \in Nat /\ Len1' = Len(list')
  BY <1>1, LenProperties DEF Len1
<1>3. phase' = IF 1 > Len1' THEN "exit"
               ELSE CASE method = "ring" -> "skip"
                      [] method = "random" -> "sample"
                      [] method = "sentinel" -> "take"
  BY <1>2 DEF Launch, Begin
<1>4. method \in {"ring", "random", "sentinel"} /\ fanout \in Nat
  BY RunnerAssumption DEF RunnerTypeOK
<1>b. /\ phase' \in {"skip", "take", "sample", "exit"}
      /\ phase' = "exit" <=> 1 > Len1'
      /\ phase' = "skip" => method = "ring"
      /\ phase' = "sample" => method = "random"
      /\ phase' = "take" => method = "sentinel"
  BY <1>3, <1>4
<1>5. RunnerTypeOK'
  BY <1>0, <1>1, <1>2, <1>b DEF RunnerTypeOK, Phases
<1>6. links' = {}
  BY <1>0 DEF Progress
<1>7. Progress'
  <2>1. phase' = "take" => SentinelTaken'
    <3>1. 1 .. cursor' - 1 = {} /\ \A j \in Others(i)' : ~ (j < cursor')
      BY <1>0, <1>2 DEF Others
    <3>2. Cardinality(Others(i)' \cap (1 .. cursor' - 1)) = 0
      BY <3>1, FS_EmptySet
    <3> QED BY <1>0, <1>2, <1>4, <1>b, <3>1, <3>2 DEF SentinelTaken
  <2>2. /\ phase' = "exit" => i' > Len1' /\ (method' = "ring" => fanout' = 0 \/ Len1' = 0)
        /\ phase' = "skip" => i' \in 1 .. Len1' /\ cursor' \in 1 .. Len1' /\ cursor' <= i' + 1
        /\ phase' \in {"take", "sample"} => i' \in 1 .. Len1'
    BY <1>0, <1>2, <1>b
  <2> QED BY <1>0, <1>b, <2>1, <2>2 DEF Progress
<1>8. LinksDocumented' /\ Finished'
  BY <1>0, <1>2, <1>6 DEF LinksDocumented, Linked, Finished
<1> QED BY <1>1, <1>5, <1>7, <1>8

\* The invariant of the runner, for any set of peers the file names.
THEOREM RunnerInvariance == RunnerSpec => []RunnerIInv
<1>1. RunnerInit => RunnerIInv
  <2> SUFFICES ASSUME RunnerInit PROVE RunnerIInv
    OBVIOUS
  <2>1. RunnerTypeOK
    BY EmptySeq DEF RunnerInit, NoRun, RunnerTypeOK, Phases, Len1
  <2>2. Len1 = 0
    BY EmptySeq DEF RunnerInit, NoRun, Len1
  <2>3. FromFile /\ LinksDocumented /\ Finished
    BY <2>2 DEF FromFile, LinksDocumented, Finished, RunnerInit, NoRun
  <2>4. Progress
    BY DEF Progress, RunnerInit, NoRun
  <2> QED BY <2>1, <2>3, <2>4 DEF RunnerIInv
<1>2. RunnerIInv /\ [RunnerNext]_RunnerVars => RunnerIInv'
  <2> SUFFICES ASSUME RunnerIInv, [RunnerNext]_RunnerVars PROVE RunnerIInv'
    OBVIOUS
  <2>1. CASE RunnerStep
    BY <2>1, RingStep, SentinelStep, RandomStep DEF RunnerStep
  <2>2. CASE \E P \in SUBSET Peers : Launch(FileOf(P))
    BY <2>2, LaunchStep
  <2>3. CASE UNCHANGED RunnerVars
    <3>1. Rest /\ UNCHANGED <<phase, i, cursor, taken, sample, links>>
      BY <2>3 DEF RunnerVars, runner, iterator, swarm, Rest
    <3>2. RunnerTypeOK' /\ FromFile' /\ LinksDocumented'
      BY <3>1, Keeps DEF RunnerIInv, RunnerTypeOK, Rest, LinksDocumented, Linked
    <3>3. Finished'
      BY <3>1, Keeps, KeepsComplete DEF RunnerIInv, Finished
    <3>4. Progress'
      BY <3>1, Keeps DEF RunnerIInv, Progress, Rest, RingTaken, SentinelTaken, RandomDrawn, Linked
    <3> QED BY <3>2, <3>3, <3>4 DEF RunnerIInv
  <2> QED BY <2>1, <2>2, <2>3 DEF RunnerNext
<1> QED BY <1>1, <1>2, PTL DEF RunnerSpec

\* The iterators stay within the list, whatever its length and the fan-out.
THEOREM RunnerStaysWithinTheList == RunnerSpec => []RunnerTypeOK
BY RunnerInvariance, PTL DEF RunnerIInv

\* The runner makes no link that the documentation of the method does not name.
THEOREM OnlyDocumentedLinks == RunnerSpec => []LinksDocumented
BY RunnerInvariance, PTL DEF RunnerIInv

\* When the command ends it has made every link the method owes to peers that
\* answer.
THEOREM EndsComplete == RunnerSpec => []ExitComplete
<1>1. RunnerIInv => ExitComplete
  <2> SUFFICES ASSUME RunnerIInv, phase = "exit", NEW k \in 1 .. Len1
               PROVE  IF method = "random"
                      THEN AllReachable =>
                             Cardinality({j \in Others(k) : Linked(k, j)}) >= Min({fanout, Len1 - 1})
                      ELSE \A j \in Others(k) :
                             Documented(k, j) /\ Reachable(k) /\ Reachable(j) => Linked(k, j)
    BY DEF ExitComplete, AllReachable
  <2>0. Len1 \in Nat /\ fanout \in Nat /\ method \in {"ring", "random", "sentinel"}
    BY RunnerAssumption, LenProperties DEF RunnerIInv, RunnerTypeOK, Len1
  <2>1. Complete(k)
    BY <2>0 DEF RunnerIInv, Finished, Progress, RunnerTypeOK
  <2>2. CASE method = "random"
    <3> SUFFICES ASSUME AllReachable
                 PROVE  Cardinality({j \in Others(k) : Linked(k, j)}) >= Min({fanout, Len1 - 1})
      BY <2>2
    <3>1. PICK S \in kSubset(Drawn, Others(k)) : \A j \in S : Linked(k, j)
      BY <2>1, <2>2 DEF Complete
    <3> DEFINE L == {j \in Others(k) : Linked(k, j)}
    <3>2. S \in SUBSET L /\ Cardinality(S) = Drawn
      BY <3>1 DEF kSubset
    <3>3. IsFiniteSet(L)
      <4>1. IsFiniteSet(1 .. Len1) /\ L \in SUBSET (1 .. Len1)
        BY <2>0, FS_Interval DEF Others
      <4> QED BY <4>1, FS_Subset
    <3>4. Cardinality(L) >= Drawn
      <4>1. Cardinality(S) <= Cardinality(L) /\ Cardinality(L) \in Nat
        <5> HIDE DEF L
        <5> QED BY <3>2, <3>3, FS_Subset, FS_CardinalityType
      <4> QED BY <4>1, <3>2, <2>0 DEF Drawn
    <3>5. Min({fanout, Len1 - 1}) = Drawn
      <4>1. /\ Drawn \in {fanout, Len1 - 1}
            /\ \A n \in {fanout, Len1 - 1} : Drawn <= n
            /\ \A m \in {fanout, Len1 - 1} : (\A n \in {fanout, Len1 - 1} : m <= n) => m = Drawn
        BY <2>0 DEF Drawn
      <4> HIDE DEF L
      <4> QED BY <4>1 DEF Min
    <3> QED BY <3>4, <3>5
  <2>3. CASE method = "sentinel"
    BY <2>1, <2>3 DEF Complete
  <2>4. CASE method = "ring"
    <3>1. fanout = 0
      BY <2>0, <2>4 DEF RunnerIInv, Progress
    <3>2. \A j \in Others(k) : ~ Documented(k, j)
      BY <3>1, <2>0, <2>4 DEF Documented, Distance, Others
    <3> QED BY <3>2, <2>4
  <2> QED BY <2>0, <2>2, <2>3, <2>4
<1> QED BY RunnerInvariance, <1>1, PTL

-----------------------------------------------------------------------------
(* The network controller *)

\* No address of the file is older than the status shows.
Newer(file) ==
  \A j \in 1 .. Len(status), n \in 1 .. Len(file) :
    status[j].peer = file[n].peer => status[j].addr <= file[n].addr

MapTypes ==
  /\ addr \in [Peers -> Nat]
  /\ {found, status} \subseteq PeerList /\ peersMap \in PeerList \cup {NoMap}
  /\ DOMAIN op = {"at", "k", "enabled", "version", "min"} /\ op.k \in Nat
  /\ DOMAIN job = {"phase", "version"}

\* The pass has each peer once, in the order it polls them, ...
InOrder ==
  /\ \A a, b \in 1 .. Len(found) : found[a].peer = found[b].peer => a = b
  /\ op.at = "poll" =>
       op.k >= 1 /\ \A a \in 1 .. Len(found) : Rank(Peers, found[a].peer) < op.k

\* ... with addresses between those of the status and the present ones.
Assembled ==
  /\ \A j \in 1 .. Len(status) : status[j].addr <= addr[status[j].peer]
  /\ \A a \in 1 .. Len(found) : found[a].addr <= addr[found[a].peer]
  /\ Newer(found)

\* Past SavePeersMap the config map is what the pass found.
Saved ==
  /\ op.at \in {"get", "delete", "apply", "status"} => peersMap = found
  /\ job.phase # "absent" => peersMap # NoMap

MapIInv ==
  MapTypes /\ InOrder /\ Assembled /\ Saved /\ (peersMap # NoMap => Newer(peersMap))

\* Each stage has a peer of its own, from the first to the last.
LEMMA PeerAtRank ==
  ASSUME NEW n \in 1 .. Cardinality(Peers)
  PROVE  PeerAt(n) \in Peers /\ Rank(Peers, PeerAt(n)) = n
<1>1. \E p \in Peers : Rank(Peers, p) = n
  BY RunnerAssumption, Ranks
<1> QED BY <1>1 DEF PeerAt, Rank

\* An entry of the file.
LEMMA Entry ==
  ASSUME NEW f \in PeerList, NEW a \in 1 .. Len(f)
  PROVE  f[a].peer \in Peers /\ f[a].addr \in Nat /\ Rank(Peers, f[a].peer) \in Nat
<1>1. f[a] \in [peer : Peers, addr : Nat]
  BY ElementOfSeq DEF PeerList
<1>2. Cardinality(Peers) \in Nat
  BY RunnerAssumption, FS_CardinalityType
<1>3. \A p \in Peers : Rank(Peers, p) \in 1 .. Cardinality(Peers)
  BY RunnerAssumption, Ranks
<1> QED BY <1>1, <1>2, <1>3

\* A step that keeps the addresses, the pass and what it wrote.
LEMMA OtherStep ==
  ASSUME MapIInv, UNCHANGED <<addr, operator>>, DOMAIN job' = {"phase", "version"},
         job'.phase # "absent" => job.phase # "absent"
  PROVE  MapIInv'
<1>1. UNCHANGED <<addr, op, found, peersMap, status>>
  BY DEF operator
<1>2. \A f : Newer(f)' <=> Newer(f)
  BY <1>1 DEF Newer
<1>3. MapTypes' /\ InOrder'
  BY <1>1 DEF MapIInv, MapTypes, InOrder
<1>4. Assembled'
  BY <1>1, <1>2 DEF MapIInv, Assembled
<1>5. Saved' /\ (peersMap' # NoMap => Newer(peersMap)')
  BY <1>1, <1>2 DEF MapIInv, Saved
<1> QED BY <1>3, <1>4, <1>5 DEF MapIInv

\* The runner keeps the addresses.
LEMMA RunnerKeepsAddresses ==
  RunnerStep => UNCHANGED addr
BY DEF RunnerStep, RingSkip, RingTake, SentinelTake, RandomSample, RandomConnect, Rest

\* A pass that ends, for whatever reason, forgets what it found.
LEMMA LeaveStep ==
  ASSUME MapIInv, Leave, UNCHANGED <<addr, peersMap, job>>,
         \/ status' = status
         \/ op.at = "status" /\ status' = found
  PROVE  MapIInv'
<1> USE DEF MapIInv
<1>1. op' = IdleOp /\ found' = <<>> /\ found' \in PeerList /\ Len(found') = 0
  BY EmptySeq DEF Leave, PeerList
<1>2. MapTypes'
  BY <1>1 DEF MapTypes, IdleOp
<1>3. InOrder'
  BY <1>1 DEF InOrder, IdleOp
<1>4. /\ \A j \in 1 .. Len(status') : status'[j].addr <= addr[status'[j].peer]
      /\ peersMap # NoMap => Newer(peersMap)'
  <2>1. CASE status' = status
    BY <2>1 DEF Assembled, Newer
  <2>2. CASE op.at = "status" /\ status' = found
    <3>1. peersMap = found
      BY <2>2 DEF Saved
    <3>2. \A j \in 1 .. Len(found) : found[j].addr \in Nat
      BY Entry DEF MapTypes
    <3> QED BY <2>2, <3>1, <3>2 DEF Assembled, Newer, InOrder
  <2> QED BY <2>1, <2>2
<1>5. Assembled'
  BY <1>1, <1>4 DEF Assembled, Newer
<1>6. Saved'
  BY <1>1 DEF Saved, IdleOp
<1> QED BY <1>2, <1>3, <1>4, <1>5, <1>6

\* A stage of the pass that keeps what was found and written.
LEMMA GotoStep ==
  ASSUME MapIInv, NEW stage, Goto(stage), stage # "poll",
         UNCHANGED <<addr, found, status>>, DOMAIN job' = {"phase", "version"},
         \/ peersMap' = found
         \/ peersMap' = peersMap /\ op.at \in {"get", "delete", "apply", "status"}
         \/ peersMap' = peersMap /\ stage = "count" /\ job' = job
  PROVE  MapIInv'
<1> USE DEF MapIInv
<1>0. op'.at = stage /\ op'.k = 1 /\ DOMAIN op' = DOMAIN op
  BY DEF Goto, MapTypes
<1>1. peersMap' = found \/ (peersMap' = peersMap /\ stage = "count" /\ job' = job)
  BY DEF Saved
<1>2. MapTypes'
  BY <1>0, <1>1 DEF MapTypes
<1>3. InOrder'
  BY <1>0 DEF InOrder
<1>4. Assembled' /\ (peersMap' # NoMap => Newer(peersMap)')
  BY <1>1 DEF Assembled, Newer
<1>5. found # NoMap
  BY BootstrapAssumption DEF MapTypes
<1>6. Saved'
  BY <1>0, <1>1, <1>5 DEF Saved
<1> QED BY <1>2, <1>3, <1>4, <1>6

\* The peer polled now is not among those found, and its address is the
\* present one.
LEMMA PollStep ==
  ASSUME MapIInv, PollPeer
  PROVE  MapIInv'
<1> USE DEF MapIInv
<1>1. /\ op.at = "poll" /\ op.k <= Cardinality(Peers) /\ op.k \in Nat
      /\ op'.at = "poll" /\ op'.k = op.k + 1 /\ DOMAIN op' = DOMAIN op
      /\ UNCHANGED <<addr, peersMap, status, job>>
  BY DEF PollPeer, MapTypes, RunnerVars, swarm
<1>2. CASE found' = found
  <2>1. MapTypes' /\ Assembled' /\ Saved' /\ (peersMap' # NoMap => Newer(peersMap)')
    BY <1>1, <1>2 DEF MapTypes, Assembled, Newer, Saved
  <2>2. InOrder'
    <3>1. \A a \in 1 .. Len(found) : Rank(Peers, found[a].peer) < op.k + 1
      <4>1. \A a \in 1 .. Len(found) : Rank(Peers, found[a].peer) \in Nat
        BY Entry DEF MapTypes
      <4> QED BY <4>1, <1>1 DEF InOrder
    <3> QED BY <1>1, <1>2, <3>1 DEF InOrder
  <2> QED BY <2>1, <2>2
<1>3. CASE found' = Append(found, PeerInfo(PeerAt(op.k)))
  <2> DEFINE p == PeerAt(op.k)
  <2>0. p \in Peers /\ Rank(Peers, p) = op.k
    BY <1>1, PeerAtRank, RunnerAssumption, FS_CardinalityType DEF InOrder
  <2> HIDE DEF p
  <2>1. PeerInfo(p) \in [peer : Peers, addr : Nat] /\ PeerInfo(p).peer = p /\ PeerInfo(p).addr = addr[p]
    BY <2>0 DEF PeerInfo, MapTypes
  <2>2. /\ found' \in PeerList /\ Len(found') = Len(found) + 1 /\ Len(found) \in Nat
        /\ \A a \in 1 .. Len(found) : found'[a] = found[a]
        /\ found'[Len(found) + 1] = PeerInfo(p)
    BY <1>3, <2>1, AppendProperties, LenProperties DEF MapTypes, PeerList, p
  <2>3. \A a \in 1 .. Len(found) : Rank(Peers, found[a].peer) < op.k /\ found[a].peer \in Peers
    BY <1>1, Entry DEF InOrder, MapTypes
  <2>4. MapTypes'
    BY <1>1, <2>2 DEF MapTypes
  <2>5. InOrder'
    <3>1. \A a \in 1 .. Len(found) : found[a].peer # p
      BY <2>0, <2>3, <1>1
    <3>2. \A a, b \in 1 .. Len(found') : found'[a].peer = found'[b].peer => a = b
      BY <3>1, <2>1, <2>2 DEF InOrder
    <3>3. \A a \in 1 .. Len(found') : Rank(Peers, found'[a].peer) < op.k + 1
      <4>1. \A a \in 1 .. Len(found) : Rank(Peers, found[a].peer) \in Nat
        BY Entry DEF MapTypes
      <4>2. \A a \in 1 .. Len(found) : Rank(Peers, found'[a].peer) < op.k + 1
        BY <4>1, <2>2, <2>3, <1>1
      <4>3. Rank(Peers, found'[Len(found) + 1].peer) < op.k + 1
        BY <2>0, <2>1, <2>2, <1>1
      <4> QED BY <4>2, <4>3, <2>2
    <3> QED BY <3>2, <3>3, <1>1 DEF InOrder
  <2>6. Assembled'
    <3>1. \A j \in 1 .. Len(status) : status[j].addr <= addr[status[j].peer]
      BY DEF Assembled
    <3>2. \A a \in 1 .. Len(found') : found'[a].addr <= addr[found'[a].peer]
      BY <2>0, <2>1, <2>2 DEF Assembled, MapTypes
    <3>3. Newer(found)'
      BY <3>1, <2>1, <2>2, <1>1 DEF Assembled, Newer
    <3> QED BY <3>1, <3>2, <3>3, <1>1 DEF Assembled
  <2>7. Saved' /\ (peersMap' # NoMap => Newer(peersMap)')
    BY <1>1 DEF Saved, Newer
  <2> QED BY <2>4, <2>5, <2>6, <2>7
<1> QED
  <2>1. found' = found \/ found' = Append(found, PeerInfo(PeerAt(op.k)))
    BY DEF PollPeer
  <2> QED BY <2>1, <1>2, <1>3

\* A peer that restarts gets an address that is newer than all there are.
LEMMA RestartStep ==
  ASSUME MapIInv, NEW p \in Peers, PeerRestarts(p)
  PROVE  MapIInv'
<1> USE DEF MapIInv
<1>1. /\ UNCHANGED <<op, found, peersMap, status, job>>
      /\ addr' = [addr EXCEPT ![p] = @ + 1]
  BY DEF PeerRestarts, operator
<1>2. addr' \in [Peers -> Nat] /\ \A q \in Peers : addr[q] \in Nat /\ addr[q] <= addr'[q]
  BY <1>1 DEF MapTypes
<1>3. MapTypes' /\ InOrder' /\ Saved' /\ (peersMap' # NoMap => Newer(peersMap)')
  BY <1>1, <1>2 DEF MapTypes, InOrder, Saved, Newer
<1>4. Assembled'
  <2>1. \A j \in 1 .. Len(status) : status[j].addr <= addr'[status[j].peer]
    BY <1>2, Entry DEF Assembled, MapTypes
  <2>2. \A a \in 1 .. Len(found) : found[a].addr <= addr'[found[a].peer]
    BY <1>2, Entry DEF Assembled, MapTypes
  <2> QED BY <2>1, <2>2, <1>1 DEF Assembled, Newer
<1> QED BY <1>3, <1>4

\* Every step of the pass.
LEMMA PassKeepsMap ==
  ASSUME MapIInv, PassStep
  PROVE  MapIInv'
<1>0. DOMAIN op = {"at", "k", "enabled", "version", "min"} /\ DOMAIN job = {"phase", "version"}
  BY DEF MapIInv, MapTypes
<1>1. CASE StartPass
  <2> USE DEF MapIInv
  <2>1. /\ op'.at = "poll" /\ op'.k = 1 /\ DOMAIN op' = DOMAIN op /\ found' = <<>>
        /\ UNCHANGED <<addr, peersMap, status, job>>
    BY <1>0, <1>1 DEF StartPass, IdleOp, RunnerVars, swarm
  <2>2. found' \in PeerList /\ Len(found') = 0
    BY <2>1, EmptySeq DEF PeerList
  <2>3. MapTypes' /\ InOrder'
    BY <2>1, <2>2 DEF MapTypes, InOrder
  <2>4. Assembled' /\ Saved' /\ (peersMap' # NoMap => Newer(peersMap)')
    BY <2>1, <2>2 DEF Assembled, Saved, Newer
  <2> QED BY <2>3, <2>4
<1>2. CASE PollPeer
  BY <1>2, PollStep
<1>3. CASE AllPolled
  BY <1>0, <1>3, GotoStep DEF AllPolled, RunnerVars, swarm
<1>4. CASE CountPeer
  <2> USE DEF MapIInv
  <2>1. /\ op'.at = "count" /\ op'.k = op.k + 1 /\ DOMAIN op' = DOMAIN op
        /\ UNCHANGED <<addr, found, peersMap, status, job>>
    BY <1>0, <1>4 DEF CountPeer, RunnerVars, swarm
  <2>2. MapTypes' /\ InOrder'
    BY <2>1 DEF MapTypes, InOrder
  <2>3. Assembled' /\ Saved' /\ (peersMap' # NoMap => Newer(peersMap)')
    BY <2>1 DEF Assembled, Saved, Newer
  <2> QED BY <2>2, <2>3
<1>5. CASE SavePeersMap
  <2>1. PICK stage \in {"status", "get", "apply"} : Goto(stage)
    BY <1>5 DEF SavePeersMap
  <2>2. peersMap' = found /\ UNCHANGED <<addr, found, status, job>>
    BY <1>5 DEF SavePeersMap, WriteMap, RunnerVars, swarm
  <2> QED BY <1>0, <2>1, <2>2, GotoStep
<1>6. CASE ReadJob
  <2>1. PICK stage \in {"apply", "delete"} : Goto(stage)
    BY <1>6 DEF ReadJob
  <2>2. op.at = "get" /\ UNCHANGED <<addr, found, peersMap, status, job>>
    BY <1>6 DEF ReadJob, RunnerVars, swarm
  <2> QED BY <1>0, <2>1, <2>2, GotoStep
<1>7. CASE DeleteJob
  <2>1. op.at = "delete" /\ UNCHANGED <<addr, peersMap, status>>
    BY <1>7 DEF DeleteJob, RunnerVars, swarm
  <2>2. CASE job.phase = "absent"
    BY <1>7, <2>1, <2>2, LeaveStep DEF DeleteJob
  <2>3. CASE job.phase # "absent"
    <3>1. DOMAIN job' = {"phase", "version"} /\ Goto("apply") /\ UNCHANGED found
      BY <1>0, <1>7, <2>3 DEF DeleteJob
    <3> QED BY <2>1, <3>1, GotoStep
  <2> QED BY <2>2, <2>3
<1>8. CASE ApplyJob
  <2>1. op.at = "apply" /\ UNCHANGED <<addr, peersMap, status>>
    BY <1>8 DEF ApplyJob, RunnerVars, swarm
  <2>2. CASE job.phase # "absent" /\ job.version # op.version
    BY <1>8, <2>1, <2>2, LeaveStep DEF ApplyJob
  <2>3. CASE ~ (job.phase # "absent" /\ job.version # op.version)
    <3>1. DOMAIN job' = {"phase", "version"} /\ Goto("status") /\ UNCHANGED found
      BY <1>0, <1>8, <2>3 DEF ApplyJob
    <3> QED BY <2>1, <3>1, GotoStep
  <2> QED BY <2>2, <2>3
<1>9. CASE PatchStatus
  BY <1>9, LeaveStep DEF PatchStatus, RunnerVars, swarm
<1> QED
  BY <1>1, <1>2, <1>3, <1>4, <1>5, <1>6, <1>7, <1>8, <1>9 DEF PassStep

\* The invariant of the config map.
THEOREM MapInvariance == Spec => []MapIInv
<1>1. Init => MapIInv
  <2> SUFFICES ASSUME Init PROVE MapIInv
    OBVIOUS
  <2>1. <<>> \in PeerList /\ Len(<<>>) = 0
    BY EmptySeq DEF PeerList
  <2> QED BY <2>1 DEF Init, MapIInv, MapTypes, InOrder, Assembled, Saved, Newer, IdleOp, NoJob
<1>2. MapIInv /\ [Next]_vars => MapIInv'
  <2> SUFFICES ASSUME MapIInv, [Next]_vars PROVE MapIInv'
    OBVIOUS
  <2>0. DOMAIN job = {"phase", "version"}
    BY DEF MapIInv, MapTypes
  <2>1. CASE PassStep
    BY <2>1, PassKeepsMap
  <2>2. CASE Abort
    BY <2>2, LeaveStep DEF Abort, RunnerVars, swarm
  <2>3. CASE JobStep
    <3>1. UNCHANGED <<addr, operator>>
      BY <2>3, RunnerKeepsAddresses
         DEF JobStep, JobActivates, PodRuns, PodStep, JobCompletes, JobGone, KillRun, Launch,
             RunnerVars, swarm
    <3>2. DOMAIN job' = {"phase", "version"} /\ (job'.phase # "absent" => job.phase # "absent")
      BY <2>0, <2>3 DEF JobStep, JobActivates, PodRuns, PodStep, JobCompletes, JobGone, JobActive, NoJob
    <3> QED BY <3>1, <3>2, OtherStep
  <2>4. CASE PodCrashes
    <3>1. UNCHANGED <<addr, operator>> /\ job.phase = "active" /\ DOMAIN job' = {"phase", "version"}
      BY <2>0, <2>4 DEF PodCrashes, KillRun, swarm, JobActive
    <3> QED BY <3>1, OtherStep
  <2>5. CASE UserDeletesJob
    <3>1. UNCHANGED <<addr, operator>> /\ job.phase # "absent" /\ DOMAIN job' = {"phase", "version"}
      BY <2>0, <2>5 DEF UserDeletesJob, RunnerVars, swarm
    <3> QED BY <3>1, OtherStep
  <2>6. ASSUME NEW p \in Peers, PeerComesUp(p)
        PROVE  MapIInv'
    BY <2>0, <2>6, OtherStep DEF PeerComesUp
  <2>7. ASSUME NEW p \in Peers, PeerRestarts(p)
        PROVE  MapIInv'
    BY <2>7, RestartStep
  <2>8. CASE EditBootstrap
    BY <2>0, <2>8, OtherStep DEF EditBootstrap, RunnerVars, swarm
  <2>9. CASE UNCHANGED vars
    BY <2>0, <2>9, OtherStep DEF vars, RunnerVars, swarm
  <2> QED BY <2>1, <2>2, <2>3, <2>4, <2>5, <2>6, <2>7, <2>8, <2>9 DEF Next
<1> QED BY <1>1, <1>2, PTL DEF Spec

\* No Job exists without the config map its pod mounts, and no address in the
\* map is older than the one the status shows, wherever passes were cut short
\* and whenever peers came back under another address.
THEOREM MapIsServed == Spec => []MapServesReaders
<1>1. MapIInv => MapServesReaders
  BY DEF MapIInv, Saved, Newer, MapServesReaders
<1> QED BY MapInvariance, <1>1, PTL
=============================================================================
