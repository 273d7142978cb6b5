------------------------- MODULE NetworkPassProofs -------------------------
(***************************************************************************)
(* Proofs about NetworkPass, for all specs, histories and bounds.          *)
(*                                                                         *)
(* The calls of a pass are a fixed sequence per spec, built by             *)
(* concatenation.  Three facts about it carry the safety properties, and   *)
(* each is preserved by concatenation (Sound): a creation of a secret      *)
(* directly follows its look, a stateful set follows the maps, secrets and *)
(* account its pods name (NeedsBefore), and the calls are well formed.     *)
(* The needs of the pods come from the builders of NetworkObjects.         *)
(*                                                                         *)
(* The invariant says where a pass stands in that sequence and that, while *)
(* the network created first exists, what the calls before that place made *)
(* is there: nothing removes it but the collector, which has no reason to. *)
(* So a set finds what it needs when it is applied, and later too, and a   *)
(* secret is only created when there is none.                              *)
(***************************************************************************)
EXTENDS NetworkPass, SequenceTheorems, FiniteSetTheorems, WellFoundedInduction, TLAPS

-----------------------------------------------------------------------------
(* Sequences of calls, whatever their elements. *)

IsSeq(q) == \E S : q \in Seq(S)

\* A sequence is a function on 1 .. Len.
LEMMA SeqFacts ==
  ASSUME NEW q, IsSeq(q)
  PROVE  /\ Len(q) \in Nat /\ DOMAIN q = 1 .. Len(q)
         /\ ToSet(q) = {q[k] : k \in 1 .. Len(q)}
         /\ q # <<>> <=> Len(q) > 0
         /\ q \in Seq(ToSet(q))
  <1>1. PICK S : q \in Seq(S)
    BY DEF IsSeq
  <1>2. Len(q) \in Nat /\ DOMAIN q = 1 .. Len(q) /\ q \in [1 .. Len(q) -> S]
    BY <1>1, LenProperties
  <1>3. ToSet(q) = {q[k] : k \in 1 .. Len(q)}
    BY <1>2 DEF ToSet
  <1>4. q # <<>> <=> Len(q) > 0
    BY <1>1, <1>2, EmptySeq
  <1>5. q \in Seq(ToSet(q))
    BY <1>2, <1>3, SeqDef
  <1>6. QED
    BY <1>2, <1>3, <1>4, <1>5

\* A function on 1 .. n is one.
LEMMA MakeSeq ==
  ASSUME NEW n \in Nat, NEW q, q = [k \in 1 .. n |-> q[k]]
  PROVE  IsSeq(q) /\ Len(q) = n
  <1>1. q \in [1 .. n -> {q[k] : k \in 1 .. n}]
    OBVIOUS
  <1>2. q \in Seq({q[k] : k \in 1 .. n})
    BY <1>1, SeqDef
  <1>3. Len(q) = n
    <2>1. DOMAIN q = 1 .. n
      BY <1>1
    <2>2. Len(q) \in Nat /\ DOMAIN q = 1 .. Len(q)
      BY <1>2, LenProperties
    <2>3. QED
      BY <2>1, <2>2
  <1>4. QED
    BY <1>2, <1>3 DEF IsSeq

\* Concatenation.
LEMMA Joined ==
  ASSUME NEW a, NEW b, IsSeq(a), IsSeq(b)
  PROVE  /\ IsSeq(a \o b) /\ Len(a \o b) = Len(a) + Len(b)
         /\ \A k \in 1 .. Len(a) : (a \o b)[k] = a[k]
         /\ \A k \in 1 .. Len(b) : (a \o b)[Len(a) + k] = b[k]
         /\ \A k \in 1 .. Len(a) + Len(b) :
              (a \o b)[k] = IF k <= Len(a) THEN a[k] ELSE b[k - Len(a)]
         /\ ToSet(a \o b) = ToSet(a) \cup ToSet(b)
  <1> DEFINE S == ToSet(a) \cup ToSet(b)
  <1>1. a \in Seq(S) /\ b \in Seq(S)
    BY SeqFacts, SeqMonotonic
  <1>2. /\ a \o b \in Seq(S) /\ Len(a \o b) = Len(a) + Len(b)
        /\ \A k \in 1 .. Len(a) + Len(b) :
             (a \o b)[k] = IF k <= Len(a) THEN a[k] ELSE b[k - Len(a)]
    <2> HIDE DEF S
    <2> QED BY <1>1, ConcatProperties
  <1>3. IsSeq(a \o b)
    BY <1>2 DEF IsSeq
  <1>4. Len(a) \in Nat /\ Len(b) \in Nat
    BY SeqFacts
  <1>5. /\ \A k \in 1 .. Len(a) : (a \o b)[k] = a[k]
        /\ \A k \in 1 .. Len(b) : (a \o b)[Len(a) + k] = b[k]
    BY <1>2, <1>4
  <1>6. ToSet(a \o b) = ToSet(a) \cup ToSet(b)
    <2>1. /\ ToSet(a) = {a[k] : k \in 1 .. Len(a)} /\ ToSet(b) = {b[k] : k \in 1 .. Len(b)}
          /\ ToSet(a \o b) = {(a \o b)[k] : k \in 1 .. Len(a) + Len(b)}
      BY <1>2, <1>3, SeqFacts
    <2>2. ToSet(a) \cup ToSet(b) \subseteq ToSet(a \o b)
      BY <1>4, <1>5, <2>1
    <2>3. ToSet(a \o b) \subseteq ToSet(a) \cup ToSet(b)
      BY <1>2, <1>4, <2>1
    <2>4. QED
      BY <2>2, <2>3
  <1>7. QED
    BY <1>2, <1>3, <1>5, <1>6

\* A finite set as a sequence.
LEMMA SetToSeqFacts ==
  ASSUME NEW S, IsFiniteSet(S)
  PROVE  IsSeq(SetToSeq(S)) /\ ToSet(SetToSeq(S)) = S
  <1> DEFINE n == Cardinality(S)
  <1>1. n \in Nat /\ \E f \in Bijection(1 .. n, S) : TRUE
    BY FS_CardinalityType DEF ExistsBijection
  <1>2. PICK f \in Bijection(1 .. n, S) : TRUE
    BY <1>1
  <1>3. f \in [1 .. n -> S] /\ IsInjective(f)
    BY <1>2 DEF Bijection, Injection, IsInjective
  <1>4. SetToSeq(S) \in [1 .. n -> S] /\ IsInjective(SetToSeq(S))
    BY <1>3 DEF SetToSeq
  <1>5. IsSeq(SetToSeq(S)) /\ Len(SetToSeq(S)) = n
    <2> HIDE DEF n
    <2>1. SetToSeq(S) = [k \in 1 .. n |-> SetToSeq(S)[k]]
      BY <1>4
    <2>2. QED
      BY <1>1, <2>1, MakeSeq
  <1>6. SetToSeq(S) \in Surjection(1 .. n, S)
    <2>1. IsFiniteSet(1 .. n) /\ Cardinality(1 .. n) = n
      BY <1>1, FS_Interval
    <2> DEFINE T == 1 .. n  g == SetToSeq(S)
    <2>2. g \in Injection(T, S) 
      BY <1>4 DEF Injection, IsInjective
    <2>3. IsFiniteSet(S) /\ Cardinality(T) = Cardinality(S)
      BY <2>1
    <2> HIDE DEF T, g, n
    <2>4. QED
      BY <2>2, <2>3, FS_Injection DEF T, g
  <1>7. \A x \in S : \E k \in 1 .. n : SetToSeq(S)[k] = x
    BY <1>6 DEF Surjection
  <1>8. \A k \in 1 .. n : SetToSeq(S)[k] \in S
    BY <1>4
  <1>9. ToSet(SetToSeq(S)) = {SetToSeq(S)[k] : k \in 1 .. n}
    BY <1>5, SeqFacts
  <1>10. QED
    <2> HIDE DEF n
    <2> QED BY <1>5, <1>7, <1>8, <1>9

\* Sequences of one, two and three.
LEMMA ShortSequences ==
  ASSUME NEW a, NEW b, NEW c
  PROVE  /\ IsSeq(<<>>) /\ Len(<<>>) = 0 /\ ToSet(<<>>) = {}
         /\ IsSeq(<<a>>) /\ Len(<<a>>) = 1 /\ ToSet(<<a>>) = {a} /\ <<a>>[1] = a
         /\ IsSeq(<<a, b>>) /\ Len(<<a, b>>) = 2 /\ ToSet(<<a, b>>) = {a, b}
         /\ <<a, b>>[1] = a /\ <<a, b>>[2] = b
         /\ IsSeq(<<a, b, c>>) /\ Len(<<a, b, c>>) = 3 /\ ToSet(<<a, b, c>>) = {a, b, c}
         /\ <<a, b, c>>[1] = a /\ <<a, b, c>>[2] = b /\ <<a, b, c>>[3] = c
  <1>1. /\ <<>> \in Seq({}) /\ <<a>> \in Seq({a}) /\ <<a, b>> \in Seq({a, b})
        /\ <<a, b, c>> \in Seq({a, b, c})
    OBVIOUS
  <1>2. IsSeq(<<>>) /\ IsSeq(<<a>>) /\ IsSeq(<<a, b>>) /\ IsSeq(<<a, b, c>>)
    BY <1>1 DEF IsSeq
  <1>3. Len(<<>>) = 0 /\ Len(<<a>>) = 1 /\ Len(<<a, b>>) = 2 /\ Len(<<a, b, c>>) = 3
    OBVIOUS
  <1>4. /\ <<a>>[1] = a /\ <<a, b>>[1] = a /\ <<a, b>>[2] = b
        /\ <<a, b, c>>[1] = a /\ <<a, b, c>>[2] = b /\ <<a, b, c>>[3] = c
    OBVIOUS
  <1>5. ToSet(<<>>) = {}
    BY <1>2, <1>3, SeqFacts
  <1>q. ASSUME NEW q, IsSeq(q)
        PROVE  /\ Len(q) = 1 => ToSet(q) = {q[1]}
               /\ Len(q) = 2 => ToSet(q) = {q[1], q[2]}
               /\ Len(q) = 3 => ToSet(q) = {q[1], q[2], q[3]}
    <2>1. ToSet(q) = {q[k] : k \in 1 .. Len(q)}
      BY <1>q, SeqFacts
    <2>2. 1 .. 1 = {1} /\ 1 .. 2 = {1, 2} /\ 1 .. 3 = {1, 2, 3}
      OBVIOUS
    <2>3. Len(q) = 1 => ToSet(q) = {q[1]}
      BY <2>1, <2>2
    <2>4. Len(q) = 2 => ToSet(q) = {q[1], q[2]}
      BY <2>1, <2>2
    <2>5. Len(q) = 3 => ToSet(q) = {q[1], q[2], q[3]}
      BY <2>1, <2>2
    <2>6. QED
      BY <2>3, <2>4, <2>5
  <1>6. ToSet(<<a>>) = {a}
    BY <1>2, <1>3, <1>4, <1>q
  <1>7. ToSet(<<a, b>>) = {a, b}
    BY <1>2, <1>3, <1>4, <1>q
  <1>8. ToSet(<<a, b, c>>) = {a, b, c}
    BY <1>2, <1>3, <1>4, <1>q
  <1>9. QED
    BY <1>2, <1>3, <1>4, <1>5, <1>6, <1>7, <1>8

\* A sequence of three elements.
LEMMA ThreeElements ==
  ASSUME NEW a, NEW b, NEW c
  PROVE  IsSeq(<<a, b, c>>) /\ ToSet(<<a, b, c>>) = {a, b, c}
  <1> DEFINE q == <<a, b, c>>
  <1>1. q \in Seq({a, b, c}) /\ Len(q) = 3 /\ q[1] = a /\ q[2] = b /\ q[3] = c
    OBVIOUS
  <1> HIDE DEF q
  <1>2. IsSeq(q)
    BY <1>1 DEF IsSeq
  <1>3. ToSet(q) = {q[k] : k \in 1 .. 3} /\ 1 .. 3 = {1, 2, 3}
    <2>1. ToSet(q) = {q[k] : k \in 1 .. Len(q)}
      BY <1>2, SeqFacts
    <2>2. QED
      BY <1>1, <2>1
  <1>4. ToSet(q) = {a, b, c}
    BY <1>1, <1>3
  <1>5. QED
    BY <1>2, <1>4 DEF q

\* A set of numbers has a least one.
LEMMA LeastNumber ==
  ASSUME NEW T, T \subseteq Nat, T # {}
  PROVE  \E m \in T : \A n \in T : m <= n
  <1> DEFINE R == OpToRel(<, Nat)
  <1>1. IsWellFoundedOn(R, Nat)
    BY NatLessThanWellFounded, Zenon
  <1> HIDE DEF R
  <1>2. PICK m \in T : \A n \in T : ~ (<<n, m>> \in R)
    BY <1>1, WFMin
  <1>3. \A n \in T : ~ (n < m)
    BY <1>2 DEF OpToRel, R
  <1>4. QED
    BY <1>3

\* The concatenation of the first sequences, as the community modules define it.
Flat(f, seqs, n) ==
  f = [i \in 1 .. n |-> IF i = 1 THEN seqs[i] ELSE f[i - 1] \o seqs[i]]

\* There is such a function for every length.
LEMMA FlatExists ==
  ASSUME NEW seqs, NEW n \in Nat
  PROVE  \E f : Flat(f, seqs, n)
  <1> DEFINE Wrong == {m \in Nat : ~ \E f : Flat(f, seqs, m)}
  <1>1. SUFFICES ASSUME n \in Wrong PROVE FALSE
    OBVIOUS
  <1>2. PICK m \in Wrong : \A k \in Wrong : m <= k
    <2>1. Wrong \subseteq Nat /\ Wrong # {}
      BY <1>1
    <2> HIDE DEF Wrong
    <2>2. QED
      BY <2>1, LeastNumber
  <1>3. m \in Nat /\ ~ \E f : Flat(f, seqs, m)
    OBVIOUS
  <1>4. CASE m = 0
    <2> DEFINE f == [i \in 1 .. 0 |-> 0]
    <2>1. f = [i \in 1 .. 0 |-> IF i = 1 THEN seqs[i] ELSE f[i - 1] \o seqs[i]]
      OBVIOUS
    <2>2. Flat(f, seqs, m)
      BY <1>4, <2>1 DEF Flat
    <2>3. QED
      BY <1>3, <2>2
  <1>5. CASE m # 0
    <2>1. m - 1 \in Nat /\ m - 1 \notin Wrong
      <3> HIDE DEF Wrong
      <3> QED BY <1>2, <1>3, <1>5
    <2>2. PICK f : Flat(f, seqs, m - 1)
      BY <2>1
    <2> DEFINE g == [i \in 1 .. m |-> IF i <= m - 1 THEN f[i]
                                      ELSE IF i = 1 THEN seqs[i] ELSE f[i - 1] \o seqs[i]]
    <2>3. \A i \in 1 .. m - 1 : f[i] = IF i = 1 THEN seqs[i] ELSE f[i - 1] \o seqs[i]
      BY <2>2 DEF Flat
    <2>4. ASSUME NEW i \in 1 .. m
          PROVE  g[i] = IF i = 1 THEN seqs[i] ELSE g[i - 1] \o seqs[i]
      <3>1. CASE i = 1
        BY <1>3, <2>3, <3>1
      <3>2. CASE i # 1
        <4>1. i - 1 \in 1 .. m /\ i - 1 <= m - 1
          BY <1>3, <3>2
        <4>2. g[i - 1] = f[i - 1]
          BY <4>1
        <4>3. g[i] = f[i - 1] \o seqs[i]
          <5>1. i \in 1 .. m - 1 \/ ~ (i <= m - 1)
            BY <1>3
          <5>2. QED
            BY <2>3, <3>2, <5>1
        <4> HIDE DEF g
        <4>4. QED
          BY <3>2, <4>2, <4>3
      <3>3. QED
        BY <3>1, <3>2
    <2>5. g = [i \in 1 .. m |-> g[i]]
      OBVIOUS
    <2> HIDE DEF g
    <2>6. Flat(g, seqs, m)
      BY <2>4, <2>5 DEF Flat
    <2>7. QED
      BY <1>3, <2>6
  <1>6. QED
    BY <1>4, <1>5

-----------------------------------------------------------------------------
(* The order of the calls of a pass. *)

\* What the pods of set n need, as the calls that make it.
NeedCalls(s, n) ==
  ({"map"} \X NeedsOf(s, n).maps) \cup ({"createSecret"} \X NeedsOf(s, n).secrets)
    \cup ({"account"} \X NeedsOf(s, n).accounts)

\* A call is its kind and a name.
IsCall(c) == c = <<c[1], c[2]>> /\ (c[1] = "right" => c[2] \in {"role", "binding"})

\* A look is followed by the creation, with the reading of a source secret between
\* them or not, and a creation comes after its look.
LinkedAt(q, k) ==
  /\ q[k][1] = "findSecret" =>
       \/ k + 1 <= Len(q) /\ q[k + 1] = <<"createSecret", q[k][2]>>
       \/ k + 2 <= Len(q) /\ q[k + 1][1] = "source" /\ q[k + 2] = <<"createSecret", q[k][2]>>
  /\ q[k][1] = "createSecret" =>
       k > 1 /\ (q[k - 1] = <<"findSecret", q[k][2]>> \/ q[k - 1][1] = "source")
  /\ q[k][1] = "source" =>
       /\ k > 1 /\ k + 1 <= Len(q)
       /\ q[k + 1][1] = "createSecret" /\ q[k - 1] = <<"findSecret", q[k + 1][2]>>
  /\ q[k][1] = "findMonitor" => k + 1 <= Len(q) /\ q[k + 1][1] = "createMonitor"

Linked(q) == \A k \in 1 .. Len(q) : LinkedAt(q, k)

\* A set comes after what it needs, pre being there already.
NeedsBefore(s, pre, q) ==
  \A k \in 1 .. Len(q) : q[k][1] = "set" =>
    \A c \in NeedCalls(s, q[k][2]) : c \in pre \/ \E i \in 1 .. k - 1 : q[i] = c

Sound(s, pre, q) ==
  /\ IsSeq(q) /\ \A k \in 1 .. Len(q) : IsCall(q[k])
  /\ Linked(q) /\ NeedsBefore(s, pre, q)

\* Links survive concatenation.
LEMMA LinkedJoined ==
  ASSUME NEW a, NEW b, IsSeq(a), IsSeq(b), Linked(a), Linked(b)
  PROVE  Linked(a \o b)
  <1> DEFINE m == Len(a)  n == Len(b)  q == a \o b
  <1>1. m \in Nat /\ n \in Nat /\ Len(q) = m + n
    BY SeqFacts, Joined
  <1>2. /\ \A k \in 1 .. m : q[k] = a[k]
        /\ \A k \in 1 .. n : q[m + k] = b[k]
    BY Joined
  <1>3. \A k \in 1 .. m : LinkedAt(a, k)
    BY DEF Linked
  <1>4. \A k \in 1 .. n : LinkedAt(b, k)
    BY DEF Linked
  <1> HIDE DEF q
  <1>5. ASSUME NEW k \in 1 .. m PROVE LinkedAt(q, k)
    <2>1. LinkedAt(a, k) /\ k \in Nat
      BY <1>1, <1>3
    <2> HIDE DEF m, n
    <2>2. QED
      BY <1>1, <1>2, <2>1, SMTT(30) DEF LinkedAt, m
  <1>6. ASSUME NEW k \in 1 .. n PROVE LinkedAt(q, m + k)
    <2>1. LinkedAt(b, k) /\ k \in Nat
      BY <1>1, <1>4
    <2> DEFINE r(i) == q[m + i]
    <2>2. r(k) = b[k] /\ (k + 1 <= n => r(k + 1) = b[k + 1]) /\ (k + 2 <= n => r(k + 2) = b[k + 2])
           /\ (k > 1 => r(k - 1) = b[k - 1])
      BY <1>1, <1>2
    <2>3. m + k + 1 = m + (k + 1) /\ m + k + 2 = m + (k + 2) /\ m + k - 1 = m + (k - 1)
      BY <1>1
    <2>4. LinkedAt(q, m + k) <=>
            /\ r(k)[1] = "findSecret" =>
                 \/ k + 1 <= n /\ r(k + 1) = <<"createSecret", r(k)[2]>>
                 \/ k + 2 <= n /\ r(k + 1)[1] = "source" /\ r(k + 2) = <<"createSecret", r(k)[2]>>
            /\ r(k)[1] = "createSecret" =>
                 m + k > 1 /\ (r(k - 1) = <<"findSecret", r(k)[2]>> \/ r(k - 1)[1] = "source")
            /\ r(k)[1] = "source" =>
                 /\ m + k > 1 /\ k + 1 <= n
                 /\ r(k + 1)[1] = "createSecret" /\ r(k - 1) = <<"findSecret", r(k + 1)[2]>>
            /\ r(k)[1] = "findMonitor" => k + 1 <= n /\ r(k + 1)[1] = "createMonitor"
      BY <1>1, <2>3, SMTT(30) DEF LinkedAt
    <2>5. /\ b[k][1] = "findSecret" =>
               \/ k + 1 <= n /\ b[k + 1] = <<"createSecret", b[k][2]>>
               \/ k + 2 <= n /\ b[k + 1][1] = "source" /\ b[k + 2] = <<"createSecret", b[k][2]>>
          /\ b[k][1] = "createSecret" =>
               k > 1 /\ (b[k - 1] = <<"findSecret", b[k][2]>> \/ b[k - 1][1] = "source")
          /\ b[k][1] = "source" =>
               /\ k > 1 /\ k + 1 <= n
               /\ b[k + 1][1] = "createSecret" /\ b[k - 1] = <<"findSecret", b[k + 1][2]>>
          /\ b[k][1] = "findMonitor" => k + 1 <= n /\ b[k + 1][1] = "createMonitor"
      BY <2>1 DEF LinkedAt
    <2> HIDE DEF r, m, n
    <2>6. r(k)[1] = "findSecret" =>
            \/ k + 1 <= n /\ r(k + 1) = <<"createSecret", r(k)[2]>>
            \/ k + 2 <= n /\ r(k + 1)[1] = "source" /\ r(k + 2) = <<"createSecret", r(k)[2]>>
      <3>1. k + 2 <= n => k + 1 <= n
        BY <1>1, <2>1
      <3>2. QED
        BY <3>1, <2>2, <2>5
    <2>p. k > 1 => m + k > 1
      BY <1>1, <2>1
    <2>7. r(k)[1] = "createSecret" =>
            m + k > 1 /\ (r(k - 1) = <<"findSecret", r(k)[2]>> \/ r(k - 1)[1] = "source")
      BY <2>2, <2>5, <2>p
    <2>8. r(k)[1] = "source" =>
            /\ m + k > 1 /\ k + 1 <= n
            /\ r(k + 1)[1] = "createSecret" /\ r(k - 1) = <<"findSecret", r(k + 1)[2]>>
      BY <2>2, <2>5, <2>p
    <2>9. r(k)[1] = "findMonitor" => k + 1 <= n /\ r(k + 1)[1] = "createMonitor"
      BY <2>2, <2>5
    <2>10. QED
      BY <2>4, <2>6, <2>7, <2>8, <2>9
  <1>7. ASSUME NEW k \in 1 .. m + n PROVE LinkedAt(q, k)
    <2>1. k \in 1 .. m \/ (k - m \in 1 .. n /\ k = m + (k - m))
      BY <1>1
    <2> HIDE DEF m, n
    <2>2. QED
      BY <1>5, <1>6, <2>1
  <1>8. QED
    BY <1>1, <1>7 DEF Linked, q

\* So does the order: what comes after a may rest on a.
LEMMA SoundJoined ==
  ASSUME NEW s, NEW pre, NEW more, NEW a, NEW b,
         Sound(s, pre, a), Sound(s, more, b), more \subseteq pre \cup ToSet(a)
  PROVE  Sound(s, pre, a \o b)
  <1> DEFINE m == Len(a)  n == Len(b)  q == a \o b
  <1>1. IsSeq(a) /\ IsSeq(b)
    BY DEF Sound
  <1>2. m \in Nat /\ n \in Nat /\ Len(q) = m + n /\ IsSeq(q)
    BY <1>1, SeqFacts, Joined
  <1>3. /\ \A k \in 1 .. m : q[k] = a[k]
        /\ \A k \in 1 .. n : q[m + k] = b[k]
    BY <1>1, Joined
  <1>4. ToSet(a) = {a[k] : k \in 1 .. m}
    BY <1>1, SeqFacts
  <1>5. Linked(q)
    BY <1>1, LinkedJoined DEF Sound
  <1>6. \A k \in 1 .. m + n : k \in 1 .. m \/ (k - m \in 1 .. n /\ k = m + (k - m))
    BY <1>2
  <1>7. \A k \in 1 .. m + n : IsCall(q[k])
    <2>1. (\A k \in 1 .. m : IsCall(a[k])) /\ (\A k \in 1 .. n : IsCall(b[k]))
      BY DEF Sound
    <2> HIDE DEF m, n, q
    <2>2. QED
      BY <1>3, <1>6, <2>1
  <1>8. ASSUME NEW k \in 1 .. m + n, q[k][1] = "set", NEW c \in NeedCalls(s, q[k][2])
        PROVE  c \in pre \/ \E i \in 1 .. k - 1 : q[i] = c
    <2>1. CASE k \in 1 .. m
      <3>1. q[k] = a[k]
        BY <1>3, <2>1
      <3>2. c \in pre \/ \E i \in 1 .. k - 1 : a[i] = c
        BY <1>8, <2>1, <3>1 DEF Sound, NeedsBefore
      <3>3. \A i \in 1 .. k - 1 : q[i] = a[i]
        BY <1>2, <1>3, <2>1
      <3>4. QED
        BY <3>2, <3>3
    <2>2. CASE k - m \in 1 .. n /\ k = m + (k - m)
      <3>1. PICK j \in 1 .. n : k = m + j
        BY <2>2
      <3>2. q[k] = b[j]
        BY <1>3, <3>1
      <3>3. c \in more \/ \E i \in 1 .. j - 1 : b[i] = c
        BY <1>8, <3>2 DEF Sound, NeedsBefore
      <3>4. CASE c \in more
        <4>1. c \in pre \/ \E i \in 1 .. m : a[i] = c
          BY <1>4, <3>4
        <4>2. \A i \in 1 .. m : i \in 1 .. k - 1 /\ q[i] = a[i]
          BY <1>2, <1>3, <3>1
        <4>3. QED
          BY <4>1, <4>2
      <3>5. CASE \E i \in 1 .. j - 1 : b[i] = c
        <4>1. PICK i \in 1 .. j - 1 : b[i] = c
          BY <3>5
        <4>2. m + i \in 1 .. k - 1 /\ q[m + i] = b[i]
          BY <1>2, <1>3, <3>1
        <4>3. QED
          BY <4>1, <4>2
      <3>6. QED
        BY <3>3, <3>4, <3>5
    <2>3. QED
      BY <1>6, <2>1, <2>2
  <1>9. NeedsBefore(s, pre, q)
    <2> HIDE DEF q, m, n
    <2> QED BY <1>2, <1>8 DEF NeedsBefore
  <1>10. QED
    BY <1>2, <1>5, <1>7, <1>9 DEF Sound

\* Calls none of which looks or creates, with sets that need only what is there.
LEMMA SimpleCalls ==
  ASSUME NEW s, NEW pre, NEW q, IsSeq(q),
         \A c \in ToSet(q) :
           /\ IsCall(c)
           /\ c[1] \notin {"findSecret", "createSecret", "source", "findMonitor"}
           /\ c[1] = "set" => NeedCalls(s, c[2]) \subseteq pre
  PROVE  Sound(s, pre, q)
  <1>1. \A k \in 1 .. Len(q) : q[k] \in ToSet(q)
    BY SeqFacts
  <1>2. Linked(q)
    BY <1>1 DEF Linked, LinkedAt
  <1>3. NeedsBefore(s, pre, q)
    BY <1>1 DEF NeedsBefore
  <1>4. QED
    BY <1>1, <1>2, <1>3 DEF Sound

\* A look and its creation.
LEMMA SecretCallsSound ==
  ASSUME NEW s, NEW x, NEW y
  PROVE  /\ Sound(s, {}, SecretCalls(x))
         /\ ToSet(SecretCalls(x)) = {<<"findSecret", x>>, <<"createSecret", x>>}
         /\ Sound(s, {}, <<<<"findSecret", x>>, <<"source", y>>, <<"createSecret", x>>>>)
         /\ Sound(s, {}, Monitor(x))
  <1>q. ASSUME NEW q, IsSeq(q),
               \/ Len(q) = 2 /\ q[1] = <<"findSecret", x>> /\ q[2] = <<"createSecret", x>>
               \/ Len(q) = 2 /\ q[1] = <<"findMonitor", x>> /\ q[2] = <<"createMonitor", x>>
               \/ /\ Len(q) = 3 /\ q[1] = <<"findSecret", x>> /\ q[2] = <<"source", y>>
                  /\ q[3] = <<"createSecret", x>>
        PROVE  Sound(s, {}, q)
    <2>1. \A k \in 1 .. Len(q) : IsCall(q[k]) /\ q[k][1] # "set"
      BY <1>q DEF IsCall
    <2>2. \A k \in 1 .. Len(q) : LinkedAt(q, k)
      BY <1>q DEF LinkedAt
    <2>3. QED
      BY <1>q, <2>1, <2>2 DEF Sound, Linked, NeedsBefore
  <1>1. Sound(s, {}, SecretCalls(x))
    BY <1>q, ShortSequences DEF SecretCalls
  <1>2. Sound(s, {}, <<<<"findSecret", x>>, <<"source", y>>, <<"createSecret", x>>>>)
    BY <1>q, ShortSequences
  <1>3. Sound(s, {}, Monitor(x))
    BY <1>q, ShortSequences DEF Monitor
  <1>4. QED
    BY <1>1, <1>2, <1>3, ShortSequences DEF SecretCalls

\* The config maps of a network.
LEMMA MapCallsSound ==
  ASSUME NEW s, NEW maps, IsFiniteSet(DOMAIN maps)
  PROVE  Sound(s, {}, MapCalls(maps)) /\ ToSet(MapCalls(maps)) = {"map"} \X DOMAIN maps
  <1> DEFINE C == {<<"map", n>> : n \in DOMAIN maps}
  <1>1. IsFiniteSet(C)
    <2> DEFINE f == [n \in DOMAIN maps |-> <<"map", n>>]
    <2>1. f \in Surjection(DOMAIN maps, C)
      BY DEF Surjection
    <2> HIDE DEF f, C
    <2>2. QED
      BY <2>1, FS_Surjection
  <1>2. IsSeq(SetToSeq(C)) /\ ToSet(SetToSeq(C)) = C
    <2> HIDE DEF C
    <2> QED BY <1>1, SetToSeqFacts
  <1>3. Sound(s, {}, SetToSeq(C))
    <2>1. \A c \in C : IsCall(c) /\ c[1] = "map"
      BY DEF IsCall
    <2> HIDE DEF C
    <2>2. QED
      BY <1>2, <2>1, SimpleCalls
  <1>4. C = {"map"} \X DOMAIN maps
    OBVIOUS
  <1>5. QED
    BY <1>2, <1>3, <1>4 DEF MapCalls

-----------------------------------------------------------------------------
(* What the pods of each set need. *)

\* The secrets that give variables their values, and the config maps in volumes.
SecretsOf(env) == {env[v].of : v \in {x \in DOMAIN env : env[x].from = "secret"}}
MapsIn(volumes) == {volumes[v].name : v \in {x \in DOMAIN volumes : volumes[x].kind = "configMap"}}

NeedsAtMost(pod, maps, names, accounts) ==
  /\ ConfigMaps(pod) \subseteq maps
  /\ {k[1] : k \in SecretKeys(pod)} \subseteq names
  /\ {pod.account} \ {"default"} \subseteq accounts

\* What two environments name is what either names.
LEMMA OverNeeds ==
  ASSUME NEW f, NEW g
  PROVE  /\ SecretsOf(Over(f, g)) \subseteq SecretsOf(f) \cup SecretsOf(g)
         /\ MapsIn(Over(f, g)) \subseteq MapsIn(f) \cup MapsIn(g)
         /\ DOMAIN Over(f, g) = DOMAIN f \cup DOMAIN g
  BY DEF Over, SecretsOf, MapsIn

\* The empty environment names no secret, no volumes name no map.
LEMMA EmptyNeeds ==
  /\ DOMAIN NoEnv = {}
  /\ SecretsOf(NoEnv) = {} /\ SecretsOf(<<>>) = {} /\ MapsIn(<<>>) = {}
  /\ \A values : Plain(values) => SecretsOf(values) = {}
  /\ \A x, y : y.from # "secret" => SecretsOf(One(x, y)) = {}
  /\ \A x, y : y.kind # "configMap" => MapsIn(One(x, y)) = {}
  /\ \A x, y : MapsIn(One(x, y)) \subseteq {y.name}
  BY DEF NoEnv, SecretsOf, MapsIn, Plain, One

\* A pod needs what its containers and volumes name.
LEMMA PodNeeds ==
  ASSUME NEW app, NEW init, NEW containers, NEW volumes, NEW claims, NEW names,
         \A c \in containers : SecretsOf(c.env) \subseteq names,
         \A k \in DOMAIN init : SecretsOf(init[k].env) \subseteq names
  PROVE  NeedsAtMost(Pod(app, init, containers, volumes, claims), MapsIn(volumes), names, {})
  <1> DEFINE pod == Pod(app, init, containers, volumes, claims)
  <1>1. /\ pod.account = "default" /\ pod.volumes = volumes /\ pod.containers = containers
        /\ pod.init = init
    BY DEF Pod
  <1>2. \A c \in AllContainers(pod) : SecretsOf(c.env) \subseteq names
    BY <1>1 DEF AllContainers
  <1>3. \A e \in Sources(pod) : e.from = "secret" => e.of \in names
    BY <1>2 DEF Sources, SecretsOf
  <1>4. {k[1] : k \in SecretKeys(pod)} \subseteq names
    BY <1>3 DEF SecretKeys
  <1>5. ConfigMaps(pod) = MapsIn(volumes)
    BY <1>1 DEF ConfigMaps, MapsIn
  <1>6. QED
    BY <1>1, <1>4, <1>5 DEF NeedsAtMost

\* The environments the code writes down.
LEMMA FixedEnvs ==
  ASSUME NEW name
  PROVE  /\ SecretsOf(PgEnv) = {"postgres-auth"} /\ SecretsOf(AwsEnv) = {} /\ SecretsOf(EthEnv) = {}
         /\ SecretsOf([S3_ENDPOINT |-> At("localstack", "4566")]) = {}
         /\ SecretsOf([AWS_ENDPOINT |-> At("localstack", "4566")]) = {}
         /\ SecretsOf([IPFS_API_URL |-> At("cas-ipfs", "5101")]) = {}
         /\ SecretsOf([indexing |-> At("localhost", "5432")]) = {}
         /\ SecretsOf([CERAMIC_ADMIN_PRIVATE_KEY |-> Key("ceramic-admin", "private-key")])
              = {"ceramic-admin"}
         /\ SecretsOf(PostgresLogin(name)) = {name}
         /\ SecretsOf(PrometheusTargets) = {} /\ SecretsOf(OtelExporters) = {}
  <1>1. SecretsOf(PgEnv) = {"postgres-auth"}
    BY DEF SecretsOf, PgEnv, At, Key
  <1>2. SecretsOf(AwsEnv) = {} /\ SecretsOf(EthEnv) = {}
    BY DEF SecretsOf, AwsEnv, EthEnv, At
  <1>3. /\ SecretsOf([S3_ENDPOINT |-> At("localstack", "4566")]) = {}
        /\ SecretsOf([AWS_ENDPOINT |-> At("localstack", "4566")]) = {}
        /\ SecretsOf([IPFS_API_URL |-> At("cas-ipfs", "5101")]) = {}
        /\ SecretsOf([indexing |-> At("localhost", "5432")]) = {}
    BY DEF SecretsOf, At
  <1>4. SecretsOf([CERAMIC_ADMIN_PRIVATE_KEY |-> Key("ceramic-admin", "private-key")])
          = {"ceramic-admin"}
    BY DEF SecretsOf, Key
  <1>5. SecretsOf(PostgresLogin(name)) = {name}
    BY DEF SecretsOf, PostgresLogin, Key
  <1>6. SecretsOf(PrometheusTargets) = {} /\ SecretsOf(OtelExporters) = {}
    BY DEF SecretsOf, PrometheusTargets, OtelExporters, At
  <1>7. QED
    BY <1>1, <1>2, <1>3, <1>4, <1>5, <1>6

\* The parts of the pods that depend on the ipfs node.
LEMMA IpfsNeeds ==
  ASSUME NEW ipfs, NEW suffix, NEW debug
  PROVE  /\ SecretsOf(IpfsContainer(ipfs, suffix, debug).env) = {}
         /\ \A k \in DOMAIN IpfsInitContainer(ipfs, debug) :
              SecretsOf(IpfsInitContainer(ipfs, debug)[k].env) = {}
         /\ MapsIn(IpfsVolumes(ipfs, suffix)) \subseteq DOMAIN IpfsMaps(ipfs, suffix)
         /\ IsFiniteSet(DOMAIN IpfsMaps(ipfs, suffix))
         /\ IsSeq(IpfsInitContainer(ipfs, debug))
  <1>1. RustIpfsContainer(ipfs, debug).env = NoEnv /\ GoIpfsContainer(ipfs, suffix).env = NoEnv
    BY DEF RustIpfsContainer, GoIpfsContainer, Container
  <1>2. SecretsOf(IpfsContainer(ipfs, suffix, debug).env) = {}
    BY <1>1, EmptyNeeds DEF IpfsContainer
  <1>3. /\ IsSeq(IpfsInitContainer(ipfs, debug))
        /\ \A k \in DOMAIN IpfsInitContainer(ipfs, debug) :
             IpfsInitContainer(ipfs, debug)[k] = RustIpfsContainer(ipfs, debug)
    <2>1. \/ IpfsInitContainer(ipfs, debug) = <<>>
          \/ IpfsInitContainer(ipfs, debug) = <<RustIpfsContainer(ipfs, debug)>>
      BY DEF IpfsInitContainer
    <2> DEFINE c == RustIpfsContainer(ipfs, debug)  q == IpfsInitContainer(ipfs, debug)
    <2>2. q = <<>> \/ q = <<c>>
      BY <2>1
    <2> HIDE DEF c, q
    <2>3. IsSeq(q) /\ DOMAIN q = 1 .. Len(q) /\ \A k \in 1 .. Len(q) : q[k] = c
      <3>1. CASE q = <<>>
        <4>1. IsSeq(<<>>) /\ Len(<<>>) = 0
          BY ShortSequences
        <4>2. DOMAIN <<>> = 1 .. Len(<<>>)
          BY <4>1, SeqFacts
        <4>3. QED
          BY <3>1, <4>1, <4>2
      <3>2. CASE q = <<c>>
        <4>1. IsSeq(q) /\ Len(q) = 1 /\ q[1] = c
          BY <3>2, ShortSequences
        <4>2. DOMAIN q = 1 .. Len(q)
          BY <4>1, SeqFacts
        <4>3. QED
          BY <4>1, <4>2
      <3>3. QED
        BY <2>2, <3>1, <3>2
    <2>4. QED
      BY <2>3 DEF q, c
  <1>4. MapsIn(IpfsVolumes(ipfs, suffix)) \subseteq DOMAIN IpfsMaps(ipfs, suffix)
    <2>1. CASE ipfs.kind = "rust"
      BY <2>1, EmptyNeeds DEF IpfsVolumes
    <2>2. CASE ipfs.kind # "rust"
      <3>1. MapsIn(IpfsVolumes(ipfs, suffix)) \subseteq {IpfsInit(suffix)}
        BY <2>2, EmptyNeeds DEF IpfsVolumes, Files
      <3>2. DOMAIN IpfsMaps(ipfs, suffix) = {IpfsInit(suffix)}
        BY <2>2 DEF IpfsMaps, One
      <3>3. QED
        BY <3>1, <3>2
    <2>3. QED
      BY <2>1, <2>2
  <1>5. IsFiniteSet(DOMAIN IpfsMaps(ipfs, suffix))
    <2>1. DOMAIN IpfsMaps(ipfs, suffix) = {} \/ DOMAIN IpfsMaps(ipfs, suffix) = {IpfsInit(suffix)}
      BY DEF IpfsMaps, One
    <2>2. IsFiniteSet({}) /\ IsFiniteSet({IpfsInit(suffix)})
      <3>1. \A x : IsFiniteSet({x})
        BY FS_Singleton
      <3>2. QED
        BY <3>1, FS_EmptySet
    <2>3. QED
      BY <2>1, <2>2, Zenon
  <1>6. QED
    BY <1>1, <1>2, <1>3, <1>4, <1>5, EmptyNeeds

\* The sets of the monitoring.
LEMMA MonitoringNeeds ==
  /\ NeedsAtMost(JaegerSet(FALSE), {}, {}, {})
  /\ NeedsAtMost(PrometheusSet(FALSE), {"prom-config"}, {}, {})
  /\ NeedsAtMost(OtelSet(FALSE), {"otel-config"}, {}, {OTEL_ACCOUNT})
  <1>1. DOMAIN <<>> = {}
    OBVIOUS
  <1>2. NeedsAtMost(JaegerSet(FALSE), {}, {}, {})
    <2> DEFINE containers == {Container(NoEnv, {}, {"4317", "16686"}, NetworkDefault(FALSE))}
    <2>1. \A c \in containers : SecretsOf(c.env) \subseteq {}
      BY EmptyNeeds DEF Container
    <2> HIDE DEF containers
    <2>2. NeedsAtMost(Pod("jaeger", <<>>, containers, <<>>, {}), MapsIn(<<>>), {}, {})
      BY <1>1, <2>1, PodNeeds
    <2>3. QED
      BY <2>2, EmptyNeeds DEF JaegerSet, containers
  <1>3. NeedsAtMost(PrometheusSet(FALSE), {"prom-config"}, {}, {})
    <2> DEFINE containers == {Container(PrometheusTargets, {Mount("config", "prom-config.yaml")}, {"9090"},
                                        NetworkDefault(FALSE))}
               volumes == One("config", Files("prom-config"))
    <2>1. \A c \in containers : SecretsOf(c.env) \subseteq {}
      BY FixedEnvs DEF Container
    <2>2. MapsIn(volumes) \subseteq {"prom-config"}
      BY EmptyNeeds DEF Files
    <2> HIDE DEF containers, volumes
    <2>3. NeedsAtMost(Pod("prometheus", <<>>, containers, volumes, {}), MapsIn(volumes), {}, {})
      BY <1>1, <2>1, PodNeeds
    <2>4. QED
      BY <2>2, <2>3 DEF PrometheusSet, NeedsAtMost, containers, volumes
  <1>4. NeedsAtMost(OtelSet(FALSE), {"otel-config"}, {}, {OTEL_ACCOUNT})
    <2> DEFINE containers == {Container(OtelExporters, {Mount("config", "otel-config.yaml"), Mount("otel-data", NoFile)},
                  {"4317", "9464", "9465", "8888"}, NetworkDefault(FALSE))}
               volumes == Over(One("config", Files("otel-config")), One("otel-data", Claim("otel-data")))
               claims == {"otel-data"}
               pod == Pod("otel", <<>>, containers, volumes, claims)
    <2>1. \A c \in containers : SecretsOf(c.env) \subseteq {}
      BY FixedEnvs DEF Container
    <2>2. MapsIn(volumes) \subseteq {"otel-config"}
      <3>1. MapsIn(One("otel-data", Claim("otel-data"))) = {}
        BY EmptyNeeds DEF Claim
      <3>2. MapsIn(One("config", Files("otel-config"))) \subseteq {"otel-config"}
        BY EmptyNeeds DEF Files
      <3>3. QED
        BY <3>1, <3>2, OverNeeds
    <2>3. NeedsAtMost(pod, MapsIn(volumes), {}, {})
      <3> HIDE DEF containers, volumes, claims
      <3> QED BY <1>1, <2>1, PodNeeds
    <2>4. OtelSet(FALSE) = [pod EXCEPT !.account = OTEL_ACCOUNT]
      BY DEF OtelSet
    <2>5. /\ OtelSet(FALSE).account = OTEL_ACCOUNT /\ OtelSet(FALSE).volumes = pod.volumes
          /\ OtelSet(FALSE).containers = pod.containers /\ OtelSet(FALSE).init = pod.init
      <3> HIDE DEF containers, volumes, claims
      <3> QED BY <2>4 DEF Pod
    <2> HIDE DEF pod, volumes
    <2>6. ConfigMaps(OtelSet(FALSE)) = ConfigMaps(pod) /\ SecretKeys(OtelSet(FALSE)) = SecretKeys(pod)
      BY <2>5 DEF ConfigMaps, SecretKeys, Sources, AllContainers
    <2>7. QED
      BY <2>2, <2>3, <2>5, <2>6 DEF NeedsAtMost
  <1>5. QED
    BY <1>2, <1>3, <1>4

\* The sets of the anchor service.
LEMMA CasNeeds ==
  ASSUME NEW cas, Plain(cas.env), NEW config
  PROVE  /\ NeedsAtMost(CasSet(cas), {}, {"postgres-auth"}, {})
         /\ NeedsAtMost(CasIpfsSet(cas, config), DOMAIN CasMaps(cas), {}, {})
         /\ NeedsAtMost(GanacheSet(cas), {}, {}, {})
         /\ NeedsAtMost(CasPostgresSet(cas), {}, {"postgres-auth"}, {})
         /\ NeedsAtMost(LocalstackSet(cas), {}, {}, {})
         /\ IsFiniteSet(DOMAIN CasMaps(cas))
  <1> DEFINE P == {"postgres-auth"}
  <1>1. DOMAIN <<>> = {}
    OBVIOUS
  <1>2. \A x, y : MapsIn(One(x, Claim(y))) = {}
    BY EmptyNeeds DEF Claim
  <1>3. NeedsAtMost(CasSet(cas), {}, P, {})
    <2> DEFINE containers == {CasApiContainer(cas), CasWorkerContainer(cas), CasSchedulerContainer(cas)}
               init == CasInitContainers
               volumes == One("cas-data", Claim("cas-data"))
               claims == {"cas-data"}
    <2>1. SecretsOf(CasNodeEnv) \subseteq P
      <3> DEFINE s3 == [S3_ENDPOINT |-> At("localstack", "4566")]
      <3>1. /\ SecretsOf(s3) = {} /\ SecretsOf(EthEnv) = {} /\ SecretsOf(AwsEnv) = {}
            /\ SecretsOf(PgEnv) = P
        BY FixedEnvs
      <3>2. CasNodeEnv = Over(PgEnv, Over(AwsEnv, Over(EthEnv, s3)))
        BY DEF CasNodeEnv
      <3> HIDE DEF s3, P
      <3> DEFINE eth == Over(EthEnv, s3)  aws == Over(AwsEnv, eth)
      <3>3. SecretsOf(eth) \subseteq SecretsOf(EthEnv) \cup SecretsOf(s3)
        BY OverNeeds
      <3>4. SecretsOf(aws) \subseteq SecretsOf(AwsEnv) \cup SecretsOf(eth)
        BY OverNeeds
      <3>5. SecretsOf(Over(PgEnv, aws)) \subseteq SecretsOf(PgEnv) \cup SecretsOf(aws)
        BY OverNeeds
      <3>6. CasNodeEnv = Over(PgEnv, aws)
        BY <3>2
      <3> HIDE DEF eth, aws
      <3>7. QED
        BY <3>1, <3>3, <3>4, <3>5, <3>6
    <2>2. SecretsOf(CasApiContainer(cas).env) \subseteq P
      <3>1. SecretsOf(Override(CasNodeEnv, cas.env)) \subseteq SecretsOf(cas.env) \cup SecretsOf(CasNodeEnv)
        BY OverNeeds DEF Override
      <3>2. SecretsOf(cas.env) = {}
        BY EmptyNeeds
      <3>3. CasApiContainer(cas).env = Override(CasNodeEnv, cas.env)
        BY DEF CasApiContainer, Container
      <3>4. QED
        BY <2>1, <3>1, <3>2, <3>3
    <2>3. SecretsOf(CasWorkerContainer(cas).env) \subseteq P
      <3> DEFINE api == [IPFS_API_URL |-> At("cas-ipfs", "5101")]
      <3>1. CasWorkerContainer(cas).env = Over(CasNodeEnv, api)
        BY DEF CasWorkerContainer, Container
      <3>2. SecretsOf(api) = {}
        BY FixedEnvs
      <3> HIDE DEF api, P
      <3>3. QED
        BY <2>1, <3>1, <3>2, OverNeeds
    <2>4. SecretsOf(CasSchedulerContainer(cas).env) \subseteq P
      <3> DEFINE aws == [AWS_ENDPOINT |-> At("localstack", "4566")]
      <3>1. CasSchedulerContainer(cas).env = Over(PgEnv, Over(AwsEnv, aws))
        BY DEF CasSchedulerContainer, Container
      <3>2. SecretsOf(aws) = {} /\ SecretsOf(AwsEnv) = {} /\ SecretsOf(PgEnv) = P
        BY FixedEnvs
      <3> HIDE DEF aws, P
      <3> DEFINE both == Over(AwsEnv, aws)
      <3>3. SecretsOf(both) \subseteq SecretsOf(AwsEnv) \cup SecretsOf(aws)
        BY OverNeeds
      <3>4. SecretsOf(Over(PgEnv, both)) \subseteq SecretsOf(PgEnv) \cup SecretsOf(both)
        BY OverNeeds
      <3> HIDE DEF both
      <3>5. QED
        BY <3>1, <3>2, <3>3, <3>4 DEF both
    <2>5. \A k \in DOMAIN init : SecretsOf(init[k].env) \subseteq P
      <3> DEFINE a == Container(EthEnv, {}, {}, "")  b == Container(PgEnv, {}, {}, "")
      <3>1. SecretsOf(a.env) \subseteq P /\ SecretsOf(b.env) \subseteq P
        BY FixedEnvs DEF Container
      <3>2. init = <<a, b>>
        BY DEF CasInitContainers
      <3> HIDE DEF a, b, init
      <3>3. init[1] = a /\ init[2] = b /\ DOMAIN init = {1, 2}
        <4>1. IsSeq(init) /\ Len(init) = 2
          BY <3>2, ShortSequences
        <4>2. DOMAIN init = 1 .. 2
          BY <4>1, SeqFacts
        <4>3. QED
          BY <3>2, <4>2
      <3>4. QED
        BY <3>1, <3>3
    <2> HIDE DEF init, P
    <2>6. \A c \in containers : SecretsOf(c.env) \subseteq P
      BY <2>2, <2>3, <2>4
    <2> HIDE DEF containers, claims
    <2>7. NeedsAtMost(Pod("cas", init, containers, volumes, claims), MapsIn(volumes), P, {})
      BY <2>5, <2>6, PodNeeds
    <2>8. QED
      BY <1>2, <2>7 DEF CasSet, containers, claims, init
  <1>4. NeedsAtMost(CasIpfsSet(cas, config), DOMAIN CasMaps(cas), {}, {}) /\ IsFiniteSet(DOMAIN CasMaps(cas))
    <2> DEFINE init == IpfsInitContainer(cas.ipfs, config.debug_mode)
               containers == {IpfsContainer(cas.ipfs, "cas", config.debug_mode)}
               volumes == Over(One("ipfs-data", Claim("ipfs-data")), IpfsVolumes(cas.ipfs, "cas"))
               claims == {"ipfs-data"}
    <2>1. \A k \in DOMAIN init : SecretsOf(init[k].env) \subseteq {}
      BY IpfsNeeds
    <2>2. \A c \in containers : SecretsOf(c.env) \subseteq {}
      BY IpfsNeeds
    <2>3. MapsIn(volumes) \subseteq DOMAIN CasMaps(cas)
      <3>1. MapsIn(One("ipfs-data", Claim("ipfs-data"))) = {}
        BY <1>2
      <3>2. MapsIn(IpfsVolumes(cas.ipfs, "cas")) \subseteq DOMAIN CasMaps(cas)
        BY IpfsNeeds DEF CasMaps
      <3>3. QED
        BY <3>1, <3>2, OverNeeds
    <2>4. CasIpfsSet(cas, config) = Pod("cas-ipfs", init, containers, volumes, claims)
      BY DEF CasIpfsSet
    <2> HIDE DEF init, containers, volumes, claims
    <2>5. NeedsAtMost(Pod("cas-ipfs", init, containers, volumes, claims), MapsIn(volumes), {}, {})
      BY <2>1, <2>2, PodNeeds
    <2>6. NeedsAtMost(CasIpfsSet(cas, config), DOMAIN CasMaps(cas), {}, {})
      BY <2>3, <2>4, <2>5 DEF NeedsAtMost
    <2>7. QED
      BY <2>6, IpfsNeeds DEF CasMaps
  <1>5. ASSUME NEW app, NEW mounts, NEW ports, NEW limits, NEW x, NEW claims, NEW env, NEW names,
               SecretsOf(env) \subseteq names
        PROVE  NeedsAtMost(Pod(app, <<>>, {Container(env, mounts, ports, limits)}, One(x, Claim(x)), claims),
                           {}, names, {})
    <2> DEFINE containers == {Container(env, mounts, ports, limits)}
    <2>1. \A c \in containers : SecretsOf(c.env) \subseteq names
      BY <1>5 DEF Container
    <2> HIDE DEF containers
    <2>2. NeedsAtMost(Pod(app, <<>>, containers, One(x, Claim(x)), claims), MapsIn(One(x, Claim(x))),
                      names, {})
      BY <1>1, <2>1, PodNeeds
    <2>3. QED
      BY <1>2, <2>2 DEF containers
  <1>6. NeedsAtMost(GanacheSet(cas), {}, {}, {}) /\ NeedsAtMost(LocalstackSet(cas), {}, {}, {})
    <2>1. SecretsOf(NoEnv) \subseteq {}
      BY EmptyNeeds
    <2>2. QED
      BY <1>5, <2>1 DEF GanacheSet, LocalstackSet
  <1>7. NeedsAtMost(CasPostgresSet(cas), {}, P, {})
    <2>1. SecretsOf(PostgresLogin("postgres-auth")) \subseteq P
      BY FixedEnvs
    <2>2. QED
      BY <1>5, <2>1 DEF CasPostgresSet
  <1>8. QED
    BY <1>3, <1>4, <1>6, <1>7

\* The set of a ceramic.
LEMMA CeramicNeeds ==
  ASSUME NEW config, Plain(config.env), NEW net_config, NEW suffix,
         net_config.eth_rpc_url.from # "secret", net_config.cas_api_url.from # "secret"
  PROVE  /\ NeedsAtMost(CeramicSet(config, net_config, suffix),
                        {config.init_config_map} \cup DOMAIN IpfsMaps(config.ipfs, suffix),
                        {"ceramic-admin", "ceramic-postgres-auth"}, {})
         /\ IsFiniteSet(DOMAIN CeramicMaps(config, suffix))
         /\ DOMAIN IpfsMaps(config.ipfs, suffix) \subseteq DOMAIN CeramicMaps(config, suffix)
         /\ config.init_config_map = INIT_CONFIG_MAP_NAME
              => config.init_config_map \in DOMAIN CeramicMaps(config, suffix)
  <1> DEFINE S == {"ceramic-admin", "ceramic-postgres-auth"}
             debug == net_config.debug_mode
  <1>1. SecretsOf(CeramicEnv(config, net_config)) \subseteq S
    <2> DEFINE first == [ETH_RPC_URL |-> net_config.eth_rpc_url, CAS_API_URL |-> net_config.cas_api_url,
                         CERAMIC_IPFS_HOST |-> At("localhost", "5101")]
               login == PostgresLogin("ceramic-postgres-auth")
    <2>1. SecretsOf(first) = {}
      BY DEF SecretsOf, At
    <2>2. SecretsOf(login) \subseteq S
      BY FixedEnvs
    <2>3. CeramicEnv(config, net_config) = Over(config.env, Over(first, login))
      BY DEF CeramicEnv, Override
    <2>4. SecretsOf(config.env) = {}
      BY EmptyNeeds
    <2> HIDE DEF first, login, S
    <2>5. QED
      <3>1. SecretsOf(Over(first, login)) \subseteq S
        BY <2>1, <2>2, OverNeeds
      <3>2. QED
        BY <2>3, <2>4, <3>1, OverNeeds
  <1>2. SecretsOf(CeramicContainer(config, net_config).env) \subseteq S
    <2>1. CeramicContainer(config, net_config).env = Over(CeramicEnv(config, net_config), DaemonConfig(config))
      BY DEF CeramicContainer, Container
    <2>2. SecretsOf(DaemonConfig(config)) = {}
      BY FixedEnvs, EmptyNeeds DEF DaemonConfig
    <2>3. QED
      BY <1>1, <2>1, <2>2, OverNeeds
  <1>3. SecretsOf(CeramicPostgresContainer(config).env) \subseteq S
    BY FixedEnvs DEF CeramicPostgresContainer, Container
  <1>4. SecretsOf(CeramicInitContainer(config, net_config).env) \subseteq S
    <2>1. CeramicInitContainer(config, net_config).env = CeramicInitEnv(config, net_config)
      BY DEF CeramicInitContainer, Container
    <2>2. SecretsOf([CERAMIC_ADMIN_PRIVATE_KEY |-> Key("ceramic-admin", "private-key")]) \subseteq S
      BY FixedEnvs
    <2>3. QED
      BY <1>1, <2>1, <2>2, OverNeeds DEF CeramicInitEnv
  <1>5. MapsIn(CeramicVolumes(config, suffix))
          \subseteq {config.init_config_map} \cup DOMAIN IpfsMaps(config.ipfs, suffix)
    <2> DEFINE a == [n \in {"ceramic-data", "ipfs-data", "postgres-data"} |-> Claim(n)]
               b == One("config-volume", EmptyDir)
               c == One("ceramic-init", Files(config.init_config_map))
               d == IpfsVolumes(config.ipfs, suffix)
    <2>1. MapsIn(a) = {}
      BY DEF MapsIn, Claim
    <2>2. MapsIn(b) = {}
      BY EmptyNeeds DEF EmptyDir
    <2>3. MapsIn(c) \subseteq {config.init_config_map}
      BY EmptyNeeds DEF Files
    <2>4. MapsIn(d) \subseteq DOMAIN IpfsMaps(config.ipfs, suffix)
      BY IpfsNeeds
    <2>5. CeramicVolumes(config, suffix) = Over(a, Over(b, Over(c, d)))
      BY DEF CeramicVolumes
    <2> HIDE DEF a, b, c, d
    <2>6. MapsIn(Over(c, d)) \subseteq MapsIn(c) \cup MapsIn(d)
      BY OverNeeds
    <2>7. MapsIn(Over(b, Over(c, d))) \subseteq MapsIn(b) \cup MapsIn(Over(c, d))
      BY OverNeeds
    <2>8. MapsIn(Over(a, Over(b, Over(c, d)))) \subseteq MapsIn(a) \cup MapsIn(Over(b, Over(c, d)))
      BY OverNeeds
    <2>9. QED
      BY <2>1, <2>2, <2>3, <2>4, <2>5, <2>6, <2>7, <2>8
  <1>6. NeedsAtMost(CeramicSet(config, net_config, suffix), MapsIn(CeramicVolumes(config, suffix)), S, {})
    <2> DEFINE first == <<CeramicInitContainer(config, net_config)>>
               second == IpfsInitContainer(config.ipfs, debug)
               init == first \o second
               containers == {CeramicContainer(config, net_config), CeramicPostgresContainer(config),
                              IpfsContainer(config.ipfs, suffix, debug)}
               volumes == CeramicVolumes(config, suffix)
               claims == {"ceramic-data", "ipfs-data", "postgres-data"}
    <2>1. CeramicSet(config, net_config, suffix) = Pod("ceramic", init, containers, volumes, claims)
      BY DEF CeramicSet
    <2>2. \A c \in containers : SecretsOf(c.env) \subseteq S
      <3> HIDE DEF S
      <3>1. SecretsOf(IpfsContainer(config.ipfs, suffix, debug).env) \subseteq S
        BY IpfsNeeds
      <3> HIDE DEF debug
      <3>2. QED
        BY <1>2, <1>3, <3>1
    <2>3. \A k \in DOMAIN init : SecretsOf(init[k].env) \subseteq S
      <3>1. IsSeq(first) /\ Len(first) = 1 /\ first[1] = CeramicInitContainer(config, net_config)
        BY ShortSequences
      <3>2. IsSeq(second) /\ \A k \in DOMAIN second : SecretsOf(second[k].env) = {}
        BY IpfsNeeds
      <3> HIDE DEF S, first, second
      <3>3. /\ IsSeq(init) /\ ToSet(init) = ToSet(first) \cup ToSet(second)
            /\ DOMAIN second = 1 .. Len(second) /\ ToSet(second) = {second[k] : k \in 1 .. Len(second)}
            /\ ToSet(first) = {first[k] : k \in 1 .. Len(first)}
        <4>1. IsSeq(init) /\ ToSet(init) = ToSet(first) \cup ToSet(second)
          BY <3>1, <3>2, Joined
        <4>2. DOMAIN second = 1 .. Len(second) /\ ToSet(second) = {second[k] : k \in 1 .. Len(second)}
          BY <3>2, SeqFacts
        <4>3. ToSet(first) = {first[k] : k \in 1 .. Len(first)}
          BY <3>1, SeqFacts
        <4>4. QED
          BY <4>1, <4>2, <4>3
      <3>4. \A c \in ToSet(init) : SecretsOf(c.env) \subseteq S
        BY <1>4, <3>1, <3>2, <3>3
      <3>5. \A k \in DOMAIN init : init[k] \in ToSet(init)
        BY <3>3, SeqFacts
      <3>6. QED
        BY <3>4, <3>5
    <2> HIDE DEF init, containers, volumes, claims, S
    <2>4. QED
      BY <2>1, <2>2, <2>3, PodNeeds DEF volumes
  <1>7. /\ IsFiniteSet(DOMAIN CeramicMaps(config, suffix))
        /\ DOMAIN IpfsMaps(config.ipfs, suffix) \subseteq DOMAIN CeramicMaps(config, suffix)
        /\ config.init_config_map = INIT_CONFIG_MAP_NAME
             => config.init_config_map \in DOMAIN CeramicMaps(config, suffix)
    <2> DEFINE own == IF config.init_config_map = INIT_CONFIG_MAP_NAME
                        THEN One(INIT_CONFIG_MAP_NAME, {"ceramic-init.sh", "daemon-config.json"}) ELSE <<>>
               ipfs == IpfsMaps(config.ipfs, suffix)
    <2>1. CeramicMaps(config, suffix) = Over(own, ipfs)
      BY DEF CeramicMaps
    <2>2. /\ DOMAIN own = {} \/ DOMAIN own = {INIT_CONFIG_MAP_NAME}
          /\ config.init_config_map = INIT_CONFIG_MAP_NAME => INIT_CONFIG_MAP_NAME \in DOMAIN own
      BY DEF One
    <2>3. IsFiniteSet(DOMAIN own)
      <3>1. IsFiniteSet({}) /\ IsFiniteSet({INIT_CONFIG_MAP_NAME})
        <4>1. \A x : IsFiniteSet({x})
          BY FS_Singleton
        <4>2. QED
          BY <4>1, FS_EmptySet
      <3>2. QED
        BY <2>2, <3>1, Zenon
    <2>4. IsFiniteSet(DOMAIN ipfs)
      BY IpfsNeeds
    <2> HIDE DEF own, ipfs
    <2>5. DOMAIN Over(own, ipfs) = DOMAIN own \cup DOMAIN ipfs
      BY OverNeeds
    <2>6. IsFiniteSet(DOMAIN own \cup DOMAIN ipfs)
      BY <2>3, <2>4, FS_Union
    <2>7. QED
      BY <2>1, <2>2, <2>5, <2>6 DEF ipfs
  <1>8. QED
    <2> HIDE DEF S
    <2>1. NeedsAtMost(CeramicSet(config, net_config, suffix),
                      {config.init_config_map} \cup DOMAIN IpfsMaps(config.ipfs, suffix), S, {})
      BY <1>5, <1>6 DEF NeedsAtMost
    <2>2. QED
      BY <1>7, <2>1 DEF S

\* A table is the function it was made from.
LEMMA TableValue ==
  ASSUME NEW f
  PROVE  Table(f) = f
  BY DEF Table

\* The ceramics of a spec and their configurations.
LEMMA CeramicFacts ==
  ASSUME NEW s \in AllSpecs
  PROVE  /\ Ceramics(s) \in Nat
         /\ \A k \in 1 .. Ceramics(s) :
              /\ Plain(CeramicConfigs(Specs[s].ceramic, FALSE)[k].env)
              /\ CeramicConfigs(Specs[s].ceramic, FALSE)[k].init_config_map # INIT_CONFIG_MAP_NAME
                   => CeramicConfigs(Specs[s].ceramic, FALSE)[k].init_config_map \in UsersMaps(s)
         /\ Plain(CasConfig(Specs[s].cas, FALSE).env)
         /\ NetworkConfig(Specs[s]).eth_rpc_url.from # "secret"
         /\ NetworkConfig(Specs[s]).cas_api_url.from # "secret"
  <1> DEFINE sections == Specs[s].ceramic
             configs == CeramicConfigs(sections, FALSE)
  <1>1. \A section : CeramicConfig(section, FALSE).env = section.env
    BY DEF CeramicConfig
  <1>2. /\ Len(sections) \in Nat
        /\ \A k \in 1 .. Len(sections) : Plain(sections[k].env)
    BY PassAssumption DEF AllSpecs
  <1>3. Len(configs) \in Nat /\ \A k \in 1 .. Len(configs) : Plain(configs[k].env)
    <2>1. CASE sections = <<>>
      <3> DEFINE c == CeramicConfig(CeramicDefault, FALSE)
      <3>1. configs = <<c>>
        BY <2>1 DEF CeramicConfigs
      <3>2. c.env = NoEnv
        BY <1>1 DEF CeramicDefault
      <3>3. Plain(c.env)
        BY <3>2, EmptyNeeds DEF Plain
      <3> HIDE DEF c, configs
      <3>4. Len(configs) = 1 /\ configs[1] = c
        BY <3>1, ShortSequences
      <3>5. QED
        BY <3>3, <3>4
    <2>2. CASE sections # <<>>
      <3> DEFINE n == Len(sections)
      <3>1. configs = [k \in 1 .. n |-> CeramicConfig(sections[k], FALSE)]
        BY <2>2 DEF CeramicConfigs
      <3>2. \A k \in 1 .. n : configs[k].env = sections[k].env
        BY <1>1, <3>1
      <3>3. configs = [k \in 1 .. n |-> configs[k]]
        BY <3>1
      <3>4. Len(configs) = n
        <4> HIDE DEF configs, n
        <4> QED BY <1>2, <3>3, MakeSeq DEF n
      <3> HIDE DEF configs, sections
      <3>5. QED
        BY <1>2, <3>2, <3>4
    <2>3. QED
      BY <2>1, <2>2
  <1>4. Ceramics(s) = Len(configs)
    BY DEF Ceramics
  <1>5. \A k \in 1 .. Ceramics(s) :
          configs[k].init_config_map # INIT_CONFIG_MAP_NAME => configs[k].init_config_map \in UsersMaps(s)
    BY DEF UsersMaps
  <1>6. Plain(CasConfig(Specs[s].cas, FALSE).env)
    <2>1. CASE Specs[s].cas = <<>>
      <3>1. CasConfig(Specs[s].cas, FALSE).env = NoEnv
        BY <2>1 DEF CasConfig, DefaultCas
      <3>2. QED
        BY <3>1, EmptyNeeds DEF Plain
    <2>2. CASE Specs[s].cas # <<>>
      <3>1. CasConfig(Specs[s].cas, FALSE).env = Specs[s].cas[1].env
        BY <2>2 DEF CasConfig
      <3>2. QED
        BY <2>2, <3>1, PassAssumption DEF AllSpecs
    <2>3. QED
      BY <2>1, <2>2
  <1>7. NetworkConfig(Specs[s]).eth_rpc_url.from # "secret"
    BY PassAssumption DEF AllSpecs, NetworkConfig, At
  <1>8. NetworkConfig(Specs[s]).cas_api_url.from # "secret"
    BY PassAssumption DEF AllSpecs, NetworkConfig, At
  <1>9. QED
    <2> HIDE DEF configs, sections
    <2> QED BY <1>3, <1>4, <1>5, <1>6, <1>7, <1>8 DEF configs, sections

\* Which set has which name.
LEMMA TemplateFacts ==
  ASSUME NEW s \in AllSpecs, Accepted(s)
  PROVE  /\ Template(s, "jaeger", FALSE) = JaegerSet(FALSE)
         /\ Template(s, "prometheus", FALSE) = PrometheusSet(FALSE)
         /\ Template(s, "opentelemetry", FALSE) = OtelSet(FALSE)
         /\ Template(s, "cas", FALSE) = CasSet(CasConfig(Specs[s].cas, FALSE))
         /\ Template(s, "cas-ipfs", FALSE)
              = CasIpfsSet(CasConfig(Specs[s].cas, FALSE), NetworkConfig(Specs[s]))
         /\ Template(s, "ganache", FALSE) = GanacheSet(CasConfig(Specs[s].cas, FALSE))
         /\ Template(s, "cas-postgres", FALSE) = CasPostgresSet(CasConfig(Specs[s].cas, FALSE))
         /\ Template(s, "localstack", FALSE) = LocalstackSet(CasConfig(Specs[s].cas, FALSE))
         /\ \A k \in 1 .. Ceramics(s) :
              Template(s, CeramicName(k), FALSE)
                = CeramicSet(CeramicConfigs(Specs[s].ceramic, FALSE)[k], NetworkConfig(Specs[s]), Suffix(k))
  <1> USE DEF Template
  <1>1. Template(s, "jaeger", FALSE) = JaegerSet(FALSE)
    OBVIOUS
  <1>2. Template(s, "prometheus", FALSE) = PrometheusSet(FALSE)
    OBVIOUS
  <1>3. Template(s, "opentelemetry", FALSE) = OtelSet(FALSE)
    OBVIOUS
  <1>4. Template(s, "cas", FALSE) = CasSet(CasConfig(Specs[s].cas, FALSE))
    OBVIOUS
  <1>5. Template(s, "cas-ipfs", FALSE)
          = CasIpfsSet(CasConfig(Specs[s].cas, FALSE), NetworkConfig(Specs[s]))
    OBVIOUS
  <1>6. Template(s, "ganache", FALSE) = GanacheSet(CasConfig(Specs[s].cas, FALSE))
    OBVIOUS
  <1>7. Template(s, "cas-postgres", FALSE) = CasPostgresSet(CasConfig(Specs[s].cas, FALSE))
    OBVIOUS
  <1>8. Template(s, "localstack", FALSE) = LocalstackSet(CasConfig(Specs[s].cas, FALSE))
    OBVIOUS
  <1>9. ASSUME NEW k \in 1 .. Ceramics(s)
        PROVE  Template(s, CeramicName(k), FALSE)
                 = CeramicSet(CeramicConfigs(Specs[s].ceramic, FALSE)[k], NetworkConfig(Specs[s]), Suffix(k))
    <2>1. 1 .. Ceramics(s) \subseteq 1 .. MAX_CERAMICS
      <3>1. Ceramics(s) \in Nat
        BY CeramicFacts
      <3>2. MAX_CERAMICS \in Nat /\ Ceramics(s) <= MAX_CERAMICS
        BY PassAssumption DEF Accepted
      <3>3. QED
        BY <3>1, <3>2
    <2>2. CeramicName(k) \notin {"jaeger", "prometheus", "opentelemetry", "cas", "cas-ipfs", "ganache",
                                "cas-postgres", "localstack"}
      BY <2>1, NamesAssumption
    <2>3. (CHOOSE j \in 1 .. Ceramics(s) : CeramicName(j) = CeramicName(k)) = k
      BY <2>1, NamesAssumption
    <2> DEFINE name == CeramicName(k)
    <2>4. Template(s, name, FALSE)
            = LET j == CHOOSE j \in 1 .. Ceramics(s) : CeramicName(j) = name
              IN  CeramicSet(CeramicConfigs(Specs[s].ceramic, FALSE)[j], NetworkConfig(Specs[s]), Suffix(j))
      <3> HIDE DEF name
      <3>1. name \notin {"jaeger", "prometheus", "opentelemetry", "cas", "cas-ipfs", "ganache",
                         "cas-postgres", "localstack"}
        BY <2>2 DEF name
      <3>2. QED
        BY <3>1
    <2>5. QED
      BY <2>3, <2>4
  <1>10. QED
    BY <1>1, <1>2, <1>3, <1>4, <1>5, <1>6, <1>7, <1>8, <1>9

\* What needs at most these maps, secrets and accounts waits for at most these calls.
LEMMA NeedCallsWithin ==
  ASSUME NEW s, NEW n, NEW maps, NEW names, NEW accounts,
         NeedsAtMost(Template(s, n, FALSE), maps, names, accounts)
  PROVE  NeedCalls(s, n) \subseteq
           ({"map"} \X (maps \ UsersMaps(s))) \cup ({"createSecret"} \X names)
             \cup ({"account"} \X accounts)
  BY DEF NeedCalls, NeedsOf, NeedsAtMost

\* Every set comes after what it needs, of a spec that is accepted.
LEMMA NeedsOfSets ==
  ASSUME NEW s \in AllSpecs, Accepted(s)
  PROVE  /\ NeedCalls(s, "jaeger") = {}
         /\ NeedCalls(s, "prometheus") \subseteq {<<"map", "prom-config">>}
         /\ NeedCalls(s, "opentelemetry") \subseteq {<<"map", "otel-config">>, <<"account", OTEL_ACCOUNT>>}
         /\ NeedCalls(s, "cas") \subseteq {<<"createSecret", "postgres-auth">>}
         /\ NeedCalls(s, "cas-ipfs") \subseteq {"map"} \X DOMAIN CasMaps(CasConfig(Specs[s].cas, FALSE))
         /\ NeedCalls(s, "ganache") = {} /\ NeedCalls(s, "localstack") = {}
         /\ NeedCalls(s, "cas-postgres") \subseteq {<<"createSecret", "postgres-auth">>}
         /\ \A k \in 1 .. Ceramics(s) :
              NeedCalls(s, CeramicName(k)) \subseteq
                ({"map"} \X DOMAIN CeramicMaps(CeramicConfigs(Specs[s].ceramic, FALSE)[k], Suffix(k)))
                  \cup {<<"createSecret", "ceramic-admin">>, <<"createSecret", "ceramic-postgres-auth">>}
  <1> DEFINE cas == CasConfig(Specs[s].cas, FALSE)
             config == NetworkConfig(Specs[s])
  <1>1. Plain(cas.env)
    BY CeramicFacts
  <1>2. NeedCalls(s, "jaeger") = {}
    <2>1. NeedsAtMost(Template(s, "jaeger", FALSE), {}, {}, {})
      BY TemplateFacts, MonitoringNeeds
    <2>2. NeedCalls(s, "jaeger") \subseteq
            ({"map"} \X ({} \ UsersMaps(s))) \cup ({"createSecret"} \X {}) \cup ({"account"} \X {})
      BY <2>1, NeedCallsWithin
    <2>3. QED
      BY <2>2
  <1>3. NeedCalls(s, "prometheus") \subseteq {<<"map", "prom-config">>}
    <2>1. NeedsAtMost(Template(s, "prometheus", FALSE), {"prom-config"}, {}, {})
      BY TemplateFacts, MonitoringNeeds
    <2>2. NeedCalls(s, "prometheus") \subseteq
            ({"map"} \X ({"prom-config"} \ UsersMaps(s))) \cup ({"createSecret"} \X {}) \cup ({"account"} \X {})
      BY <2>1, NeedCallsWithin
    <2>3. QED
      BY <2>2
  <1>4. NeedCalls(s, "opentelemetry") \subseteq {<<"map", "otel-config">>, <<"account", OTEL_ACCOUNT>>}
    <2>1. NeedsAtMost(Template(s, "opentelemetry", FALSE), {"otel-config"}, {}, {OTEL_ACCOUNT})
      BY TemplateFacts, MonitoringNeeds
    <2>2. NeedCalls(s, "opentelemetry") \subseteq
            ({"map"} \X ({"otel-config"} \ UsersMaps(s))) \cup ({"createSecret"} \X {}) \cup ({"account"} \X {OTEL_ACCOUNT})
      BY <2>1, NeedCallsWithin
    <2>3. QED
      BY <2>2
  <1>5. NeedCalls(s, "cas") \subseteq {<<"createSecret", "postgres-auth">>}
    <2>1. NeedsAtMost(Template(s, "cas", FALSE), {}, {"postgres-auth"}, {})
      BY <1>1, TemplateFacts, CasNeeds
    <2>2. NeedCalls(s, "cas") \subseteq
            ({"map"} \X ({} \ UsersMaps(s))) \cup ({"createSecret"} \X {"postgres-auth"}) \cup ({"account"} \X {})
      BY <2>1, NeedCallsWithin
    <2>3. QED
      BY <2>2
  <1>6. NeedCalls(s, "cas-ipfs") \subseteq {"map"} \X DOMAIN CasMaps(cas)
    <2>1. NeedsAtMost(Template(s, "cas-ipfs", FALSE), DOMAIN CasMaps(cas), {}, {})
      BY <1>1, TemplateFacts, CasNeeds
    <2> HIDE DEF cas
    <2>2. NeedCalls(s, "cas-ipfs") \subseteq
            ({"map"} \X (DOMAIN CasMaps(cas) \ UsersMaps(s))) \cup ({"createSecret"} \X {})
              \cup ({"account"} \X {})
      BY <2>1, NeedCallsWithin
    <2>3. QED
      BY <2>2
  <1>7. NeedCalls(s, "ganache") = {} /\ NeedCalls(s, "localstack") = {}
    <2>1. /\ NeedsAtMost(Template(s, "ganache", FALSE), {}, {}, {})
          /\ NeedsAtMost(Template(s, "localstack", FALSE), {}, {}, {})
      BY <1>1, TemplateFacts, CasNeeds
    <2>2. NeedCalls(s, "ganache") = {}
      <3>1. NeedCalls(s, "ganache") \subseteq
              ({"map"} \X ({} \ UsersMaps(s))) \cup ({"createSecret"} \X {}) \cup ({"account"} \X {})
        BY <2>1, NeedCallsWithin
      <3>2. QED
        BY <3>1
    <2>3. NeedCalls(s, "localstack") = {}
      <3>1. NeedCalls(s, "localstack") \subseteq
              ({"map"} \X ({} \ UsersMaps(s))) \cup ({"createSecret"} \X {}) \cup ({"account"} \X {})
        BY <2>1, NeedCallsWithin
      <3>2. QED
        BY <3>1
    <2>4. QED
      BY <2>2, <2>3
  <1>8. NeedCalls(s, "cas-postgres") \subseteq {<<"createSecret", "postgres-auth">>}
    <2>1. NeedsAtMost(Template(s, "cas-postgres", FALSE), {}, {"postgres-auth"}, {})
      BY <1>1, TemplateFacts, CasNeeds
    <2>2. NeedCalls(s, "cas-postgres") \subseteq
            ({"map"} \X ({} \ UsersMaps(s))) \cup ({"createSecret"} \X {"postgres-auth"}) \cup ({"account"} \X {})
      BY <2>1, NeedCallsWithin
    <2>3. QED
      BY <2>2
  <1>9. ASSUME NEW k \in 1 .. Ceramics(s)
        PROVE  NeedCalls(s, CeramicName(k)) \subseteq
                 ({"map"} \X DOMAIN CeramicMaps(CeramicConfigs(Specs[s].ceramic, FALSE)[k], Suffix(k)))
                   \cup {<<"createSecret", "ceramic-admin">>, <<"createSecret", "ceramic-postgres-auth">>}
    <2> DEFINE c == CeramicConfigs(Specs[s].ceramic, FALSE)[k]
               ipfs == DOMAIN IpfsMaps(c.ipfs, Suffix(k))
               own == DOMAIN CeramicMaps(c, Suffix(k))
    <2>1. /\ Plain(c.env) /\ config.eth_rpc_url.from # "secret" /\ config.cas_api_url.from # "secret"
          /\ c.init_config_map # INIT_CONFIG_MAP_NAME => c.init_config_map \in UsersMaps(s)
      BY CeramicFacts
    <2>2. Template(s, CeramicName(k), FALSE) = CeramicSet(c, config, Suffix(k))
      BY TemplateFacts
    <2> HIDE DEF c, config
    <2>3. /\ NeedsAtMost(CeramicSet(c, config, Suffix(k)), {c.init_config_map} \cup ipfs,
                         {"ceramic-admin", "ceramic-postgres-auth"}, {})
          /\ ipfs \subseteq own
          /\ c.init_config_map = INIT_CONFIG_MAP_NAME => c.init_config_map \in own
      BY <2>1, CeramicNeeds
    <2> HIDE DEF ipfs, own
    <2> DEFINE maps == {c.init_config_map} \cup ipfs
               names == {"ceramic-admin", "ceramic-postgres-auth"}
    <2>4. NeedCalls(s, CeramicName(k)) \subseteq
            ({"map"} \X (maps \ UsersMaps(s))) \cup ({"createSecret"} \X names)
              \cup ({"account"} \X {})
      <3>1. NeedsAtMost(Template(s, CeramicName(k), FALSE), maps, names, {})
        BY <2>2, <2>3
      <3> HIDE DEF maps, names
      <3>2. QED
        BY <3>1, NeedCallsWithin
    <2>5. ({c.init_config_map} \cup ipfs) \ UsersMaps(s) \subseteq own
      BY <2>1, <2>3
    <2>6. NeedCalls(s, CeramicName(k)) \subseteq
            ({"map"} \X own)
              \cup {<<"createSecret", "ceramic-admin">>, <<"createSecret", "ceramic-postgres-auth">>}
      BY <2>4, <2>5
    <2>7. QED
      BY <2>6 DEF own, c
  <1>10. QED
    BY <1>2, <1>3, <1>4, <1>5, <1>6, <1>7, <1>8, <1>9

\* One after the other.
LEMMA Chained ==
  ASSUME NEW s, NEW a, NEW b, Sound(s, {}, a), Sound(s, {}, b)
  PROVE  Sound(s, {}, a \o b) /\ ToSet(a \o b) = ToSet(a) \cup ToSet(b)
  <1>1. {} \subseteq {} \cup ToSet(a)
    OBVIOUS
  <1>2. Sound(s, {}, a \o b)
    BY <1>1, SoundJoined
  <1>3. QED
    BY <1>2, Joined DEF Sound

\* The calls for the monitoring.
LEMMA MonitoringSound ==
  ASSUME NEW s \in AllSpecs, Accepted(s)
  PROVE  Sound(s, {}, MonitoringCalls(s))
  <1> DEFINE j == <<<<"service", "jaeger">>, <<"set", "jaeger">>>>
             pm == MapCalls(PrometheusMaps)
             p == <<<<"set", "prometheus">>>>
             r == <<<<"account", OTEL_ACCOUNT>>, <<"right", "role">>, <<"right", "binding">>>>
             om == MapCalls(OtelMaps)
             o == <<<<"service", "otel">>, <<"set", "opentelemetry">>>>
             m == IF Specs[s].pod_monitor THEN MonitorCalls ELSE <<>>
  <1>1. Sound(s, {}, <<>>)
    BY SimpleCalls, ShortSequences
  <1>2. Sound(s, {}, m)
    <2>1. Sound(s, {}, Monitor("ceramic") \o Monitor("ceramic-one"))
      BY SecretCallsSound, Chained
    <2>2. Sound(s, {}, MonitorCalls)
      BY <2>1, SecretCallsSound, Chained DEF MonitorCalls
    <2>3. QED
      BY <1>1, <2>2
  <1>3. Sound(s, {}, j)
    <2>1. IsSeq(j) /\ ToSet(j) = {<<"service", "jaeger">>, <<"set", "jaeger">>}
      BY ShortSequences
    <2>2. NeedCalls(s, "jaeger") = {}
      BY NeedsOfSets
    <2> HIDE DEF j
    <2>3. QED
      BY <2>1, <2>2, SimpleCalls DEF IsCall
  <1>4. Sound(s, {}, pm) /\ ToSet(pm) = {"map"} \X {"prom-config"}
    <2>1. DOMAIN PrometheusMaps = {"prom-config"}
      BY DEF PrometheusMaps, One
    <2>2. IsFiniteSet({"prom-config"})
      BY FS_Singleton
    <2>3. QED
      BY <2>1, <2>2, MapCallsSound
  <1>5. Sound(s, {<<"map", "prom-config">>}, p)
    <2>1. IsSeq(p) /\ ToSet(p) = {<<"set", "prometheus">>}
      BY ShortSequences
    <2>2. NeedCalls(s, "prometheus") \subseteq {<<"map", "prom-config">>}
      BY NeedsOfSets
    <2> HIDE DEF p
    <2>3. QED
      BY <2>1, <2>2, SimpleCalls DEF IsCall
  <1>6. Sound(s, {}, r) /\ <<"account", OTEL_ACCOUNT>> \in ToSet(r)
    <2> DEFINE x == <<"account", OTEL_ACCOUNT>>  y == <<"right", "role">>  z == <<"right", "binding">>
    <2>1. IsSeq(r) /\ ToSet(r) = {x, y, z}
      <3>1. r = <<x, y, z>>
        OBVIOUS
      <3> HIDE DEF x, y, z, r
      <3>2. QED
        <4>1. IsSeq(<<x, y, z>>) /\ ToSet(<<x, y, z>>) = {x, y, z}
          BY ThreeElements
        <4>2. QED
          BY <3>1, <4>1, Zenon
    <2> HIDE DEF r
    <2>2. QED
      BY <2>1, SimpleCalls DEF IsCall
  <1>7. Sound(s, {}, om) /\ ToSet(om) = {"map"} \X {"otel-config"}
    <2>1. DOMAIN OtelMaps = {"otel-config"}
      BY DEF OtelMaps, One
    <2>2. IsFiniteSet({"otel-config"})
      BY FS_Singleton
    <2>3. QED
      BY <2>1, <2>2, MapCallsSound
  <1>8. Sound(s, {<<"map", "otel-config">>, <<"account", OTEL_ACCOUNT>>}, o)
    <2>1. IsSeq(o) /\ ToSet(o) = {<<"service", "otel">>, <<"set", "opentelemetry">>}
      BY ShortSequences
    <2>2. NeedCalls(s, "opentelemetry") \subseteq {<<"map", "otel-config">>, <<"account", OTEL_ACCOUNT>>}
      BY NeedsOfSets
    <2> HIDE DEF o
    <2>3. QED
      BY <2>1, <2>2, SimpleCalls DEF IsCall
  <1> HIDE DEF j, pm, p, r, om, o, m
  <1>9. Sound(s, {}, m \o j)
    BY <1>2, <1>3, Chained
  <1>10. Sound(s, {}, (m \o j) \o pm) /\ <<"map", "prom-config">> \in ToSet((m \o j) \o pm)
    <2> DEFINE front == m \o j
    <2>1. Sound(s, {}, front \o pm) /\ ToSet(front \o pm) = ToSet(front) \cup ToSet(pm)
      <3> HIDE DEF front
      <3> QED BY <1>4, <1>9, Chained DEF front
    <2>2. QED
      BY <1>4, <2>1
  <1>11. Sound(s, {}, ((m \o j) \o pm) \o p)
    <2>1. {<<"map", "prom-config">>} \subseteq {} \cup ToSet((m \o j) \o pm)
      BY <1>10
    <2>2. QED
      BY <1>5, <1>10, <2>1, SoundJoined
  <1> DEFINE a == ((m \o j) \o pm) \o p
  <1>12. Sound(s, {}, a \o r) /\ <<"account", OTEL_ACCOUNT>> \in ToSet(a \o r)
    BY <1>6, <1>11, Chained
  <1>13. Sound(s, {}, (a \o r) \o om)
         /\ {<<"map", "otel-config">>, <<"account", OTEL_ACCOUNT>>} \subseteq {} \cup ToSet((a \o r) \o om)
    <2> DEFINE front == a \o r
    <2>1. Sound(s, {}, front \o om) /\ ToSet(front \o om) = ToSet(front) \cup ToSet(om)
      <3> HIDE DEF a, front
      <3> QED BY <1>7, <1>12, Chained DEF front
    <2> HIDE DEF a
    <2>2. QED
      BY <1>7, <1>12, <2>1
  <1>14. Sound(s, {}, ((a \o r) \o om) \o o)
    BY <1>8, <1>13, SoundJoined
  <1>15. MonitoringCalls(s) = IF ~ Specs[s].namespaced THEN <<>> ELSE ((a \o r) \o om) \o o
    BY DEF MonitoringCalls, m, j, pm, p, r, om, o
  <1>16. QED
    BY <1>1, <1>14, <1>15

\* The calls for the anchor service.
LEMMA CasCallsSound ==
  ASSUME NEW s \in AllSpecs, Accepted(s)
  PROVE  Sound(s, {}, CasCalls(s))
  <1> DEFINE cas == CasConfig(Specs[s].cas, FALSE)
             maps == MapCalls(CasMaps(cas))
             secret == SecretCalls("postgres-auth")
             names == <<"cas", "cas-ipfs", "ganache", "cas-postgres", "localstack">>
             services == Calls("service", names)
             sets == Calls("set", names)
             pre == ({"map"} \X DOMAIN CasMaps(cas)) \cup {<<"createSecret", "postgres-auth">>}
  <1>1. Sound(s, {}, <<>>)
    BY SimpleCalls, ShortSequences
  <1>2. Sound(s, {}, maps) /\ ToSet(maps) = {"map"} \X DOMAIN CasMaps(cas)
    <2>1. IsFiniteSet(DOMAIN CasMaps(cas))
      BY CeramicFacts, CasNeeds
    <2> HIDE DEF cas
    <2>2. QED
      BY <2>1, MapCallsSound
  <1>3. Sound(s, {}, secret) /\ <<"createSecret", "postgres-auth">> \in ToSet(secret)
    BY SecretCallsSound
  <1>4. names \in Seq({"cas", "cas-ipfs", "ganache", "cas-postgres", "localstack"}) /\ Len(names) = 5
    OBVIOUS
  <1>5. ASSUME NEW kind
        PROVE  /\ IsSeq(Calls(kind, names))
               /\ \A c \in ToSet(Calls(kind, names)) :
                    \E n \in {"cas", "cas-ipfs", "ganache", "cas-postgres", "localstack"} : c = <<kind, n>>
    <2> DEFINE q == Calls(kind, names)
               N == {"cas", "cas-ipfs", "ganache", "cas-postgres", "localstack"}
    <2>1. \A k \in 1 .. 5 : names[k] \in N
      BY <1>4
    <2>2. q = [k \in 1 .. 5 |-> <<kind, names[k]>>]
      BY <1>4 DEF Calls
    <2> HIDE DEF names, q, N
    <2>3. q = [k \in 1 .. 5 |-> q[k]]
      BY <2>2
    <2>4. IsSeq(q) /\ Len(q) = 5
      BY <2>3, MakeSeq
    <2>5. ToSet(q) = {q[k] : k \in 1 .. 5}
      BY <2>4, SeqFacts
    <2>6. \A c \in ToSet(q) : \E n \in N : c = <<kind, n>>
      BY <2>1, <2>2, <2>5
    <2>7. QED
      BY <2>4, <2>6 DEF q, N
  <1>6. Sound(s, {}, services)
    <2>1. IsSeq(services) /\ \A c \in ToSet(services) : IsCall(c) /\ c[1] = "service"
      <3> HIDE DEF names
      <3> QED BY <1>5 DEF IsCall
    <2> HIDE DEF services
    <2>2. QED
      BY <2>1, SimpleCalls
  <1>7. Sound(s, pre, sets)
    <2>1. \A n \in {"cas", "cas-ipfs", "ganache", "cas-postgres", "localstack"} : NeedCalls(s, n) \subseteq pre
      <3>1. /\ NeedCalls(s, "cas") \subseteq pre /\ NeedCalls(s, "cas-ipfs") \subseteq pre
            /\ NeedCalls(s, "ganache") \subseteq pre /\ NeedCalls(s, "cas-postgres") \subseteq pre
            /\ NeedCalls(s, "localstack") \subseteq pre
        <4>1. /\ NeedCalls(s, "cas") \subseteq {<<"createSecret", "postgres-auth">>}
              /\ NeedCalls(s, "cas-ipfs") \subseteq {"map"} \X DOMAIN CasMaps(cas)
              /\ NeedCalls(s, "ganache") = {} /\ NeedCalls(s, "localstack") = {}
              /\ NeedCalls(s, "cas-postgres") \subseteq {<<"createSecret", "postgres-auth">>}
          BY NeedsOfSets
        <4> HIDE DEF cas
        <4>2. QED
          BY <4>1
      <3> HIDE DEF pre
      <3>2. QED
        BY <3>1
    <2>2. /\ IsSeq(sets)
          /\ \A c \in ToSet(sets) :
               \E n \in {"cas", "cas-ipfs", "ganache", "cas-postgres", "localstack"} : c = <<"set", n>>
      <3> HIDE DEF names
      <3> QED BY <1>5
    <2> HIDE DEF sets, pre
    <2>3. \A c \in ToSet(sets) : IsCall(c) /\ c[1] = "set" /\ NeedCalls(s, c[2]) \subseteq pre
      BY <2>1, <2>2 DEF IsCall
    <2>4. QED
      BY <2>2, <2>3, SimpleCalls
  <1>8. CasCalls(s) = IF Specs[s].network_type # "local" THEN <<>>
                      ELSE ((maps \o secret) \o services) \o sets
    BY DEF CasCalls
  <1> HIDE DEF maps, secret, services, sets, cas
  <1>9. Sound(s, {}, maps \o secret) /\ ToSet(maps \o secret) = ToSet(maps) \cup ToSet(secret)
    BY <1>2, <1>3, Chained
  <1> DEFINE front == maps \o secret
  <1>10. Sound(s, {}, front \o services) /\ ToSet(front \o services) = ToSet(front) \cup ToSet(services)
    <2> HIDE DEF front
    <2> QED BY <1>6, <1>9, Chained DEF front
  <1>11. pre \subseteq {} \cup ToSet(front \o services)
    BY <1>2, <1>3, <1>9, <1>10
  <1>12. Sound(s, {}, (front \o services) \o sets)
    <2> HIDE DEF front, pre
    <2> QED BY <1>7, <1>10, <1>11, SoundJoined
  <1>13. QED
    BY <1>1, <1>8, <1>12

\* The secret of the admin.
LEMMA AdminCallsSound ==
  ASSUME NEW s
  PROVE  Sound(s, {}, AdminCalls(s)) /\ <<"createSecret", "ceramic-admin">> \in ToSet(AdminCalls(s))
  <1> DEFINE y == Specs[s].private_key_secret[1]
             a == <<"findSecret", "ceramic-admin">>  b == <<"source", y>>
             c == <<"createSecret", "ceramic-admin">>
  <1>1. /\ Sound(s, {}, SecretCalls("ceramic-admin")) /\ c \in ToSet(SecretCalls("ceramic-admin"))
        /\ Sound(s, {}, <<a, b, c>>)
    BY SecretCallsSound
  <1>2. c \in ToSet(<<a, b, c>>)
    <2> HIDE DEF a, b, c
    <2>1. ToSet(<<a, b, c>>) = {a, b, c}
      BY ThreeElements
    <2>2. QED
      BY <2>1
  <1>3. AdminCalls(s) = IF Specs[s].private_key_secret = <<>> THEN SecretCalls("ceramic-admin") ELSE <<a, b, c>>
    BY DEF AdminCalls
  <1> HIDE DEF a, b, c
  <1>4. QED
    BY <1>1, <1>2, <1>3 DEF c

\* The concatenation of parts in order is in order.
LEMMA FlattenSound ==
  ASSUME NEW s, NEW pre, NEW seqs, IsSeq(seqs), \A k \in 1 .. Len(seqs) : Sound(s, pre, seqs[k])
  PROVE  Sound(s, pre, FlattenSeq(seqs))
  <1> DEFINE n == Len(seqs)
  <1>1. n \in Nat
    BY SeqFacts
  <1>2. CASE n = 0
    <2>1. FlattenSeq(seqs) = seqs
      BY <1>2 DEF FlattenSeq
    <2>2. ToSet(seqs) = {}
      BY <1>2, SeqFacts
    <2>3. QED
      BY <2>1, <2>2, SimpleCalls
  <1>3. CASE n # 0
    <2> DEFINE f == CHOOSE g : Flat(g, seqs, n)
    <2>1. FlattenSeq(seqs) = f[n]
      BY <1>3 DEF FlattenSeq, Flat
    <2>2. Flat(f, seqs, n)
      BY <1>1, FlatExists
    <2>3. \A i \in 1 .. n : f[i] = IF i = 1 THEN seqs[i] ELSE f[i - 1] \o seqs[i]
      <3> HIDE DEF f
      <3> QED BY <2>2 DEF Flat
    <2> HIDE DEF f
    <2> DEFINE Wrong == {m \in 1 .. n : ~ Sound(s, pre, f[m])}
    <2>4. SUFFICES ASSUME Wrong # {} PROVE FALSE
      BY <1>1, <1>3, <2>1
    <2>5. PICK m \in Wrong : \A k \in Wrong : m <= k
      <3>1. Wrong \subseteq Nat
        OBVIOUS
      <3> HIDE DEF Wrong
      <3>2. QED
        BY <2>4, <3>1, LeastNumber
    <2>6. m \in 1 .. n /\ ~ Sound(s, pre, f[m])
      OBVIOUS
    <2>7. m # 1
      BY <2>3, <2>6
    <2>8. m - 1 \in 1 .. n /\ m - 1 \notin Wrong
      <3>1. m - 1 \in 1 .. n /\ m - 1 < m
        BY <1>1, <2>6, <2>7
      <3> HIDE DEF Wrong
      <3>2. QED
        BY <2>5, <2>6, <3>1
    <2>9. Sound(s, pre, f[m - 1])
      BY <2>8
    <2>10. Sound(s, pre, f[m - 1] \o seqs[m])
      <3>1. pre \subseteq pre \cup ToSet(f[m - 1])
        OBVIOUS
      <3>2. QED
        BY <2>6, <2>9, <3>1, SoundJoined
    <2>11. QED
      BY <2>3, <2>6, <2>7, <2>10
  <1>4. QED
    BY <1>2, <1>3

\* The calls for the ceramics.
LEMMA CeramicCallsSound ==
  ASSUME NEW s \in AllSpecs, Accepted(s)
  PROVE  Sound(s, {<<"createSecret", "ceramic-admin">>, <<"createSecret", "ceramic-postgres-auth">>},
               CeramicCalls(s))
  <1> DEFINE pre == {<<"createSecret", "ceramic-admin">>, <<"createSecret", "ceramic-postgres-auth">>}
             n == Ceramics(s)
             MapsFor(k) == CeramicMaps(CeramicConfigs(Specs[s].ceramic, FALSE)[k], Suffix(k))
             Ends(k) == <<<<"service", CeramicName(k)>>, <<"set", CeramicName(k)>>>>
             Part(k) == MapCalls(MapsFor(k)) \o Ends(k)
             seqs == [k \in 1 .. n |-> Part(k)]
  <1>1. CeramicCalls(s) = FlattenSeq(seqs)
    BY DEF CeramicCalls
  <1>2. n \in Nat
    BY CeramicFacts
  <1>3. IsSeq(seqs) /\ Len(seqs) = n /\ \A k \in 1 .. n : seqs[k] = Part(k)
    <2>1. seqs = [k \in 1 .. n |-> seqs[k]] /\ \A k \in 1 .. n : seqs[k] = Part(k)
      OBVIOUS
    <2> HIDE DEF seqs, Part, n
    <2>2. QED
      BY <1>2, <2>1, MakeSeq
  <1>4. ASSUME NEW k \in 1 .. n
        PROVE  Sound(s, pre, Part(k))
    <2>1. IsFiniteSet(DOMAIN MapsFor(k))
      BY CeramicFacts, CeramicNeeds
    <2>2. Sound(s, {}, MapCalls(MapsFor(k))) /\ ToSet(MapCalls(MapsFor(k))) = {"map"} \X DOMAIN MapsFor(k)
      <3> HIDE DEF MapsFor
      <3> QED BY <2>1, MapCallsSound
    <2> DEFINE more == ({"map"} \X DOMAIN MapsFor(k)) \cup pre
               name == CeramicName(k)
    <2>3. Sound(s, more, Ends(k))
      <3> DEFINE a == <<"service", name>>  b == <<"set", name>>
      <3>1. NeedCalls(s, name) \subseteq more
        BY NeedsOfSets
      <3>2. IsCall(a) /\ a[1] = "service" /\ IsCall(b) /\ b[1] = "set" /\ b[2] = name
        BY DEF IsCall
      <3>3. Ends(k) = <<a, b>>
        OBVIOUS
      <3> HIDE DEF a, b, more, Ends, name
      <3>4. IsSeq(<<a, b>>) /\ ToSet(<<a, b>>) = {a, b}
        BY ShortSequences
      <3>5. \A c \in {a, b} :
              /\ IsCall(c)
              /\ c[1] \notin {"findSecret", "createSecret", "source", "findMonitor"}
              /\ c[1] = "set" => NeedCalls(s, c[2]) \subseteq more
        BY <3>1, <3>2
      <3>6. QED
        BY <3>3, <3>4, <3>5, SimpleCalls
    <2> HIDE DEF Ends, MapsFor, pre
    <2>4. Sound(s, pre, MapCalls(MapsFor(k)))
      BY <2>2 DEF Sound, NeedsBefore
    <2>5. more \subseteq pre \cup ToSet(MapCalls(MapsFor(k)))
      BY <2>2
    <2>6. QED
      <3> HIDE DEF more
      <3> QED BY <2>3, <2>4, <2>5, SoundJoined
  <1>5. QED
    <2> HIDE DEF pre, Part, seqs, n
    <2>1. \A k \in 1 .. Len(seqs) : Sound(s, pre, seqs[k])
      BY <1>3, <1>4
    <2>2. Sound(s, pre, FlattenSeq(seqs))
      BY <1>3, <2>1, FlattenSound
    <2>3. QED
      BY <1>1, <2>2 DEF pre

\* The loads of the flag.
LEMMA LoadCallsSound ==
  ASSUME NEW s \in AllSpecs
  PROVE  Sound(s, {}, LoadCalls(s))
  <1> DEFINE n == Ceramics(s)
             load(k) == <<"load", CeramicName(k)>>
             Part(k) == IF k <= Len(Specs[s].ceramic) /\ Specs[s].ceramic[k].ipfs # <<>>
                          THEN <<load(k), load(k)>> ELSE <<load(k)>>
             seqs == [k \in 1 .. n |-> Part(k)]
  <1>1. LoadCalls(s) = FlattenSeq(seqs)
    BY DEF LoadCalls
  <1>2. n \in Nat
    BY CeramicFacts
  <1>3. IsSeq(seqs) /\ Len(seqs) = n /\ \A k \in 1 .. n : seqs[k] = Part(k)
    <2>1. seqs = [k \in 1 .. n |-> seqs[k]] /\ \A k \in 1 .. n : seqs[k] = Part(k)
      OBVIOUS
    <2> HIDE DEF seqs, Part, n
    <2>2. QED
      BY <1>2, <2>1, MakeSeq
  <1>4. ASSUME NEW k \in 1 .. n
        PROVE  Sound(s, {}, Part(k))
    <2>1. IsCall(load(k)) /\ load(k)[1] = "load"
      BY DEF IsCall
    <2> HIDE DEF load
    <2>2. IsSeq(Part(k)) /\ ToSet(Part(k)) = {load(k)}
      BY ShortSequences
    <2> HIDE DEF Part
    <2>3. QED
      BY <2>1, <2>2, SimpleCalls
  <1>5. QED
    <2> HIDE DEF Part, seqs, n
    <2>1. \A k \in 1 .. Len(seqs) : Sound(s, {}, seqs[k])
      BY <1>3, <1>4
    <2>2. Sound(s, {}, FlattenSeq(seqs))
      BY <1>3, <2>1, FlattenSound
    <2>3. QED
      BY <1>1, <2>2

\* All calls of a pass.
LEMMA AllCallsSound ==
  ASSUME NEW s \in AllSpecs, Accepted(s)
  PROVE  Sound(s, {}, AllCalls(s)) /\ Len(AllCalls(s)) > 0
  <1> DEFINE l == LoadCalls(s)  n == <<<<"namespace", "">>>>  a == l \o n  b == MonitoringCalls(s)  c == CasCalls(s)  d == AdminCalls(s)
             e == <<<<"list", "">>>>  f == SecretCalls("ceramic-postgres-auth")  g == CeramicCalls(s)
             h == MapCalls(PeersMap)
             pre == {<<"createSecret", "ceramic-admin">>, <<"createSecret", "ceramic-postgres-auth">>}
  <1>1. \A x : x \in {"namespace", "list"} => Sound(s, {}, <<<<x, "">>>>)
    <2> SUFFICES ASSUME NEW x \in {"namespace", "list"} PROVE Sound(s, {}, <<<<x, "">>>>)
      OBVIOUS
    <2> DEFINE y == <<x, "">>
    <2>1. IsCall(y) /\ y[1] = x
      BY DEF IsCall
    <2> HIDE DEF y
    <2>2. IsSeq(<<y>>) /\ ToSet(<<y>>) = {y}
      BY ShortSequences
    <2>3. Sound(s, {}, <<y>>)
      BY <2>1, <2>2, SimpleCalls
    <2>4. QED
      BY <2>3 DEF y
  <1>a. Sound(s, {}, l) /\ Sound(s, {}, n) /\ Len(n) = 1
    BY <1>1, LoadCallsSound, ShortSequences
  <1>f. Sound(s, {}, a) /\ Len(a) > 0
    <2> HIDE DEF l, n
    <2>1. IsSeq(l) /\ IsSeq(n) /\ Sound(s, {}, l \o n)
      BY <1>a, Chained DEF Sound
    <2>2. Len(l \o n) = Len(l) + Len(n) /\ Len(l) \in Nat
      BY <2>1, Joined, SeqFacts
    <2>3. QED
      BY <1>a, <2>1, <2>2
  <1>2. /\ Sound(s, {}, a) /\ Sound(s, {}, b) /\ Sound(s, {}, c) /\ Sound(s, {}, d)
        /\ Sound(s, {}, e) /\ Sound(s, {}, f) /\ Sound(s, pre, g)
        /\ <<"createSecret", "ceramic-admin">> \in ToSet(d)
        /\ <<"createSecret", "ceramic-postgres-auth">> \in ToSet(f)
    BY <1>1, <1>f, MonitoringSound, CasCallsSound, AdminCallsSound, SecretCallsSound, CeramicCallsSound
  <1>3. Sound(s, {}, h)
    <2>1. DOMAIN PeersMap = {PEERS_CONFIG_MAP_NAME}
      BY DEF PeersMap, One
    <2>2. IsFiniteSet({PEERS_CONFIG_MAP_NAME})
      BY FS_Singleton
    <2>3. QED
      BY <2>1, <2>2, MapCallsSound
  <1>4. Len(a) > 0
    BY <1>f
  <1>5. AllCalls(s) = ((((((a \o b) \o c) \o d) \o e) \o f) \o g) \o h
    BY DEF AllCalls
  <1> HIDE DEF a, b, c, d, e, f, g, h
  <1> DEFINE ab == a \o b  ac == ab \o c  ad == ac \o d  ae == ad \o e  af == ae \o f  ag == af \o g
             ah == ag \o h
  <1>6. Sound(s, {}, ab)
    BY <1>2, Chained
  <1>7. Sound(s, {}, ac)
    <2> HIDE DEF ab
    <2> QED BY <1>2, <1>6, Chained
  <1>8. Sound(s, {}, ad) /\ ToSet(ad) = ToSet(ac) \cup ToSet(d)
    <2> HIDE DEF ac
    <2>1. Sound(s, {}, ac) /\ Sound(s, {}, d)
      BY <1>2, <1>7
    <2>2. QED
      BY <2>1, Chained
  <1>9. Sound(s, {}, ae) /\ ToSet(ae) = ToSet(ad) \cup ToSet(e)
    <2> HIDE DEF ad
    <2>1. Sound(s, {}, ad) /\ Sound(s, {}, e)
      BY <1>2, <1>8
    <2>2. QED
      BY <2>1, Chained
  <1>10. Sound(s, {}, af) /\ ToSet(af) = ToSet(ae) \cup ToSet(f)
    <2> HIDE DEF ae
    <2>1. Sound(s, {}, ae) /\ Sound(s, {}, f)
      BY <1>2, <1>9
    <2>2. QED
      BY <2>1, Chained
  <1>11. Sound(s, {}, ag)
    <2>1. pre \subseteq {} \cup ToSet(af)
      <3> HIDE DEF ad, ae, af
      <3> QED BY <1>2, <1>8, <1>9, <1>10
    <2> HIDE DEF af, pre
    <2>2. QED
      BY <1>2, <1>10, <2>1, SoundJoined
  <1>12. Sound(s, {}, ah)
    <2> HIDE DEF ag
    <2> QED BY <1>3, <1>11, Chained
  <1>13. Len(ah) > 0
    <2>1. \A x, y : IsSeq(x) /\ IsSeq(y) /\ Len(x) > 0 => Len(x \o y) > 0
      BY Joined, SeqFacts
    <2>2. /\ IsSeq(a) /\ IsSeq(b) /\ IsSeq(c) /\ IsSeq(d) /\ IsSeq(e) /\ IsSeq(f) /\ IsSeq(g) /\ IsSeq(h)
          /\ IsSeq(ab) /\ IsSeq(ac) /\ IsSeq(ad) /\ IsSeq(ae) /\ IsSeq(af) /\ IsSeq(ag)
      <3> HIDE DEF ab, ac, ad, ae, af, ag
      <3> QED BY <1>2, <1>3, <1>6, <1>7, <1>8, <1>9, <1>10, <1>11 DEF Sound
    <2>3. Len(ab) > 0
      BY <1>4, <2>1, <2>2
    <2>4. Len(ac) > 0
      <3> HIDE DEF ab
      <3> QED BY <2>1, <2>2, <2>3
    <2>5. Len(ad) > 0
      <3> HIDE DEF ac
      <3> QED BY <2>1, <2>2, <2>4
    <2>6. Len(ae) > 0
      <3> HIDE DEF ad
      <3> QED BY <2>1, <2>2, <2>5
    <2>7. Len(af) > 0
      <3> HIDE DEF ae
      <3> QED BY <2>1, <2>2, <2>6
    <2>8. Len(ag) > 0
      <3> HIDE DEF af
      <3> QED BY <2>1, <2>2, <2>7
    <2>9. QED
      <3> HIDE DEF ag
      <3> QED BY <2>1, <2>2, <2>8
  <1>14. QED
    BY <1>5, <1>12, <1>13

\* The calls of a pass over spec s.
LEMMA PassCallsFacts ==
  ASSUME NEW s \in AllSpecs
  PROVE  /\ Sound(s, {}, PassCalls[s])
         /\ Accepted(s) => PassCalls[s] # <<>>
  <1>1. PassCalls[s] = IF Accepted(s) THEN AllCalls(s) ELSE <<>>
    <2> DEFINE f == [z \in AllSpecs |-> IF Accepted(z) THEN AllCalls(z) ELSE <<>>]
    <2>1. PassCalls = f
      <3> HIDE DEF f
      <3>1. Table(f) = f
        BY TableValue
      <3>2. QED
        BY <3>1 DEF PassCalls, f
    <2>2. QED
      BY <2>1
  <1>2. Sound(s, {}, <<>>)
    BY SimpleCalls, ShortSequences
  <1>3. CASE Accepted(s)
    <2>1. Sound(s, {}, AllCalls(s)) /\ Len(AllCalls(s)) > 0
      BY <1>3, AllCallsSound
    <2>2. QED
      BY <1>1, <1>3, <2>1, SeqFacts DEF Sound
  <1>4. CASE ~ Accepted(s)
    BY <1>1, <1>2, <1>4
  <1>5. QED
    BY <1>3, <1>4

-----------------------------------------------------------------------------
(* The invariant. *)

\* The properties speak of the network created first, while it is there.
Alive == net.exists /\ net.uid = 1

\* What the call makes is there.
Lasting == {"map", "account", "createSecret"}
Have(c) == IF c[1] = "createSecret" THEN c[2] \in DOMAIN secrets ELSE c \in DOMAIN objs

\* What is left of a pass that makes the calls P: m deletions, and P from its k-th call.
Left(q, P, m, k) ==
  /\ IsSeq(q) /\ Len(q) = m + Len(P) + 1 - k
  /\ \A i \in 1 .. m : q[i][1] \in {"deleteSet", "deleteService"}
  /\ \A i \in 1 .. Len(P) + 1 - k : q[m + i] = P[k - 1 + i]

\* What the calls before the k-th make is there; a secret about to be created is not.
Applied(P, k) == \A j \in 1 .. k - 1 : P[j][1] \in Lasting => Have(P[j])
MissingAt(P, k) ==
  k <= Len(P) => /\ P[k][1] = "createSecret" => P[k][2] \notin DOMAIN secrets
                 /\ P[k][1] = "source" => P[k + 1][2] \notin DOMAIN secrets

Reached(P, m, k) ==
  /\ m \in Nat /\ k \in 1 .. Len(P) + 1 /\ Left(pass.todo, P, m, k)
  /\ Alive => Applied(P, k) /\ MissingAt(P, k)

\* A pass is at the calls of the spec it started from, or deletes its network.
PassInv ==
  \/ pass = Idle
  \/ /\ pass = [todo |-> pass.todo, uid |-> pass.uid, spec |-> pass.spec, read |-> pass.read]
     /\ pass.uid \in 1 .. net.uid /\ pass.spec \in AllSpecs /\ pass.todo # <<>>
     /\ \/ pass.todo = <<<<"delete", "">>>>
        \/ \E m, k \in Nat : Reached(PassCalls[pass.spec], m, k)

Networks == [exists : BOOLEAN, uid : Nat \ {0}, spec : AllSpecs]

\* What surrounds the pass.
Types ==
  /\ net \in Networks /\ cache \in Networks /\ cache.uid <= net.uid
  /\ aged \subseteq 1 .. net.uid
  /\ flag \in BOOLEAN /\ other.mode \in BOOLEAN /\ left \in HistoryType
  /\ namespace \in 0 .. net.uid
  /\ DOMAIN password \subseteq Databases /\ DOMAIN rights \subseteq {"role", "binding"}
  /\ \A n \in DOMAIN secrets : secrets[n].owner \in 1 .. net.uid

\* Every object is one of those a pass over its spec applies.
ObjectsKnown ==
  \A x \in DOMAIN objs :
    /\ x = <<x[1], x[2]>> /\ objs[x].owner \in 1 .. net.uid /\ objs[x].spec \in AllSpecs
    /\ x[1] = "set" => x \in ToSet(PassCalls[objs[x].spec])

\* What the sets in the cluster need is there.
SetsProvided ==
  Alive => \A x \in DOMAIN objs : x[1] = "set" =>
             \A c \in NeedCalls(objs[x].spec, x[2]) : Have(c)

IInv == Types /\ ObjectsKnown /\ PassInv /\ SetsProvided /\ SecretsKept

\* The first of a sequence and the rest.
LEMMA TailFacts ==
  ASSUME NEW q, IsSeq(q), q # <<>>
  PROVE  /\ Head(q) = q[1] /\ IsSeq(Tail(q)) /\ Len(q) \in Nat /\ Len(q) > 0
         /\ Len(Tail(q)) = Len(q) - 1
         /\ \A i \in 1 .. Len(q) - 1 : Tail(q)[i] = q[i + 1]
  <1>1. PICK S : q \in Seq(S)
    BY DEF IsSeq
  <1>2. Tail(q) \in Seq(S) /\ Len(Tail(q)) = Len(q) - 1 /\ Len(q) \in Nat
        /\ \A i \in 1 .. Len(Tail(q)) : Tail(q)[i] = q[i + 1]
    BY <1>1, HeadTailProperties, LenProperties
  <1>3. Head(q) = q[1]
    BY <1>1
  <1>4. QED
    BY <1>1, <1>2, <1>3, SeqFacts DEF IsSeq

\* The next call is a deletion or the k-th of P, and then the rest is left.
LEMMA LeftTail ==
  ASSUME NEW q, NEW P, IsSeq(P), NEW m \in Nat, NEW k \in 1 .. Len(P) + 1, Left(q, P, m, k), q # <<>>
  PROVE  \/ m > 0 /\ Head(q)[1] \in {"deleteSet", "deleteService"} /\ Left(Tail(q), P, m - 1, k)
         \/ m = 0 /\ k <= Len(P) /\ Head(q) = P[k] /\ Left(Tail(q), P, 0, k + 1)
  <1>1. /\ Head(q) = q[1] /\ IsSeq(Tail(q)) /\ Len(q) \in Nat /\ Len(q) > 0
        /\ Len(Tail(q)) = Len(q) - 1
        /\ \A i \in 1 .. Len(q) - 1 : Tail(q)[i] = q[i + 1]
    BY TailFacts DEF Left
  <1>2. Len(P) \in Nat
    BY SeqFacts
  <1>3. /\ Len(q) = m + Len(P) + 1 - k
        /\ \A i \in 1 .. m : q[i][1] \in {"deleteSet", "deleteService"}
        /\ \A i \in 1 .. Len(P) + 1 - k : q[m + i] = P[k - 1 + i]
    BY DEF Left
  <1>4. CASE m > 0
    <2>1. \A i \in 1 .. m - 1 : Tail(q)[i][1] \in {"deleteSet", "deleteService"}
      BY <1>1, <1>2, <1>3
    <2>2. ASSUME NEW i \in 1 .. Len(P) + 1 - k
          PROVE  Tail(q)[m - 1 + i] = P[k - 1 + i]
      <3>1. m - 1 + i \in 1 .. Len(q) - 1 /\ m - 1 + i + 1 = m + i
        BY <1>2, <1>3, <1>4
      <3>2. Tail(q)[m - 1 + i] = q[m + i]
        BY <1>1, <3>1
      <3>3. QED
        BY <1>3, <3>2
    <2>3. Len(Tail(q)) = m - 1 + Len(P) + 1 - k
      BY <1>1, <1>2, <1>3
    <2>4. Left(Tail(q), P, m - 1, k)
      BY <1>1, <2>1, <2>2, <2>3 DEF Left
    <2>5. QED
      BY <1>1, <1>3, <1>4, <2>4
  <1>5. CASE m = 0
    <2>1. k <= Len(P) /\ Len(q) = Len(P) + 1 - k
      BY <1>1, <1>2, <1>3, <1>5
    <2>2. q[1] = P[k]
      <3>1. 1 \in 1 .. Len(P) + 1 - k
        BY <1>2, <2>1
      <3>2. q[0 + 1] = P[k - 1 + 1]
        BY <1>3, <1>5, <3>1
      <3>3. QED
        BY <3>2
    <2>3. ASSUME NEW i \in 1 .. Len(P) + 1 - (k + 1)
          PROVE  Tail(q)[0 + i] = P[(k + 1) - 1 + i]
      <3>1. i + 1 \in 1 .. Len(P) + 1 - k /\ i \in 1 .. Len(q) - 1
        BY <1>2, <2>1
      <3>2. q[0 + (i + 1)] = P[k - 1 + (i + 1)]
        BY <1>3, <1>5, <3>1
      <3>3. Tail(q)[i] = q[i + 1]
        BY <1>1, <3>1
      <3>4. 0 + (i + 1) = i + 1 /\ k - 1 + (i + 1) = (k + 1) - 1 + i /\ 0 + i = i
        OBVIOUS
      <3>5. QED
        BY <3>2, <3>3, <3>4
    <2>4. Len(Tail(q)) = 0 + Len(P) + 1 - (k + 1)
      BY <1>1, <1>2, <2>1
    <2>5. Left(Tail(q), P, 0, k + 1)
      BY <1>1, <2>3, <2>4 DEF Left
    <2>6. QED
      BY <1>1, <1>5, <2>1, <2>2, <2>5
  <1>6. QED
    BY <1>4, <1>5

\* What the linking of the calls says of neighbours.
LEMMA Neighbours ==
  ASSUME NEW s, NEW pre, NEW P, Sound(s, pre, P), NEW k \in 1 .. Len(P)
  PROVE  /\ k + 1 <= Len(P) /\ P[k + 1][1] = "createSecret" =>
              P[k] = <<"findSecret", P[k + 1][2]>> \/ P[k][1] = "source"
         /\ k + 1 <= Len(P) /\ P[k + 1][1] = "source" =>
              /\ k + 2 <= Len(P) /\ P[k + 2][1] = "createSecret"
              /\ P[k] = <<"findSecret", P[k + 2][2]>>
         /\ P[k][1] = "source" => k + 1 <= Len(P) /\ P[k + 1][1] = "createSecret"
         /\ P[k][1] = "findMonitor" => k + 1 <= Len(P) /\ P[k + 1][1] = "createMonitor"
         /\ P[k][1] = "findSecret" =>
              \/ k + 1 <= Len(P) /\ P[k + 1] = <<"createSecret", P[k][2]>>
              \/ k + 2 <= Len(P) /\ P[k + 1][1] = "source" /\ P[k + 2] = <<"createSecret", P[k][2]>>
         /\ P[1][1] \notin {"createSecret", "source"}
  <1>1. IsSeq(P) /\ Len(P) \in Nat /\ \A j \in 1 .. Len(P) : LinkedAt(P, j)
    BY SeqFacts DEF Sound, Linked
  <1>2. LinkedAt(P, k) /\ LinkedAt(P, 1)
    BY <1>1
  <1>3. k + 1 <= Len(P) => LinkedAt(P, k + 1) /\ k + 1 - 1 = k /\ k + 1 + 1 = k + 2
    BY <1>1
  <1>4. k + 1 <= Len(P) /\ P[k + 1][1] = "createSecret" =>
          P[k] = <<"findSecret", P[k + 1][2]>> \/ P[k][1] = "source"
    BY <1>3 DEF LinkedAt
  <1>5. k + 1 <= Len(P) /\ P[k + 1][1] = "source" =>
              /\ k + 2 <= Len(P) /\ P[k + 2][1] = "createSecret"
              /\ P[k] = <<"findSecret", P[k + 2][2]>>
    BY <1>3 DEF LinkedAt
  <1>6. QED
    BY <1>2, <1>4, <1>5 DEF LinkedAt

-----------------------------------------------------------------------------
(* Steps of the pass. *)

\* What stays of the pass when it goes on with q.
LEMMA GoOnFacts ==
  ASSUME PassInv, pass.todo # <<>>, NEW q, GoOn(q)
  PROVE  \/ q = <<>> /\ pass' = Idle
         \/ /\ q # <<>> /\ pass'.todo = q /\ pass'.uid = pass.uid /\ pass'.spec = pass.spec
            /\ pass' = [todo |-> pass'.todo, uid |-> pass'.uid, spec |-> pass'.spec, read |-> pass'.read]
  <1>1. pass # Idle
    BY DEF Idle
  <1>2. pass = [todo |-> pass.todo, uid |-> pass.uid, spec |-> pass.spec, read |-> pass.read]
    BY <1>1 DEF PassInv
  <1>3. CASE q = <<>>
    BY <1>3 DEF GoOn
  <1>4. CASE q # <<>>
    <2> DEFINE l == Read
    <2>1. pass' = [pass EXCEPT !.todo = q, !.read = l]
      BY <1>4 DEF GoOn
    <2> HIDE DEF l
    <2>2. pass' = [todo |-> q, uid |-> pass.uid, spec |-> pass.spec, read |-> l]
      BY <1>2, <2>1
    <2>3. QED
      BY <1>4, <2>2
  <1>5. QED
    BY <1>3, <1>4

\* Where a pass stands, in rigid terms.
LEMMA WhereItStands ==
  ASSUME PassInv, pass.todo # <<>>
  PROVE  /\ pass.uid \in 1 .. net.uid /\ pass.spec \in AllSpecs
         /\ \/ pass.todo = <<<<"delete", "">>>>
            \/ \E s \in AllSpecs, m, k \in Nat :
                 /\ pass.spec = s /\ Reached(PassCalls[s], m, k)
                 /\ k \in 1 .. Len(PassCalls[s]) + 1 /\ Left(pass.todo, PassCalls[s], m, k)
  <1>1. pass # Idle
    BY DEF Idle
  <1>2. QED
    BY <1>1 DEF PassInv, Reached

\* A pass that goes on with q still stands somewhere.
LEMMA StandsAt ==
  ASSUME PassInv, Types, pass.todo # <<>>, NEW q, GoOn(q), net'.uid = net.uid,
         NEW s \in AllSpecs, pass.spec = s, NEW m \in Nat, NEW k \in 1 .. Len(PassCalls[s]) + 1,
         Left(q, PassCalls[s], m, k), Alive' => Applied(PassCalls[s], k)' /\ MissingAt(PassCalls[s], k)'
  PROVE  PassInv'
  <1>1. \/ pass' = Idle
        \/ /\ q # <<>> /\ pass'.todo = q /\ pass'.uid = pass.uid /\ pass'.spec = pass.spec
           /\ pass' = [todo |-> pass'.todo, uid |-> pass'.uid, spec |-> pass'.spec, read |-> pass'.read]
    BY GoOnFacts
  <1>2. CASE pass' = Idle
    BY <1>2 DEF PassInv, Idle
  <1>3. CASE pass' # Idle
    <2> DEFINE P == PassCalls[s]
    <2>1. k \in Nat
      <3>1. Len(P) \in Nat
        BY PassCallsFacts, SeqFacts DEF Sound
      <3>2. QED
        BY <3>1
    <2>2. Reached(P, m, k)'
      BY <1>1, <1>3 DEF Reached
    <2>3. pass.uid \in 1 .. net.uid
      BY WhereItStands
    <2>4. QED
      BY <1>1, <1>3, <2>1, <2>2, <2>3 DEF PassInv
  <1>4. QED
    BY <1>2, <1>3

\* What stays there.
LEMMA HaveKept ==
  ASSUME \A c \in DOMAIN objs : c[1] \in {"map", "account"} => c \in DOMAIN objs',
         DOMAIN secrets \subseteq DOMAIN secrets'
  PROVE  \A c : c[1] \in Lasting /\ Have(c) => Have(c)'
  BY DEF Lasting, Have

\* One call is done.
LEMMA DoneKeeps ==
  ASSUME PassInv, Types, pass.todo # <<>>, Done, net'.uid = net.uid, Alive' => Alive,
         Alive' => \A c : c[1] \in Lasting /\ Have(c) => Have(c)',
         Head(pass.todo)[1] # "createSecret" => DOMAIN secrets' \subseteq DOMAIN secrets,
         \A c : c = Head(pass.todo) /\ c[1] \in Lasting => Have(c)',
         Head(pass.todo)[1] \notin {"findSecret"}
  PROVE  PassInv'
  <1>1. GoOn(Tail(pass.todo))
    BY DEF Done
  <1>2. CASE pass.todo = <<<<"delete", "">>>>
    <2>1. Tail(pass.todo) = <<>>
      <3>1. \A x : Tail(<<x>>) = <<>>
        OBVIOUS
      <3>2. QED
        BY <1>2, <3>1
    <2>2. pass' = Idle
      BY <1>1, <2>1 DEF GoOn
    <2>3. QED
      BY <2>2 DEF PassInv, Idle
  <1>3. CASE \E s \in AllSpecs, m, k \in Nat :
               /\ pass.spec = s /\ Reached(PassCalls[s], m, k)
               /\ k \in 1 .. Len(PassCalls[s]) + 1 /\ Left(pass.todo, PassCalls[s], m, k)
    <2>1. PICK s \in AllSpecs, m \in Nat, k \in Nat :
               /\ pass.spec = s /\ Reached(PassCalls[s], m, k)
               /\ k \in 1 .. Len(PassCalls[s]) + 1 /\ Left(pass.todo, PassCalls[s], m, k)
      BY <1>3
    <2> DEFINE P == PassCalls[s]
    <2>2. Sound(s, {}, P) /\ IsSeq(P) /\ Len(P) \in Nat
      BY PassCallsFacts, SeqFacts DEF Sound
    <2> HIDE DEF P
    <2>3. \/ m > 0 /\ Head(pass.todo)[1] \in {"deleteSet", "deleteService"} /\ Left(Tail(pass.todo), P, m - 1, k)
          \/ m = 0 /\ k <= Len(P) /\ Head(pass.todo) = P[k] /\ Left(Tail(pass.todo), P, 0, k + 1)
      BY <2>1, <2>2, LeftTail DEF P
    <2>4. Alive => Applied(P, k) /\ MissingAt(P, k)
      BY <2>1 DEF Reached, P
    <2>5. CASE m > 0 /\ Head(pass.todo)[1] \in {"deleteSet", "deleteService"} /\ Left(Tail(pass.todo), P, m - 1, k)
      <3>1. Alive' => Applied(P, k)'
        BY <2>4 DEF Applied
      <3>2. Alive' => MissingAt(P, k)'
        BY <2>4, <2>5 DEF MissingAt
      <3>3. m - 1 \in Nat
        BY <2>5
      <3>4. QED
        BY <1>1, <2>1, <2>5, <3>1, <3>2, <3>3, StandsAt DEF P
    <2>6. CASE m = 0 /\ k <= Len(P) /\ Head(pass.todo) = P[k] /\ Left(Tail(pass.todo), P, 0, k + 1)
      <3>1. ASSUME Alive' PROVE Applied(P, k + 1)'
        <4>1. \A j \in 1 .. k : j \in 1 .. k - 1 \/ j = k
          OBVIOUS
        <4>2. \A j \in 1 .. k - 1 : P[j][1] \in Lasting => Have(P[j])'
          BY <2>4, <3>1 DEF Applied
        <4>3. P[k][1] \in Lasting => Have(P[k])'
          BY <2>6
        <4>4. QED
          BY <4>1, <4>2, <4>3 DEF Applied
      <3>2. ASSUME Alive' PROVE MissingAt(P, k + 1)'
        <4>1. k \in 1 .. Len(P)
          BY <2>1, <2>6 DEF P
        <4>2. /\ k + 1 <= Len(P) /\ P[k + 1][1] = "createSecret" =>
                   P[k] = <<"findSecret", P[k + 1][2]>> \/ P[k][1] = "source"
              /\ k + 1 <= Len(P) /\ P[k + 1][1] = "source" => P[k] = <<"findSecret", P[k + 2][2]>>
          BY <2>2, <4>1, Neighbours
        <4>3. P[k][1] # "findSecret"
          BY <2>6
        <4>4. k + 1 <= Len(P) /\ P[k + 1][1] = "createSecret" => P[k][1] = "source"
          BY <4>2, <4>3
        <4>5. ~ (k + 1 <= Len(P) /\ P[k + 1][1] = "source")
          BY <4>2, <4>3
        <4>6. P[k][1] = "source" => P[k + 1][2] \notin DOMAIN secrets
          BY <2>4, <3>2, <4>1 DEF MissingAt
        <4>7. P[k][1] = "source" => DOMAIN secrets' \subseteq DOMAIN secrets
          BY <2>6
        <4>8. QED
          BY <4>4, <4>5, <4>6, <4>7 DEF MissingAt
      <3>3. k + 1 \in 1 .. Len(P) + 1
        BY <2>1, <2>2, <2>6
      <3>4. QED
        BY <1>1, <2>1, <2>6, <3>1, <3>2, <3>3, StandsAt DEF P
    <2>7. QED
      BY <2>3, <2>5, <2>6
  <1>4. QED
    BY <1>2, <1>3, WhereItStands

\* No call is done: the pass stands where it stood.
LEMMA UntouchedPass ==
  ASSUME PassInv, Types, pass' = pass, net'.uid \in Nat, net'.uid >= net.uid, Alive' => Alive,
         Alive' => \A c : c[1] \in Lasting /\ Have(c) => Have(c)',
         Alive' => DOMAIN secrets' \subseteq DOMAIN secrets
  PROVE  PassInv'
  <1>1. CASE pass = Idle
    BY <1>1 DEF PassInv, Idle
  <1>2. CASE pass # Idle
    <2>1. /\ pass = [todo |-> pass.todo, uid |-> pass.uid, spec |-> pass.spec, read |-> pass.read]
          /\ pass.uid \in 1 .. net.uid /\ pass.spec \in AllSpecs /\ pass.todo # <<>>
      BY <1>2 DEF PassInv
    <2>2. pass.uid \in 1 .. net'.uid
      BY <2>1 DEF Types, Networks
    <2>3. CASE pass.todo = <<<<"delete", "">>>>
      BY <2>1, <2>2, <2>3 DEF PassInv
    <2>4. CASE \E s \in AllSpecs, m, k \in Nat :
                 /\ pass.spec = s /\ Reached(PassCalls[s], m, k)
                 /\ k \in 1 .. Len(PassCalls[s]) + 1 /\ Left(pass.todo, PassCalls[s], m, k)
      <3>1. PICK s \in AllSpecs, m \in Nat, k \in Nat : pass.spec = s /\ Reached(PassCalls[s], m, k)
        BY <2>4
      <3> DEFINE P == PassCalls[s]
      <3> HIDE DEF P
      <3>2. Alive' => Applied(P, k)' /\ MissingAt(P, k)'
        BY <3>1 DEF Reached, Applied, MissingAt, P
      <3>3. Reached(P, m, k)'
        BY <3>1, <3>2 DEF Reached, P
      <3>4. QED
        BY <2>1, <2>2, <3>1, <3>3 DEF PassInv, P
    <2>5. QED
      BY <2>1, <2>3, <2>4, WhereItStands
  <1>3. QED
    BY <1>1, <1>2

\* The call a pass is at, unless it is a deletion.
LEMMA HeadKnown ==
  ASSUME PassInv, pass.todo # <<>>, NEW x, x = Head(pass.todo),
         x[1] \notin {"delete", "deleteSet", "deleteService"}
  PROVE  \E s \in AllSpecs, k \in Nat :
           /\ pass.spec = s /\ k \in 1 .. Len(PassCalls[s]) /\ x = PassCalls[s][k]
           /\ IsCall(x) /\ x \in ToSet(PassCalls[s])
           /\ Left(pass.todo, PassCalls[s], 0, k) /\ Left(Tail(pass.todo), PassCalls[s], 0, k + 1)
           /\ Alive => Applied(PassCalls[s], k) /\ MissingAt(PassCalls[s], k)
  <1>1. pass.todo # <<<<"delete", "">>>>
    <2>1. \A y : Head(<<y>>) = y
      OBVIOUS
    <2> DEFINE d == <<"delete", "">>
    <2>2. d[1] = "delete"
      OBVIOUS
    <2> HIDE DEF d
    <2>3. Head(<<d>>) = d
      BY <2>1
    <2>4. pass.todo # <<d>>
      BY <2>2, <2>3
    <2>5. QED
      BY <2>4 DEF d
  <1>2. PICK s \in AllSpecs, m \in Nat, k \in Nat :
          /\ pass.spec = s /\ Reached(PassCalls[s], m, k)
          /\ k \in 1 .. Len(PassCalls[s]) + 1 /\ Left(pass.todo, PassCalls[s], m, k)
    BY <1>1, WhereItStands
  <1> DEFINE P == PassCalls[s]
  <1>3. Sound(s, {}, P) /\ IsSeq(P) /\ Len(P) \in Nat
    BY PassCallsFacts, SeqFacts DEF Sound
  <1> HIDE DEF P
  <1>4. \/ m > 0 /\ Head(pass.todo)[1] \in {"deleteSet", "deleteService"} /\ Left(Tail(pass.todo), P, m - 1, k)
        \/ m = 0 /\ k <= Len(P) /\ Head(pass.todo) = P[k] /\ Left(Tail(pass.todo), P, 0, k + 1)
    BY <1>2, <1>3, LeftTail DEF P
  <1>5. m = 0 /\ k <= Len(P) /\ x = P[k] /\ Left(Tail(pass.todo), P, 0, k + 1)
    BY <1>4
  <1>6. k \in 1 .. Len(P) /\ Left(pass.todo, P, 0, k)
    BY <1>2, <1>3, <1>5 DEF P
  <1>7. IsCall(x) /\ x \in ToSet(P)
    BY <1>3, <1>5, <1>6, SeqFacts DEF Sound
  <1>8. Alive => Applied(P, k) /\ MissingAt(P, k)
    BY <1>2 DEF Reached, P
  <1>9. QED
    BY <1>2, <1>5, <1>6, <1>7, <1>8 DEF P

\* The cluster is as it was.
LEMMA ClusterUnchanged ==
  ASSUME Types, ObjectsKnown, SetsProvided, SecretsKept, UNCHANGED <<objs, secrets, password>>,
         net'.uid \in Nat, net'.uid >= net.uid, Alive' => Alive
  PROVE  /\ ObjectsKnown' /\ SetsProvided' /\ SecretsKept'
         /\ \A c : c[1] \in Lasting /\ Have(c) => Have(c)'
  <1>1. \A i \in 1 .. net.uid : i \in 1 .. net'.uid
    BY DEF Types, Networks
  <1>2. ObjectsKnown'
    BY <1>1 DEF ObjectsKnown
  <1>3. \A c : c[1] \in Lasting /\ Have(c) => Have(c)'
    BY DEF Have
  <1>4. \A c : Have(c) => Have(c)'
    BY DEF Have
  <1>5. SetsProvided'
    BY <1>4 DEF SetsProvided
  <1>6. SecretsKept'
    BY DEF SecretsKept, Alive
  <1>7. QED
    BY <1>2, <1>3, <1>5, <1>6

\* So are the network and what surrounds it.
LEMMA TypesKept ==
  ASSUME Types, UNCHANGED environment, flag' \in BOOLEAN, namespace' \in 0 .. net.uid,
         DOMAIN password' \subseteq Databases, DOMAIN rights' \subseteq {"role", "binding"},
         \A n \in DOMAIN secrets' : secrets'[n].owner \in 1 .. net.uid
  PROVE  /\ Types' /\ net' = net /\ net'.uid \in Nat /\ net'.uid >= net.uid /\ net'.uid = net.uid
         /\ Alive' <=> Alive
  BY DEF Types, environment, Networks, Alive

\* A set that waits for nothing but what the calls before it made.
LEMMA NeedCallsLasting ==
  ASSUME NEW s, NEW n
  PROVE  \A c \in NeedCalls(s, n) : c[1] \in Lasting
  BY DEF NeedCalls, Lasting

\* An object is applied.
LEMMA PutObject ==
  ASSUME Types, ObjectsKnown, SetsProvided, UNCHANGED <<net, secrets>>, NEW x, NEW mode,
         x = <<x[1], x[2]>>, pass.uid \in 1 .. net.uid, NEW s \in AllSpecs, pass.spec = s,
         objs' = Put(objs, x, Owned(mode)),
         x[1] = "set" => /\ x \in ToSet(PassCalls[s])
                         /\ Alive => \A c \in NeedCalls(s, x[2]) : Have(c)
  PROVE  /\ ObjectsKnown' /\ SetsProvided' /\ x \in DOMAIN objs'
         /\ \A c : c[1] \in Lasting /\ Have(c) => Have(c)'
  <1>1. /\ DOMAIN objs' = {x} \cup DOMAIN objs
        /\ objs'[x].owner = pass.uid /\ objs'[x].spec = s
        /\ \A y \in DOMAIN objs : y # x => objs'[y] = objs[y]
    BY DEF Put, Over, One, Owned, Owner
  <1>2. ObjectsKnown'
    BY <1>1 DEF ObjectsKnown
  <1>3. \A c : Have(c) => Have(c)'
    BY <1>1 DEF Have
  <1>4. Alive' => Alive
    BY DEF Alive
  <1>5. SetsProvided'
    <2> SUFFICES ASSUME Alive', NEW y \in DOMAIN objs', y[1] = "set", NEW c \in NeedCalls(objs'[y].spec, y[2])
                 PROVE  Have(c)'
      BY DEF SetsProvided
    <2>1. CASE y = x
      BY <1>1, <1>3, <1>4, <2>1
    <2>2. CASE y # x
      BY <1>1, <1>3, <1>4, <2>2 DEF SetsProvided
    <2>3. QED
      BY <2>1, <2>2
  <1>6. QED
    BY <1>1, <1>2, <1>3, <1>5

-----------------------------------------------------------------------------
(* The invariant is kept, action by action. *)

\* Nothing but the pass changes.
LEMMA QuietStep ==
  ASSUME IInv, UNCHANGED <<flag, namespace, objs, secrets, password, rights>>, UNCHANGED environment
  PROVE  /\ Types' /\ ObjectsKnown' /\ SetsProvided' /\ SecretsKept'
         /\ net' = net /\ net'.uid = net.uid /\ (Alive' <=> Alive)
         /\ \A c : Have(c) <=> Have(c)'
  <1>1. flag' \in BOOLEAN /\ namespace' \in 0 .. net.uid
    BY DEF IInv, Types
  <1>2. /\ DOMAIN password' \subseteq Databases /\ DOMAIN rights' \subseteq {"role", "binding"}
        /\ \A n \in DOMAIN secrets' : secrets'[n].owner \in 1 .. net.uid
    BY DEF IInv, Types
  <1>3. /\ Types' /\ net' = net /\ net'.uid \in Nat /\ net'.uid >= net.uid /\ net'.uid = net.uid
        /\ (Alive' <=> Alive)
    BY <1>1, <1>2, TypesKept DEF IInv
  <1>4. ObjectsKnown' /\ SetsProvided' /\ SecretsKept'
    BY <1>3, ClusterUnchanged DEF IInv
  <1>5. \A c : Have(c) <=> Have(c)'
    BY DEF Have
  <1>6. QED
    BY <1>3, <1>4, <1>5

\* The source secret is there: the creation is next.
LEMMA ReadSourceStep ==
  ASSUME IInv, ReadSource
  PROVE  IInv'
  <1>1. Head(pass.todo)[1] = "source" /\ pass.todo # <<>> /\ Done
    BY DEF ReadSource, Doing
  <1>2. UNCHANGED <<flag, namespace, objs, secrets, password, rights>> /\ UNCHANGED environment
    BY DEF ReadSource
  <1>3. /\ Types' /\ ObjectsKnown' /\ SetsProvided' /\ SecretsKept'
        /\ net'.uid = net.uid /\ (Alive' <=> Alive) /\ \A c : Have(c) <=> Have(c)'
    BY <1>2, QuietStep
  <1>4. PassInv'
    BY <1>1, <1>2, <1>3, DoneKeeps DEF IInv, Lasting
  <1>5. QED
    BY <1>3, <1>4 DEF IInv

\* A load leaves the cluster.
LEMMA LoadModeStep ==
  ASSUME IInv, LoadMode
  PROVE  IInv'
  <1>1. Head(pass.todo)[1] = "load" /\ pass.todo # <<>> /\ Done
    BY DEF LoadMode, Doing
  <1>2. UNCHANGED <<flag, namespace, objs, secrets, password, rights>> /\ UNCHANGED environment
    BY DEF LoadMode
  <1>3. /\ Types' /\ ObjectsKnown' /\ SetsProvided' /\ SecretsKept'
        /\ net'.uid = net.uid /\ (Alive' <=> Alive) /\ \A c : Have(c) <=> Have(c)'
    BY <1>2, QuietStep
  <1>4. PassInv'
    BY <1>1, <1>2, <1>3, DoneKeeps DEF IInv, Lasting
  <1>5. QED
    BY <1>3, <1>4 DEF IInv

\* A refused call ends the pass and leaves the cluster.
LEMMA CallRefusedStep ==
  ASSUME IInv, CallRefused
  PROVE  IInv'
  <1>1. pass' = Idle
    BY DEF CallRefused, GoOn
  <1>2. UNCHANGED <<flag, namespace, objs, secrets, password, rights>> /\ UNCHANGED environment
    BY DEF CallRefused
  <1>3. PassInv'
    BY <1>1 DEF PassInv, Idle
  <1>4. QED
    BY <1>2, <1>3, QuietStep DEF IInv

\* Two calls are done: a monitor is left alone.
LEMMA FindMonitorStep ==
  ASSUME IInv, FindMonitor
  PROVE  IInv'
  <1>1. Head(pass.todo)[1] = "findMonitor" /\ pass.todo # <<>>
    BY DEF FindMonitor, Doing
  <1>2. UNCHANGED <<flag, namespace, objs, secrets, password, rights>> /\ UNCHANGED environment
    BY DEF FindMonitor
  <1>3. /\ Types' /\ ObjectsKnown' /\ SetsProvided' /\ SecretsKept'
        /\ net'.uid = net.uid /\ (Alive' <=> Alive) /\ \A c : Have(c) <=> Have(c)'
    BY <1>2, QuietStep
  <1>4. CASE GoOn(Tail(pass.todo))
    <2>1. Done
      BY <1>4 DEF Done
    <2>2. PassInv'
      BY <1>1, <1>2, <1>3, <2>1, DoneKeeps DEF IInv, Lasting
    <2>3. QED
      BY <1>3, <2>2 DEF IInv
  <1>5. CASE GoOn(Tail(Tail(pass.todo)))
    <2>1. PICK x : x = Head(pass.todo)
      OBVIOUS
    <2>2. PICK s \in AllSpecs, k \in Nat :
            /\ pass.spec = s /\ k \in 1 .. Len(PassCalls[s]) /\ x = PassCalls[s][k]
            /\ Left(Tail(pass.todo), PassCalls[s], 0, k + 1)
            /\ Alive => Applied(PassCalls[s], k)
      BY <1>1, <2>1, HeadKnown DEF IInv
    <2> DEFINE P == PassCalls[s]
    <2>3. Sound(s, {}, P) /\ IsSeq(P) /\ Len(P) \in Nat
      BY PassCallsFacts, SeqFacts DEF Sound
    <2> HIDE DEF P
    <2>4. k + 1 \in 1 .. Len(P) /\ P[k][1] = "findMonitor" /\ P[k + 1][1] = "createMonitor"
      <3>1. k \in 1 .. Len(P) /\ P[k][1] = "findMonitor"
        BY <1>1, <2>1, <2>2 DEF P
      <3>2. k + 1 <= Len(P) /\ P[k + 1][1] = "createMonitor"
        BY <2>3, <3>1, Neighbours
      <3>3. QED
        BY <2>3, <3>1, <3>2
    <2>5. Left(Tail(Tail(pass.todo)), P, 0, k + 2) /\ k + 2 \in 1 .. Len(P) + 1
      <3> DEFINE q == Tail(pass.todo)  j == k + 1
      <3>1. Left(q, P, 0, j) /\ j \in 1 .. Len(P)
        BY <2>2, <2>4 DEF P
      <3>2. j + 1 = k + 2 /\ j \in 1 .. Len(P) + 1 /\ j + 1 \in 1 .. Len(P) + 1
        BY <2>3, <3>1
      <3> HIDE DEF q, j
      <3>3. q # <<>>
        <4>1. Len(q) = 0 + Len(P) + 1 - j /\ IsSeq(q)
          BY <3>1 DEF Left
        <4>2. Len(q) > 0
          BY <2>3, <3>1, <4>1
        <4>3. QED
          BY <4>1, <4>2, SeqFacts
      <3>4. Left(Tail(q), P, 0, j + 1)
        BY <2>3, <3>1, <3>2, <3>3, LeftTail
      <3>5. QED
        BY <3>2, <3>4 DEF q
    <2>6. Alive' => Applied(P, k + 2)'
      <3>1. \A i \in 1 .. k + 2 - 1 : i \in 1 .. k - 1 \/ i = k \/ i = k + 1
        OBVIOUS
      <3>2. QED
        BY <1>3, <2>2, <2>4, <3>1 DEF Applied, Lasting, P
    <2>7. MissingAt(P, k + 2)'
      <3> DEFINE j == k + 1
      <3>1. j \in 1 .. Len(P) /\ P[j][1] = "createMonitor" /\ j + 1 = k + 2
        BY <2>4
      <3> HIDE DEF j
      <3>2. j + 1 <= Len(P) => P[j + 1][1] # "createSecret" /\ P[j + 1][1] # "source"
        <4>1. /\ j + 1 <= Len(P) /\ P[j + 1][1] = "createSecret" =>
                    P[j] = <<"findSecret", P[j + 1][2]>> \/ P[j][1] = "source"
              /\ j + 1 <= Len(P) /\ P[j + 1][1] = "source" => P[j] = <<"findSecret", P[j + 2][2]>>
          BY <2>3, <3>1, Neighbours
        <4>2. QED
          BY <3>1, <4>1
      <3>3. QED
        BY <3>1, <3>2 DEF MissingAt
    <2>8. PassInv'
      BY <1>1, <1>3, <1>5, <2>2, <2>5, <2>6, <2>7, StandsAt DEF IInv, P
    <2>9. QED
      BY <1>3, <2>8 DEF IInv
  <1>6. QED
    BY <1>4, <1>5 DEF FindMonitor

\* What is left after j calls more.
LEMMA LeftLater ==
  ASSUME NEW q, NEW P, IsSeq(P), NEW k \in 1 .. Len(P), Left(q, P, 0, k), NEW j \in Nat, k + j <= Len(P) + 1
  PROVE  Left(SubSeq(q, j + 1, Len(q)), P, 0, k + j)
  <1> DEFINE r == SubSeq(q, j + 1, Len(q))
  <1>1. Len(P) \in Nat /\ Len(q) = Len(P) + 1 - k /\ IsSeq(q) /\ Len(q) \in Nat
    BY SeqFacts DEF Left
  <1>2. \A i \in 1 .. Len(q) : q[i] \in ToSet(q)
    BY <1>1, SeqFacts
  <1>3. /\ r \in Seq(ToSet(q))
        /\ Len(r) = IF j + 1 <= Len(q) THEN Len(q) - (j + 1) + 1 ELSE 0
        /\ \A i \in 1 .. Len(q) - (j + 1) + 1 : r[i] = q[j + 1 + i - 1]
    <2>1. j + 1 \in Int /\ Len(q) \in Int /\ \A i \in j + 1 .. Len(q) : q[i] \in ToSet(q)
      BY <1>1, <1>2
    <2>2. QED
      BY <2>1, SubSeqProperties
  <1> HIDE DEF r
  <1>4. IsSeq(r)
    BY <1>3 DEF IsSeq
  <1>5. Len(r) = 0 + Len(P) + 1 - (k + j)
    <2>1. CASE j + 1 <= Len(q)
      <3>1. Len(r) = Len(q) - (j + 1) + 1
        BY <1>3, <2>1
      <3>2. QED
        BY <1>1, <3>1
    <2>2. CASE ~ (j + 1 <= Len(q))
      <3>1. Len(r) = 0
        BY <1>3, <2>2
      <3>2. QED
        BY <1>1, <2>2, <3>1
    <2>3. QED
      BY <2>1, <2>2
  <1>6. ASSUME NEW i \in 1 .. Len(P) + 1 - (k + j)
        PROVE  r[0 + i] = P[k + j - 1 + i]
    <2>1. /\ i \in 1 .. Len(q) - (j + 1) + 1 /\ j + 1 + i - 1 = 0 + (j + i) /\ 0 + i = i
          /\ j + i \in 1 .. Len(P) + 1 - k /\ k - 1 + (j + i) = k + j - 1 + i
      BY <1>1
    <2>2. q[0 + (j + i)] = P[k - 1 + (j + i)]
      BY <2>1 DEF Left
    <2>3. QED
      BY <1>3, <2>1, <2>2
  <1>7. \A i \in 1 .. 0 : r[i][1] \in {"deleteSet", "deleteService"}
    OBVIOUS
  <1>8. Left(r, P, 0, k + j)
    BY <1>4, <1>5, <1>6, <1>7 DEF Left
  <1>9. QED
    BY <1>8 DEF r

\* Deletions come before what is left.
LEMMA LeftAfter ==
  ASSUME NEW d, IsSeq(d), \A i \in 1 .. Len(d) : d[i][1] \in {"deleteSet", "deleteService"},
         NEW q, NEW P, IsSeq(P), NEW k \in 1 .. Len(P) + 1, Left(q, P, 0, k)
  PROVE  Left(d \o q, P, Len(d), k)
  <1> DEFINE r == d \o q  m == Len(d)
  <1>1. Len(P) \in Nat /\ Len(q) = Len(P) + 1 - k /\ IsSeq(q) /\ m \in Nat
    BY SeqFacts DEF Left
  <1>2. /\ IsSeq(r) /\ Len(r) = m + Len(q)
        /\ \A i \in 1 .. m : r[i] = d[i]
        /\ \A i \in 1 .. Len(q) : r[m + i] = q[i]
    BY <1>1, Joined
  <1> HIDE DEF r, m
  <1>3. Len(r) = m + Len(P) + 1 - k
    BY <1>1, <1>2
  <1>4. \A i \in 1 .. m : r[i][1] \in {"deleteSet", "deleteService"}
    BY <1>2 DEF m
  <1>5. ASSUME NEW i \in 1 .. Len(P) + 1 - k
        PROVE  r[m + i] = P[k - 1 + i]
    <2>1. q[0 + i] = P[k - 1 + i] /\ 0 + i = i
      BY DEF Left
    <2>2. QED
      BY <1>1, <1>2, <2>1
  <1>6. QED
    BY <1>2, <1>3, <1>4, <1>5 DEF Left, r, m

\* Only what looks for a secret or reads its source is followed by its creation.
LEMMA AfterOthers ==
  ASSUME NEW s, NEW pre, NEW P, Sound(s, pre, P), NEW j \in 1 .. Len(P), P[j][1] \notin {"findSecret", "source"}
  PROVE  j + 1 <= Len(P) => P[j + 1][1] \notin {"createSecret", "source"}
  <1>1. /\ j + 1 <= Len(P) /\ P[j + 1][1] = "createSecret" =>
              P[j] = <<"findSecret", P[j + 1][2]>> \/ P[j][1] = "source"
        /\ j + 1 <= Len(P) /\ P[j + 1][1] = "source" => P[j] = <<"findSecret", P[j + 2][2]>>
    BY Neighbours
  <1>2. QED
    BY <1>1

\* The creation is skipped when the secret is there.
LEMMA FindSecretStep ==
  ASSUME IInv, FindSecret
  PROVE  IInv'
  <1>1. Head(pass.todo)[1] = "findSecret" /\ pass.todo # <<>>
    BY DEF FindSecret, Doing
  <1>2. UNCHANGED <<flag, namespace, objs, secrets, password, rights>> /\ UNCHANGED environment
    BY DEF FindSecret
  <1>3. /\ Types' /\ ObjectsKnown' /\ SetsProvided' /\ SecretsKept'
        /\ net'.uid = net.uid /\ (Alive' <=> Alive) /\ \A c : Have(c) <=> Have(c)'
    BY <1>2, QuietStep
  <1>4. PICK x : x = Head(pass.todo)
    OBVIOUS
  <1>5. PICK s \in AllSpecs, k \in Nat :
          /\ pass.spec = s /\ k \in 1 .. Len(PassCalls[s]) /\ x = PassCalls[s][k]
          /\ IsCall(x) /\ Left(pass.todo, PassCalls[s], 0, k)
          /\ Left(Tail(pass.todo), PassCalls[s], 0, k + 1)
          /\ Alive => Applied(PassCalls[s], k)
    BY <1>1, <1>4, HeadKnown DEF IInv
  <1> DEFINE P == PassCalls[s]
  <1>6. Sound(s, {}, P) /\ IsSeq(P) /\ Len(P) \in Nat
    BY PassCallsFacts, SeqFacts DEF Sound
  <1> HIDE DEF P
  <1>7. k \in 1 .. Len(P) /\ x = P[k] /\ P[k][1] = "findSecret" /\ Name = P[k][2]
    BY <1>1, <1>4, <1>5 DEF P, Name
  <1>8. \/ k + 1 <= Len(P) /\ P[k + 1] = <<"createSecret", P[k][2]>>
        \/ k + 2 <= Len(P) /\ P[k + 1][1] = "source" /\ P[k + 2] = <<"createSecret", P[k][2]>>
    BY <1>6, <1>7, Neighbours
  <1>9. k + 1 \in 1 .. Len(P) + 1
    BY <1>6, <1>7
  <1>10. CASE Missing(Name)
    <2>1. GoOn(Tail(pass.todo))
      BY <1>10 DEF FindSecret
    <2>2. P[k][2] \notin DOMAIN secrets
      BY <1>7, <1>10 DEF Missing
    <2>3. MissingAt(P, k + 1)'
      <3>1. /\ k + 1 <= Len(P) /\ P[k + 1][1] = "createSecret" =>
                 P[k] = <<"findSecret", P[k + 1][2]>> \/ P[k][1] = "source"
            /\ k + 1 <= Len(P) /\ P[k + 1][1] = "source" => P[k] = <<"findSecret", P[k + 2][2]>>
        BY <1>6, <1>7, Neighbours
      <3>2. /\ k + 1 <= Len(P) /\ P[k + 1][1] = "createSecret" => P[k + 1][2] = P[k][2]
            /\ k + 1 <= Len(P) /\ P[k + 1][1] = "source" => P[k + 2][2] = P[k][2]
        BY <1>7, <3>1
      <3>3. k + 1 + 1 = k + 2 /\ secrets' = secrets
        BY <1>2
      <3>4. QED
        BY <2>2, <3>2, <3>3 DEF MissingAt
    <2>4. Alive' => Applied(P, k + 1)'
      <3>1. \A i \in 1 .. k + 1 - 1 : i \in 1 .. k - 1 \/ i = k
        OBVIOUS
      <3>2. QED
        BY <1>3, <1>5, <1>7, <3>1 DEF Applied, Lasting, P
    <2>5. PassInv'
      BY <1>1, <1>3, <1>5, <1>9, <2>1, <2>3, <2>4, StandsAt DEF IInv, P
    <2>6. QED
      BY <1>3, <2>5 DEF IInv
  <1>11. CASE ~ Missing(Name)
    <2>1. GoOn(PastCreation)
      BY <1>11 DEF FindSecret
    <2>2. P[k][2] \in DOMAIN secrets
      BY <1>7, <1>11 DEF Missing
    <2>3. ASSUME NEW j \in {1, 2}, k + j <= Len(P), P[k + j] = <<"createSecret", P[k][2]>>,
                 j = 2 => P[k + 1][1] = "source",
                 PastCreation = SubSeq(pass.todo, j + 2, Len(pass.todo))
          PROVE  PassInv'
      <3>0. PICK n : n = j + 1
        OBVIOUS
      <3>1. n \in Nat /\ k + n <= Len(P) + 1 /\ k + n \in 1 .. Len(P) + 1 /\ n + 1 = j + 2
        BY <1>6, <1>7, <2>3, <3>0
      <3>2. Left(PastCreation, P, 0, k + n)
        <4>1. Left(SubSeq(pass.todo, n + 1, Len(pass.todo)), P, 0, k + n)
          BY <1>5, <1>6, <1>7, <3>1, LeftLater DEF P
        <4>2. QED
          BY <2>3, <3>1, <4>1
      <3>3. Alive' => Applied(P, k + n)'
        <4>1. \A i \in 1 .. k + n - 1 : i \in 1 .. k - 1 \/ i = k \/ i = k + 1 \/ i = k + j
          BY <2>3, <3>0
        <4>2. Have(P[k + j])
          BY <2>2, <2>3 DEF Have
        <4>3. P[k + 1][1] \in Lasting => P[k + 1] = P[k + j]
          BY <2>3 DEF Lasting
        <4>4. P[k][1] \notin Lasting
          BY <1>7 DEF Lasting
        <4>5. ASSUME Alive', NEW i \in 1 .. k + n - 1, P[i][1] \in Lasting
              PROVE  Have(P[i])'
          <5>1. CASE i \in 1 .. k - 1
            <6>1. Have(P[i])
              BY <1>3, <1>5, <4>5, <5>1 DEF Applied, P
            <6>2. QED
              BY <1>3, <6>1
          <5>2. Have(P[k + j])'
            BY <1>3, <4>2
          <5>3. QED
            BY <4>1, <4>3, <4>4, <4>5, <5>1, <5>2
        <4>6. QED
          BY <3>1, <4>5, SMTT(30) DEF Applied, Lasting, P
      <3>4. MissingAt(P, k + n)'
        <4> DEFINE i == k + j
        <4>1. i \in 1 .. Len(P) /\ P[i][1] \notin {"findSecret", "source"} /\ i + 1 = k + n
          BY <1>6, <1>7, <2>3, <3>0
        <4> HIDE DEF i
        <4>2. i + 1 <= Len(P) => P[i + 1][1] \notin {"createSecret", "source"}
          BY <1>6, <4>1, AfterOthers
        <4>3. QED
          BY <4>1, <4>2 DEF MissingAt
      <3>5. QED
        BY <1>1, <1>3, <1>5, <2>1, <3>1, <3>2, <3>3, <3>4, StandsAt DEF IInv, P
    <2>4. \A i \in 1 .. Len(P) + 1 - k : pass.todo[i] = P[k - 1 + i]
      <3>1. \A i \in 1 .. Len(P) + 1 - k : pass.todo[0 + i] = P[k - 1 + i]
        BY <1>5 DEF Left, P
      <3>2. QED
        BY <1>6, <1>7, <3>1
    <2>5. CASE k + 1 <= Len(P) /\ P[k + 1] = <<"createSecret", P[k][2]>>
      <3>1. pass.todo[2] = P[k + 1]
        <4>1. 2 \in 1 .. Len(P) + 1 - k /\ k - 1 + 2 = k + 1
          BY <1>6, <1>7, <2>5
        <4>2. QED
          BY <2>4, <4>1
      <3>2. PastCreation = SubSeq(pass.todo, 1 + 2, Len(pass.todo))
        <4>1. pass.todo[2][1] # "source"
          BY <2>5, <3>1
        <4>2. 2 + 1 = 1 + 2
          OBVIOUS
        <4>3. QED
          BY <4>1, <4>2 DEF PastCreation
      <3>3. QED
        BY <1>3, <2>3, <2>5, <3>2 DEF IInv
    <2>6. CASE k + 2 <= Len(P) /\ P[k + 1][1] = "source" /\ P[k + 2] = <<"createSecret", P[k][2]>>
      <3>1. pass.todo[2] = P[k + 1]
        <4>1. 2 \in 1 .. Len(P) + 1 - k /\ k - 1 + 2 = k + 1
          BY <1>6, <1>7, <2>6
        <4>2. QED
          BY <2>4, <4>1
      <3>2. pass.todo[2][1] = "source" /\ 3 + 1 = 2 + 2
        BY <2>6, <3>1
      <3>3. PastCreation = SubSeq(pass.todo, 2 + 2, Len(pass.todo))
        BY <3>2 DEF PastCreation
      <3>4. QED
        BY <1>3, <2>3, <2>6, <3>3 DEF IInv
    <2>7. QED
      BY <1>8, <2>5, <2>6
  <1>12. QED
    BY <1>10, <1>11

\* The objects, secrets and databases stay.
LEMMA CalmStep ==
  ASSUME IInv, UNCHANGED <<objs, secrets, password>>, UNCHANGED environment,
         flag' \in BOOLEAN, namespace' \in 0 .. net.uid, DOMAIN rights' \subseteq {"role", "binding"}
  PROVE  /\ Types' /\ ObjectsKnown' /\ SetsProvided' /\ SecretsKept'
         /\ net' = net /\ net'.uid = net.uid /\ net'.uid \in Nat /\ (Alive' <=> Alive)
         /\ \A c : Have(c) <=> Have(c)'
  <1>1. /\ DOMAIN password' \subseteq Databases
        /\ \A n \in DOMAIN secrets' : secrets'[n].owner \in 1 .. net.uid
    BY DEF IInv, Types
  <1>2. /\ Types' /\ net' = net /\ net'.uid \in Nat /\ net'.uid >= net.uid /\ net'.uid = net.uid
        /\ (Alive' <=> Alive)
    BY <1>1, TypesKept DEF IInv
  <1>3. ObjectsKnown' /\ SetsProvided' /\ SecretsKept'
    BY <1>2, ClusterUnchanged DEF IInv
  <1>4. \A c : Have(c) <=> Have(c)'
    BY DEF Have
  <1>5. QED
    BY <1>2, <1>3, <1>4

\* A pass begins with the calls q.
LEMMA BeginFacts ==
  ASSUME IInv, NEW q, Begin(q), flag' = Stored(cache.spec)
  PROVE  /\ Types' /\ ObjectsKnown' /\ SetsProvided' /\ SecretsKept'
         /\ net' = net /\ net'.uid = net.uid /\ (Alive' <=> Alive)
         /\ \A c : Have(c) <=> Have(c)'
         /\ pass' = [todo |-> pass'.todo, uid |-> pass'.uid, spec |-> pass'.spec, read |-> pass'.read]
         /\ pass'.todo = q /\ pass'.spec = cache.spec /\ cache.spec \in AllSpecs
         /\ pass'.uid \in 1 .. net'.uid
  <1>1. cache.spec \in AllSpecs /\ cache.uid \in 1 .. net.uid /\ namespace \in 0 .. net.uid
        /\ DOMAIN rights \subseteq {"role", "binding"}
    BY DEF IInv, Types, Networks
  <1>2. flag' \in BOOLEAN
    BY <1>1, PassAssumption DEF Stored, AllSpecs
  <1>3. UNCHANGED <<namespace, objs, secrets, password, rights>> /\ UNCHANGED environment
    BY DEF Begin
  <1>4. /\ Types' /\ ObjectsKnown' /\ SetsProvided' /\ SecretsKept'
        /\ net' = net /\ net'.uid = net.uid /\ (Alive' <=> Alive)
        /\ \A c : Have(c) <=> Have(c)'
    BY <1>1, <1>2, <1>3, CalmStep
  <1>5. pass' = [todo |-> q, uid |-> cache.uid, spec |-> cache.spec, read |-> {}]
    BY DEF Begin, Idle
  <1>6. QED
    BY <1>1, <1>4, <1>5

\* A pass starts at its first call, which is neither a creation nor a source.
LEMMA StartPassStep ==
  ASSUME IInv, StartPass
  PROVE  IInv'
  <1>1. PICK s : s = cache.spec
    OBVIOUS
  <1> DEFINE P == PassCalls[s]
  <1>2. /\ Types' /\ ObjectsKnown' /\ SetsProvided' /\ SecretsKept'
        /\ pass' = [todo |-> pass'.todo, uid |-> pass'.uid, spec |-> pass'.spec, read |-> pass'.read]
        /\ pass'.todo = P /\ pass'.spec = s /\ s \in AllSpecs /\ pass'.uid \in 1 .. net'.uid
    BY <1>1, BeginFacts DEF StartPass
  <1>3. Accepted(s)
    BY <1>1 DEF StartPass
  <1>4. Sound(s, {}, P) /\ P # <<>> /\ IsSeq(P) /\ Len(P) \in Nat /\ Len(P) > 0
    BY <1>2, <1>3, PassCallsFacts, SeqFacts DEF Sound
  <1> HIDE DEF P
  <1>5. 1 \in 1 .. Len(P) /\ 1 \in 1 .. Len(P) + 1 /\ 0 \in Nat /\ 1 \in Nat
    BY <1>4
  <1>6. P[1][1] \notin {"createSecret", "source"}
    BY <1>4, <1>5, Neighbours
  <1>7. Left(P, P, 0, 1)
    <2>1. Len(P) = 0 + Len(P) + 1 - 1
      BY <1>4
    <2>2. \A i \in 1 .. Len(P) + 1 - 1 : P[0 + i] = P[1 - 1 + i]
      <3>1. \A i \in Int : 0 + i = 1 - 1 + i
        OBVIOUS
      <3>2. QED
        BY <1>4, <3>1
    <2>3. \A i \in 1 .. 0 : P[i][1] \in {"deleteSet", "deleteService"}
      OBVIOUS
    <2>4. QED
      BY <1>4, <2>1, <2>2, <2>3 DEF Left
  <1>8. Applied(P, 1)' /\ MissingAt(P, 1)'
    <2>1. \A j \in 1 .. 1 - 1 : FALSE
      OBVIOUS
    <2>2. QED
      BY <1>6, <2>1 DEF Applied, MissingAt, P
  <1>9. Reached(P, 0, 1)'
    BY <1>2, <1>5, <1>7, <1>8 DEF Reached, P
  <1>10. PassInv'
    BY <1>2, <1>4, <1>5, <1>9 DEF PassInv, P
  <1>11. QED
    BY <1>2, <1>10 DEF IInv

\* A pass over an expired network has one call.
LEMMA StartExpiryStep ==
  ASSUME IInv, StartExpiry
  PROVE  IInv'
  <1>1. /\ Types' /\ ObjectsKnown' /\ SetsProvided' /\ SecretsKept'
        /\ pass' = [todo |-> pass'.todo, uid |-> pass'.uid, spec |-> pass'.spec, read |-> pass'.read]
        /\ pass'.todo = <<<<"delete", "">>>> /\ pass'.spec \in AllSpecs /\ pass'.uid \in 1 .. net'.uid
    BY BeginFacts DEF StartExpiry
  <1>2. PassInv'
    <2>1. \A x : <<x>> # <<>>
      OBVIOUS
    <2>2. pass'.todo # <<>>
      BY <1>1, <2>1
    <2>3. QED
      BY <1>1, <2>2 DEF PassInv
  <1>3. QED
    BY <1>1, <1>2 DEF IInv

\* A refused spec has no pass, only its mode is stored.
LEMMA RejectPassStep ==
  ASSUME IInv, RejectPass
  PROVE  IInv'
  <1>1. cache.spec \in AllSpecs /\ namespace \in 0 .. net.uid /\ DOMAIN rights \subseteq {"role", "binding"}
    BY DEF IInv, Types, Networks
  <1>2. flag' \in BOOLEAN
    BY <1>1, PassAssumption DEF RejectPass, Stored, AllSpecs
  <1>3. UNCHANGED <<pass, namespace, objs, secrets, password, rights>> /\ UNCHANGED environment
    BY DEF RejectPass
  <1>4. /\ Types' /\ ObjectsKnown' /\ SetsProvided' /\ SecretsKept'
        /\ net'.uid = net.uid /\ net'.uid \in Nat /\ (Alive' <=> Alive)
        /\ \A c : Have(c) <=> Have(c)'
    BY <1>1, <1>2, <1>3, CalmStep
  <1>5. PassInv'
    BY <1>3, <1>4, UntouchedPass DEF IInv
  <1>6. QED
    BY <1>4, <1>5 DEF IInv

\* The rights of the collectors are no concern of the pass.
LEMMA ApplyRightStep ==
  ASSUME IInv, ApplyRight
  PROVE  IInv'
  <1>1. Head(pass.todo)[1] = "right" /\ pass.todo # <<>> /\ Done
    BY DEF ApplyRight, Doing
  <1>2. /\ UNCHANGED <<objs, secrets, password>> /\ UNCHANGED environment
        /\ flag' \in BOOLEAN /\ namespace' \in 0 .. net.uid
    BY DEF ApplyRight, IInv, Types
  <1>3. Name \in {"role", "binding"}
    <2>1. PICK x : x = Head(pass.todo)
      OBVIOUS
    <2>2. IsCall(x)
      BY <1>1, <2>1, HeadKnown DEF IInv
    <2>3. QED
      BY <1>1, <2>1, <2>2 DEF IsCall, Name
  <1>4. DOMAIN rights' \subseteq {"role", "binding"}
    BY <1>3 DEF ApplyRight, Put, Over, One, IInv, Types
  <1>5. /\ Types' /\ ObjectsKnown' /\ SetsProvided' /\ SecretsKept'
        /\ net'.uid = net.uid /\ (Alive' <=> Alive) /\ \A c : Have(c) <=> Have(c)'
    BY <1>2, <1>4, CalmStep
  <1>6. PassInv'
    BY <1>1, <1>2, <1>5, DoneKeeps DEF IInv, Lasting
  <1>7. QED
    BY <1>5, <1>6 DEF IInv

\* The namespace belongs to the network the pass works from.
LEMMA ApplyNamespaceStep ==
  ASSUME IInv, ApplyNamespace
  PROVE  IInv'
  <1>1. Head(pass.todo)[1] = "namespace" /\ pass.todo # <<>> /\ Done
    BY DEF ApplyNamespace, Doing
  <1>2. /\ UNCHANGED <<objs, secrets, password>> /\ UNCHANGED environment
        /\ flag' \in BOOLEAN /\ DOMAIN rights' \subseteq {"role", "binding"}
    BY DEF ApplyNamespace, IInv, Types
  <1>3. namespace' \in 0 .. net.uid
    <2>1. pass.uid \in 1 .. net.uid
      BY <1>1, WhereItStands DEF IInv
    <2>2. net.uid \in Nat
      BY DEF IInv, Types, Networks
    <2>3. QED
      BY <2>1, <2>2 DEF ApplyNamespace, Owner
  <1>4. /\ Types' /\ ObjectsKnown' /\ SetsProvided' /\ SecretsKept'
        /\ net'.uid = net.uid /\ (Alive' <=> Alive) /\ \A c : Have(c) <=> Have(c)'
    BY <1>2, <1>3, CalmStep
  <1>5. PassInv'
    BY <1>1, <1>2, <1>4, DoneKeeps DEF IInv, Lasting
  <1>6. QED
    BY <1>4, <1>5 DEF IInv

\* What the pass deletes is the network itself, and the properties end with it.
LEMMA DeleteNetworkStep ==
  ASSUME IInv, DeleteNetwork
  PROVE  IInv'
  <1>1. Head(pass.todo)[1] = "delete" /\ pass.todo # <<>> /\ Done
    BY DEF DeleteNetwork, Doing
  <1>2. /\ UNCHANGED <<cache, aged, flag, namespace, objs, secrets, password, rights, other, left>>
        /\ net' = [net EXCEPT !.exists = FALSE]
    BY DEF DeleteNetwork
  <1>3. net' \in Networks /\ net'.uid = net.uid /\ net'.exists = FALSE /\ net.uid \in Nat
    BY <1>2 DEF IInv, Types, Networks
  <1>4. Types' /\ ~ Alive'
    BY <1>2, <1>3 DEF IInv, Types, Alive
  <1>5. ObjectsKnown' /\ SetsProvided' /\ SecretsKept'
    BY <1>2, <1>3, <1>4, ClusterUnchanged DEF IInv
  <1>6. PassInv'
    BY <1>1, <1>2, <1>3, <1>4, DoneKeeps DEF IInv, Lasting
  <1>7. QED
    BY <1>4, <1>5, <1>6 DEF IInv

\* The extra sets or services as a sequence of deletions.
LEMMA Deletions ==
  ASSUME NEW deletion, NEW kind
  PROVE  /\ IsSeq(SetToSeq({deletion} \X Extra(kind)))
         /\ \A i \in 1 .. Len(SetToSeq({deletion} \X Extra(kind))) :
              SetToSeq({deletion} \X Extra(kind))[i][1] = deletion
  <1>1. IsFiniteSet(AllCeramics)
    <2> DEFINE f == [k \in 1 .. MAX_CERAMICS |-> CeramicName(k)]  N == 1 .. MAX_CERAMICS
    <2>1. f \in Surjection(N, AllCeramics)
      BY DEF Surjection, AllCeramics
    <2>2. IsFiniteSet(N)
      BY PassAssumption, FS_Interval
    <2> HIDE DEF f, N
    <2>3. QED
      BY <2>1, <2>2, FS_Surjection
  <1> DEFINE E == Extra(kind)
  <1>2. IsFiniteSet(E)
    <2>1. E \in SUBSET AllCeramics
      BY DEF Extra
    <2> HIDE DEF E
    <2>2. QED
      BY <1>1, <2>1, FS_Subset
  <1> HIDE DEF E
  <1> DEFINE D == {deletion}
  <1>3. IsFiniteSet(D)
    BY FS_Singleton
  <1> DEFINE S == D \X E
  <1>4. IsFiniteSet(S)
    <2> HIDE DEF D
    <2> QED BY <1>2, <1>3, FS_Product
  <1>5. \A c \in S : c[1] = deletion
    OBVIOUS
  <1> HIDE DEF S
  <1>6. IsSeq(SetToSeq(S)) /\ ToSet(SetToSeq(S)) = S
    BY <1>4, SetToSeqFacts
  <1>7. \A i \in 1 .. Len(SetToSeq(S)) : SetToSeq(S)[i] \in S
    <2> DEFINE q == SetToSeq(S)
    <2>1. IsSeq(q) /\ ToSet(q) = S
      BY <1>6
    <2> HIDE DEF q
    <2>2. \A i \in 1 .. Len(q) : q[i] \in S
      BY <2>1, SeqFacts
    <2>3. QED
      BY <2>2 DEF q
  <1>8. QED
    BY <1>5, <1>6, <1>7 DEF S, E

\* What is to be deleted comes next.
LEMMA ListCeramicsStep ==
  ASSUME IInv, ListCeramics
  PROVE  IInv'
  <1>1. Head(pass.todo)[1] = "list" /\ pass.todo # <<>>
    BY DEF ListCeramics, Doing
  <1>2. UNCHANGED <<flag, namespace, objs, secrets, password, rights>> /\ UNCHANGED environment
    BY DEF ListCeramics
  <1>3. /\ Types' /\ ObjectsKnown' /\ SetsProvided' /\ SecretsKept'
        /\ net'.uid = net.uid /\ (Alive' <=> Alive) /\ \A c : Have(c) <=> Have(c)'
    BY <1>2, QuietStep
  <1>4. PICK x : x = Head(pass.todo)
    OBVIOUS
  <1>5. PICK s \in AllSpecs, k \in Nat :
          /\ pass.spec = s /\ k \in 1 .. Len(PassCalls[s]) /\ x = PassCalls[s][k]
          /\ Left(Tail(pass.todo), PassCalls[s], 0, k + 1)
          /\ Alive => Applied(PassCalls[s], k)
    BY <1>1, <1>4, HeadKnown DEF IInv
  <1> DEFINE P == PassCalls[s]
  <1>6. Sound(s, {}, P) /\ IsSeq(P) /\ Len(P) \in Nat
    BY PassCallsFacts, SeqFacts DEF Sound
  <1> HIDE DEF P
  <1>7. k \in 1 .. Len(P) /\ P[k][1] = "list" /\ k + 1 \in 1 .. Len(P) + 1
    BY <1>1, <1>4, <1>5, <1>6 DEF P
  <1> DEFINE a == SetToSeq({"deleteSet"} \X Extra("set"))
             b == SetToSeq({"deleteService"} \X Extra("service"))
             r == Tail(pass.todo)
  <1>8. /\ IsSeq(a) /\ \A i \in 1 .. Len(a) : a[i][1] = "deleteSet"
        /\ IsSeq(b) /\ \A i \in 1 .. Len(b) : b[i][1] = "deleteService"
    BY Deletions
  <1>9. GoOn(a \o b \o r)
    BY DEF ListCeramics
  <1>10. Left(r, P, 0, k + 1)
    BY <1>5 DEF P
  <1> HIDE DEF a, b, r
  <1> DEFINE d == a \o b
  <1>11. IsSeq(d) /\ Len(d) \in Nat /\ \A i \in 1 .. Len(d) : d[i][1] \in {"deleteSet", "deleteService"}
    <2>1. IsSeq(d) /\ Len(d) \in Nat
      BY <1>8, Joined, SeqFacts
    <2>2. ASSUME NEW i \in 1 .. Len(d)
          PROVE  d[i][1] \in {"deleteSet", "deleteService"}
      <3>1. /\ i \in 1 .. Len(a) + Len(b) /\ Len(a) \in Nat /\ Len(b) \in Nat
            /\ d[i] = IF i <= Len(a) THEN a[i] ELSE b[i - Len(a)]
        BY <1>8, Joined, SeqFacts
      <3>2. CASE i <= Len(a)
        BY <1>8, <3>1, <3>2
      <3>3. CASE ~ (i <= Len(a))
        <4>1. i - Len(a) \in 1 .. Len(b)
          BY <3>1, <3>3
        <4>2. QED
          BY <1>8, <3>1, <3>3, <4>1
      <3>4. QED
        BY <3>2, <3>3
    <2>3. QED
      BY <2>1, <2>2
  <1>12. GoOn(d \o r)
    BY <1>9
  <1> HIDE DEF d
  <1>13. Left(d \o r, P, Len(d), k + 1)
    BY <1>6, <1>7, <1>10, <1>11, LeftAfter
  <1>14. Alive' => Applied(P, k + 1)'
    <2>1. \A i \in 1 .. k + 1 - 1 : i \in 1 .. k - 1 \/ i = k
      OBVIOUS
    <2>2. QED
      BY <1>3, <1>5, <1>7, <2>1 DEF Applied, Lasting, P
  <1>15. MissingAt(P, k + 1)'
    <2>1. k + 1 <= Len(P) => P[k + 1][1] \notin {"createSecret", "source"}
      BY <1>6, <1>7, AfterOthers
    <2>2. QED
      BY <2>1 DEF MissingAt
  <1>16. PICK q : q = d \o r
    OBVIOUS
  <1>17. PICK m : m = Len(d)
    OBVIOUS
  <1>18. GoOn(q) /\ Left(q, P, m, k + 1) /\ m \in Nat
    BY <1>11, <1>12, <1>13, <1>16, <1>17
  <1>19. PassInv'
    BY <1>1, <1>3, <1>5, <1>7, <1>14, <1>15, <1>18, StandsAt DEF IInv, P
  <1>20. QED
    BY <1>3, <1>19 DEF IInv

\* An object of the spec is applied.
LEMMA ApplyStep ==
  ASSUME IInv, NEW mode, Apply(mode), Head(pass.todo)[1] \in {"map", "service", "account", "set"},
         pass.todo # <<>>
  PROVE  IInv'
  <1>1. /\ Done /\ objs' = Put(objs, Head(pass.todo), Owned(mode))
        /\ UNCHANGED <<flag, namespace, secrets, password, rights>> /\ UNCHANGED environment
    BY DEF Apply
  <1>2. PICK x : x = Head(pass.todo)
    OBVIOUS
  <1>3. PICK s \in AllSpecs, k \in Nat :
          /\ pass.spec = s /\ k \in 1 .. Len(PassCalls[s]) /\ x = PassCalls[s][k]
          /\ IsCall(x) /\ x \in ToSet(PassCalls[s])
          /\ Alive => Applied(PassCalls[s], k)
    BY <1>2, HeadKnown DEF IInv
  <1> DEFINE P == PassCalls[s]
  <1>4. Sound(s, {}, P) /\ IsSeq(P) /\ Len(P) \in Nat
    BY PassCallsFacts, SeqFacts DEF Sound
  <1> HIDE DEF P
  <1>5. /\ Types' /\ net' = net /\ net'.uid \in Nat /\ net'.uid >= net.uid /\ net'.uid = net.uid
        /\ (Alive' <=> Alive)
    <2>1. /\ flag' \in BOOLEAN /\ namespace' \in 0 .. net.uid
          /\ DOMAIN password' \subseteq Databases /\ DOMAIN rights' \subseteq {"role", "binding"}
          /\ \A n \in DOMAIN secrets' : secrets'[n].owner \in 1 .. net.uid
      BY <1>1 DEF IInv, Types
    <2>2. QED
      BY <1>1, <2>1, TypesKept DEF IInv
  <1>6. x[1] = "set" => /\ x \in ToSet(PassCalls[s])
                        /\ Alive => \A c \in NeedCalls(s, x[2]) : Have(c)
    <2> SUFFICES ASSUME x[1] = "set", Alive, NEW c \in NeedCalls(s, x[2])
                 PROVE  Have(c)
      BY <1>3
    <2>1. k \in 1 .. Len(P) /\ P[k] = x
      BY <1>3 DEF P
    <2>2. \E i \in 1 .. k - 1 : P[i] = c
      BY <1>4, <2>1 DEF Sound, NeedsBefore
    <2>3. c[1] \in Lasting
      BY NeedCallsLasting
    <2>4. QED
      BY <1>3, <2>2, <2>3 DEF Applied, P
  <1>7. pass.uid \in 1 .. net.uid
    BY WhereItStands DEF IInv
  <1>8. /\ ObjectsKnown' /\ SetsProvided' /\ x \in DOMAIN objs'
        /\ \A c : c[1] \in Lasting /\ Have(c) => Have(c)'
    <2>1. x = <<x[1], x[2]>> /\ objs' = Put(objs, x, Owned(mode)) /\ UNCHANGED <<net, secrets>>
      BY <1>1, <1>2, <1>3, <1>5 DEF IsCall
    <2>2. Types /\ ObjectsKnown /\ SetsProvided
      BY DEF IInv
    <2>3. QED
      BY <1>3, <1>6, <1>7, <2>1, <2>2, PutObject
  <1>9. SecretsKept'
    BY <1>1, <1>5 DEF IInv, SecretsKept
  <1>10. PassInv'
    <2>1. \A c : c = Head(pass.todo) /\ c[1] \in Lasting => Have(c)'
      BY <1>2, <1>8 DEF Lasting, Have
    <2>2. DOMAIN secrets' \subseteq DOMAIN secrets /\ Head(pass.todo)[1] # "findSecret"
      BY <1>1
    <2>3. QED
      BY <1>1, <1>5, <1>8, <2>1, <2>2, DoneKeeps DEF IInv
  <1>11. QED
    BY <1>5, <1>8, <1>9, <1>10 DEF IInv

\* Monitors are objects no set needs.
LEMMA CreateMonitorStep ==
  ASSUME IInv, CreateMonitor
  PROVE  IInv'
  <1>1. /\ Done /\ pass.todo # <<>> /\ Head(pass.todo)[1] = "createMonitor"
        /\ objs' = Put(objs, <<"monitor", Name>>, Owned({}))
        /\ UNCHANGED <<flag, namespace, secrets, password, rights>> /\ UNCHANGED environment
    BY DEF CreateMonitor, Doing
  <1>2. PICK x : x = <<"monitor", Name>>
    OBVIOUS
  <1>3. x = <<x[1], x[2]>> /\ x[1] # "set"
    BY <1>2
  <1>4. /\ Types' /\ net' = net /\ net'.uid \in Nat /\ net'.uid >= net.uid /\ net'.uid = net.uid
        /\ (Alive' <=> Alive)
    <2>1. /\ flag' \in BOOLEAN /\ namespace' \in 0 .. net.uid
          /\ DOMAIN password' \subseteq Databases /\ DOMAIN rights' \subseteq {"role", "binding"}
          /\ \A n \in DOMAIN secrets' : secrets'[n].owner \in 1 .. net.uid
      BY <1>1 DEF IInv, Types
    <2>2. QED
      BY <1>1, <2>1, TypesKept DEF IInv
  <1>5. pass.uid \in 1 .. net.uid /\ pass.spec \in AllSpecs
    BY <1>1, WhereItStands DEF IInv
  <1>6. PICK s \in AllSpecs : pass.spec = s
    BY <1>5
  <1>7. /\ ObjectsKnown' /\ SetsProvided'
        /\ \A c : c[1] \in Lasting /\ Have(c) => Have(c)'
    <2>1. objs' = Put(objs, x, Owned({})) /\ UNCHANGED <<net, secrets>>
      BY <1>1, <1>2, <1>4
    <2>2. Types /\ ObjectsKnown /\ SetsProvided
      BY DEF IInv
    <2>3. QED
      BY <1>3, <1>5, <1>6, <2>1, <2>2, PutObject
  <1>8. SecretsKept'
    BY <1>1, <1>4 DEF IInv, SecretsKept
  <1>9. PassInv'
    <2>1. \A c : c = Head(pass.todo) /\ c[1] \in Lasting => Have(c)'
      BY <1>1 DEF Lasting
    <2>2. DOMAIN secrets' \subseteq DOMAIN secrets /\ Head(pass.todo)[1] # "findSecret"
      BY <1>1
    <2>3. QED
      BY <1>1, <1>4, <1>7, <2>1, <2>2, DoneKeeps DEF IInv
  <1>10. QED
    BY <1>4, <1>7, <1>8, <1>9 DEF IInv

\* The look has shown that there is no such secret, so no login is drawn anew.
LEMMA CreateSecretStep ==
  ASSUME IInv, CreateSecret
  PROVE  IInv'
  <1>1. /\ Done /\ pass.todo # <<>> /\ Head(pass.todo)[1] = "createSecret"
        /\ secrets' = Put(secrets, Name, [owner |-> Owner, version |-> Fresh])
        /\ UNCHANGED <<flag, namespace, objs, password, rights>> /\ UNCHANGED environment
    BY DEF CreateSecret, Doing
  <1>2. PICK x : x = Head(pass.todo)
    OBVIOUS
  <1>3. Alive => x[2] \notin DOMAIN secrets
    <2>1. PICK s \in AllSpecs, k \in Nat :
            /\ k \in 1 .. Len(PassCalls[s]) /\ x = PassCalls[s][k]
            /\ Alive => MissingAt(PassCalls[s], k)
      BY <1>1, <1>2, HeadKnown DEF IInv
    <2>2. QED
      BY <1>1, <1>2, <2>1 DEF MissingAt
  <1>4. Name = x[2]
    BY <1>2 DEF Name
  <1>5. pass.uid \in 1 .. net.uid
    BY <1>1, WhereItStands DEF IInv
  <1>6. /\ DOMAIN secrets' = {x[2]} \cup DOMAIN secrets
        /\ secrets'[x[2]].owner = pass.uid
        /\ \A n \in DOMAIN secrets : n # x[2] => secrets'[n] = secrets[n]
    <2> DEFINE fresh == Fresh
    <2>1. secrets' = Put(secrets, x[2], [owner |-> pass.uid, version |-> fresh])
      BY <1>1, <1>4 DEF Owner
    <2> HIDE DEF fresh
    <2>2. QED
      BY <2>1 DEF Put, Over, One
  <1>7. \A n \in DOMAIN secrets' : secrets'[n].owner \in 1 .. net.uid
    BY <1>5, <1>6 DEF IInv, Types
  <1>8. /\ Types' /\ net' = net /\ net'.uid \in Nat /\ net'.uid >= net.uid /\ net'.uid = net.uid
        /\ (Alive' <=> Alive)
    <2>1. /\ flag' \in BOOLEAN /\ namespace' \in 0 .. net.uid
          /\ DOMAIN password' \subseteq Databases /\ DOMAIN rights' \subseteq {"role", "binding"}
      BY <1>1 DEF IInv, Types
    <2>2. QED
      BY <1>1, <1>7, <2>1, TypesKept DEF IInv
  <1>9. SecretsKept'
    <2> SUFFICES ASSUME Alive', NEW n \in DOMAIN password'
                 PROVE  Login(n) \in DOMAIN secrets' /\ secrets'[Login(n)].version = password'[n]
      BY DEF SecretsKept, Alive
    <2>1. Login(n) \in DOMAIN secrets /\ secrets[Login(n)].version = password[n] /\ password' = password
      BY <1>1, <1>8 DEF IInv, SecretsKept, Alive
    <2>2. Login(n) # x[2]
      BY <1>3, <1>8, <2>1
    <2>3. QED
      BY <1>6, <2>1, <2>2
  <1>10. \A c : Have(c) => Have(c)'
    BY <1>1, <1>6 DEF Have
  <1>11. ObjectsKnown' /\ SetsProvided'
    BY <1>1, <1>8, <1>10 DEF IInv, ObjectsKnown, SetsProvided
  <1>12. PassInv'
    <2>1. \A c : c = Head(pass.todo) /\ c[1] \in Lasting => Have(c)'
      BY <1>1, <1>2, <1>6 DEF Have
    <2>2. QED
      BY <1>1, <1>8, <1>10, <2>1, DoneKeeps DEF IInv
  <1>13. QED
    BY <1>8, <1>9, <1>11, <1>12 DEF IInv

\* A set or service goes: nothing waits for one.
LEMMA DeleteStep ==
  ASSUME IInv, NEW x, x[1] \in {"set", "service"}, Delete(x), pass.todo # <<>>,
         Head(pass.todo)[1] \in {"deleteSet", "deleteService"}
  PROVE  IInv'
  <1>1. /\ Done /\ UNCHANGED <<flag, namespace, secrets, password, rights>> /\ UNCHANGED environment
        /\ DOMAIN objs' = DOMAIN objs \ {x} /\ \A y \in DOMAIN objs' : objs'[y] = objs[y]
    BY DEF Delete, Keep
  <1>2. /\ Types' /\ net' = net /\ net'.uid \in Nat /\ net'.uid >= net.uid /\ net'.uid = net.uid
        /\ (Alive' <=> Alive)
    <2>1. /\ flag' \in BOOLEAN /\ namespace' \in 0 .. net.uid
          /\ DOMAIN password' \subseteq Databases /\ DOMAIN rights' \subseteq {"role", "binding"}
          /\ \A n \in DOMAIN secrets' : secrets'[n].owner \in 1 .. net.uid
      BY <1>1 DEF IInv, Types
    <2>2. QED
      BY <1>1, <2>1, TypesKept DEF IInv
  <1>3. \A c : c[1] \in Lasting /\ Have(c) => Have(c)'
    BY <1>1 DEF Have, Lasting
  <1>4. ObjectsKnown'
    BY <1>1, <1>2 DEF IInv, ObjectsKnown
  <1>5. SetsProvided'
    <2> SUFFICES ASSUME Alive', NEW y \in DOMAIN objs', y[1] = "set", NEW c \in NeedCalls(objs'[y].spec, y[2])
                 PROVE  Have(c)'
      BY DEF SetsProvided
    <2>1. Have(c) /\ c[1] \in Lasting
      BY <1>1, <1>2, NeedCallsLasting DEF IInv, SetsProvided
    <2>2. QED
      BY <1>3, <2>1
  <1>6. SecretsKept'
    BY <1>1, <1>2 DEF IInv, SecretsKept
  <1>7. PassInv'
    <2>1. \A c : c = Head(pass.todo) /\ c[1] \in Lasting => Have(c)'
      BY DEF Lasting
    <2>2. DOMAIN secrets' \subseteq DOMAIN secrets /\ Head(pass.todo)[1] # "findSecret"
      BY <1>1
    <2>3. QED
      BY <1>1, <1>2, <1>3, <2>1, <2>2, DoneKeeps DEF IInv
  <1>8. QED
    BY <1>2, <1>4, <1>5, <1>6, <1>7 DEF IInv

\* The extra sets and services are deleted one by one.
LEMMA DeleteExtraStep ==
  ASSUME IInv, DeleteExtraSet \/ DeleteExtraService
  PROVE  IInv'
  <1>1. PICK n : n = Name
    OBVIOUS
  <1>2. CASE DeleteExtraSet
    <2>1. PICK x : x = <<"set", n>>
      OBVIOUS
    <2>2. x[1] = "set" /\ Delete(x) /\ pass.todo # <<>> /\ Head(pass.todo)[1] = "deleteSet"
      BY <1>1, <1>2, <2>1 DEF DeleteExtraSet, Doing
    <2>3. QED
      BY <2>2, DeleteStep
  <1>3. CASE DeleteExtraService
    <2>1. PICK x : x = <<"service", n>>
      OBVIOUS
    <2>2. x[1] = "service" /\ Delete(x) /\ pass.todo # <<>> /\ Head(pass.todo)[1] = "deleteService"
      BY <1>1, <1>3, <2>1 DEF DeleteExtraService, Doing
    <2>3. QED
      BY <2>2, DeleteStep
  <1>4. QED
    BY <1>2, <1>3

\* A pass that is cut short leaves the cluster as it is.
LEMMA AbortStep ==
  ASSUME IInv, Abort
  PROVE  IInv'
  <1>1. /\ pass' = Idle /\ flag' \in {flag, FALSE} /\ left.aborts > 0
        /\ left' = [left EXCEPT !.aborts = @ - 1]
        /\ UNCHANGED <<net, cache, aged, namespace, objs, secrets, password, rights, other>>
    BY DEF Abort, GoOn
  <1>2. left' \in HistoryType
    BY <1>1 DEF IInv, Types, HistoryType
  <1>3. Types' /\ (Alive' <=> Alive) /\ net'.uid \in Nat /\ net'.uid >= net.uid
    <2>1. net'.uid \in Nat /\ net'.uid >= net.uid /\ (Alive' <=> Alive)
      BY <1>1 DEF IInv, Types, Networks, Alive
    <2>2. flag' \in BOOLEAN
      BY <1>1 DEF IInv, Types
    <2>3. net' \in Networks /\ cache' \in Networks /\ cache'.uid <= net'.uid
      BY <1>1 DEF IInv, Types
    <2>4. Types'
      BY <1>1, <1>2, <2>2, <2>3 DEF IInv, Types
    <2>5. QED
      BY <2>1, <2>4
  <1>4. ObjectsKnown' /\ SetsProvided' /\ SecretsKept'
    BY <1>1, <1>3, ClusterUnchanged DEF IInv
  <1>5. PassInv'
    BY <1>1 DEF PassInv, Idle
  <1>6. QED
    BY <1>3, <1>4, <1>5 DEF IInv

\* What happens around the operator leaves all that the pass works with.
LEMMA OutsideStep ==
  ASSUME IInv, UNCHANGED content, Types', net'.uid >= net.uid, Alive' => Alive
  PROVE  IInv'
  <1>1. UNCHANGED <<pass, objs, secrets, password>> /\ net'.uid \in Nat
    BY DEF content, Types, Networks
  <1>2. ObjectsKnown' /\ SetsProvided' /\ SecretsKept' /\ \A c : c[1] \in Lasting /\ Have(c) => Have(c)'
    BY <1>1, ClusterUnchanged DEF IInv
  <1>3. PassInv'
    BY <1>1, <1>2, UntouchedPass DEF IInv
  <1>4. QED
    BY <1>2, <1>3 DEF IInv

\* The spec changes under a pass, which goes on with its own.
LEMMA UserEditsStep ==
  ASSUME IInv, UserEdits
  PROVE  IInv'
  <1>1. PICK s \in left.later : net' = [net EXCEPT !.spec = s]
    BY DEF UserEdits
  <1>2. /\ left.edits > 0 /\ left' = [left EXCEPT !.edits = @ - 1]
        /\ UNCHANGED <<cache, aged, other>> /\ UNCHANGED content
    BY DEF UserEdits
  <1>3. left' \in HistoryType /\ s \in AllSpecs
    BY <1>2 DEF IInv, Types, HistoryType, AllSpecs
  <1>4. net' \in Networks /\ net'.uid = net.uid /\ net'.exists = net.exists /\ net.uid \in Nat
    BY <1>1, <1>3 DEF IInv, Types, Networks
  <1>5. Types' /\ (Alive' <=> Alive) /\ net'.uid >= net.uid
    BY <1>2, <1>3, <1>4 DEF IInv, Types, Alive, content
  <1>6. QED
    BY <1>2, <1>5, OutsideStep

\* The properties end with the network they speak of.
LEMMA UserDeletesStep ==
  ASSUME IInv, UserDeletes
  PROVE  IInv'
  <1>1. /\ left.deletes > 0 /\ left' = [left EXCEPT !.deletes = @ - 1]
        /\ net' = [net EXCEPT !.exists = FALSE]
        /\ UNCHANGED <<cache, aged, other>> /\ UNCHANGED content
    BY DEF UserDeletes
  <1>2. left' \in HistoryType
    BY <1>1 DEF IInv, Types, HistoryType
  <1>3. net' \in Networks /\ net'.uid = net.uid /\ net'.exists = FALSE /\ net.uid \in Nat
    BY <1>1 DEF IInv, Types, Networks
  <1>4. Types' /\ ~ Alive' /\ net'.uid >= net.uid
    BY <1>1, <1>2, <1>3 DEF IInv, Types, Alive, content
  <1>5. QED
    BY <1>1, <1>4, OutsideStep

\* The network created again is not the one created first.
LEMMA UserCreatesStep ==
  ASSUME IInv, UserCreates
  PROVE  IInv'
  <1>1. PICK s \in left.later : net' = [exists |-> TRUE, uid |-> net.uid + 1, spec |-> s]
    BY DEF UserCreates
  <1>2. /\ left.creates > 0 /\ left' = [left EXCEPT !.creates = @ - 1]
        /\ UNCHANGED <<cache, aged, other>> /\ UNCHANGED content
    BY DEF UserCreates
  <1>3. left' \in HistoryType /\ s \in AllSpecs
    BY <1>2 DEF IInv, Types, HistoryType, AllSpecs
  <1>4. net.uid \in Nat \ {0}
    BY DEF IInv, Types, Networks
  <1>5. net' \in Networks /\ net'.uid = net.uid + 1
    BY <1>1, <1>3, <1>4 DEF Networks
  <1>6. ~ Alive' /\ net'.uid >= net.uid
    BY <1>4, <1>5 DEF Alive
  <1>7. Types'
    <2>1. cache' \in Networks /\ cache'.uid \in Nat /\ cache'.uid <= net'.uid
      BY <1>2, <1>4, <1>5 DEF IInv, Types, Networks
    <2>2. \A i : i \in 1 .. net.uid => i \in 1 .. net'.uid
      BY <1>4, <1>5
    <2>3. aged' \subseteq 1 .. net'.uid /\ other'.mode \in BOOLEAN
      BY <1>2, <2>2 DEF IInv, Types
    <2>4. /\ flag' \in BOOLEAN /\ namespace' \in 0 .. net'.uid
          /\ DOMAIN password' \subseteq Databases /\ DOMAIN rights' \subseteq {"role", "binding"}
      BY <1>2, <1>4, <1>5 DEF IInv, Types, content
    <2>5. \A n \in DOMAIN secrets' : secrets'[n].owner \in 1 .. net'.uid
      BY <1>2, <2>2 DEF IInv, Types, content
    <2>6. QED
      BY <1>3, <1>5, <2>1, <2>3, <2>4, <2>5 DEF Types
  <1>8. QED
    BY <1>2, <1>6, <1>7, OutsideStep

\* The cache follows the network.
LEMMA ObserveStep ==
  ASSUME IInv, Observe
  PROVE  IInv'
  <1>1. cache' = net /\ UNCHANGED <<net, aged, other, left>> /\ UNCHANGED content
    BY DEF Observe
  <1>2. net \in Networks /\ net.uid \in Nat
    BY DEF IInv, Types, Networks
  <1>3. net' \in Networks /\ cache' \in Networks /\ cache'.uid <= net'.uid
    BY <1>1, <1>2
  <1>4. Types' /\ (Alive' <=> Alive) /\ net'.uid >= net.uid
    BY <1>1, <1>2, <1>3 DEF IInv, Types, Alive, content
  <1>5. QED
    BY <1>1, <1>4, OutsideStep

\* The network that exists comes of age.
LEMMA AgeStep ==
  ASSUME IInv, Age
  PROVE  IInv'
  <1>1. aged' = aged \cup {net.uid} /\ UNCHANGED <<net, cache, other, left>> /\ UNCHANGED content
    BY DEF Age
  <1>2. net.uid \in Nat /\ net.uid \in 1 .. net.uid
    BY DEF IInv, Types, Networks
  <1>3. aged' \subseteq 1 .. net'.uid
    BY <1>1, <1>2 DEF IInv, Types
  <1>4. Types' /\ (Alive' <=> Alive) /\ net'.uid >= net.uid
    BY <1>1, <1>2, <1>3 DEF IInv, Types, Alive, content
  <1>5. QED
    BY <1>1, <1>4, OutsideStep

\* The other network goes.
LEMMA OtherIsDeletedStep ==
  ASSUME IInv, OtherIsDeleted
  PROVE  IInv'
  <1>1. /\ other' = [exists |-> FALSE, mode |-> FALSE]
        /\ UNCHANGED <<net, cache, aged, left>> /\ UNCHANGED content
    BY DEF OtherIsDeleted
  <1>2. Types' /\ (Alive' <=> Alive) /\ net'.uid >= net.uid
    BY <1>1 DEF IInv, Types, Networks, Alive, content
  <1>3. QED
    BY <1>1, <1>2, OutsideStep

\* The pass stands where it stood while its flag or the rights change.
LEMMA AsideStep ==
  ASSUME IInv, UNCHANGED <<pass, objs, secrets, password>>, UNCHANGED environment,
         flag' \in BOOLEAN, namespace' \in 0 .. net.uid, DOMAIN rights' \subseteq {"role", "binding"}
  PROVE  IInv'
  <1>1. /\ Types' /\ ObjectsKnown' /\ SetsProvided' /\ SecretsKept'
        /\ net'.uid = net.uid /\ net'.uid \in Nat /\ (Alive' <=> Alive)
        /\ \A c : Have(c) <=> Have(c)'
    BY CalmStep
  <1>2. PassInv'
    BY <1>1, UntouchedPass DEF IInv
  <1>3. QED
    BY <1>1, <1>2 DEF IInv

\* The flag and the rights are what the networks share.
LEMMA OtherActsStep ==
  ASSUME IInv, OtherStoresFlag \/ OtherAppliesRight \/ CollectRights
  PROVE  IInv'
  <1>1. UNCHANGED <<pass, objs, secrets, password, namespace>> /\ UNCHANGED environment
    BY DEF OtherStoresFlag, OtherAppliesRight, CollectRights
  <1>2. flag' \in BOOLEAN
    BY DEF OtherStoresFlag, OtherAppliesRight, CollectRights, IInv, Types
  <1>3. DOMAIN rights' \subseteq {"role", "binding"}
    <2>1. DOMAIN rights \subseteq {"role", "binding"}
      BY DEF IInv, Types
    <2>2. CASE OtherStoresFlag
      BY <2>1, <2>2 DEF OtherStoresFlag
    <2>3. CASE OtherAppliesRight
      BY <2>1, <2>3 DEF OtherAppliesRight, Put, Over, One
    <2>4. CASE CollectRights
      BY <2>1, <2>4 DEF CollectRights, Keep
    <2>5. QED
      BY <2>2, <2>3, <2>4
  <1>4. namespace' \in 0 .. net.uid
    BY <1>1 DEF IInv, Types
  <1>5. QED
    BY <1>1, <1>2, <1>3, <1>4, AsideStep

\* The collector has nothing to do while the network created first is there.
LEMMA NothingToCollect ==
  ASSUME IInv, Alive
  PROVE  /\ namespace # 0 => Live(namespace)
         /\ Orphans(objs) = {} /\ Orphans(secrets) = {}
  <1>1. net.uid = 1 /\ net.exists /\ \A i \in 1 .. net.uid : i = net.uid
    BY DEF Alive
  <1>2. \A i \in 1 .. net.uid : Live(i)
    BY <1>1 DEF Live
  <1>3. namespace \in 0 .. 1
    BY <1>1 DEF IInv, Types
  <1>4. namespace # 0 => namespace \in 1 .. net.uid
    BY <1>1, <1>3
  <1>5. \A x \in DOMAIN objs : objs[x].owner \in 1 .. net.uid
    BY DEF IInv, ObjectsKnown
  <1>6. \A n \in DOMAIN secrets : secrets[n].owner \in 1 .. net.uid
    BY DEF IInv, Types
  <1>7. QED
    BY <1>2, <1>4, <1>5, <1>6 DEF Orphans

\* The collector acts on what a dead network owned.
LEMMA CollectStep ==
  ASSUME IInv, CollectNamespace \/ CollectObjects
  PROVE  IInv'
  <1>1. UNCHANGED <<pass, flag, rights>> /\ UNCHANGED environment
    BY DEF CollectNamespace, CollectObjects
  <1>2. ~ Alive
    BY NothingToCollect DEF CollectNamespace, CollectObjects
  <1>3. net.uid \in Nat /\ namespace \in 0 .. net.uid
    BY DEF IInv, Types, Networks
  <1>4. /\ \A x \in DOMAIN objs' : x \in DOMAIN objs /\ objs'[x] = objs[x]
        /\ \A n \in DOMAIN secrets' : n \in DOMAIN secrets /\ secrets'[n] = secrets[n]
        /\ DOMAIN password' \subseteq DOMAIN password /\ namespace' \in {0, namespace}
    <2>1. CASE CollectNamespace
      <3>1. DOMAIN <<>> = {}
        OBVIOUS
      <3>2. QED
        BY <2>1, <3>1 DEF CollectNamespace
    <2>2. CASE CollectObjects
      BY <2>2 DEF CollectObjects, Keep
    <2>3. QED
      BY <2>1, <2>2
  <1>5. /\ DOMAIN password' \subseteq Databases /\ namespace' \in 0 .. net.uid
        /\ \A n \in DOMAIN secrets' : secrets'[n].owner \in 1 .. net.uid
        /\ flag' \in BOOLEAN /\ DOMAIN rights' \subseteq {"role", "binding"}
    BY <1>1, <1>3, <1>4 DEF IInv, Types
  <1>6. Types' /\ net' = net /\ net'.uid \in Nat /\ net'.uid >= net.uid /\ ~ Alive'
    BY <1>1, <1>2, <1>5, TypesKept DEF IInv
  <1>7. ObjectsKnown'
    BY <1>4, <1>6 DEF IInv, ObjectsKnown
  <1>8. SetsProvided' /\ SecretsKept'
    BY <1>6 DEF SetsProvided, SecretsKept, Alive
  <1>9. PassInv'
    BY <1>1, <1>6, UntouchedPass DEF IInv
  <1>10. QED
    BY <1>6, <1>7, <1>8, <1>9 DEF IInv

\* A database is created with the login there is.
LEMMA DatabasesStartStep ==
  ASSUME IInv, DatabasesStart
  PROVE  IInv'
  <1> DEFINE starting == {n \in Databases : /\ <<"set", n>> \in DOMAIN objs
                                            /\ n \notin DOMAIN password
                                            /\ Login(n) \in DOMAIN secrets}
  <1>1. /\ password' = Over([n \in starting |-> secrets[Login(n)].version], password)
        /\ UNCHANGED <<pass, flag, namespace, objs, secrets, rights>> /\ UNCHANGED environment
    BY DEF DatabasesStart
  <1>2. /\ DOMAIN password' = starting \cup DOMAIN password
        /\ \A n \in starting : password'[n] = secrets[Login(n)].version
        /\ \A n \in DOMAIN password \ starting : password'[n] = password[n]
    <2> DEFINE new == [n \in starting |-> secrets[Login(n)].version]
    <2>1. DOMAIN new = starting /\ \A n \in starting : new[n] = secrets[Login(n)].version
      OBVIOUS
    <2>2. password' = Over(new, password)
      BY <1>1
    <2> HIDE DEF new, starting
    <2>3. QED
      BY <2>1, <2>2 DEF Over
  <1>3. starting \subseteq Databases /\ \A n \in starting : Login(n) \in DOMAIN secrets
    OBVIOUS
  <1> HIDE DEF starting
  <1>4. /\ Types' /\ net' = net /\ net'.uid \in Nat /\ net'.uid >= net.uid /\ net'.uid = net.uid
        /\ (Alive' <=> Alive)
    <2>1. /\ flag' \in BOOLEAN /\ namespace' \in 0 .. net.uid
          /\ DOMAIN password' \subseteq Databases /\ DOMAIN rights' \subseteq {"role", "binding"}
          /\ \A n \in DOMAIN secrets' : secrets'[n].owner \in 1 .. net.uid
      BY <1>1, <1>2, <1>3 DEF IInv, Types
    <2>2. QED
      BY <1>1, <2>1, TypesKept DEF IInv
  <1>5. SecretsKept'
    <2> SUFFICES ASSUME Alive', NEW n \in DOMAIN password'
                 PROVE  Login(n) \in DOMAIN secrets' /\ secrets'[Login(n)].version = password'[n]
      BY DEF SecretsKept, Alive
    <2>1. CASE n \in starting
      BY <1>1, <1>2, <1>3, <2>1
    <2>2. CASE n \notin starting
      <3>1. n \in DOMAIN password /\ password'[n] = password[n]
        BY <1>2, <2>2
      <3>2. Login(n) \in DOMAIN secrets /\ secrets[Login(n)].version = password[n]
        BY <1>4, <3>1 DEF IInv, SecretsKept, Alive
      <3>3. QED
        BY <1>1, <3>1, <3>2
    <2>3. QED
      BY <2>1, <2>2
  <1>6. \A c : Have(c) <=> Have(c)'
    BY <1>1 DEF Have
  <1>7. ObjectsKnown' /\ SetsProvided'
    BY <1>1, <1>4, <1>6 DEF IInv, ObjectsKnown, SetsProvided
  <1>8. PassInv'
    BY <1>1, <1>4, <1>6, UntouchedPass DEF IInv
  <1>9. QED
    BY <1>4, <1>5, <1>7, <1>8 DEF IInv

-----------------------------------------------------------------------------
(* The theorems. *)

\* There is nothing at first.
LEMMA InitInvariance ==
  ASSUME Init
  PROVE  IInv
  <1>1. left \in HistoryType
    BY PassAssumption DEF Init
  <1>2. PICK s \in left.first : net = [exists |-> TRUE, uid |-> 1, spec |-> s]
    BY DEF Init
  <1>3. net \in Networks /\ net.uid = 1 /\ cache = net
    BY <1>1, <1>2 DEF Init, Networks, HistoryType, AllSpecs
  <1>4. DOMAIN <<>> = {}
    OBVIOUS
  <1>5. DOMAIN password = {} /\ DOMAIN rights = {} /\ DOMAIN secrets = {} /\ DOMAIN objs = {}
    BY <1>4 DEF Init
  <1>6. flag \in BOOLEAN /\ other.mode \in BOOLEAN
    <2>1. left.others \in BOOLEAN
      BY <1>1 DEF HistoryType
    <2>2. PICK m \in BOOLEAN : other = [exists |-> left.others, mode |-> left.others /\ m]
      BY DEF Init
    <2>3. other.mode = (left.others /\ m)
      BY <2>2
    <2>4. QED
      BY <2>1, <2>3 DEF Init
  <1>7. Types
    BY <1>1, <1>3, <1>5, <1>6 DEF Types, Init
  <1>8. PassInv
    BY DEF Init, PassInv
  <1>9. ObjectsKnown /\ SetsProvided /\ SecretsKept
    BY <1>5 DEF ObjectsKnown, SetsProvided, SecretsKept
  <1>10. QED
    BY <1>7, <1>8, <1>9 DEF IInv

\* Each step of a pass keeps the invariant.
LEMMA PassStep ==
  ASSUME IInv, Pass
  PROVE  IInv'
  <1>1. CASE StartPass
    BY <1>1, StartPassStep
  <1>2. CASE StartExpiry
    BY <1>2, StartExpiryStep
  <1>3. CASE RejectPass
    BY <1>3, RejectPassStep
  <1>4. CASE DeleteNetwork
    BY <1>4, DeleteNetworkStep
  <1>5. CASE ApplyNamespace
    BY <1>5, ApplyNamespaceStep
  <1>6. CASE ApplyConfigMap
    <2>1. Apply({}) /\ Head(pass.todo)[1] = "map" /\ pass.todo # <<>>
      BY <1>6 DEF ApplyConfigMap, Doing
    <2>2. QED
      BY <2>1, ApplyStep
  <1>7. CASE ApplyService
    <2>1. Apply({}) /\ Head(pass.todo)[1] = "service" /\ pass.todo # <<>>
      BY <1>7 DEF ApplyService, Doing
    <2>2. QED
      BY <2>1, ApplyStep
  <1>8. CASE ApplyAccount
    <2>1. Apply({}) /\ Head(pass.todo)[1] = "account" /\ pass.todo # <<>>
      BY <1>8 DEF ApplyAccount, Doing
    <2>2. QED
      BY <2>1, ApplyStep
  <1>9. CASE ApplyStatefulSet
    <2>1. /\ Apply(IF Name \in Watched THEN ModeSeen(Name) ELSE {})
          /\ Head(pass.todo)[1] = "set" /\ pass.todo # <<>>
      BY <1>9 DEF ApplyStatefulSet, Doing
    <2> DEFINE mode == IF Name \in Watched THEN ModeSeen(Name) ELSE {}
    <2>2. Apply(mode)
      BY <2>1
    <2> HIDE DEF mode
    <2>3. QED
      BY <2>1, <2>2, ApplyStep
  <1>10. CASE ApplyRight
    BY <1>10, ApplyRightStep
  <1>11. CASE FindMonitor
    BY <1>11, FindMonitorStep
  <1>12. CASE CreateMonitor
    BY <1>12, CreateMonitorStep
  <1>13. CASE FindSecret
    BY <1>13, FindSecretStep
  <1>14. CASE ReadSource
    BY <1>14, ReadSourceStep
  <1>15. CASE CreateSecret
    BY <1>15, CreateSecretStep
  <1>16. CASE ListCeramics
    BY <1>16, ListCeramicsStep
  <1>17. CASE DeleteExtraSet \/ DeleteExtraService
    BY <1>17, DeleteExtraStep
  <1>18. CASE CallRefused
    BY <1>18, CallRefusedStep
  <1>l. CASE LoadMode
    BY <1>l, LoadModeStep
  <1>19. QED
    BY <1>1, <1>2, <1>3, <1>4, <1>5, <1>6, <1>7, <1>8, <1>9, <1>10, <1>11, <1>12, <1>13, <1>14, <1>15,
       <1>16, <1>17, <1>18, <1>l DEF Pass

\* So does every other step.
LEMMA NextStep ==
  ASSUME IInv, [Next]_vars
  PROVE  IInv'
  <1>1. CASE Pass
    BY <1>1, PassStep
  <1>2. CASE Abort
    BY <1>2, AbortStep
  <1>3. CASE CollectNamespace \/ CollectObjects
    BY <1>3, CollectStep
  <1>4. CASE OtherStoresFlag \/ OtherAppliesRight \/ CollectRights
    BY <1>4, OtherActsStep
  <1>5. CASE Observe
    BY <1>5, ObserveStep
  <1>6. CASE Age
    BY <1>6, AgeStep
  <1>7. CASE UserEdits
    BY <1>7, UserEditsStep
  <1>8. CASE UserDeletes
    BY <1>8, UserDeletesStep
  <1>9. CASE UserCreates
    BY <1>9, UserCreatesStep
  <1>10. CASE DatabasesStart
    BY <1>10, DatabasesStartStep
  <1>11. CASE OtherIsDeleted
    BY <1>11, OtherIsDeletedStep
  <1>12. CASE UNCHANGED vars
    <2>1. /\ UNCHANGED <<pass, objs, secrets, password, namespace, rights, flag>>
          /\ UNCHANGED environment
      BY <1>12 DEF vars, environment
    <2>2. flag' \in BOOLEAN /\ namespace' \in 0 .. net.uid /\ DOMAIN rights' \subseteq {"role", "binding"}
      BY <2>1 DEF IInv, Types
    <2>3. QED
      BY <2>1, <2>2, AsideStep
  <1>13. QED
    BY <1>1, <1>2, <1>3, <1>4, <1>5, <1>6, <1>7, <1>8, <1>9, <1>10, <1>11, <1>12 DEF Next, Collect

\* What is left of a pass without deletions ahead is one of the remainders.
LEMMA LeftIsRemainder ==
  ASSUME NEW s \in AllSpecs, NEW q, q # <<>>, NEW k \in 1 .. Len(PassCalls[s]) + 1,
         Left(q, PassCalls[s], 0, k)
  PROVE  q \in Remainders[s]
  <1> DEFINE P == PassCalls[s]
  <1>1. IsSeq(P) /\ Len(P) \in Nat /\ DOMAIN P = 1 .. Len(P) /\ P \in Seq(ToSet(P))
        /\ \A i \in 1 .. Len(P) : P[i] \in ToSet(P)
    BY PassCallsFacts, SeqFacts DEF Sound
  <1>2. Remainders[s] = {SubSeq(P, i, Len(P)) : i \in DOMAIN P}
    <2> DEFINE f == [z \in AllSpecs |->
                       {SubSeq(PassCalls[z], i, Len(PassCalls[z])) : i \in DOMAIN PassCalls[z]}]
    <2>1. Remainders = f
      <3> HIDE DEF f
      <3>1. Table(f) = f
        BY TableValue
      <3>2. QED
        BY <3>1 DEF Remainders, f
    <2>2. QED
      BY <2>1
  <1> HIDE DEF P
  <1>3. IsSeq(q) /\ Len(q) = Len(P) + 1 - k /\ \A i \in 1 .. Len(P) + 1 - k : q[0 + i] = P[k - 1 + i]
    BY <1>1 DEF Left, P
  <1>4. k \in 1 .. Len(P)
    <2>1. Len(q) > 0
      BY <1>3, SeqFacts
    <2>2. k \in 1 .. Len(P) + 1
      BY DEF P
    <2>3. QED
      BY <1>1, <1>3, <2>1, <2>2
  <1> DEFINE r == SubSeq(P, k, Len(P))
  <1>5. /\ r \in Seq(ToSet(P)) /\ Len(r) = Len(P) - k + 1
        /\ \A i \in 1 .. Len(P) - k + 1 : r[i] = P[k + i - 1]
    <2>1. k \in Int /\ Len(P) \in Int /\ \A i \in k .. Len(P) : P[i] \in ToSet(P)
      BY <1>1, <1>4
    <2>2. /\ r \in Seq(ToSet(P))
          /\ Len(r) = IF k <= Len(P) THEN Len(P) - k + 1 ELSE 0
          /\ \A i \in 1 .. Len(P) - k + 1 : r[i] = P[k + i - 1]
      BY <2>1, SubSeqProperties
    <2>3. QED
      BY <1>4, <2>2
  <1> HIDE DEF r
  <1>6. Len(q) = Len(r)
    BY <1>1, <1>3, <1>4, <1>5
  <1>7. ASSUME NEW i \in 1 .. Len(q)
        PROVE  q[i] = r[i]
    <2>1. /\ i \in 1 .. Len(P) + 1 - k /\ i \in 1 .. Len(P) - k + 1
          /\ 0 + i = i /\ k - 1 + i = k + i - 1
      BY <1>1, <1>3, <1>4
    <2>2. q[0 + i] = P[k - 1 + i] /\ r[i] = P[k + i - 1]
      BY <1>3, <1>5, <2>1
    <2>3. QED
      BY <2>1, <2>2
  <1>8. q = r
    <2>1. q \in Seq(ToSet(q)) /\ r \in Seq(ToSet(P))
      BY <1>3, <1>5, SeqFacts
    <2>2. QED
      BY <1>6, <1>7, <2>1, SeqEqual
  <1>9. QED
    BY <1>1, <1>2, <1>4, <1>8 DEF r

\* The invariant gives every variable its type.
LEMMA TypesCorrect ==
  ASSUME IInv
  PROVE  TypeOK
  <1>1. {net, cache} \subseteq [exists : BOOLEAN, uid : Nat \ {0}, spec : AllSpecs] /\ aged \subseteq 1 .. net.uid
    BY DEF IInv, Types, Networks
  <1>2. /\ flag \in BOOLEAN /\ namespace \in 0 .. net.uid
        /\ \A n \in DOMAIN secrets : secrets[n].owner \in 1 .. net.uid
        /\ DOMAIN password \subseteq Databases /\ DOMAIN rights \subseteq {"role", "binding"}
    BY DEF IInv, Types
  <1>3. \A x \in DOMAIN objs : objs[x].owner \in 1 .. net.uid /\ objs[x].spec \in AllSpecs
    BY DEF IInv, ObjectsKnown
  <1>4. ASSUME pass # Idle
        PROVE  /\ pass.uid \in 1 .. net.uid /\ pass.spec \in AllSpecs /\ pass.todo # <<>>
               /\ \/ pass.todo \in Remainders[pass.spec]
                  \/ pass.todo = <<<<"delete", "">>>>
                  \/ Head(pass.todo)[1] \in {"deleteSet", "deleteService"}
    <2>1. pass.uid \in 1 .. net.uid /\ pass.spec \in AllSpecs /\ pass.todo # <<>>
      BY <1>4 DEF IInv, PassInv
    <2>2. CASE \E s \in AllSpecs, m, k \in Nat :
                 /\ pass.spec = s /\ Reached(PassCalls[s], m, k)
                 /\ k \in 1 .. Len(PassCalls[s]) + 1 /\ Left(pass.todo, PassCalls[s], m, k)
      <3>1. PICK s \in AllSpecs, m \in Nat, k \in Nat :
                 /\ pass.spec = s
                 /\ k \in 1 .. Len(PassCalls[s]) + 1 /\ Left(pass.todo, PassCalls[s], m, k)
        BY <2>2
      <3>2. CASE m = 0
        BY <2>1, <3>1, <3>2, LeftIsRemainder
      <3>3. CASE m # 0
        <4>1. 1 \in 1 .. m
          BY <3>3
        <4>2. pass.todo[1][1] \in {"deleteSet", "deleteService"} /\ IsSeq(pass.todo)
          BY <3>1, <4>1 DEF Left
        <4>3. Head(pass.todo) = pass.todo[1]
          BY <2>1, <4>2, TailFacts
        <4>4. QED
          BY <2>1, <4>2, <4>3
      <3>4. QED
        BY <3>2, <3>3
    <2>3. QED
      BY <2>1, <2>2, WhereItStands DEF IInv
  <1>5. QED
    BY <1>1, <1>2, <1>3, <1>4 DEF TypeOK

\* What the sets need is named as the property names it.
LEMMA NothingDangles ==
  ASSUME IInv
  PROVE  NoDanglingReference
  <1> SUFFICES ASSUME Alive, NEW n \in Present("set")
               PROVE  /\ Needs[<<BuiltFrom(n), n>>].maps \subseteq Present("map")
                      /\ Needs[<<BuiltFrom(n), n>>].secrets \subseteq DOMAIN secrets
                      /\ Needs[<<BuiltFrom(n), n>>].accounts \subseteq Present("account")
    BY DEF NoDanglingReference, Alive
  <1>1. PICK x \in DOMAIN objs : x[1] = "set" /\ x[2] = n
    BY DEF Present
  <1>2. x = <<"set", n>>
    BY <1>1 DEF IInv, ObjectsKnown
  <1>3. PICK s : s = BuiltFrom(n)
    OBVIOUS
  <1>4. objs[x].spec = s /\ s \in AllSpecs /\ x \in ToSet(PassCalls[s])
    BY <1>1, <1>2, <1>3 DEF BuiltFrom, IInv, ObjectsKnown
  <1>5. Sets[s] = Named(s, "set")
    <2> DEFINE f == [z \in AllSpecs |-> Named(z, "set")]
    <2>1. Sets = f
      <3> HIDE DEF f
      <3>1. Table(f) = f
        BY TableValue
      <3>2. QED
        BY <3>1 DEF Sets, f
    <2>2. QED
      BY <1>4, <2>1
  <1>6. n \in Sets[s]
    BY <1>1, <1>4, <1>5 DEF Named
  <1>7. <<s, n>> \in AllSets
    BY <1>4, <1>6 DEF AllSets
  <1>8. Needs[<<s, n>>] = NeedsOf(s, n)
    <2> DEFINE f == [t \in AllSets |-> NeedsOf(t[1], t[2])]
    <2>1. Needs = f
      <3> HIDE DEF f
      <3>1. Table(f) = f
        BY TableValue
      <3>2. QED
        BY <3>1 DEF Needs, f
    <2>2. QED
      BY <1>7, <2>1
  <1>9. \A c \in NeedCalls(s, n) : Have(c)
    BY <1>1, <1>4 DEF IInv, SetsProvided
  <1>10. ASSUME NEW y \in NeedsOf(s, n).maps
         PROVE  y \in Present("map")
    <2>1. <<"map", y>> \in NeedCalls(s, n)
      BY DEF NeedCalls
    <2>2. <<"map", y>> \in DOMAIN objs
      BY <1>9, <2>1 DEF Have
    <2>3. QED
      BY <2>2 DEF Present
  <1>11. ASSUME NEW y \in NeedsOf(s, n).secrets
         PROVE  y \in DOMAIN secrets
    <2>1. <<"createSecret", y>> \in NeedCalls(s, n)
      BY DEF NeedCalls
    <2>2. QED
      BY <1>9, <2>1 DEF Have
  <1>12. ASSUME NEW y \in NeedsOf(s, n).accounts
         PROVE  y \in Present("account")
    <2>1. <<"account", y>> \in NeedCalls(s, n)
      BY DEF NeedCalls
    <2>2. <<"account", y>> \in DOMAIN objs
      BY <1>9, <2>1 DEF Have
    <2>3. QED
      BY <2>2 DEF Present
  <1>13. QED
    BY <1>3, <1>8, <1>10, <1>11, <1>12

\* Every step keeps the invariant: where each pass stands in the calls of its spec,
\* what those calls made, and what the sets in the cluster need.
THEOREM Invariance == Spec => []IInv
  <1>1. Init => IInv
    BY InitInvariance
  <1>2. IInv /\ [Next]_vars => IInv'
    BY NextStep
  <1>3. QED
    BY <1>1, <1>2, PTL DEF Spec

\* Every variable keeps its type, and what is left of a pass is the rest of the
\* calls of its spec, its deletions or the deletion of the network.
THEOREM TypeCorrect == Spec => []TypeOK
  <1>1. IInv => TypeOK
    BY TypesCorrect
  <1>2. QED
    BY <1>1, Invariance, PTL

\* For any specs, histories and edits: the secret a database of the network created
\* first was created with is never replaced (look before create, apply_secret).
THEOREM LoginsStay == Spec => []SecretsKept
  <1>1. IInv => SecretsKept
    BY DEF IInv
  <1>2. QED
    BY <1>1, Invariance, PTL

\* For any specs, histories and edits: a stateful set of the network created first
\* is never in the cluster without the config maps, secrets and account its pods
\* name, because reconcile_ makes them before it.
THEOREM PodsFindWhatTheyName == Spec => []NoDanglingReference
  <1>1. IInv => NoDanglingReference
    BY NothingDangles
  <1>2. QED
    BY <1>1, Invariance, PTL
=============================================================================
