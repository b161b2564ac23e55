------------------------------ MODULE OrderLemmas ------------------------------
(* Facts about natural numbers and sequences that several proofs cite. *)
EXTENDS Naturals, Sequences, FiniteSets, SequencesExt, WellFoundedInduction, TLAPS

\* Every set of natural numbers that is not empty has a smallest member.
LEMMA SmallestExists ==
  ASSUME NEW T, T \subseteq Nat, T # {}
  PROVE  \E s \in T : \A t \in T : s <= t
<1> DEFINE R == OpToRel(<, Nat)
<1>1. \E s \in T : \A t \in T : ~(<<t, s>> \in R)
  <2>1. IsWellFoundedOn(R, Nat)
    BY NatLessThanWellFounded
  <2> HIDE DEF R
  <2> QED BY <2>1, WFMin
<1>2. PICK s \in T : \A t \in T : ~(<<t, s>> \in R)
  BY <1>1
<1>3. \A t \in T : ~(t < s)
  BY <1>2 DEF OpToRel
<1> QED BY <1>3

\* So has every set with an upper bound a greatest one.
LEMMA GreatestExists ==
  ASSUME NEW n \in Nat, NEW T, T \subseteq 0..n, T # {}
  PROVE  \E g \in T : \A t \in T : t <= g
<1> DEFINE U == {n - t : t \in T}
<1>1. U \subseteq Nat /\ U # {}
  <2>1. ASSUME NEW t \in T PROVE n - t \in Nat
    OBVIOUS
  <2>2. PICK t \in T : TRUE
    OBVIOUS
  <2>3. n - t \in U
    OBVIOUS
  <2> QED BY <2>1, <2>3
<1>2. PICK u \in U : \A w \in U : u <= w
  BY <1>1, SmallestExists
<1>3. PICK g \in T : u = n - g
  BY <1>2
<1>4. ASSUME NEW t \in T PROVE t <= g
  <2>1. n - g <= n - t
    BY <1>2, <1>3
  <2> QED BY <2>1
<1> QED BY <1>4

\* A function on 1..n is a sequence.
LEMMA FunctionIsSeq ==
  ASSUME NEW S, NEW n \in Nat, NEW f \in [1..n -> S]
  PROVE  f \in Seq(S) /\ Len(f) = n
OBVIOUS

\* A tuple of one element is a sequence, and so is the empty one.
LEMMA ShortIsSeq ==
  ASSUME NEW S
  PROVE  <<>> \in Seq(S) /\ \A x \in S : <<x>> \in Seq(S)
OBVIOUS

-----------------------------------------------------------------------------
(* The members of sequences. *)

\* The members of a concatenation.
LEMMA ConcatSet ==
  ASSUME NEW S, NEW s \in Seq(S), NEW t \in Seq(S)
  PROVE  ToSet(s \o t) = ToSet(s) \cup ToSet(t)
<1>1. /\ DOMAIN (s \o t) = 1..(Len(s) + Len(t)) /\ DOMAIN s = 1..Len(s) /\ DOMAIN t = 1..Len(t)
      /\ \A i \in 1..(Len(s) + Len(t)) : (s \o t)[i] = IF i <= Len(s) THEN s[i] ELSE t[i - Len(s)]
  OBVIOUS
<1>2. ToSet(s \o t) \subseteq ToSet(s) \cup ToSet(t)
  BY <1>1 DEF ToSet
<1>3. ASSUME NEW i \in 1..Len(s) PROVE s[i] \in ToSet(s \o t)
  BY <1>1 DEF ToSet
<1>4. ASSUME NEW i \in 1..Len(t) PROVE t[i] \in ToSet(s \o t)
  <2>1. Len(s) + i \in 1..(Len(s) + Len(t)) /\ (s \o t)[Len(s) + i] = t[i]
    BY <1>1
  <2> QED BY <1>1, <2>1 DEF ToSet
<1>5. ToSet(s) \subseteq ToSet(s \o t)
  BY <1>1, <1>3 DEF ToSet
<1>6. ToSet(t) \subseteq ToSet(s \o t)
  BY <1>1, <1>4 DEF ToSet
<1> QED BY <1>2, <1>5, <1>6

\* A part of a sequence has no members of its own.
LEMMA SubSeqSet ==
  ASSUME NEW S, NEW s \in Seq(S), NEW m \in Int, m >= 1, NEW n \in Int, n <= Len(s)
  PROVE  SubSeq(s, m, n) \in Seq(S) /\ ToSet(SubSeq(s, m, n)) \subseteq ToSet(s)
BY DEF ToSet

\* Nor have its head and its tail.
LEMMA TailSet ==
  ASSUME NEW S, NEW s \in Seq(S), s # <<>>
  PROVE  /\ Head(s) \in ToSet(s) /\ ToSet(Tail(s)) \subseteq ToSet(s)
BY DEF ToSet

\* The members of an empty and of a one-element sequence.
LEMMA ShortSet == ToSet(<<>>) = {} /\ \A x : ToSet(<<x>>) = {x}
BY DEF ToSet

\* A sequence has the members of its head and tail, and of its two parts.
LEMMA HeadTailSet ==
  ASSUME NEW S, NEW s \in Seq(S), s # <<>>
  PROVE  ToSet(s) = {Head(s)} \cup ToSet(Tail(s))
<1>1. /\ Len(s) \in Nat \ {0} /\ Head(s) = s[1] /\ Len(Tail(s)) = Len(s) - 1
      /\ \A i \in 1..(Len(s) - 1) : Tail(s)[i] = s[i + 1]
  OBVIOUS
<1>2. ToSet(s) = {s[i] : i \in 1..Len(s)} /\ ToSet(Tail(s)) = {Tail(s)[i] : i \in 1..(Len(s) - 1)}
  <2>1. DOMAIN s = 1..Len(s) /\ DOMAIN Tail(s) = 1..(Len(s) - 1)
    BY <1>1
  <2> QED BY <2>1 DEF ToSet
<1>3. \A i \in 1..Len(s) : i = 1 \/ (i - 1 \in 1..(Len(s) - 1) /\ i = (i - 1) + 1)
  BY <1>1
<1>4. \A i \in 1..Len(s) : s[i] \in {Head(s)} \cup ToSet(Tail(s))
  BY <1>1, <1>2, <1>3
<1>5. 1 \in 1..Len(s) /\ \A i \in 1..(Len(s) - 1) : i + 1 \in 1..Len(s)
  BY <1>1
<1> QED BY <1>1, <1>2, <1>4, <1>5

LEMMA SplitSet ==
  ASSUME NEW S, NEW s \in Seq(S), NEW k \in 0..Len(s)
  PROVE  ToSet(s) \subseteq ToSet(SubSeq(s, 1, k)) \cup ToSet(SubSeq(s, k + 1, Len(s)))
<1> SUFFICES ASSUME NEW i \in 1..Len(s)
             PROVE  s[i] \in ToSet(SubSeq(s, 1, k)) \cup ToSet(SubSeq(s, k + 1, Len(s)))
  BY DEF ToSet
<1>1. CASE i <= k
  <2>1. SubSeq(s, 1, k)[i] = s[i] /\ i \in DOMAIN SubSeq(s, 1, k)
    BY <1>1
  <2> QED BY <2>1 DEF ToSet
<1>2. CASE i > k
  <2>1. i - k \in 1..(Len(s) - k) /\ DOMAIN SubSeq(s, k + 1, Len(s)) = 1..(Len(s) - k)
    BY <1>2
  <2>2. SubSeq(s, k + 1, Len(s))[i - k] = s[i]
    BY <1>2, <2>1
  <2> QED BY <2>1, <2>2 DEF ToSet
<1> QED BY <1>1, <1>2

===============================================================================
