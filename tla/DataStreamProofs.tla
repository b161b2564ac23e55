---------------------------- MODULE DataStreamProofs ---------------------------
(***************************************************************************)
(* What a data stream's consumer returns, for every number of producers    *)
(* and replays, every capacity of the journal and every window: in order,  *)
(* nothing that it read lost, nothing given up but by the window.          *)
(*                                                                         *)
(* The order of the output is not inductive.  It rests on expected_seq     *)
(* being above all that was returned and not above anything buffered, and  *)
(* this on Return taking the smallest number there is.                     *)
(***************************************************************************)
EXTENDS DataStream, FiniteSetTheorems, SequenceTheorems, OrderLemmas

\* expected_seq lies between what was returned and what is buffered.
Between == /\ \A i \in DOMAIN output : output[i] < expected
           /\ \A t \in buffer : t >= expected

IInv == TypeOK /\ Between /\ OutputOrdered /\ ReadIsKept /\ SkippedOnlyByWindow

LEMMA InitIInv == Init => IInv
<1> SUFFICES ASSUME Init PROVE IInv
  OBVIOUS
<1> USE DataStreamAssumption DEF Init
<1>1. TypeOK
  BY FS_EmptySet DEF TypeOK, Numbers
<1>2. Between /\ OutputOrdered /\ ReadIsKept /\ SkippedOnlyByWindow
  BY DEF Between, OutputOrdered, ReadIsKept, SkippedOnlyByWindow
<1> QED BY <1>1, <1>2 DEF IInv

-------------------------------------------------------------------------------
(* Types. *)

\* The journal stays within its capacity, and holds at most one entry without any.
LEMMA PushedType ==
  ASSUME NEW j \in Seq(Numbers), NEW s \in Numbers,
         Len(j) <= JournalCapacity \/ Len(j) <= 1
  PROVE /\ Pushed(j, s) \in Seq(Numbers)
        /\ Len(Pushed(j, s)) <= JournalCapacity \/ Len(Pushed(j, s)) <= 1
<1> USE DataStreamAssumption
<1>1. CASE j # <<>> /\ Len(j) >= JournalCapacity
  <2>1. Tail(j) \in Seq(Numbers) /\ Len(Tail(j)) = Len(j) - 1
    BY <1>1
  <2> QED BY <1>1, <2>1 DEF Pushed
<1>2. CASE ~(j # <<>> /\ Len(j) >= JournalCapacity)
  <2>1. j = <<>> \/ Len(j) < JournalCapacity
    BY <1>2
  <2>2. Pushed(j, s) = Append(j, s)
    BY <1>2 DEF Pushed
  <2> QED BY <2>1, <2>2
<1> QED BY <1>1, <1>2

\* A chunk removed from the path leaves a sequence of chunks.
LEMMA CutType ==
  ASSUME NEW S, NEW w \in Seq(S), NEW i \in DOMAIN w
  PROVE SubSeq(w, 1, i - 1) \o SubSeq(w, i + 1, Len(w)) \in Seq(S)
<1>1. SubSeq(w, 1, i - 1) \in Seq(S)
  BY SubSeqProperties
<1>2. SubSeq(w, i + 1, Len(w)) \in Seq(S)
  BY SubSeqProperties
<1> QED BY <1>1, <1>2

\* What publish leaves on the path, whether the client is alive or not.
LEMMA SentType ==
  ASSUME NEW S, NEW w \in Seq(S), NEW e \in S
  PROVE (IF open THEN Append(w, e) ELSE w) \in Seq(S)
OBVIOUS

\* The types of the producers' side and of the path.
PathOK ==
  /\ sequence \in 1..(MaxSeq + 1)
  /\ pc \in [Producers -> {"idle", "numbered", "recorded"}] /\ num \in [Producers -> 0..MaxSeq]
  /\ \A p \in Producers : pc[p] # "idle" => num[p] \in Numbers
  /\ journal \in Seq(Numbers) /\ (Len(journal) <= JournalCapacity \/ Len(journal) <= 1)
  /\ pos \in [Replayers -> Nat] /\ \A r \in Replayers : pos[r] <= Len(journal)
  /\ replayed \subseteq Replayers /\ open \in BOOLEAN /\ wire \in Seq(0..MaxSeq)
  /\ faults \in 0..MaxFaults

ConsumerOK ==
  /\ reader \in {"out", "in", "ended"} /\ expected \in 1..(MaxSeq + 1)
  /\ buffer \subseteq Numbers /\ Cardinality(buffer) <= Window
  /\ output \in Seq(Numbers) /\ arrived \subseteq 0..MaxSeq

LEMMA Parts == TypeOK <=> PathOK /\ ConsumerOK
BY DEF TypeOK, PathOK, ConsumerOK

LEMMA SendKeepsPath ==
  ASSUME PathOK, NEW p \in Producers, TakeNumber(p) \/ SendStep(p)
  PROVE PathOK'
<1> USE DataStreamAssumption DEF PathOK, Numbers
<1>1. CASE TakeNumber(p)
  BY <1>1 DEF TakeNumber, replayVars
<1>2. CASE Record(p)
  <2>1. \A r \in Replayers : pos[r] = 0
    BY <1>2 DEF Record, CanWrite
  <2>2. num[p] \in Numbers /\ journal' = Pushed(journal, num[p])
    BY <1>2 DEF Record
  <2>3. /\ journal' \in Seq(Numbers)
        /\ Len(journal') <= JournalCapacity \/ Len(journal') <= 1
    BY <2>2, PushedType
  <2> HIDE DEF Numbers
  <2>4. pc' \in [Producers -> {"idle", "numbered", "recorded"}]
        /\ \A q \in Producers : pc'[q] # "idle" => num[q] \in Numbers
    BY <1>2, <2>2 DEF Record
  <2>5. \A r \in Replayers : pos'[r] <= Len(journal')
    BY <1>2, <2>1, <2>3 DEF Record, replayVars
  <2> QED BY <1>2, <2>3, <2>4, <2>5 DEF Record, replayVars
<1>3. CASE Publish(p)
  <2>1. num[p] \in 0..MaxSeq
    OBVIOUS
  <2>2. wire' \in Seq(0..MaxSeq)
    BY <1>3, <2>1, SentType DEF Publish
  <2> QED BY <1>3, <2>2 DEF Publish, replayVars
<1> QED BY <1>1, <1>2, <1>3 DEF SendStep

LEMMA ReplayKeepsPath ==
  ASSUME PathOK, NEW r \in Replayers, ReplayStart(r) \/ Replay(r)
  PROVE PathOK'
<1> USE DataStreamAssumption DEF PathOK, producerVars
<1>1. CASE ReplayStart(r)
  <2>1. journal = <<>> \/ 1 <= Len(journal)
    OBVIOUS
  <2>2. pos' \in [Replayers -> Nat] /\ \A q \in Replayers : pos'[q] <= Len(journal)
    BY <1>1, <2>1 DEF ReplayStart
  <2> QED BY <1>1, <2>2 DEF ReplayStart
<1>2. CASE Replay(r)
  <2>1. pos[r] \in 1..Len(journal)
    BY <1>2 DEF Replay
  <2>2. NextPos(pos[r]) \in 0..Len(journal)
    BY <2>1 DEF NextPos
  <2>3. journal[pos[r]] \in 0..MaxSeq
    BY <2>1 DEF Numbers
  <2>4. wire' \in Seq(0..MaxSeq)
    BY <1>2, <2>3, SentType DEF Replay
  <2>5. pos' \in [Replayers -> Nat] /\ \A q \in Replayers : pos'[q] <= Len(journal)
    BY <1>2, <2>2 DEF Replay
  <2> QED BY <1>2, <2>4, <2>5 DEF Replay
<1> QED BY <1>1, <1>2

LEMMA FaultKeepsPath ==
  ASSUME PathOK, PathStep PROVE PathOK'
<1> USE DataStreamAssumption DEF PathOK, producerVars, replayVars
<1>1. CASE \E i \in DOMAIN wire : Lose(i)
  <2> PICK i \in DOMAIN wire : Lose(i)
    BY <1>1
  <2>1. wire' \in Seq(0..MaxSeq)
    BY CutType DEF Lose
  <2>2. faults' \in 0..MaxFaults
    BY DEF Lose
  <2> QED BY <2>1, <2>2 DEF Lose
<1>2. CASE \E i \in DOMAIN wire : Duplicate(i)
  BY <1>2 DEF Duplicate
<1>3. CASE Foreign
  BY <1>3 DEF Foreign
<1>4. CASE Close
  <2>1. PICK n \in 0..Len(wire) : wire' = SubSeq(wire, 1, n)
    BY <1>4 DEF Close
  <2>2. wire' \in Seq(0..MaxSeq)
    BY <2>1, SubSeqProperties
  <2> QED BY <1>4, <2>2 DEF Close
<1> QED BY <1>1, <1>2, <1>3, <1>4 DEF PathStep

-------------------------------------------------------------------------------
(* The consumer. *)

Above(S, s) == {t \in S : t > s}

LEMMA NumbersFinite ==
  ASSUME NEW S, S \subseteq Numbers
  PROVE IsFiniteSet(S) /\ Cardinality(S) \in Nat
<1>1. IsFiniteSet(1..MaxSeq)
  BY FS_Interval, DataStreamAssumption
<1>2. IsFiniteSet(S)
  BY <1>1, FS_Subset DEF Numbers
<1> QED BY <1>2, FS_CardinalityType

\* A larger set of numbers has more elements.
LEMMA LargerSet ==
  ASSUME NEW S, NEW T, S \subseteq T, T \subseteq Numbers
  PROVE Cardinality(S) <= Cardinality(T)
<1>1. IsFiniteSet(T)
  BY NumbersFinite
<1> QED BY <1>1, FS_Subset

\* More numbers above s in a larger set of them.
LEMMA MoreAbove ==
  ASSUME NEW S, NEW T, S \subseteq T, T \subseteq Numbers, NEW s
  PROVE /\ Cardinality(Above(S, s)) \in Nat
        /\ Cardinality(Above(T, s)) \in Nat
        /\ Cardinality(Above(S, s)) <= Cardinality(Above(T, s))
<1>1. Above(S, s) \subseteq Above(T, s) /\ Above(T, s) \subseteq Numbers
  BY DEF Above
<1> QED BY <1>1, NumbersFinite, LargerSet

LEMMA ElemsAppend ==
  ASSUME NEW o \in Seq(Numbers), NEW m \in Numbers
  PROVE Elems(Append(o, m)) = Elems(o) \cup {m}
<1>1. Elems(Append(o, m)) \subseteq Elems(o) \cup {m}
  BY DEF Elems
<1>2. ASSUME NEW i \in DOMAIN o PROVE o[i] \in Elems(Append(o, m))
  <2>1. i \in DOMAIN Append(o, m) /\ Append(o, m)[i] = o[i]
    BY <1>2
  <2> QED BY <2>1 DEF Elems
<1>3. m \in Elems(Append(o, m))
  <2>1. Len(o) + 1 \in DOMAIN Append(o, m) /\ Append(o, m)[Len(o) + 1] = m
    OBVIOUS
  <2> QED BY <2>1 DEF Elems
<1> QED BY <1>1, <1>2, <1>3 DEF Elems

\* The consumer's half of the invariant.
ConsumerInv == ConsumerOK /\ Between /\ OutputOrdered /\ ReadIsKept /\ SkippedOnlyByWindow

\* A call returns m, the smallest number of those buffered and read, which is
\* the expected one or overflows the window.
LEMMA ReturnKeeps ==
  ASSUME ConsumerInv, NEW b \in SUBSET Numbers, NEW m \in Numbers, Return(m, b),
         buffer \subseteq b, expected <= m, \A t \in b : m <= t,
         m = expected \/ (m \in b /\ Cardinality(b) > Window),
         Cardinality(b \ {m}) <= Window,
         arrived' \subseteq 0..MaxSeq, arrived' \subseteq arrived \cup b \cup {0, m}
  PROVE ConsumerInv'
<1> USE DataStreamAssumption
<1>1. /\ output' = Append(output, m) /\ expected' = m + 1
      /\ buffer' = b \ {m} /\ reader' = "out"
  BY DEF Return, ExpectedAfter, Rest
<1>2. ConsumerOK'
  <2>1. output' \in Seq(Numbers)
    BY <1>1 DEF ConsumerInv, ConsumerOK
  <2>2. expected' \in 1..(MaxSeq + 1)
    BY <1>1 DEF Numbers
  <2> QED BY <1>1, <2>1, <2>2 DEF ConsumerOK
<1>3. Between'
  <2>1. \A i \in DOMAIN output' : output'[i] < expected'
    BY <1>1 DEF ConsumerInv, ConsumerOK, Between, Numbers
  <2>2. \A t \in buffer' : t >= expected'
    BY <1>1 DEF Numbers
  <2> QED BY <2>1, <2>2 DEF Between
<1>4. OutputOrdered'
  BY <1>1 DEF ConsumerInv, ConsumerOK, Between, OutputOrdered, Numbers
<1>5. ReadIsKept'
  BY <1>1 DEF ConsumerInv, ConsumerOK, ReadIsKept, Numbers
<1>6. SkippedOnlyByWindow'
  <2> SUFFICES ASSUME NEW s \in 1..m, s \notin Elems(output)'
               PROVE Cardinality(Above(Elems(output)' \cup buffer', s)) > Window
    BY <1>1 DEF SkippedOnlyByWindow, Above, Numbers
  <2>1. expected \in Nat /\ s \in Nat /\ m \in Nat
    BY DEF ConsumerInv, ConsumerOK, Numbers
  <2>2. Elems(output)' = Elems(output) \cup {m}
    BY <1>1, ElemsAppend DEF ConsumerInv, ConsumerOK, Elems
  <2>3. Elems(output) \subseteq Numbers
    BY DEF ConsumerInv, ConsumerOK, Elems
  <2>4. Elems(output)' \cup buffer' \subseteq Numbers
    BY <1>1, <2>2, <2>3
  <2>5. CASE s < expected
    <3>1. Cardinality(Above(Elems(output) \cup buffer, s)) > Window
      BY <2>1, <2>2, <2>5 DEF ConsumerInv, SkippedOnlyByWindow, Above
    <3>2. Elems(output) \cup buffer \subseteq Elems(output)' \cup buffer'
      BY <1>1, <2>2
    <3>3. /\ Cardinality(Above(Elems(output) \cup buffer, s)) \in Nat
          /\ Cardinality(Above(Elems(output)' \cup buffer', s)) \in Nat
          /\ Cardinality(Above(Elems(output) \cup buffer, s))
               <= Cardinality(Above(Elems(output)' \cup buffer', s))
      BY <2>4, <3>2, MoreAbove
    <3> QED BY <3>1, <3>3
  <2>6. CASE s >= expected
    <3>1. s < m /\ m # expected
      BY <2>1, <2>2, <2>6
    <3>2. b \subseteq Above(Elems(output)' \cup buffer', s)
      <4> SUFFICES ASSUME NEW t \in b
                   PROVE t > s /\ t \in Elems(output)' \cup buffer'
        BY DEF Above
      <4>1. t \in Nat /\ m <= t
        BY DEF Numbers
      <4> QED BY <1>1, <2>1, <2>2, <3>1, <4>1
    <3>3. Above(Elems(output)' \cup buffer', s) \subseteq Numbers
      BY <2>4 DEF Above
    <3>4. Cardinality(b) <= Cardinality(Above(Elems(output)' \cup buffer', s))
      BY <3>2, <3>3, LargerSet
    <3>5. Cardinality(b) \in Nat /\ Cardinality(Above(Elems(output)' \cup buffer', s)) \in Nat
      BY <3>3, NumbersFinite
    <3> QED BY <3>1, <3>4, <3>5
  <2> QED BY <2>1, <2>5, <2>6
<1> QED BY <1>2, <1>3, <1>4, <1>5, <1>6 DEF ConsumerInv

\* Taking the expected number out of the buffer, if it is there.
LEMMA ReturnExpected ==
  ASSUME ConsumerInv, expected \in Numbers, Return(expected, buffer),
         arrived' \subseteq 0..MaxSeq, arrived' \subseteq arrived \cup {0, expected}
  PROVE ConsumerInv'
<1> USE DataStreamAssumption
<1>1. buffer \subseteq Numbers
  BY DEF ConsumerInv, ConsumerOK
<1>2. /\ Cardinality(buffer \ {expected}) <= Cardinality(buffer)
      /\ Cardinality(buffer \ {expected}) \in Nat /\ Cardinality(buffer) \in Nat
  BY <1>1, LargerSet, NumbersFinite
<1>3. Cardinality(buffer \ {expected}) <= Window
  BY <1>2 DEF ConsumerInv, ConsumerOK
<1>4. \A t \in buffer : expected <= t
  BY <1>1 DEF ConsumerInv, Between, Numbers
<1> QED BY <1>1, <1>3, <1>4, ReturnKeeps DEF Numbers

\* A step that leaves what was returned alone: only the buffer grows, by what is
\* read and above the expected number.
LEMMA BufferKeeps ==
  ASSUME ConsumerInv, reader' \in {"out", "in", "ended"}, UNCHANGED <<expected, output>>,
         buffer \subseteq buffer', buffer' \subseteq Numbers, Cardinality(buffer') <= Window,
         \A t \in buffer' : t >= expected,
         arrived' \subseteq 0..MaxSeq,
         \A s \in arrived' \ {0} : s \in arrived \/ s < expected \/ s \in buffer'
  PROVE ConsumerInv'
<1> USE DataStreamAssumption
<1>1. ConsumerOK' /\ Between' /\ OutputOrdered' /\ ReadIsKept'
  BY DEF ConsumerInv, ConsumerOK, Between, OutputOrdered, ReadIsKept
<1>2. SkippedOnlyByWindow'
  <2> SUFFICES ASSUME NEW s \in 1..(expected - 1), s \notin Elems(output)
               PROVE Cardinality(Above(Elems(output) \cup buffer', s)) > Window
    BY DEF SkippedOnlyByWindow, Elems, Above
  <2>1. Cardinality(Above(Elems(output) \cup buffer, s)) > Window
    BY DEF ConsumerInv, SkippedOnlyByWindow, Above
  <2>2. Elems(output) \cup buffer' \subseteq Numbers
    BY DEF ConsumerInv, ConsumerOK, Elems
  <2>3. Elems(output) \cup buffer \subseteq Elems(output) \cup buffer'
    OBVIOUS
  <2>4. /\ Cardinality(Above(Elems(output) \cup buffer, s)) \in Nat
        /\ Cardinality(Above(Elems(output) \cup buffer', s)) \in Nat
        /\ Cardinality(Above(Elems(output) \cup buffer, s))
             <= Cardinality(Above(Elems(output) \cup buffer', s))
    BY <2>2, <2>3, MoreAbove
  <2> QED BY <2>1, <2>4
<1> QED BY <1>1, <1>2 DEF ConsumerInv

\* A nonempty set of numbers has a smallest one.
LEMMA SmallestIsLeast ==
  ASSUME NEW b \in SUBSET Numbers, b # {}
  PROVE Smallest(b) \in b /\ \A t \in b : Smallest(b) <= t
<1>1. b \subseteq Nat
  BY DataStreamAssumption DEF Numbers
<1>2. \E s \in b : \A t \in b : s <= t
  BY <1>1, SmallestExists
<1> QED BY <1>2 DEF Smallest

\* recv_ordered's call and its read: a number is returned when it is the expected
\* one, or the smallest of more than Window; the others are kept or are old.
LEMMA ConsumerKeeps ==
  ASSUME ConsumerInv, PathOK, ConsumerStep
  PROVE ConsumerInv'
<1> USE DataStreamAssumption
<1>1. /\ expected \in 1..(MaxSeq + 1) /\ arrived \subseteq 0..MaxSeq
      /\ buffer \subseteq Numbers /\ Cardinality(buffer) <= Window
      /\ \A t \in buffer : t >= expected
      /\ \A s \in arrived \ {0} : s < expected \/ s \in buffer
  BY DEF ConsumerInv, ConsumerOK, Between, ReadIsKept
<1>2. CASE Recv
  <2>1. CASE expected \in buffer
    <3>1. Return(expected, buffer) /\ arrived' = arrived
      BY <1>2, <2>1 DEF Recv
    <3> QED BY <1>1, <2>1, <3>1, ReturnExpected
  <2>2. CASE expected \notin buffer
    <3>1. reader' = "in" /\ UNCHANGED <<expected, buffer, output, arrived>>
      BY <1>2, <2>2 DEF Recv
    <3> QED BY <1>1, <3>1, BufferKeeps
  <2> QED BY <2>1, <2>2
<1>3. CASE Read
  <2> DEFINE s == Head(wire)
             b == buffer \cup {s}
  <2>1. /\ s \in 0..MaxSeq
        /\ arrived' = arrived \cup {s}
    BY <1>3 DEF Read, PathOK
  <2>2. \/ s = 0 /\ reader' = "out" /\ UNCHANGED <<expected, buffer, output>>
        \/ s = expected /\ Return(s, buffer)
        \/ s > expected /\ Overflows(b) /\ Return(Smallest(b), b)
        \/ s > expected /\ ~Overflows(b) /\ buffer' = b /\ UNCHANGED <<reader, expected, output>>
        \/ 0 < s /\ s < expected /\ UNCHANGED <<reader, expected, buffer, output>>
    BY <1>3 DEF Read
  <2>3. reader \in {"out", "in", "ended"}
    BY DEF ConsumerInv, ConsumerOK
  <2> HIDE DEF s
  <2>4. CASE (s = 0 \/ s < expected) /\ reader' \in {"out", "in", "ended"}
             /\ UNCHANGED <<expected, buffer, output>>
    BY <1>1, <2>1, <2>4, BufferKeeps
  <2>5. CASE s = expected /\ Return(s, buffer)
    <3>1. expected \in Numbers
      BY <1>1, <2>1, <2>5 DEF Numbers
    <3> QED BY <1>1, <2>1, <2>5, <3>1, ReturnExpected
  <2>6. CASE s > expected
    <3>1. b \in SUBSET Numbers /\ \A t \in b : t >= expected
      BY <1>1, <2>1, <2>6 DEF Numbers
    <3>2. Cardinality(b) \in Nat
      BY <3>1, NumbersFinite
    <3>5. \/ Overflows(b) /\ Return(Smallest(b), b)
          \/ ~Overflows(b) /\ buffer' = b /\ UNCHANGED <<reader, expected, output>>
      BY <1>1, <2>1, <2>2, <2>6
    <3> HIDE DEF b
    <3>3. CASE Overflows(b) /\ Return(Smallest(b), b)
      <4> DEFINE m == Smallest(b)
      <4>1. s \in b /\ buffer \subseteq b /\ b \subseteq buffer \cup {s}
        BY DEF b
      <4>2. m \in b /\ \A t \in b : m <= t
        BY <3>1, <4>1, SmallestIsLeast
      <4> HIDE DEF m
      <4>3. Return(m, b)
        BY <3>3 DEF m
      <4>4. Cardinality(b \ {m}) <= Window
        <5>1. IsFiniteSet(buffer) /\ Cardinality(buffer) \in Nat
          BY <1>1, NumbersFinite
        <5>2. IsFiniteSet(b) /\ Cardinality(b \ {m}) = Cardinality(b) - 1
          BY <3>1, <4>2, NumbersFinite, FS_RemoveElement
        <5>3. Cardinality(b) <= Cardinality(buffer) + 1
          BY <5>1, FS_AddElement DEF b
        <5> QED BY <1>1, <3>2, <5>1, <5>2, <5>3
      <4>5. Cardinality(b) > Window
        BY <3>3 DEF Overflows
      <4>6. arrived' \subseteq 0..MaxSeq /\ arrived' \subseteq arrived \cup b \cup {0, m}
        BY <1>1, <2>1, <4>1
      <4> QED BY <3>1, <4>1, <4>2, <4>3, <4>4, <4>5, <4>6, ReturnKeeps
    <3>4. CASE ~Overflows(b) /\ buffer' = b /\ UNCHANGED <<reader, expected, output>>
      <4>1. Cardinality(b) <= Window
        BY <3>2, <3>4 DEF Overflows
      <4>2. s \in b /\ buffer \subseteq b
        BY DEF b
      <4> QED BY <1>1, <2>1, <2>3, <3>1, <3>4, <4>1, <4>2, BufferKeeps
    <3> QED BY <3>3, <3>4, <3>5
  <2> QED BY <1>1, <2>1, <2>2, <2>3, <2>4, <2>5, <2>6
<1>4. CASE ReadEnd
  BY <1>1, <1>4, BufferKeeps DEF ReadEnd
<1> QED BY <1>2, <1>3, <1>4 DEF ConsumerStep

\* Steps of the producers, replays and path leave the consumer as it is.
LEMMA OthersKeepConsumer ==
  ASSUME ConsumerInv, UNCHANGED consumerVars PROVE ConsumerInv'
BY DEF ConsumerInv, ConsumerOK, Between, OutputOrdered, ReadIsKept, SkippedOnlyByWindow,
       consumerVars, Elems

LEMMA ConsumerKeepsPath ==
  ASSUME PathOK, ConsumerStep PROVE PathOK'
<1>1. wire' \in Seq(0..MaxSeq)
  <2>1. wire \in Seq(0..MaxSeq)
    BY DEF PathOK
  <2>2. wire' = wire \/ (wire # <<>> /\ wire' = Tail(wire))
    BY DEF ConsumerStep, Recv, Read, ReadEnd
  <2> HIDE DEF ConsumerStep
  <2> QED BY <2>1, <2>2
<1>2. UNCHANGED <<producerVars, replayVars, open, faults>>
  BY DEF ConsumerStep, Recv, Read, ReadEnd
<1> QED BY <1>1, <1>2 DEF PathOK, producerVars, replayVars

-------------------------------------------------------------------------------
(* The invariant. *)

\* Every step of the program keeps the invariant.
LEMMA StepIInv == IInv /\ [Next]_vars => IInv'
<1> SUFFICES ASSUME IInv, [Next]_vars PROVE IInv'
  OBVIOUS
<1>1. PathOK /\ ConsumerInv
  BY Parts DEF IInv, ConsumerInv
<1>2. PathOK' /\ ConsumerInv'
  <2>1. CASE \E p \in Producers : TakeNumber(p) \/ SendStep(p)
    <3>1. UNCHANGED consumerVars
      BY <2>1 DEF TakeNumber, SendStep, Record, Publish
    <3> QED BY <1>1, <2>1, <3>1, SendKeepsPath, OthersKeepConsumer
  <2>2. CASE \E r \in Replayers : ReplayStart(r) \/ Replay(r)
    <3>1. UNCHANGED consumerVars
      BY <2>2 DEF ReplayStart, Replay
    <3> QED BY <1>1, <2>2, <3>1, ReplayKeepsPath, OthersKeepConsumer
  <2>3. CASE ConsumerStep
    BY <1>1, <2>3, ConsumerKeeps, ConsumerKeepsPath
  <2>4. CASE PathStep
    <3>1. UNCHANGED consumerVars
      BY <2>4 DEF PathStep, Lose, Duplicate, Foreign, Close
    <3> QED BY <1>1, <2>4, <3>1, FaultKeepsPath, OthersKeepConsumer
  <2>5. CASE UNCHANGED vars
    <3>1. UNCHANGED consumerVars
      BY <2>5 DEF vars
    <3>2. PathOK'
      BY <1>1, <2>5 DEF vars, producerVars, replayVars, PathOK
    <3> QED BY <1>1, <3>1, <3>2, OthersKeepConsumer
  <2> QED BY <2>1, <2>2, <2>3, <2>4, <2>5 DEF Next
<1>3. TypeOK'
  <2>1. ConsumerOK'
    BY <1>2 DEF ConsumerInv
  <2> QED BY <1>2, <2>1 DEF TypeOK, PathOK, ConsumerOK
<1> QED BY <1>2, <1>3 DEF IInv, ConsumerInv

LEMMA IInvHolds == Spec => []IInv
BY InitIInv, StepIInv, PTL DEF Spec

\* Types, journal_capacity and max_reorder_window hold in every state.
THEOREM StreamTypeOK == Spec => []TypeOK
<1>1. IInv => TypeOK
  BY DEF IInv
<1> QED BY <1>1, IInvHolds, PTL

\* recv_ordered never returns a number twice or backwards, whatever the network,
\* replays and concurrent senders do to the order.
THEOREM ReturnedInOrder == Spec => []OutputOrdered
<1>1. IInv => OutputOrdered
  BY DEF IInv
<1> QED BY <1>1, IInvHolds, PTL

\* Nothing recv_ordered has read is lost, unless it came after its number was
\* given up.
THEOREM NothingReadIsLost == Spec => []ReadIsKept
<1>1. IInv => ReadIsKept
  BY DEF IInv
<1> QED BY <1>1, IInvHolds, PTL

\* A number is given up only for more than max_reorder_window later ones.
THEOREM GivenUpByWindow == Spec => []SkippedOnlyByWindow
<1>1. IInv => SkippedOnlyByWindow
  BY DEF IInv
<1> QED BY <1>1, IInvHolds, PTL

===============================================================================
