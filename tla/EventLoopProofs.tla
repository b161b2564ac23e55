---------------------------- MODULE EventLoopProofs ----------------------------
(***************************************************************************)
(* Proofs about EventLoop, for every set of calls, messages and topics and *)
(* every policy: its types, and that a routed stream belongs to an active  *)
(* filter.                                                                 *)
(***************************************************************************)
EXTENDS EventLoop, FiniteSetTheorems, OrderLemmas

-----------------------------------------------------------------------------
(* Types. *)

\* The part of the state the outcome of a handler decides.
OutcomeOK ==
  /\ phase \in Phases /\ status \in Statuses /\ conn \in {"none", "up", "broken"}
  /\ s2c \in Seq(BrokerFrames) /\ rx \in Seq(BrokerFrames)
  /\ result \in [Calls -> Results] /\ reqs \in Seq(Calls) /\ Len(reqs) <= ChannelCap
  /\ router \subseteq Calls

\* Resolving responders keeps the results well formed.
LEMMA ResolveType ==
  ASSUME TypeOK, NEW cs, NEW r \in Results
  PROVE  Resolve(cs, r) \in [Calls -> Results]
BY DEF Resolve, TypeOK, CallersOK

\* A lost connection leaves a well-formed state, whether or not the loop reconnects.
LEMMA DropConnectionType ==
  ASSUME NEW res \in [Calls -> Results], NEW queued \in Seq(Calls), Len(queued) <= ChannelCap,
         NEW routed \in SUBSET Calls, DropConnection(res, queued, routed)
  PROVE  OutcomeOK'
<1>1. s2c' \in Seq(BrokerFrames) /\ rx' \in Seq(BrokerFrames)
  BY DEF DropConnection
<1> QED BY <1>1 DEF DropConnection, OutcomeOK, Phases, Statuses

\* And so does going on.
LEMMA KeepDrivingType ==
  ASSUME TypeOK, NEW res \in [Calls -> Results], NEW queued \in Seq(Calls), Len(queued) <= ChannelCap,
         NEW routed \in SUBSET Calls, KeepDriving(res, queued, routed)
  PROVE  OutcomeOK'
BY DEF KeepDriving, OutcomeOK, TypeOK, CallersOK, LoopOK, WireOK

\* A write that succeeds appends client frames to the wire.
LEMMA WriteOkType ==
  ASSUME TypeOK, NEW frames \in Seq(ClientFrames), WriteOk(frames)
  PROVE  c2s' \in Seq(ClientFrames) /\ faults' \in 0..MaxFaults
BY DEF WriteOk, TypeOK, WireOK

\* A write that fails appends some of them, and is one fault more at most.
LEMMA WriteFailsType ==
  ASSUME TypeOK, NEW frames \in Seq(ClientFrames), WriteFails(frames)
  PROVE  c2s' \in Seq(ClientFrames) /\ faults' \in 0..MaxFaults
<1>1. faults' \in 0..MaxFaults
  BY EventLoopAssumption DEF WriteFails, SpendUnlessBroken, Spend, TypeOK, WireOK
<1>2. \A n \in 0..Len(frames) : SubSeq(frames, 1, n) \in Seq(ClientFrames)
  OBVIOUS
<1>3. c2s' \in Seq(ClientFrames)
  BY <1>2 DEF WriteFails, TypeOK, WireOK
<1> QED BY <1>1, <1>3

\* The frames without identifier or item are frames of the client.
LEMMA PlainType ==
  ASSUME NEW type \in {"CONNECT", "PINGREQ", "DISCONNECT"}
  PROVE  Plain(type) \in ClientFrames
BY DEF Plain, Frame, ClientFrames, FrameSet

\* get_next_packet_id stays within the identifiers.
LEMMA PidAfterType ==
  ASSUME NEW p \in Pids, NEW k \in Nat
  PROVE  PidAfter(p, k) \in Pids
BY EventLoopAssumption DEF PidAfter, Pids

\* And so does the counter it advances.
LEMMA TakePidsType ==
  ASSUME TypeOK, NEW k \in Nat, TakePids(k)
  PROVE  nextPid' \in Pids /\ wrapped' \in BOOLEAN
BY PidAfterType DEF TakePids, TypeOK, LoopOK

\* An entry added to a table keeps its shape.
LEMMA TableType ==
  ASSUME NEW table, NEW V, DOMAIN table \subseteq Pids, \A p \in DOMAIN table : table[p] \in V
  PROVE  /\ \A ps : /\ DOMAIN Without(table, ps) \subseteq Pids
                    /\ \A q \in DOMAIN Without(table, ps) : Without(table, ps)[q] \in V
         /\ \A p \in Pids, v \in V : /\ DOMAIN With(table, p, v) \subseteq Pids
                                     /\ \A q \in DOMAIN With(table, p, v) : With(table, p, v)[q] \in V
BY DEF With, Without

\* A request taken from the channel leaves a shorter one.
LEMMA QueueType ==
  ASSUME NEW r \in Seq(Calls), r # <<>>, Len(r) <= ChannelCap
  PROVE  Tail(r) \in Seq(Calls) /\ Len(Tail(r)) <= ChannelCap
BY EventLoopAssumption

\* A call appends its request to a channel that has room.
LEMMA CallType ==
  ASSUME TypeOK, NEW c \in Calls, Call(c)
  PROVE  TypeOK'
<1> USE DEF TypeOK, CallersOK, LoopOK, WireOK
<1>1. CASE phase = "gone"
  BY <1>1 DEF Call, Results, tableVars, pidVars, loopVars, netVars, brokerVars
<1>2. CASE phase # "gone"
  <2>1. reqs' = Append(reqs, c) /\ Len(reqs) < ChannelCap
    BY <1>2 DEF Call, HasRoom
  <2>2. reqs' \in Seq(Calls) /\ Len(reqs') <= ChannelCap
    BY <2>1, EventLoopAssumption
  <2>3. result' \in [Calls -> Results]
    BY <1>2 DEF Call, Results
  <2>4. streamOpen' \subseteq Calls
    BY <1>2 DEF Call
  <2> QED
    BY <1>2, <2>2, <2>3, <2>4 DEF Call, tableVars, pidVars, loopVars, netVars, brokerVars
<1> QED BY <1>1, <1>2

\* The callers and their streams keep the types.
LEMMA CallerStepType ==
  ASSUME TypeOK, CallerStep
  PROVE  TypeOK'
<1> USE DEF TypeOK, CallersOK, LoopOK, WireOK
<1>1. ASSUME NEW c \in Calls, StreamRecv(c) PROVE TypeOK'
  <2>1. /\ queue' = [queue EXCEPT ![c] = Tail(queue[c])]
        /\ queue[c] \in Seq(InMsgs) /\ queue[c] # <<>> /\ Len(queue[c]) <= StreamCap
    BY <1>1 DEF StreamRecv
  <2>2. Tail(queue[c]) \in Seq(InMsgs) /\ Len(Tail(queue[c])) <= StreamCap
    BY <2>1, EventLoopAssumption
  <2>3. queue' \in [Calls -> Seq(InMsgs)] /\ \A d \in Calls : Len(queue'[d]) <= StreamCap
    BY <2>1, <2>2
  <2> QED
    BY <1>1, <2>3 DEF StreamRecv, callVars, tableVars, pidVars, loopVars, netVars, brokerVars
<1>2. ASSUME NEW c \in Calls, StreamDrop(c) PROVE TypeOK'
  <2>1. queue' \in [Calls -> Seq(InMsgs)] /\ \A d \in Calls : Len(queue'[d]) <= StreamCap
    BY <1>2, EventLoopAssumption DEF StreamDrop
  <2> QED
    BY <1>2, <2>1 DEF StreamDrop, callVars, tableVars, pidVars, loopVars, netVars, brokerVars
<1>3. CASE DropHandles
  BY <1>3 DEF DropHandles, streamVars, tableVars, pidVars, loopVars, netVars, brokerVars
<1>4. CASE DropLoop
  <2>1. /\ result' \in [Calls -> Results] /\ reqs' \in Seq(Calls) /\ Len(reqs') <= ChannelCap
        /\ s2c' \in Seq(BrokerFrames) /\ rx' \in Seq(BrokerFrames)
    BY <1>4, EventLoopAssumption DEF DropLoop, Abandon, Results
  <2>2. /\ DOMAIN inflight' = {} /\ DOMAIN subWait' = {} /\ DOMAIN unsubWait' = {}
        /\ active' \subseteq Topics /\ IsFiniteSet(active')
    BY <1>4, FS_EmptySet DEF DropLoop
  <2> QED
    BY <1>4, <2>1, <2>2 DEF DropLoop, Phases, streamVars, pidVars, brokerVars
<1> QED BY <1>1, <1>2, <1>3, <1>4, CallType DEF CallerStep

\* A failed attempt to connect leaves a well-formed state.
LEMMA AttemptFailedType ==
  ASSUME TypeOK, AttemptFailed
  PROVE  OutcomeOK'
<1> USE DEF TypeOK, CallersOK, LoopOK, WireOK
<1>1. s2c' \in Seq(BrokerFrames)
  BY DEF AttemptFailed
<1> QED BY <1>1 DEF AttemptFailed, OutcomeOK, Phases, Statuses

\* The frames of the recovery are client frames, whatever their order.
LEMMA BurstType ==
  ASSUME TypeOK, NEW pids \in Seq(DOMAIN inflight), NEW topics \in Seq(Topics), NEW k \in Nat,
         NEW place \in Places(Len(topics), k)
  PROVE  /\ Resends(pids) \in Seq(ClientFrames) /\ Resubscribes(topics, place) \in Seq(ClientFrames)
         /\ Resends(pids) \o Resubscribes(topics, place) \in Seq(ClientFrames)
<1>1. \A i \in DOMAIN pids : Frame("PUBLISH", pids[i], inflight[pids[i]].msg, TRUE) \in ClientFrames
  BY EventLoopAssumption DEF Frame, ClientFrames, FrameSet, Pids, TypeOK, LoopOK
<1>2. Resends(pids) \in Seq(ClientFrames)
  <2>1. Len(pids) \in Nat /\ DOMAIN pids = 1..Len(pids)
    OBVIOUS
  <2>2. Resends(pids) \in [1..Len(pids) -> ClientFrames]
    BY <1>1, <2>1 DEF Resends
  <2> QED BY <2>1, <2>2, FunctionIsSeq
<1>3. \A i \in DOMAIN topics : PidAfter(nextPid, place[i] - 1) \in Pids
  <2>1. \A i \in DOMAIN topics : place[i] - 1 \in Nat
    BY DEF Places
  <2> QED BY <2>1, PidAfterType DEF TypeOK, LoopOK
<1>4. \A i \in DOMAIN topics :
        Frame("SUBSCRIBE", PidAfter(nextPid, place[i] - 1), topics[i], FALSE) \in ClientFrames
  BY <1>3 DEF Frame, ClientFrames, FrameSet
<1>5. Resubscribes(topics, place) \in Seq(ClientFrames)
  <2>1. Len(topics) \in Nat /\ DOMAIN topics = 1..Len(topics)
    OBVIOUS
  <2>2. Resubscribes(topics, place) \in [1..Len(topics) -> ClientFrames]
    BY <1>4, <2>1 DEF Resubscribes
  <2> QED BY <2>1, <2>2, FunctionIsSeq
<1> QED BY <1>2, <1>5

\* An enumeration of a finite set is a sequence of its members.
LEMMA SetToSeqsType ==
  ASSUME NEW S, IsFiniteSet(S), NEW s \in SetToSeqs(S)
  PROVE  s \in Seq(S) /\ Len(s) = Cardinality(S)
<1>1. Cardinality(S) \in Nat
  BY FS_CardinalityType
<1>2. s \in [1..Cardinality(S) -> S]
  BY DEF SetToSeqs
<1> QED BY <1>1, <1>2, FunctionIsSeq

\* What the recovery resends and resubscribes are finite parts of the tables.
LEMMA ResendableType ==
  ASSUME TypeOK
  PROVE  /\ Resendable \subseteq DOMAIN inflight /\ IsFiniteSet(Resendable)
         /\ Resubscribable \subseteq Topics /\ IsFiniteSet(Resubscribable)
         /\ IsFiniteSet(Resubscribable \ SubTooLong)
<1>1. IsFiniteSet(Pids)
  BY FS_Interval, EventLoopAssumption DEF Pids
<1>2. Resendable \subseteq DOMAIN inflight /\ Resubscribable \subseteq Topics
  BY DEF Resendable, Resubscribable, TypeOK, LoopOK
<1>3. IsFiniteSet(Resendable)
  BY <1>1, <1>2, FS_Subset DEF TypeOK, LoopOK
<1>4. IsFiniteSet(Resubscribable)
  BY FS_EmptySet DEF Resubscribable, TypeOK, LoopOK
<1>5. IsFiniteSet(Resubscribable \ SubTooLong)
  BY <1>4, FS_Difference
<1> QED BY <1>2, <1>3, <1>4, <1>5

\* The sequences a recovery goes through, and the burst it writes.
LEMMA RecoveryType ==
  ASSUME TypeOK, NEW pids \in SetToSeqs(Resendable), NEW topics \in SetToSeqs(Resubscribable \ SubTooLong),
         NEW place \in Places(Cardinality(Resubscribable \ SubTooLong), Cardinality(Resubscribable))
  PROVE  /\ pids \in Seq(Resendable) /\ topics \in Seq(Resubscribable)
         /\ Resends(pids) \in Seq(ClientFrames) /\ Resubscribes(topics, place) \in Seq(ClientFrames)
         /\ Resends(pids) \o Resubscribes(topics, place) \in Seq(ClientFrames)
<1>1. pids \in Seq(Resendable)
  BY ResendableType, SetToSeqsType
<1>2. topics \in Seq(Resubscribable \ SubTooLong) /\ Len(topics) = Cardinality(Resubscribable \ SubTooLong)
  BY ResendableType, SetToSeqsType
<1>3. topics \in Seq(Resubscribable)
  BY <1>2
<1>4. pids \in Seq(DOMAIN inflight) /\ topics \in Seq(Topics) /\ Cardinality(Resubscribable) \in Nat
  BY <1>1, <1>3, ResendableType, FS_CardinalityType
<1> QED BY <1>1, <1>2, <1>3, <1>4, BurstType

\* A handshake with its recovery keeps the types.
LEMMA HandshakeOkType ==
  ASSUME TypeOK, NEW k \in 1..Len(s2c), HandshakeOk(k)
  PROVE  TypeOK'
<1> USE DEF TypeOK, CallersOK, LoopOK, WireOK
<1>1. PICK pids \in SetToSeqs(Resendable), topics \in SetToSeqs(Resubscribable \ SubTooLong),
           place \in Places(Cardinality(Resubscribable \ SubTooLong), Cardinality(Resubscribable)) :
        LET burst == Resends(pids) \o Resubscribes(topics, place) IN
        \/ /\ WriteOk(burst) /\ UNCHANGED conn
        \/ /\ burst # <<>> /\ conn = "up" /\ Spend /\ conn' = "broken"
           /\ \E n \in 0..(Len(burst) - 1) : c2s' = c2s \o SubSeq(burst, 1, n)
  BY DEF HandshakeOk
<1> DEFINE burst == Resends(pids) \o Resubscribes(topics, place)
<1>2. burst \in Seq(ClientFrames)
  BY RecoveryType
<1>3. c2s' \in Seq(ClientFrames) /\ conn' \in {"none", "up", "broken"} /\ faults' \in 0..MaxFaults
  <2>1. CASE WriteOk(burst) /\ UNCHANGED conn
    BY <2>1, <1>2, WriteOkType
  <2>2. CASE /\ conn' = "broken" /\ Spend
             /\ \E n \in 0..(Len(burst) - 1) : c2s' = c2s \o SubSeq(burst, 1, n)
    <3> HIDE DEF burst
    <3>1. \A n \in 0..(Len(burst) - 1) : SubSeq(burst, 1, n) \in Seq(ClientFrames)
      BY <1>2
    <3>2. c2s' \in Seq(ClientFrames)
      BY <2>2, <3>1
    <3> QED BY <2>2, <3>2, EventLoopAssumption DEF Spend
  <2> QED BY <1>1, <2>1, <2>2
<1>4. nextPid' \in Pids /\ wrapped' \in BOOLEAN
  BY ResendableType, FS_CardinalityType, TakePidsType DEF HandshakeOk
<1>5. s2c' \in Seq(BrokerFrames)
  BY DEF HandshakeOk
<1>6. phase' \in Phases /\ status' \in Statuses /\ attempt' \in Nat
  BY DEF HandshakeOk, Phases, Statuses
<1> QED
  BY <1>3, <1>4, <1>5, <1>6 DEF HandshakeOk, callVars, streamVars, tableVars, brokerVars

\* connect_with_backoff keeps the types.
LEMMA ConnectStepType ==
  ASSUME TypeOK, ConnectStep
  PROVE  TypeOK'
<1> USE DEF TypeOK, CallersOK, LoopOK, WireOK
<1>1. CASE StartAttempt
  BY <1>1 DEF StartAttempt, Phases, Statuses, callVars, streamVars, tableVars, pidVars, netVars,
              brokerVars
<1>2. CASE Wake
  BY <1>2 DEF Wake, Phases, Statuses, callVars, streamVars, tableVars, pidVars, netVars, brokerVars
<1>3. CASE DialFails \/ HandshakeFails
  <2>1. OutcomeOK'
    BY <1>3, AttemptFailedType DEF DialFails, HandshakeFails
  <2>2. faults' \in 0..MaxFaults
    BY <1>3, EventLoopAssumption DEF DialFails, HandshakeFails, Spend, SpendUnlessBroken
  <2> QED
    BY <1>3, <2>1, <2>2 DEF DialFails, HandshakeFails, OutcomeOK, streamVars, pidVars, brokerVars
<1>4. CASE Dial
  <2>1. c2s' \in Seq(ClientFrames)
    BY <1>4, PlainType DEF Dial
  <2>2. s2c' \in Seq(BrokerFrames) /\ phase' \in Phases /\ conn' \in {"none", "up", "broken"}
    BY <1>4 DEF Dial, Phases
  <2>3. CallersOK' /\ LoopOK'
    BY <1>4, <2>2 DEF Dial, callVars, streamVars, tableVars, pidVars
  <2>4. WireOK'
    BY <1>4, <2>1, <2>2 DEF Dial
  <2> QED BY <2>3, <2>4
<1> QED BY <1>1, <1>2, <1>3, <1>4, HandshakeOkType DEF ConnectStep

\* An incoming publish keeps the types, the capacity of its streams included.
LEMMA HandlePublishType ==
  ASSUME TypeOK, HandlePublish
  PROVE  TypeOK'
<1> USE DEF TypeOK, CallersOK, LoopOK, WireOK
<1> DEFINE f == Head(rx)
<1>1. f \in BrokerFrames /\ f.type = "PUBLISH" /\ Tail(rx) \in Seq(BrokerFrames)
  BY DEF HandlePublish
<1>2. f.item \in InMsgs /\ f.pid = 0
  BY <1>1 DEF BrokerFrames, FrameSet
<1>3. Acks(f) \in Seq(ClientFrames)
  <2>1. Frame("PUBACK", f.pid, f.item, FALSE) \in ClientFrames
    BY <1>2 DEF Frame, ClientFrames, FrameSet
  <2> QED BY <2>1, ShortIsSeq DEF Acks
<1>4. c2s' \in Seq(ClientFrames) /\ faults' \in 0..MaxFaults
  BY <1>3, WriteOkType DEF HandlePublish
<1>5. queue' \in [Calls -> Seq(InMsgs)] /\ \A c \in Calls : Len(queue'[c]) <= StreamCap
  <2>1. ASSUME NEW c \in Calls, Len(queue[c]) < StreamCap
        PROVE  Append(queue[c], f.item) \in Seq(InMsgs) /\ Len(Append(queue[c], f.item)) <= StreamCap
    <3> HIDE DEF f
    <3>1. queue[c] \in Seq(InMsgs)
      OBVIOUS
    <3> QED BY <3>1, <2>1, <1>2, EventLoopAssumption
  <2>2. queue' = [c \in Calls |->
          IF c \in Routes(f) \cap streamOpen /\ Len(queue[c]) < StreamCap
          THEN Append(queue[c], f.item) ELSE queue[c]]
    BY DEF HandlePublish
  <2> HIDE DEF f
  <2> QED BY <2>1, <2>2
<1>6. router' \subseteq Calls /\ rx' \in Seq(BrokerFrames)
  BY <1>1 DEF HandlePublish
<1> QED
  BY <1>4, <1>5, <1>6 DEF HandlePublish, callVars, pidVars, loopVars, brokerVars

\* An acknowledgement keeps the types.
LEMMA HandleAnswerType ==
  ASSUME TypeOK, HandleAnswer
  PROVE  TypeOK'
<1> USE DEF TypeOK, CallersOK, LoopOK, WireOK
<1>1. Tail(rx) \in Seq(BrokerFrames)
  BY DEF HandleAnswer
<1>2. result' \in [Calls -> Results]
  BY ResolveType DEF HandleAnswer, Results
<1>3. /\ DOMAIN inflight' \subseteq Pids
      /\ \A p \in DOMAIN inflight' : inflight'[p] \in [msg : Msgs, call : Calls \cup {NoCall}]
  BY TableType DEF HandleAnswer
<1>4. DOMAIN subWait' \subseteq Pids /\ \A p \in DOMAIN subWait' : subWait'[p] \in Calls
  BY TableType DEF HandleAnswer
<1>5. DOMAIN unsubWait' \subseteq Pids /\ \A p \in DOMAIN unsubWait' : unsubWait'[p] \in Calls
  BY TableType DEF HandleAnswer
<1> QED
  BY <1>1, <1>2, <1>3, <1>4, <1>5 DEF HandleAnswer, streamVars, pidVars, loopVars, brokerVars

\* The read branch keeps the types.
LEMMA ReadStepType ==
  ASSUME TypeOK, ReadStep
  PROVE  TypeOK'
<1> USE DEF TypeOK, CallersOK, LoopOK, WireOK
<1>1. ASSUME NEW k \in 1..Len(s2c), Read(k) PROVE TypeOK'
  <2>1. rx' \in Seq(BrokerFrames) /\ s2c' \in Seq(BrokerFrames)
    BY <1>1 DEF Read
  <2> QED
    BY <1>1, <2>1 DEF Read, callVars, streamVars, tableVars, pidVars, loopVars, brokerVars
<1>2. CASE ReadUndecodable \/ ReadClosed
  <2>1. OutcomeOK'
    BY <1>2, DropConnectionType DEF ReadUndecodable, ReadClosed
  <2> QED
    BY <1>2, <2>1 DEF ReadUndecodable, ReadClosed, OutcomeOK, streamVars, pidVars, brokerVars
<1>3. CASE HandleFails
  <2>1. OutcomeOK'
    BY <1>3, DropConnectionType DEF HandleFails
  <2>2. c2s' \in Seq(ClientFrames) /\ faults' \in 0..MaxFaults
    <3> DEFINE f == Head(rx)
    <3>1. CASE UNCHANGED <<c2s, faults>>
      BY <3>1
    <3>2. CASE f.type = "PUBLISH" /\ IsQoS1(f) /\ WriteFails(Acks(f))
      <4>1. f \in BrokerFrames
        BY <1>3 DEF HandleFails
      <4>2. f.item \in InMsgs /\ f.pid = 0
        BY <4>1, <3>2 DEF BrokerFrames, FrameSet
      <4>3. Frame("PUBACK", f.pid, f.item, FALSE) \in ClientFrames
        BY <4>2 DEF Frame, ClientFrames, FrameSet
      <4>4. Acks(f) \in Seq(ClientFrames)
            BY <4>3, ShortIsSeq DEF Acks
      <4> QED BY <3>2, <4>4, WriteFailsType
    <3> QED BY <1>3, <3>1, <3>2 DEF HandleFails
  <2> QED
    BY <1>3, <2>1, <2>2 DEF HandleFails, OutcomeOK, streamVars, pidVars, brokerVars
<1> QED BY <1>1, <1>2, <1>3, HandlePublishType, HandleAnswerType DEF ReadStep

\* A request that is taken leaves a channel no longer than before.
LEMMA TakenType ==
  ASSUME TypeOK, NEW c \in Calls, Taking(c)
  PROVE  /\ Tail(reqs) \in Seq(Calls) /\ Len(Tail(reqs)) <= ChannelCap
         /\ Request[c].msgs \in Seq(Msgs) /\ Request[c].topic \in Topics
         /\ Responder(c) \in Calls \cup {NoCall}
         /\ Request[c].op \in {"publish", "datagram"} => Request[c].msgs[1] \in Msgs
<1>1. Tail(reqs) \in Seq(Calls) /\ Len(Tail(reqs)) <= ChannelCap
  BY QueueType DEF Taking, TypeOK, CallersOK
<1>2. Request[c].msgs \in Seq(Msgs) /\ Request[c].topic \in Topics
  BY EventLoopAssumption
<1>3. Request[c].op \in {"publish", "datagram"} => Request[c].msgs[1] \in Msgs
  BY <1>2, EventLoopAssumption
<1> QED BY <1>1, <1>2, <1>3 DEF Responder

\* A subscribe request keeps the types.
LEMMA SubscribeType ==
  ASSUME TypeOK, NEW c \in Calls, Subscribe(c)
  PROVE  TypeOK'
<1> DEFINE topic  == Request[c].topic
           frame  == Frame("SUBSCRIBE", nextPid, topic, FALSE)
           routed == IF Request[c].stream /\ topic \notin Invalid THEN router \cup {c} ELSE router
           old    == IF nextPid \in DOMAIN subWait THEN {subWait[nextPid]} ELSE {}
<1>1. /\ Tail(reqs) \in Seq(Calls) /\ Len(Tail(reqs)) <= ChannelCap /\ topic \in Topics
  BY TakenType DEF Subscribe
<1>2. routed \in SUBSET Calls /\ <<frame>> \in Seq(ClientFrames)
  <2>1. frame \in ClientFrames
    BY <1>1 DEF Frame, ClientFrames, FrameSet, TypeOK, LoopOK
  <2> QED BY <2>1, ShortIsSeq DEF TypeOK, LoopOK
<1>3. \A cs : Resolve(cs, "cancelled") \in [Calls -> Results]
  BY ResolveType DEF Results
<1>4. /\ OutcomeOK' /\ c2s' \in Seq(ClientFrames) /\ faults' \in 0..MaxFaults
      /\ DOMAIN subWait' \subseteq Pids /\ \A p \in DOMAIN subWait' : subWait'[p] \in Calls
  <2>1. CASE /\ WriteOk(<<frame>>)
             /\ subWait' = With(subWait, nextPid, c)
             /\ KeepDriving(Resolve(old, "cancelled"), Tail(reqs), routed)
    <3>1. OutcomeOK' /\ c2s' \in Seq(ClientFrames) /\ faults' \in 0..MaxFaults
      BY <2>1, <1>1, <1>2, <1>3, WriteOkType, KeepDrivingType
    <3>2. DOMAIN subWait' \subseteq Pids /\ \A p \in DOMAIN subWait' : subWait'[p] \in Calls
      BY <2>1, TableType DEF TypeOK, LoopOK
    <3> QED BY <3>1, <3>2
  <2>2. CASE /\ WriteFails(<<frame>>) /\ UNCHANGED subWait
             /\ DropConnection(Resolve({c}, "cancelled"), Tail(reqs), routed)
    <3>1. OutcomeOK' /\ c2s' \in Seq(ClientFrames) /\ faults' \in 0..MaxFaults
      BY <2>2, <1>1, <1>2, <1>3, WriteFailsType, DropConnectionType
    <3> QED BY <2>2, <3>1 DEF TypeOK, LoopOK
  <2>3. CASE /\ UNCHANGED <<c2s, faults, subWait>>
             /\ DropConnection(Resolve({c}, "cancelled"), Tail(reqs), routed)
    <3>1. OutcomeOK'
      BY <2>3, <1>1, <1>2, <1>3, DropConnectionType
    <3> QED BY <2>3, <3>1 DEF TypeOK, LoopOK, WireOK
  <2> QED BY <2>1, <2>2, <2>3 DEF Subscribe
<1>5. nextPid' \in Pids /\ wrapped' \in BOOLEAN
  BY TakePidsType DEF Subscribe
<1>6. active' \subseteq Topics /\ IsFiniteSet(active')
  BY <1>1, FS_AddElement DEF Subscribe, TypeOK, LoopOK
<1> QED
  BY <1>4, <1>5, <1>6 DEF Subscribe, OutcomeOK, streamVars, brokerVars,
     TypeOK, CallersOK, LoopOK, WireOK

\* An unsubscribe request keeps the types.
LEMMA UnsubscribeType ==
  ASSUME TypeOK, NEW c \in Calls, Unsubscribe(c)
  PROVE  TypeOK'
<1> DEFINE topic  == Request[c].topic
           frame  == Frame("UNSUBSCRIBE", nextPid, topic, FALSE)
           routed == RoutedWithout(topic)
           old    == IF nextPid \in DOMAIN unsubWait THEN {unsubWait[nextPid]} ELSE {}
<1>1. /\ Tail(reqs) \in Seq(Calls) /\ Len(Tail(reqs)) <= ChannelCap /\ topic \in Topics
  BY TakenType DEF Unsubscribe
<1>2. routed \in SUBSET Calls /\ <<frame>> \in Seq(ClientFrames)
  <2>1. frame \in ClientFrames
    BY <1>1 DEF Frame, ClientFrames, FrameSet, TypeOK, LoopOK
  <2> QED BY <2>1, ShortIsSeq DEF RoutedWithout, TypeOK, LoopOK
<1>3. \A cs : Resolve(cs, "cancelled") \in [Calls -> Results]
  BY ResolveType DEF Results
<1>4. /\ OutcomeOK' /\ c2s' \in Seq(ClientFrames) /\ faults' \in 0..MaxFaults
      /\ DOMAIN unsubWait' \subseteq Pids /\ \A p \in DOMAIN unsubWait' : unsubWait'[p] \in Calls
  <2>1. CASE /\ WriteOk(<<frame>>)
             /\ unsubWait' = With(unsubWait, nextPid, c)
             /\ KeepDriving(Resolve(old, "cancelled"), Tail(reqs), routed)
    <3>1. OutcomeOK' /\ c2s' \in Seq(ClientFrames) /\ faults' \in 0..MaxFaults
      BY <2>1, <1>1, <1>2, <1>3, WriteOkType, KeepDrivingType
    <3>2. DOMAIN unsubWait' \subseteq Pids /\ \A p \in DOMAIN unsubWait' : unsubWait'[p] \in Calls
      BY <2>1, TableType DEF TypeOK, LoopOK
    <3> QED BY <3>1, <3>2
  <2>2. CASE /\ WriteFails(<<frame>>) /\ UNCHANGED unsubWait
             /\ DropConnection(Resolve({c}, "cancelled"), Tail(reqs), routed)
    <3>1. OutcomeOK' /\ c2s' \in Seq(ClientFrames) /\ faults' \in 0..MaxFaults
      BY <2>2, <1>1, <1>2, <1>3, WriteFailsType, DropConnectionType
    <3> QED BY <2>2, <3>1 DEF TypeOK, LoopOK
  <2>3. CASE /\ UNCHANGED <<c2s, faults, unsubWait>>
             /\ DropConnection(Resolve({c}, "cancelled"), Tail(reqs), routed)
    <3>1. OutcomeOK'
      BY <2>3, <1>1, <1>2, <1>3, DropConnectionType
    <3> QED BY <2>3, <3>1 DEF TypeOK, LoopOK, WireOK
  <2> QED BY <2>1, <2>2, <2>3 DEF Unsubscribe
<1>5. nextPid' \in Pids /\ wrapped' \in BOOLEAN
  BY TakePidsType DEF Unsubscribe
<1>6. active' \subseteq Topics /\ IsFiniteSet(active')
  BY FS_RemoveElement DEF Unsubscribe, TypeOK, LoopOK
<1> QED
  BY <1>4, <1>5, <1>6 DEF Unsubscribe, OutcomeOK, streamVars, brokerVars,
     TypeOK, CallersOK, LoopOK, WireOK

\* A publish request keeps the types.
LEMMA PublishType ==
  ASSUME TypeOK, NEW c \in Calls, Publish(c)
  PROVE  TypeOK'
<1> DEFINE m   == Request[c].msgs[1]
           qos == QoSOf[m]
           frame == Frame("PUBLISH", IF qos = 0 THEN 0 ELSE nextPid, m, FALSE)
           old == IF nextPid \in DOMAIN inflight /\ qos > 0 THEN {inflight[nextPid].call} ELSE {}
           res == IF qos = 0 THEN Resolve({c}, "ok") ELSE Resolve(old, "cancelled")
<1>1. /\ Tail(reqs) \in Seq(Calls) /\ Len(Tail(reqs)) <= ChannelCap
      /\ m \in Msgs /\ Responder(c) \in Calls \cup {NoCall}
  BY TakenType DEF Publish
<1>2. <<frame>> \in Seq(ClientFrames)
  <2>1. frame \in ClientFrames
    BY <1>1, EventLoopAssumption DEF Frame, ClientFrames, FrameSet, Pids, TypeOK, LoopOK
  <2> QED BY <2>1, ShortIsSeq
<1>3. res \in [Calls -> Results]
  BY ResolveType DEF Results
<1>4. router \in SUBSET Calls
  BY DEF TypeOK, LoopOK
<1>5. OutcomeOK' /\ c2s' \in Seq(ClientFrames) /\ faults' \in 0..MaxFaults
  <2>1. \/ WriteOk(<<frame>>) /\ KeepDriving(res, Tail(reqs), router)
        \/ WriteFails(<<frame>>) /\ DropConnection(res, Tail(reqs), router)
        \/ DropConnection(res, Tail(reqs), router) /\ UNCHANGED <<c2s, faults>>
    BY DEF Publish
  <2> HIDE DEF frame, res
  <2>2. CASE WriteOk(<<frame>>) /\ KeepDriving(res, Tail(reqs), router)
    BY <2>2, <1>1, <1>2, <1>3, <1>4, WriteOkType, KeepDrivingType
  <2>3. CASE WriteFails(<<frame>>) /\ DropConnection(res, Tail(reqs), router)
    BY <2>3, <1>1, <1>2, <1>3, <1>4, WriteFailsType, DropConnectionType
  <2>4. CASE DropConnection(res, Tail(reqs), router) /\ UNCHANGED <<c2s, faults>>
    BY <2>4, <1>1, <1>3, <1>4, DropConnectionType DEF TypeOK, WireOK
  <2> QED BY <2>1, <2>2, <2>3, <2>4
<1>6. /\ DOMAIN inflight' \subseteq Pids
      /\ \A p \in DOMAIN inflight' : inflight'[p] \in [msg : Msgs, call : Calls \cup {NoCall}]
      /\ nextPid' \in Pids /\ wrapped' \in BOOLEAN /\ accepted' \subseteq Msgs
  <2>1. CASE qos > 0
    <3>1. Entry(m, Responder(c)) \in [msg : Msgs, call : Calls \cup {NoCall}]
      BY <1>1 DEF Entry
    <3>2. inflight' = With(inflight, nextPid, Entry(m, Responder(c)))
      BY <2>1 DEF Publish
    <3>3. /\ DOMAIN inflight' \subseteq Pids
          /\ \A p \in DOMAIN inflight' : inflight'[p] \in [msg : Msgs, call : Calls \cup {NoCall}]
      BY <3>1, <3>2, TableType DEF TypeOK, LoopOK
    <3>4. nextPid' \in Pids /\ wrapped' \in BOOLEAN
      BY <2>1, TakePidsType DEF Publish
    <3> QED BY <2>1, <1>1, <3>3, <3>4 DEF Publish, TypeOK, LoopOK
  <2>2. CASE ~(qos > 0)
    BY <2>2 DEF Publish, TypeOK, LoopOK, pidVars
  <2> QED BY <2>1, <2>2
<1> QED
  BY <1>5, <1>6 DEF Publish, OutcomeOK, streamVars, brokerVars, TypeOK, CallersOK, LoopOK, WireOK

\* What a batch stops at is one of its messages, or past the last.
LEMMA BatchEndType ==
  ASSUME NEW ms \in Seq(Msgs)
  PROVE  BatchEnd(ms) \in 1..(Len(ms) + 1)
<1> DEFINE bad == {j \in DOMAIN ms : ms[j] \in Oversize /\ \E i \in 1..(j - 1) : ms[i] \notin Oversize}
<1> DEFINE first == CHOOSE j \in bad : \A i \in bad : j <= i
<1>1. BatchEnd(ms) = IF bad = {} THEN Len(ms) + 1 ELSE first
  BY DEF BatchEnd
<1>2. ASSUME bad # {} PROVE first \in 1..Len(ms)
  <2>1. bad \subseteq 1..Len(ms) /\ bad \subseteq Nat
    OBVIOUS
  <2> HIDE DEF bad
  <2>2. \E j \in bad : \A i \in bad : j <= i
    BY <1>2, <2>1, SmallestExists
  <2>3. first \in bad
    BY <2>2
  <2> QED BY <2>1, <2>3
<1> HIDE DEF bad, first
<1> QED BY <1>1, <1>2

\* A batch takes a natural number of identifiers.
LEMMA PidsUpToType ==
  ASSUME NEW ms, NEW j \in Int
  PROVE  PidsUpTo(ms, j) \in Nat
<1>1. IsFiniteSet(1..j)
  BY FS_Interval
<1>2. {i \in 1..j : QoSOf[ms[i]] > 0} \subseteq 1..j
  OBVIOUS
<1> QED BY <1>1, <1>2, FS_Subset, FS_CardinalityType DEF PidsUpTo

\* An identifier a batch takes is one of the identifiers.
LEMMA BatchPidType ==
  ASSUME TypeOK, NEW ms, NEW j \in Int
  PROVE  BatchPid(ms, j) \in Pids
BY PidsUpToType, PidAfterType DEF BatchPid, TypeOK, LoopOK

\* The frames of a batch are those of its messages after some that were passed over.
LEMMA BatchFramesShape ==
  ASSUME NEW ms \in Seq(Msgs), NEW n \in 0..Len(ms)
  PROVE  \E skipped \in 0..n :
           BatchFrames(ms, n) = [i \in 1..(n - skipped) |->
             LET j == skipped + i
             IN  Frame("PUBLISH", IF QoSOf[ms[j]] = 0 THEN 0 ELSE BatchPid(ms, j), ms[j], FALSE)]
<1> DEFINE sendable == {j \in 1..n : ms[j] \notin Oversize}
           first == CHOOSE j \in sendable : \A i \in sendable : j <= i
           skipped == IF sendable = {} THEN n ELSE first - 1
<1>1. skipped \in 0..n
  <2>1. CASE sendable = {}
    BY <2>1
  <2>2. CASE sendable # {}
    <3>1. sendable \subseteq 1..n /\ sendable \subseteq Nat
      OBVIOUS
    <3> HIDE DEF sendable
    <3>2. \E j \in sendable : \A i \in sendable : j <= i
      BY <2>2, <3>1, SmallestExists
    <3>3. first \in sendable
      BY <3>2
    <3> HIDE DEF first
    <3> QED BY <2>2, <3>1, <3>3
  <2> QED BY <2>1, <2>2
<1>2. BatchFrames(ms, n) = [i \in 1..(n - skipped) |->
        LET j == skipped + i
        IN  Frame("PUBLISH", IF QoSOf[ms[j]] = 0 THEN 0 ELSE BatchPid(ms, j), ms[j], FALSE)]
  BY DEF BatchFrames
<1> HIDE DEF skipped
<1> QED BY <1>1, <1>2

\* A frame of a batch is the frame of one of its messages.
LEMMA BatchFramesItems ==
  ASSUME TypeOK, NEW ms \in Seq(Msgs), NEW n \in 0..Len(ms)
  PROVE  \A f \in ToSet(BatchFrames(ms, n)) : \E j \in 1..n :
           f = Frame("PUBLISH", IF QoSOf[ms[j]] = 0 THEN 0 ELSE BatchPid(ms, j), ms[j], FALSE)
<1> DEFINE frame(j) == Frame("PUBLISH", IF QoSOf[ms[j]] = 0 THEN 0 ELSE BatchPid(ms, j), ms[j], FALSE)
<1>1. PICK skipped \in 0..n : BatchFrames(ms, n) = [i \in 1..(n - skipped) |-> frame(skipped + i)]
  BY BatchFramesShape
<1> HIDE DEF frame
<1>2. \A i \in 1..(n - skipped) : skipped + i \in 1..n
  OBVIOUS
<1>3. \A f \in ToSet(BatchFrames(ms, n)) : \E j \in 1..n : f = frame(j)
  BY <1>1, <1>2 DEF ToSet
<1> QED BY <1>3 DEF frame

\* They are client frames.
LEMMA BatchFramesType ==
  ASSUME TypeOK, NEW ms \in Seq(Msgs), NEW n \in 0..Len(ms)
  PROVE  BatchFrames(ms, n) \in Seq(ClientFrames)
<1> DEFINE frame(j) == Frame("PUBLISH", IF QoSOf[ms[j]] = 0 THEN 0 ELSE BatchPid(ms, j), ms[j], FALSE)
<1>1. PICK skipped \in 0..n : BatchFrames(ms, n) = [i \in 1..(n - skipped) |-> frame(skipped + i)]
  BY BatchFramesShape
<1>2. \A j \in 1..n : frame(j) \in ClientFrames
  BY BatchPidType, EventLoopAssumption DEF Frame, ClientFrames, FrameSet, Pids
<1> HIDE DEF frame
<1>3. \A i \in 1..(n - skipped) : skipped + i \in 1..n
  OBVIOUS
<1>4. BatchFrames(ms, n) \in [1..(n - skipped) -> ClientFrames]
  BY <1>1, <1>2, <1>3
<1>5. n - skipped \in Nat
  OBVIOUS
<1> QED BY <1>4, <1>5, FunctionIsSeq

\* After n messages of a batch.
LEMMA TakeBatchType ==
  ASSUME TypeOK, NEW ms \in Seq(Msgs), NEW n \in 0..Len(ms), TakeBatch(ms, n)
  PROVE  /\ DOMAIN inflight' \subseteq Pids
         /\ \A p \in DOMAIN inflight' : inflight'[p] \in [msg : Msgs, call : Calls \cup {NoCall}]
         /\ nextPid' \in Pids /\ wrapped' \in BOOLEAN /\ accepted' \subseteq Msgs
<1> DEFINE js == {j \in 1..n : QoSOf[ms[j]] > 0}
           pids == {BatchPid(ms, j) : j \in js}
           Takes(p) == {j \in js : BatchPid(ms, j) = p}
           LastTaker(p) == CHOOSE j \in js : BatchPid(ms, j) = p /\ \A i \in js : BatchPid(ms, i) = p => i <= j
<1>1. ASSUME NEW p \in pids PROVE LastTaker(p) \in js
  <2>1. Takes(p) \subseteq 0..n /\ Takes(p) # {} /\ Takes(p) \subseteq js
    OBVIOUS
  <2>2. PICK g \in Takes(p) : \A t \in Takes(p) : t <= g
    <3> HIDE DEF Takes
    <3> QED BY <2>1, GreatestExists
  <2>3. g \in js /\ BatchPid(ms, g) = p /\ \A i \in js : BatchPid(ms, i) = p => i <= g
    BY <2>1, <2>2
  <2> HIDE DEF js
  <2> QED BY <2>3
<1>2. pids \subseteq Pids
  BY BatchPidType
<1>3. inflight' = [p \in DOMAIN inflight \cup pids |->
                     IF p \in pids THEN Entry(ms[LastTaker(p)], NoCall) ELSE inflight[p]]
  BY DEF TakeBatch, BatchTracked
<1>4. \A j \in js : Entry(ms[j], NoCall) \in [msg : Msgs, call : Calls \cup {NoCall}]
  BY DEF Entry
<1>5. nextPid' \in Pids /\ wrapped' \in BOOLEAN
  BY PidsUpToType, TakePidsType DEF TakeBatch
<1>6. accepted' \subseteq Msgs
  BY DEF TakeBatch, TypeOK, LoopOK
<1> HIDE DEF pids, js, LastTaker
<1> QED
  BY <1>1, <1>2, <1>3, <1>4, <1>5, <1>6 DEF TypeOK, LoopOK

\* A batch request keeps the types.
LEMMA PublishBatchType ==
  ASSUME TypeOK, NEW c \in Calls, PublishBatch(c)
  PROVE  TypeOK'
<1> DEFINE ms  == Request[c].msgs
           end == BatchEnd(ms)
           Res(n, r) == [Resolve(Overwritten(ms, n), "cancelled") EXCEPT ![c] = r]
           TablesOK == /\ DOMAIN inflight' \subseteq Pids
                       /\ \A p \in DOMAIN inflight' : inflight'[p] \in [msg : Msgs, call : Calls \cup {NoCall}]
                       /\ nextPid' \in Pids /\ wrapped' \in BOOLEAN /\ accepted' \subseteq Msgs
           SentOK == OutcomeOK' /\ c2s' \in Seq(ClientFrames) /\ faults' \in 0..MaxFaults
<1>1. ms \in Seq(Msgs) /\ Tail(reqs) \in Seq(Calls) /\ Len(Tail(reqs)) <= ChannelCap
  BY TakenType DEF PublishBatch
<1>2. end \in 1..(Len(ms) + 1) /\ Len(ms) \in Nat
  BY <1>1, BatchEndType
<1>3. \A n : \A r \in Results : Res(n, r) \in [Calls -> Results]
  BY ResolveType DEF Results
<1>4. router \in SUBSET Calls
  BY DEF TypeOK, LoopOK
<1>5. \/ /\ end > Len(ms) /\ TakeBatch(ms, Len(ms)) /\ WriteOk(BatchFrames(ms, Len(ms)))
         /\ KeepDriving(Res(Len(ms), "ok"), Tail(reqs), router)
      \/ /\ end <= Len(ms) /\ TakeBatch(ms, end) /\ WriteOk(BatchFrames(ms, end - 1))
         /\ DropConnection(Res(end, "cancelled"), Tail(reqs), router)
      \/ \E n \in DOMAIN ms :
           /\ n <= end /\ TakeBatch(ms, n)
           /\ WriteFails(BatchFrames(ms, IF n < end THEN n ELSE end - 1))
           /\ DropConnection(Res(n, "cancelled"), Tail(reqs), router)
  BY DEF PublishBatch
<1>6. TablesOK /\ SentOK
  <2> HIDE DEF ms, end, Res
  <2>1. CASE /\ TakeBatch(ms, Len(ms)) /\ WriteOk(BatchFrames(ms, Len(ms)))
             /\ KeepDriving(Res(Len(ms), "ok"), Tail(reqs), router)
    <3>1. BatchFrames(ms, Len(ms)) \in Seq(ClientFrames)
      BY <1>1, <1>2, BatchFramesType
    <3>2. SentOK
      <4>1. Res(Len(ms), "ok") \in [Calls -> Results]
        BY <1>3 DEF Results
      <4>2. OutcomeOK'
        BY <2>1, <4>1, <1>1, <1>4, KeepDrivingType
      <4>3. c2s' \in Seq(ClientFrames) /\ faults' \in 0..MaxFaults
        BY <2>1, <3>1, WriteOkType
      <4> QED BY <4>2, <4>3
    <3>3. TablesOK
      BY <2>1, <1>1, TakeBatchType
    <3> QED BY <3>2, <3>3
  <2>2. CASE /\ end <= Len(ms) /\ TakeBatch(ms, end) /\ WriteOk(BatchFrames(ms, end - 1))
             /\ DropConnection(Res(end, "cancelled"), Tail(reqs), router)
    <3>1. BatchFrames(ms, end - 1) \in Seq(ClientFrames) /\ end \in 1..Len(ms)
      BY <2>2, <1>1, <1>2, BatchFramesType
    <3>2. SentOK
      <4>1. Res(end, "cancelled") \in [Calls -> Results]
        BY <1>3 DEF Results
      <4>2. OutcomeOK'
        BY <2>2, <4>1, <1>1, <1>4, DropConnectionType
      <4>3. c2s' \in Seq(ClientFrames) /\ faults' \in 0..MaxFaults
        BY <2>2, <3>1, WriteOkType
      <4> QED BY <4>2, <4>3
    <3>3. TablesOK
      BY <2>2, <3>1, <1>1, TakeBatchType
    <3> QED BY <3>2, <3>3
  <2>3. ASSUME NEW n \in DOMAIN ms,
               n <= end, TakeBatch(ms, n),
               WriteFails(BatchFrames(ms, IF n < end THEN n ELSE end - 1)),
               DropConnection(Res(n, "cancelled"), Tail(reqs), router)
        PROVE  TablesOK /\ SentOK
    <3>0. n \in 1..Len(ms) /\ (IF n < end THEN n ELSE end - 1) \in 0..Len(ms)
      BY <1>1, <1>2, <2>3
    <3>1. BatchFrames(ms, IF n < end THEN n ELSE end - 1) \in Seq(ClientFrames)
      BY <3>0, <1>1, BatchFramesType
    <3>2. SentOK
      <4>1. Res(n, "cancelled") \in [Calls -> Results]
        BY <1>3 DEF Results
      <4>2. OutcomeOK'
        BY <2>3, <4>1, <1>1, <1>4, DropConnectionType
      <4>3. c2s' \in Seq(ClientFrames) /\ faults' \in 0..MaxFaults
        BY <2>3, <3>1, WriteFailsType
      <4> QED BY <4>2, <4>3
    <3>3. TablesOK
      BY <2>3, <3>0, <1>1, TakeBatchType
    <3> QED BY <3>2, <3>3
  <2> QED BY <1>5, <2>1, <2>2, <2>3
<1> QED
  BY <1>6 DEF PublishBatch, OutcomeOK, streamVars, brokerVars, TypeOK, CallersOK, LoopOK, WireOK

\* The request branch keeps the types.
LEMMA RequestStepType ==
  ASSUME TypeOK, RequestStep
  PROVE  TypeOK'
<1>1. ASSUME NEW c \in Calls, PublishDatagram(c) PROVE TypeOK'
  <2> DEFINE m == Request[c].msgs[1]
  <2>1. /\ Tail(reqs) \in Seq(Calls) /\ Len(Tail(reqs)) <= ChannelCap /\ m \in Msgs
    BY <1>1, TakenType DEF PublishDatagram
  <2>2. \A cs : \A r \in {"ok", "err", "cancelled"} : Resolve(cs, r) \in [Calls -> Results]
    BY ResolveType DEF Results
  <2>3. router \in SUBSET Calls
    BY DEF TypeOK, LoopOK
  <2>4. OutcomeOK' /\ received' \subseteq Msgs
    <3>1. CASE DropConnection(Resolve({c}, "cancelled"), Tail(reqs), router) /\ UNCHANGED received
      BY <3>1, <2>1, <2>2, <2>3, DropConnectionType DEF TypeOK, WireOK
    <3>2. ASSUME NEW r \in {"ok", "err"}, KeepDriving(Resolve({c}, r), Tail(reqs), router),
                 received' = received \/ received' = received \cup {m}
          PROVE  OutcomeOK' /\ received' \subseteq Msgs
      BY <3>2, <2>1, <2>2, <2>3, KeepDrivingType DEF TypeOK, WireOK
    <3> QED BY <1>1, <3>1, <3>2 DEF PublishDatagram
  <2> QED
    BY <1>1, <2>4 DEF PublishDatagram, OutcomeOK, streamVars, pidVars, TypeOK, CallersOK, LoopOK, WireOK
<1>2. ASSUME NEW c \in Calls, Disconnect(c) PROVE TypeOK'
  <2>1. result' \in [Calls -> Results] /\ reqs' \in Seq(Calls) /\ Len(reqs') <= ChannelCap
    BY <1>2, ResolveType, TakenType DEF Disconnect, Results
  <2>2. <<Plain("DISCONNECT")>> \in Seq(ClientFrames)
    BY PlainType, ShortIsSeq
  <2>3. c2s' \in Seq(ClientFrames) /\ faults' \in 0..MaxFaults
    BY <1>2, <2>2, WriteOkType, WriteFailsType DEF Disconnect
  <2>4. phase' \in Phases /\ status' \in Statuses
    BY <1>2 DEF Disconnect, Phases, Statuses
  <2> QED
    BY <1>2, <2>1, <2>3, <2>4 DEF Disconnect, streamVars, tableVars, pidVars, brokerVars,
       TypeOK, CallersOK, LoopOK, WireOK
<1>3. CASE HandlesGone
  <2>1. Plain("DISCONNECT") \in ClientFrames
    BY PlainType
  <2>2. c2s' \in Seq(ClientFrames) /\ status' \in Statuses
    BY <1>3, <2>1 DEF HandlesGone, Statuses, TypeOK, WireOK
  <2> QED
    BY <1>3, <2>2 DEF HandlesGone, callVars, streamVars, tableVars, pidVars, brokerVars,
       TypeOK, CallersOK, LoopOK, WireOK
<1> QED
  BY <1>1, <1>2, <1>3, PublishType, PublishBatchType, SubscribeType, UnsubscribeType DEF RequestStep

\* The ping timer keeps the types.
LEMMA PingTickType ==
  ASSUME TypeOK, PingTick
  PROVE  TypeOK'
<1>1. <<Plain("PINGREQ")>> \in Seq(ClientFrames)
  BY PlainType, ShortIsSeq
<1>2. result \in [Calls -> Results] /\ reqs \in Seq(Calls) /\ Len(reqs) <= ChannelCap
      /\ router \in SUBSET Calls
  BY DEF TypeOK, CallersOK, LoopOK
<1>3. OutcomeOK' /\ c2s' \in Seq(ClientFrames) /\ faults' \in 0..MaxFaults
  <2>1. CASE WriteOk(<<Plain("PINGREQ")>>) /\ KeepDriving(result, reqs, router)
    BY <2>1, <1>1, <1>2, WriteOkType, KeepDrivingType
  <2>2. CASE WriteFails(<<Plain("PINGREQ")>>) /\ DropConnection(result, reqs, router)
    BY <2>2, <1>1, <1>2, WriteFailsType, DropConnectionType
  <2> QED BY <2>1, <2>2 DEF PingTick
<1> QED
  BY <1>3 DEF PingTick, OutcomeOK, streamVars, pidVars, brokerVars, TypeOK, CallersOK, LoopOK, WireOK

\* Broker and network.
LEMMA SendType ==
  ASSUME TypeOK, NEW frames \in Seq(BrokerFrames), Send(frames)
  PROVE  s2c' \in Seq(BrokerFrames)
BY DEF Send, TypeOK, WireOK

\* The frames the broker sends are broker frames.
LEMMA BrokerFrameType ==
  /\ \A type \in {"CONNACK", "PINGRESP", "DISCONNECT", "UNDECODABLE"} : Plain(type) \in BrokerFrames
  /\ \A type \in {"PUBACK", "PUBREC", "SUBACK", "UNSUBACK"}, p \in 0..MaxPid :
       Frame(type, p, Nothing, FALSE) \in BrokerFrames
  /\ \A i \in InMsgs : Frame("PUBLISH", 0, i, FALSE) \in BrokerFrames
BY DEF Plain, Frame, BrokerFrames, FrameSet

\* The broker taking a frame keeps the types.
LEMMA BrokerRecvType ==
  ASSUME TypeOK, BrokerRecv
  PROVE  TypeOK'
<1> USE DEF TypeOK, CallersOK, LoopOK, WireOK
<1> DEFINE f == Head(c2s)
<1>1. f \in ClientFrames /\ Tail(c2s) \in Seq(ClientFrames)
  BY DEF BrokerRecv
<1>2. /\ f.type = "PUBLISH" => f.item \in Msgs
      /\ f.type \in {"SUBSCRIBE", "UNSUBSCRIBE"} => f.item \in Topics
      /\ f.pid \in 0..MaxPid
  BY <1>1, EventLoopAssumption DEF ClientFrames, FrameSet, Pids
<1>3. Reply(f) \in Seq(BrokerFrames)
  <2> HIDE DEF f
  <2>1. /\ <<>> \in Seq(BrokerFrames) /\ <<Plain("PINGRESP")>> \in Seq(BrokerFrames)
        /\ \A type \in {"PUBACK", "PUBREC", "SUBACK", "UNSUBACK"} :
             <<Frame(type, f.pid, Nothing, FALSE)>> \in Seq(BrokerFrames)
    BY <1>2, BrokerFrameType, ShortIsSeq
  <2>2. CASE f.type = "PUBLISH"
    BY <2>1, <2>2 DEF Reply
  <2>3. CASE f.type # "PUBLISH"
    BY <2>1, <2>3 DEF Reply
  <2> QED BY <2>2, <2>3
<1>4. s2c' \in Seq(BrokerFrames) /\ c2s' \in Seq(ClientFrames)
  BY <1>1, <1>3, SendType DEF BrokerRecv
<1>5. received' \subseteq Msgs
  BY <1>2 DEF BrokerRecv
<1>6. inbox' \in [InMsgs -> {"new", "sent", "acked"}]
  BY DEF BrokerRecv
<1>7. brokerSubs' \subseteq Topics
  BY <1>2 DEF BrokerRecv
<1> QED
  BY <1>4, <1>5, <1>6, <1>7 DEF BrokerRecv, callVars, streamVars, tableVars, pidVars, loopVars

\* Any step of the broker on what the client sent keeps the types.
LEMMA BrokerStepType ==
  ASSUME TypeOK, BrokerStep
  PROVE  TypeOK'
<1> USE DEF TypeOK, CallersOK, LoopOK, WireOK, callVars, streamVars, tableVars, pidVars, loopVars
<1>1. CASE BrokerConnect
  <2>1. s2c' \in Seq(BrokerFrames) /\ c2s' \in Seq(ClientFrames)
    <3>1. <<Plain("CONNACK")>> \in Seq(BrokerFrames)
      BY BrokerFrameType, ShortIsSeq
    <3>2. s2c' \in Seq(BrokerFrames)
      BY <1>1, <3>1, SendType DEF BrokerConnect
    <3>3. c2s' \in Seq(ClientFrames)
      BY <1>1 DEF BrokerConnect
    <3> QED BY <3>2, <3>3
  <2> QED BY <1>1, <2>1 DEF BrokerConnect
<1>2. CASE BrokerClose
  BY <1>2 DEF BrokerClose, brokerVars
<1> QED BY <1>1, <1>2, BrokerRecvType DEF BrokerStep

\* Publishes and faults of the broker and broken links keep the types.
LEMMA NetworkStepType ==
  ASSUME TypeOK, NetworkStep
  PROVE  TypeOK'
<1> USE DEF TypeOK, CallersOK, LoopOK, WireOK, callVars, streamVars, tableVars, pidVars, loopVars
<1>1. ASSUME NEW i \in InMsgs, BrokerPublish(i) PROVE TypeOK'
  <2>1. s2c' \in Seq(BrokerFrames)
    BY <1>1, BrokerFrameType, ShortIsSeq, SendType DEF BrokerPublish
  <2> QED BY <1>1, <2>1 DEF BrokerPublish
<1>2. ASSUME NEW t \in {"DISCONNECT", "UNDECODABLE"}, BrokerFault(t) PROVE TypeOK'
  <2>1. s2c' \in Seq(BrokerFrames)
    BY <1>2, BrokerFrameType, ShortIsSeq, SendType DEF BrokerFault
  <2>2. faults' \in 0..MaxFaults
    BY <1>2, EventLoopAssumption DEF BrokerFault, Spend
  <2> QED BY <1>2, <2>1, <2>2 DEF BrokerFault, brokerVars
<1>3. CASE Break
  <2>1. faults' \in 0..MaxFaults
    BY <1>3, EventLoopAssumption DEF Break, Spend
  <2> QED BY <1>3, <2>1 DEF Break, brokerVars
<1> QED BY <1>1, <1>2, <1>3 DEF NetworkStep

\* The initial state is well formed.
LEMMA InitType ==
  Init => TypeOK
<1> SUFFICES ASSUME Init PROVE TypeOK
  OBVIOUS
<1>1. CallersOK
  BY EventLoopAssumption DEF Init, CallersOK, Results
<1>2. LoopOK
  <2>1. DOMAIN <<>> = {} /\ IsFiniteSet({}) /\ 1 \in Pids
    BY EventLoopAssumption, FS_EmptySet DEF Pids
  <2> QED BY <2>1 DEF Init, LoopOK, Phases, Statuses
<1>3. WireOK
  <2>1. /\ c2s \in Seq(ClientFrames) /\ s2c \in Seq(BrokerFrames) /\ rx \in Seq(BrokerFrames)
        /\ faults \in 0..MaxFaults
    BY ShortIsSeq, EventLoopAssumption DEF Init
  <2> QED BY <2>1 DEF Init, WireOK
<1> QED BY <1>1, <1>2, <1>3 DEF TypeOK

\* Every step keeps the types.
LEMMA TypeStep ==
  ASSUME TypeOK, [Next]_vars
  PROVE  TypeOK'
<1>1. CASE Next
  BY <1>1, CallerStepType, ConnectStepType, ReadStepType, RequestStepType, PingTickType,
     BrokerStepType, NetworkStepType DEF Next
<1>2. CASE UNCHANGED vars
  BY <1>2 DEF vars, callVars, streamVars, tableVars, pidVars, loopVars, netVars, brokerVars,
              TypeOK, CallersOK, LoopOK, WireOK
<1> QED BY <1>1, <1>2

\* The types of the state, among them the capacity of the request channel and of
\* every subscription stream, hold whatever the calls, the policies and the faults.
THEOREM TypeCorrect == Spec => []TypeOK
BY InitType, TypeStep, PTL DEF Spec

-----------------------------------------------------------------------------
(* A routed stream's filter is one that a reconnection restores.             *)

\* Any outcome keeps the routes it is given.
LEMMA OutcomeRoutes ==
  ASSUME NEW res, NEW queued, NEW routed
  PROVE  /\ KeepDriving(res, queued, routed) => router' = routed
         /\ DropConnection(res, queued, routed) => router' = routed
         /\ AttemptFailed => router' = router
BY DEF KeepDriving, DropConnection, AttemptFailed

\* A step that adds no route and gives up no filter keeps RoutedIsActive.
LEMMA FewerRoutes ==
  ASSUME RoutedIsActive, router' \subseteq router, active' = active
  PROVE  RoutedIsActive'
BY DEF RoutedIsActive

\* Subscribe routes a stream and records its filter in one step; unsubscribe undoes both.
LEMMA RequestStepRoutes ==
  ASSUME TypeOK, RoutedIsActive, RequestStep
  PROVE  RoutedIsActive'
<1>1. ASSUME NEW c \in Calls, Subscribe(c) PROVE RoutedIsActive'
  <2>1. router' \subseteq router \cup {c} /\ active' = active \cup {Request[c].topic}
    BY <1>1, OutcomeRoutes DEF Subscribe
  <2> QED BY <2>1 DEF RoutedIsActive
<1>2. ASSUME NEW c \in Calls, Unsubscribe(c) PROVE RoutedIsActive'
  <2>1. router' \subseteq RoutedWithout(Request[c].topic) /\ active' = active \ {Request[c].topic}
    BY <1>2, OutcomeRoutes DEF Unsubscribe
  <2> QED BY <2>1 DEF RoutedIsActive, RoutedWithout
<1>3. ASSUME NEW c \in Calls, Publish(c) PROVE RoutedIsActive'
  BY <1>3, OutcomeRoutes, FewerRoutes DEF Publish
<1>4. ASSUME NEW c \in Calls, PublishBatch(c) PROVE RoutedIsActive'
  BY <1>4, OutcomeRoutes, FewerRoutes DEF PublishBatch
<1>5. ASSUME NEW c \in Calls, PublishDatagram(c) PROVE RoutedIsActive'
  BY <1>5, OutcomeRoutes, FewerRoutes DEF PublishDatagram
<1>6. ASSUME NEW c \in Calls, Disconnect(c) PROVE RoutedIsActive'
  BY <1>6, FewerRoutes DEF Disconnect, tableVars
<1>7. CASE HandlesGone
  BY <1>7, FewerRoutes DEF HandlesGone, tableVars
<1> QED BY <1>1, <1>2, <1>3, <1>4, <1>5, <1>6, <1>7 DEF RequestStep

\* No other step adds a route or gives up a filter.
LEMMA OtherStepRoutes ==
  ASSUME RoutedIsActive,
         CallerStep \/ ConnectStep \/ ReadStep \/ PingTick \/ BrokerStep \/ NetworkStep \/ UNCHANGED vars
  PROVE  RoutedIsActive'
<1>1. CASE CallerStep
  <2>1. CASE DropLoop
    BY <2>1 DEF DropLoop, RoutedIsActive
  <2>2. CASE ~DropLoop
    BY <1>1, <2>2, FewerRoutes DEF CallerStep, Call, StreamRecv, StreamDrop, DropHandles, tableVars
  <2> QED BY <2>1, <2>2
<1>2. CASE ConnectStep
  BY <1>2, OutcomeRoutes, FewerRoutes
     DEF ConnectStep, StartAttempt, Wake, DialFails, HandshakeFails, Dial, HandshakeOk, tableVars
<1>3. CASE ReadStep
  BY <1>3, OutcomeRoutes, FewerRoutes
     DEF ReadStep, Read, ReadUndecodable, ReadClosed, HandlePublish, HandleAnswer, HandleFails, tableVars
<1>4. CASE PingTick
  BY <1>4, OutcomeRoutes, FewerRoutes DEF PingTick
<1>5. CASE BrokerStep
  BY <1>5, FewerRoutes DEF BrokerStep, BrokerConnect, BrokerRecv, BrokerClose, tableVars
<1>6. CASE NetworkStep
  BY <1>6, FewerRoutes DEF NetworkStep, BrokerPublish, BrokerFault, Break, tableVars
<1>7. CASE UNCHANGED vars
  BY <1>7, FewerRoutes DEF vars, tableVars
<1> QED BY <1>1, <1>2, <1>3, <1>4, <1>5, <1>6, <1>7

\* Whatever is subscribed, unsubscribed, dropped or reconnected, and in whatever
\* order, no stream stays routed after its filter has left active_subscriptions.
THEOREM RoutesAreActive == Spec => []RoutedIsActive
<1>1. Init => RoutedIsActive
  BY DEF Init, RoutedIsActive
<1>2. TypeOK /\ RoutedIsActive /\ [Next]_vars => RoutedIsActive'
  BY RequestStepRoutes, OtherStepRoutes DEF Next
<1> QED BY <1>1, <1>2, TypeCorrect, PTL DEF Spec

===============================================================================
