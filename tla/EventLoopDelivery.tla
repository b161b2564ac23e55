--------------------------- MODULE EventLoopDelivery ---------------------------
(***************************************************************************)
(* Proofs about EventLoop, for every set of calls and messages, every      *)
(* policy and every number of faults: what the loop has taken is not       *)
(* forgotten before the broker has it; what it reports as acknowledged the *)
(* broker has; it gives no caller of a tracked publish up; and on a live   *)
(* connection every tracked publish has its exchange under way and every   *)
(* filter that can be is at the broker or on its way.                      *)
(*                                                                         *)
(* None of these is inductive.  For the first two a PUBACK in flight must  *)
(* be known to be for a message the broker has, so a PUBLISH in flight     *)
(* must carry the message tracked under its identifier, so no identifier   *)
(* in use may be handed out again (IdentifiersUnique), on which the third  *)
(* rests too; and the caller a PUBACK answers must be one that published   *)
(* that message (RespondersKnown).  For the exchanges the PUBLISH under    *)
(* way must be one the broker answers with a PUBACK (AliveInv).  For the   *)
(* filters the last frame for one must say what active_subscriptions says, *)
(* and nothing else may be on the wire when the recovery begins            *)
(* (InstallInv).                                                           *)
(***************************************************************************)
EXTENDS EventLoopProofs

-----------------------------------------------------------------------------
(* The inductive invariant, and the kinds of step that keep it. *)

Delivery == IdentifiersUnique /\ RespondersKnown /\ UnackedRecoverable /\ AckedReceived

\* A loop that was dropped does not come back.
StillThere == phase = "gone" => phase' = "gone"

LEMMA GoneStays ==
  ASSUME [Next]_vars
  PROVE  StillThere
BY DEF StillThere, Next, vars, loopVars, CallerStep, Call, DropHandles, StreamRecv, StreamDrop, DropLoop,
       ConnectStep, StartAttempt, Wake, DialFails, Dial, HandshakeFails, HandshakeOk,
       ReadStep, Driving, Read, ReadUndecodable, ReadClosed, HandlePublish, HandleAnswer, HandleFails,
       RequestStep, Taking, Publish, PublishBatch, PublishDatagram, Subscribe, Unsubscribe, Disconnect,
       HandlesGone, PingTick, BrokerStep, BrokerConnect, BrokerRecv, BrokerClose,
       NetworkStep, BrokerPublish, BrokerFault, Break

\* What a quiet step does not do.
Monotone == (~wrapped' => ~wrapped /\ nextPid <= nextPid') /\ received \subseteq received'
NoNewPublish == \A f \in ToSet(c2s') : f \in ToSet(c2s) \/ f.type # "PUBLISH"
NoNewPuback ==
  \A f \in ToSet(s2c') \cup ToSet(rx') : f \in ToSet(s2c) \cup ToSet(rx) \/ f.type # "PUBACK"
NoNewOk ==
  \A c \in Calls : Request[c].op = "publish" /\ result'[c] = "ok"
    => result[c] = "ok" \/ \A i \in DOMAIN Request[c].msgs : ~(QoSOf[Request[c].msgs[i]] > 0)

\* The table only grows, by entries under identifiers that are new, and holds
\* every message newly taken; the frames that are new are right.
TableGrows ==
  /\ DOMAIN inflight \subseteq DOMAIN inflight'
  /\ \A p \in DOMAIN inflight' :
       (p \in DOMAIN inflight /\ inflight'[p] = inflight[p]) \/ (nextPid <= p /\ p < nextPid')
  /\ accepted' \subseteq accepted \cup Tracked'
NewFramesRight ==
  /\ \A f \in ToSet(c2s') : f \in ToSet(c2s) \/ PublishTracked(f)'
  /\ \A f \in ToSet(s2c') \cup ToSet(rx') : f \in ToSet(s2c) \cup ToSet(rx) \/ PubackEarned(f)'

\* The identifiers in the tables and on the wire are numbers.
LEMMA FramePids ==
  ASSUME TypeOK
  PROVE  /\ nextPid \in Nat /\ DOMAIN inflight \subseteq Nat \ {0}
         /\ \A f \in ToSet(c2s) : f.pid \in Nat
         /\ \A f \in ToSet(s2c) \cup ToSet(rx) : f.pid \in Nat
<1>1. nextPid \in Nat /\ DOMAIN inflight \subseteq Nat \ {0}
  BY EventLoopAssumption DEF TypeOK, LoopOK, Pids
<1>2. ToSet(c2s) \subseteq ClientFrames /\ ToSet(s2c) \cup ToSet(rx) \subseteq BrokerFrames
  BY DEF TypeOK, WireOK, ToSet
<1>3. (\A f \in ClientFrames : f.pid \in Nat) /\ \A f \in BrokerFrames : f.pid \in Nat
  BY EventLoopAssumption DEF ClientFrames, BrokerFrames, FrameSet, Pids
<1> QED BY <1>1, <1>2, <1>3

\* A step that only adds right entries and right frames keeps Delivery.
LEMMA ExtendingStep ==
  ASSUME TypeOK, TypeOK', StillThere, Delivery, Monotone, NoNewOk, RespondersKnown',
         ~wrapped' => TableGrows /\ NewFramesRight
  PROVE  Delivery'
<1>1. IdentifiersUnique'
  <2> SUFFICES ASSUME ~wrapped' PROVE
        /\ \A p \in DOMAIN inflight' : p < nextPid'
        /\ \A f \in ToSet(c2s') : PublishTracked(f)'
        /\ \A f \in ToSet(s2c') \cup ToSet(rx') : PubackEarned(f)'
    BY DEF IdentifiersUnique
  <2>1. /\ \A p \in DOMAIN inflight : p < nextPid
        /\ \A f \in ToSet(c2s) : PublishTracked(f)
        /\ \A f \in ToSet(s2c) \cup ToSet(rx) : PubackEarned(f)
        /\ nextPid <= nextPid' /\ received \subseteq received'
    BY DEF Delivery, IdentifiersUnique, Monotone
  <2>2. nextPid \in Nat /\ nextPid' \in Nat /\ DOMAIN inflight' \subseteq Nat
    BY EventLoopAssumption DEF TypeOK, LoopOK, Pids
  <2>3. \A p \in DOMAIN inflight' : p < nextPid'
    BY <2>1, <2>2 DEF TableGrows
  <2>4. ASSUME NEW f \in ToSet(c2s), f.type = "PUBLISH" PROVE PublishTracked(f)'
    BY <2>1, <2>2, <2>4, FramePids DEF PublishTracked, TableGrows
  <2>5. ASSUME NEW f \in ToSet(s2c) \cup ToSet(rx), f.type = "PUBACK" PROVE PubackEarned(f)'
    BY <2>1, <2>2, <2>5, FramePids DEF PubackEarned, TableGrows
  <2>6. /\ \A f \in ToSet(c2s) : PublishTracked(f)'
        /\ \A f \in ToSet(s2c) \cup ToSet(rx) : PubackEarned(f)'
    BY <2>4, <2>5 DEF PublishTracked, PubackEarned
  <2> QED BY <2>3, <2>6 DEF NewFramesRight
<1>2. UnackedRecoverable'
  <2>1. ~wrapped' => Tracked \subseteq Tracked'
    <3> SUFFICES ASSUME ~wrapped', NEW p \in DOMAIN inflight
                 PROVE  p \in DOMAIN inflight' /\ inflight'[p] = inflight[p]
      BY DEF Tracked
    <3>1. p < nextPid /\ p \in Nat /\ nextPid \in Nat
      BY FramePids DEF Delivery, IdentifiersUnique, Monotone
    <3> QED BY <3>1 DEF TableGrows
  <2> QED BY <2>1 DEF Delivery, UnackedRecoverable, Monotone, TableGrows, StillThere
<1>3. AckedReceived'
  BY DEF Delivery, AckedReceived, Monotone, NoNewOk
<1> QED BY <1>1, <1>2, <1>3 DEF Delivery

\* A step that adds no entry, no PUBLISH, no PUBACK and no answered publish keeps it.
LEMMA QuietStep ==
  ASSUME TypeOK, TypeOK', StillThere, Delivery, Monotone, NoNewPublish, NoNewPuback, NoNewOk,
         inflight' = inflight, accepted' = accepted, RespondersKnown'
  PROVE  Delivery'
<1>1. NewFramesRight
  BY DEF NewFramesRight, NoNewPublish, NoNewPuback, PublishTracked, PubackEarned
<1>2. TableGrows
  BY DEF TableGrows
<1> QED BY <1>1, <1>2, ExtendingStep

\* What is written is what was there and what is added; what part of some frames adds.
LEMMA FramesConcat ==
  \A a, b \in Seq(ClientFrames) : ToSet(a \o b) = ToSet(a) \cup ToSet(b)
BY ConcatSet

LEMMA SentPrefix ==
  ASSUME TypeOK, NEW frames \in Seq(ClientFrames), NEW n \in 0..Len(frames)
  PROVE  ToSet(c2s \o SubSeq(frames, 1, n)) \subseteq ToSet(c2s) \cup ToSet(frames)
<1>1. c2s \in Seq(ClientFrames)
  BY DEF TypeOK, WireOK
<1>2. SubSeq(frames, 1, n) \in Seq(ClientFrames) /\ ToSet(SubSeq(frames, 1, n)) \subseteq ToSet(frames)
  <2>1. \A s \in Seq(ClientFrames) : \A m \in 0..Len(s) :
          SubSeq(s, 1, m) \in Seq(ClientFrames) /\ ToSet(SubSeq(s, 1, m)) \subseteq ToSet(s)
    <3> SUFFICES ASSUME NEW s \in Seq(ClientFrames), NEW m \in 0..Len(s)
                 PROVE SubSeq(s, 1, m) \in Seq(ClientFrames)
                       /\ ToSet(SubSeq(s, 1, m)) \subseteq ToSet(s)
      OBVIOUS
    <3>1. m \in Int /\ m <= Len(s) /\ 1 \in Int /\ 1 >= 1
      OBVIOUS
    <3> QED BY <3>1, SubSeqSet
  <2> QED BY <2>1
<1>3. ToSet(c2s \o SubSeq(frames, 1, n)) = ToSet(c2s) \cup ToSet(SubSeq(frames, 1, n))
  BY <1>1, <1>2, FramesConcat, Zenon
<1> QED BY <1>2, <1>3

\* What a write adds to the wire, whether or not it succeeds.
LEMMA SentByWrite ==
  ASSUME TypeOK, NEW frames \in Seq(ClientFrames), WriteOk(frames) \/ WriteFails(frames)
  PROVE  ToSet(c2s') \subseteq ToSet(c2s) \cup ToSet(frames)
<1>1. c2s \in Seq(ClientFrames)
  BY DEF TypeOK, WireOK
<1>2. CASE WriteOk(frames)
  BY <1>1, <1>2, ConcatSet DEF WriteOk
<1>3. CASE WriteFails(frames)
  BY <1>3, SentPrefix DEF WriteFails
<1> QED BY <1>2, <1>3

\* A write without a PUBLISH adds none.
LEMMA WriteQuiet ==
  ASSUME TypeOK, NEW frames \in Seq(ClientFrames), WriteOk(frames) \/ WriteFails(frames),
         \A f \in ToSet(frames) : f.type # "PUBLISH"
  PROVE  NoNewPublish
BY SentByWrite DEF NoNewPublish

\* The outcome of a handler brings no PUBACK and answers nobody on its own.
LEMMA OutcomeQuiet ==
  ASSUME NEW res, NEW queued, NEW routed,
         KeepDriving(res, queued, routed) \/ DropConnection(res, queued, routed)
  PROVE  NoNewPuback /\ \A c \in Calls : result'[c] = "ok" => res[c] = "ok"
<1>1. (s2c' = s2c /\ rx' = rx) \/ (s2c' = <<>> /\ rx' = <<>>)
  BY DEF KeepDriving, DropConnection
<1>2. NoNewPuback
  BY <1>1, ShortSet DEF NoNewPuback
<1>3. result' = res
  BY DEF KeepDriving, DropConnection
<1> QED BY <1>2, <1>3

\* Nor does a failed attempt to connect.
LEMMA AttemptFailedQuiet ==
  ASSUME AttemptFailed
  PROVE  NoNewPuback /\ NoNewOk
<1>1. s2c' = <<>> /\ UNCHANGED <<result, rx>>
  BY DEF AttemptFailed
<1> QED BY <1>1, ShortSet DEF NoNewPuback, NoNewOk

\* Resolving answers with Ok only those it is told to.
LEMMA ResolveQuiet ==
  ASSUME TypeOK, NEW cs, NEW r
  PROVE  \A c \in Calls :
           Resolve(cs, r)[c] = "ok" => result[c] = "ok" \/ (r = "ok" /\ c \in cs)
BY DEF Resolve

\* A number below the modulus is its own remainder.
LEMMA SmallModulo ==
  ASSUME NEW a \in Nat, NEW b \in Nat, a < b
  PROVE  a % b = a
OBVIOUS

\* Short of MaxPid the counter does not wrap.
LEMMA PidAfterSmall ==
  ASSUME TypeOK, NEW k \in Nat, nextPid + k <= MaxPid
  PROVE  PidAfter(nextPid, k) = nextPid + k
<1>1. nextPid \in Nat \ {0} /\ MaxPid \in Nat \ {0}
  BY EventLoopAssumption DEF TypeOK, LoopOK, Pids
<1>2. nextPid - 1 + k \in Nat /\ nextPid - 1 + k < MaxPid
  BY <1>1
<1>3. (nextPid - 1 + k) % MaxPid = nextPid - 1 + k
  BY <1>1, <1>2, SmallModulo
<1> QED BY <1>1, <1>3 DEF PidAfter

\* A counter that has not wrapped has grown by what was taken.
LEMMA PidMonotone ==
  ASSUME TypeOK, NEW k \in Nat, TakePids(k), ~wrapped'
  PROVE  ~wrapped /\ nextPid' = nextPid + k /\ nextPid + k <= MaxPid
<1>1. nextPid' = PidAfter(nextPid, k)
  BY DEF TakePids
<1>2. ~wrapped /\ ~(nextPid + k > MaxPid)
  BY Zenon DEF TakePids
<1>3. nextPid + k <= MaxPid
  BY <1>2, EventLoopAssumption DEF TypeOK, LoopOK, Pids
<1> QED BY <1>1, <1>2, <1>3, PidAfterSmall

\* Taking identifiers is monotone.
LEMMA TakePidsQuiet ==
  ASSUME TypeOK, NEW k \in Nat, TakePids(k), received \subseteq received'
  PROVE  Monotone
BY PidMonotone, FramePids DEF Monotone

\* So is leaving the counter alone.
LEMMA SamePidsQuiet ==
  ASSUME TypeOK, UNCHANGED pidVars, received \subseteq received'
  PROVE  Monotone
BY FramePids DEF Monotone, pidVars

\* Tables left alone keep their responders.
LEMMA SameRespondersKnown ==
  ASSUME Delivery, UNCHANGED <<inflight, subWait, unsubWait>>
  PROVE  RespondersKnown'
BY DEF Delivery, RespondersKnown

\* Dropping the loop takes its tables and its wire away.
LEMMA DropLoopDelivers ==
  ASSUME TypeOK, Delivery, DropLoop
  PROVE  Delivery'
<1>1. /\ UNCHANGED <<pidVars, c2s, received>> /\ phase' = "gone" /\ DOMAIN inflight' = {}
      /\ DOMAIN subWait' = {} /\ DOMAIN unsubWait' = {} /\ s2c' = <<>> /\ rx' = <<>>
      /\ \A c \in Calls : result'[c] = "ok" => result[c] = "ok"
  BY DEF DropLoop, Abandon, brokerVars
<1>2. ToSet(s2c') = {} /\ ToSet(rx') = {}
  BY <1>1, ShortSet
<1>3. IdentifiersUnique'
  BY <1>1, <1>2 DEF Delivery, IdentifiersUnique, PublishTracked, PubackEarned, pidVars
<1>4. RespondersKnown' /\ UnackedRecoverable'
  BY <1>1 DEF RespondersKnown, UnackedRecoverable
<1>5. AckedReceived'
  BY <1>1 DEF Delivery, AckedReceived, pidVars
<1> QED BY <1>3, <1>4, <1>5 DEF Delivery

\* A caller only puts requests into the channel and takes messages from streams.
LEMMA CallerStepDelivers ==
  ASSUME TypeOK, TypeOK', StillThere, Delivery, CallerStep
  PROVE  Delivery'
<1> SUFFICES ASSUME ~DropLoop PROVE Delivery'
  BY DropLoopDelivers
<1>1. UNCHANGED <<tableVars, pidVars, netVars, brokerVars>>
  BY DEF CallerStep, Call, StreamRecv, StreamDrop, DropHandles
<1>2. NoNewOk
  BY DEF CallerStep, Call, StreamRecv, StreamDrop, DropHandles, callVars, NoNewOk, TypeOK, CallersOK
<1>3. NoNewPublish /\ NoNewPuback
  BY <1>1 DEF NoNewPublish, NoNewPuback, netVars
<1>4. Monotone
  BY <1>1, SamePidsQuiet DEF brokerVars
<1>5. RespondersKnown'
  BY <1>1, SameRespondersKnown DEF tableVars
<1> QED BY <1>1, <1>2, <1>3, <1>4, <1>5, QuietStep DEF tableVars

\* A failed attempt to connect loses frames and nothing else.
LEMMA FailedAttemptDelivers ==
  ASSUME TypeOK, TypeOK', StillThere, Delivery, DialFails \/ HandshakeFails
  PROVE  Delivery'
<1>1. UNCHANGED <<inflight, subWait, unsubWait, accepted, pidVars, c2s, brokerVars>>
  BY DEF DialFails, HandshakeFails
<1>2. NoNewPuback /\ NoNewOk
  BY AttemptFailedQuiet DEF DialFails, HandshakeFails
<1>3. NoNewPublish
  BY <1>1 DEF NoNewPublish
<1>4. Monotone
  BY <1>1, SamePidsQuiet DEF brokerVars
<1>5. RespondersKnown'
  BY <1>1, SameRespondersKnown
<1> QED BY <1>1, <1>2, <1>3, <1>4, <1>5, QuietStep

\* The recovery sends a tracked message under its own identifier again.
LEMMA HandshakeOkDelivers ==
  ASSUME TypeOK, TypeOK', StillThere, Delivery, NEW k \in 1..Len(s2c), HandshakeOk(k)
  PROVE  Delivery'
<1>1. UNCHANGED <<result, tableVars, rx, brokerVars>>
  BY DEF HandshakeOk, callVars
<1>2. PICK pids \in SetToSeqs(Resendable), topics \in SetToSeqs(Resubscribable \ SubTooLong),
           place \in Places(Cardinality(Resubscribable \ SubTooLong), Cardinality(Resubscribable)) :
        LET burst == Resends(pids) \o Resubscribes(topics, place) IN
        \/ WriteOk(burst)
        \/ \E n \in 0..(Len(burst) - 1) : c2s' = c2s \o SubSeq(burst, 1, n)
  BY DEF HandshakeOk
<1> DEFINE burst == Resends(pids) \o Resubscribes(topics, place)
<1>3. pids \in Seq(DOMAIN inflight) /\ topics \in Seq(Topics)
  <2>1. pids \in Seq(Resendable) /\ topics \in Seq(Resubscribable)
    BY RecoveryType
  <2> QED BY <2>1, ResendableType
<1>4. burst \in Seq(ClientFrames)
  BY RecoveryType
<1>5. \A f \in ToSet(burst) :
        f.type = "PUBLISH" => f.pid \in DOMAIN inflight /\ inflight[f.pid].msg = f.item
  <2>1. \A f \in ToSet(Resends(pids)) : f.pid \in DOMAIN inflight /\ inflight[f.pid].msg = f.item
    BY <1>3 DEF Resends, Frame, ToSet
  <2>2. \A f \in ToSet(Resubscribes(topics, place)) : f.type = "SUBSCRIBE"
    BY <1>3 DEF Resubscribes, Frame, ToSet
  <2>3. ToSet(burst) = ToSet(Resends(pids)) \cup ToSet(Resubscribes(topics, place))
    <3>1. Resends(pids) \in Seq(ClientFrames) /\ Resubscribes(topics, place) \in Seq(ClientFrames)
      BY RecoveryType
    <3> QED BY <3>1, FramesConcat, Zenon
  <2> QED BY <2>1, <2>2, <2>3
<1>6. ToSet(c2s') \subseteq ToSet(c2s) \cup ToSet(burst)
  <2> HIDE DEF burst
  <2>1. CASE WriteOk(burst)
    BY <2>1, <1>4, SentByWrite
  <2>2. ASSUME NEW n \in 0..(Len(burst) - 1), c2s' = c2s \o SubSeq(burst, 1, n)
        PROVE  ToSet(c2s') \subseteq ToSet(c2s) \cup ToSet(burst)
    BY <2>2, <1>4, SentPrefix
  <2> QED BY <1>2, <2>1, <2>2 DEF burst
<1>7. Cardinality(Resubscribable) \in Nat
  BY ResendableType, FS_CardinalityType
<1>8. Monotone
  BY <1>1, <1>7, TakePidsQuiet DEF HandshakeOk, brokerVars
<1>9. ToSet(s2c') \cup ToSet(rx') \subseteq ToSet(s2c) \cup ToSet(rx)
  <2>1. s2c' = SubSeq(s2c, k + 1, Len(s2c)) /\ s2c \in Seq(BrokerFrames)
    BY DEF HandshakeOk, TypeOK, WireOK
  <2>2. ToSet(s2c') \subseteq ToSet(s2c)
    BY <2>1, SubSeqSet
  <2> QED BY <1>1, <2>2
<1>10. ~wrapped' => TableGrows /\ NewFramesRight
  <2> SUFFICES ASSUME ~wrapped' PROVE TableGrows /\ NewFramesRight
    OBVIOUS
  <2>1. \A p \in DOMAIN inflight : p < nextPid'
    <3>1. (\A p \in DOMAIN inflight : p < nextPid) /\ nextPid <= nextPid'
      BY <1>8 DEF Delivery, IdentifiersUnique, Monotone
    <3>2. nextPid \in Nat /\ nextPid' \in Nat /\ DOMAIN inflight \subseteq Nat
      BY EventLoopAssumption DEF TypeOK, LoopOK, Pids
    <3> QED BY <3>1, <3>2
  <2>2. \A f \in ToSet(burst) : PublishTracked(f)'
    BY <1>1, <1>5, <2>1 DEF PublishTracked, tableVars
  <2> QED BY <1>1, <1>6, <1>9, <2>2 DEF TableGrows, NewFramesRight, tableVars
<1>11. RespondersKnown'
  BY <1>1, SameRespondersKnown DEF tableVars
<1>12. NoNewOk
  BY <1>1 DEF NoNewOk
<1> QED BY <1>8, <1>10, <1>11, <1>12, ExtendingStep

\* connect_with_backoff keeps Delivery.
LEMMA ConnectStepDelivers ==
  ASSUME TypeOK, TypeOK', StillThere, Delivery, ConnectStep
  PROVE  Delivery'
<1>1. CASE StartAttempt \/ Wake
  <2>1. UNCHANGED <<result, tableVars, pidVars, netVars, brokerVars>>
    BY <1>1 DEF StartAttempt, Wake, callVars
  <2>2. NoNewPublish /\ NoNewPuback /\ NoNewOk
    BY <2>1 DEF NoNewPublish, NoNewPuback, NoNewOk, netVars
  <2>3. Monotone
    BY <2>1, SamePidsQuiet DEF brokerVars
  <2>4. RespondersKnown'
    BY <2>1, SameRespondersKnown DEF tableVars
  <2> QED BY <2>1, <2>2, <2>3, <2>4, QuietStep DEF tableVars
<1>2. CASE Dial
  <2>1. /\ UNCHANGED <<result, tableVars, pidVars, rx, received>>
        /\ c2s' = <<Plain("CONNECT")>> /\ s2c' = <<>>
    BY <1>2 DEF Dial, callVars
  <2>2. NoNewPublish /\ NoNewPuback /\ NoNewOk
    BY <2>1, ShortSet DEF NoNewPublish, NoNewPuback, NoNewOk, Plain, Frame
  <2>3. Monotone
    BY <2>1, SamePidsQuiet
  <2>4. RespondersKnown'
    BY <2>1, SameRespondersKnown DEF tableVars
  <2> QED BY <2>1, <2>2, <2>3, <2>4, QuietStep DEF tableVars
<1> QED BY <1>1, <1>2, FailedAttemptDelivers, HandshakeOkDelivers DEF ConnectStep

\* A read moves frames from the wire to the actions.
LEMMA ReadDelivers ==
  ASSUME TypeOK, TypeOK', StillThere, Delivery, NEW k \in 1..Len(s2c), Read(k)
  PROVE  Delivery'
<1>1. UNCHANGED <<result, tableVars, pidVars, c2s, brokerVars>>
  BY DEF Read, callVars
<1>2. ToSet(s2c') \cup ToSet(rx') \subseteq ToSet(s2c)
  <2>1. /\ rx' = SubSeq(s2c, 1, k) /\ s2c' = SubSeq(s2c, k + 1, Len(s2c))
        /\ s2c \in Seq(BrokerFrames)
    BY DEF Read, TypeOK, WireOK
  <2> QED BY <2>1, SubSeqSet
<1>3. NoNewPublish /\ NoNewPuback /\ NoNewOk
  BY <1>1, <1>2 DEF NoNewPublish, NoNewPuback, NoNewOk
<1>4. Monotone
  BY <1>1, SamePidsQuiet DEF brokerVars
<1>5. RespondersKnown'
  BY <1>1, SameRespondersKnown DEF tableVars
<1> QED BY <1>1, <1>3, <1>4, <1>5, QuietStep DEF tableVars

\* What an incoming publish is answered with is a PUBACK at most.
LEMMA AcksSeq ==
  ASSUME TypeOK, rx # <<>>, Head(rx).type = "PUBLISH"
  PROVE  Acks(Head(rx)) \in Seq(ClientFrames) /\ \A f \in ToSet(Acks(Head(rx))) : f.type # "PUBLISH"
<1>1. Head(rx) \in BrokerFrames
  BY DEF TypeOK, WireOK
<1>2. Head(rx).item \in InMsgs /\ Head(rx).pid = 0
  BY <1>1 DEF BrokerFrames, FrameSet
<1>3. Frame("PUBACK", Head(rx).pid, Head(rx).item, FALSE) \in ClientFrames
  BY <1>2 DEF Frame, ClientFrames, FrameSet
<1> QED BY <1>3, ShortIsSeq, ShortSet DEF Acks, Frame

\* A connection lost while reading loses frames and nothing else.
LEMMA LostReadDelivers ==
  ASSUME TypeOK, TypeOK', StillThere, Delivery, ReadUndecodable \/ ReadClosed \/ HandleFails
  PROVE  Delivery'
<1>1. UNCHANGED <<inflight, subWait, unsubWait, accepted, pidVars, brokerVars>>
  BY DEF ReadUndecodable, ReadClosed, HandleFails
<1>2. NoNewPuback /\ NoNewOk
  BY OutcomeQuiet DEF ReadUndecodable, ReadClosed, HandleFails, NoNewOk
<1>3. NoNewPublish
  <2>1. CASE UNCHANGED c2s
    BY <2>1 DEF NoNewPublish
  <2>2. CASE rx # <<>> /\ Head(rx).type = "PUBLISH" /\ WriteFails(Acks(Head(rx)))
    BY <2>2, AcksSeq, WriteQuiet
  <2> QED BY <2>1, <2>2 DEF ReadUndecodable, ReadClosed, HandleFails
<1>4. Monotone
  BY <1>1, SamePidsQuiet DEF brokerVars
<1>5. RespondersKnown'
  BY <1>1, SameRespondersKnown
<1> QED BY <1>1, <1>2, <1>3, <1>4, <1>5, QuietStep

\* An incoming publish does not touch the outgoing ones.
LEMMA HandlePublishDelivers ==
  ASSUME TypeOK, TypeOK', StillThere, Delivery, HandlePublish
  PROVE  Delivery'
<1>1. UNCHANGED <<result, inflight, subWait, unsubWait, accepted, pidVars, s2c, brokerVars>>
  BY DEF HandlePublish, callVars
<1>2. NoNewPublish
  BY AcksSeq, WriteQuiet DEF HandlePublish
<1>3. ToSet(rx') \subseteq ToSet(rx)
  BY TailSet DEF HandlePublish, TypeOK, WireOK
<1>4. NoNewPuback /\ NoNewOk
  BY <1>1, <1>3 DEF NoNewPuback, NoNewOk
<1>5. Monotone
  BY <1>1, SamePidsQuiet DEF brokerVars
<1>6. RespondersKnown'
  BY <1>1, SameRespondersKnown
<1> QED BY <1>1, <1>2, <1>4, <1>5, <1>6, QuietStep

\* A PUBACK takes out an entry whose message the broker has, and answers its caller.
LEMMA HandleAnswerDelivers ==
  ASSUME TypeOK, TypeOK', StillThere, Delivery, HandleAnswer
  PROVE  Delivery'
<1> DEFINE f == Head(rx)
<1>1. /\ UNCHANGED <<accepted, pidVars, c2s, s2c, brokerVars>>
      /\ inflight' = Without(inflight, Answered(f, "PUBACK", inflight))
      /\ subWait' = Without(subWait, Answered(f, "SUBACK", subWait))
      /\ unsubWait' = Without(unsubWait, Answered(f, "UNSUBACK", unsubWait))
      /\ result' = Resolve(Waiters(f), "ok")
      /\ rx # <<>> /\ rx' = Tail(rx)
  BY DEF HandleAnswer
<1>2. f \in ToSet(rx) /\ ToSet(rx') \subseteq ToSet(rx)
  BY <1>1, TailSet DEF TypeOK, WireOK
<1>3. DOMAIN inflight' \subseteq DOMAIN inflight /\ \A p \in DOMAIN inflight' : inflight'[p] = inflight[p]
  BY <1>1 DEF Without
<1>4. received' = received /\ wrapped' = wrapped /\ nextPid' = nextPid
  BY <1>1 DEF brokerVars, pidVars
<1>5. \A p \in DOMAIN inflight \ DOMAIN inflight' : f.type = "PUBACK" /\ f.pid = p
  BY <1>1 DEF Without, Answered
<1> HIDE DEF f
<1>6. IdentifiersUnique'
  BY <1>1, <1>2, <1>3, <1>4 DEF Delivery, IdentifiersUnique, PublishTracked, PubackEarned
<1>7. RespondersKnown'
  BY <1>1, <1>3 DEF Delivery, RespondersKnown, Without
<1>8. ASSUME ~wrapped', NEW p \in DOMAIN inflight, f.type = "PUBACK", f.pid = p
      PROVE  inflight[p].msg \in received
  BY <1>2, <1>4, <1>8 DEF Delivery, IdentifiersUnique, PubackEarned
<1>9. UnackedRecoverable'
  BY <1>1, <1>3, <1>4, <1>5, <1>8 DEF Delivery, UnackedRecoverable, Tracked, StillThere
<1>10. AckedReceived'
  <2> SUFFICES ASSUME ~wrapped', NEW c \in Calls,
                      Request[c].op = "publish", Request[c].awaits, result'[c] = "ok",
                      NEW i \in DOMAIN Request[c].msgs, QoSOf[Request[c].msgs[i]] > 0
               PROVE  Request[c].msgs[i] \in received
    BY <1>4 DEF AckedReceived
  <2>1. CASE result[c] = "ok"
    BY <1>4, <2>1 DEF Delivery, AckedReceived
  <2>2. CASE result[c] # "ok"
    <3>1. c \in Waiters(f)
      BY <1>1, <2>2, ResolveQuiet
    <3>2. c \notin {subWait[p] : p \in DOMAIN subWait} /\ c \notin {unsubWait[p] : p \in DOMAIN unsubWait}
      BY DEF Delivery, RespondersKnown
    <3>3. PICK p \in DOMAIN inflight : f.type = "PUBACK" /\ f.pid = p /\ inflight[p].call = c
      BY <3>1, <3>2 DEF Waiters, Answered
    <3>4. inflight[p].msg = Request[c].msgs[1]
      BY <3>3, EventLoopAssumption DEF Delivery, RespondersKnown
    <3>5. i = 1
      BY EventLoopAssumption
    <3> QED BY <1>8, <3>3, <3>4, <3>5
  <2> QED BY <2>1, <2>2
<1> QED BY <1>6, <1>7, <1>9, <1>10 DEF Delivery

\* The read branch keeps Delivery.
LEMMA ReadStepDelivers ==
  ASSUME TypeOK, TypeOK', StillThere, Delivery, ReadStep
  PROVE  Delivery'
BY ReadDelivers, LostReadDelivers, HandlePublishDelivers, HandleAnswerDelivers DEF ReadStep

-----------------------------------------------------------------------------
(* The requests that track no publish. *)

\* Subscribe and unsubscribe take an identifier each and track no publish.
LEMMA SubscribeDelivers ==
  ASSUME TypeOK, TypeOK', StillThere, Delivery, NEW c \in Calls, Subscribe(c) \/ Unsubscribe(c)
  PROVE  Delivery'
<1>1. UNCHANGED <<inflight, accepted, received>> /\ TakePids(1)
  BY DEF Subscribe, Unsubscribe, brokerVars
<1> DEFINE sub == Frame("SUBSCRIBE", nextPid, Request[c].topic, FALSE)
           unsub == Frame("UNSUBSCRIBE", nextPid, Request[c].topic, FALSE)
<1>2. <<sub>> \in Seq(ClientFrames) /\ <<unsub>> \in Seq(ClientFrames)
  <2>1. Request[c].topic \in Topics
    BY EventLoopAssumption
  <2>2. sub \in ClientFrames /\ unsub \in ClientFrames
    BY <2>1 DEF Frame, ClientFrames, FrameSet, TypeOK, LoopOK
  <2> QED BY <2>2, ShortIsSeq
<1>3. NoNewPublish
  <2>1. \A f \in ToSet(<<sub>>) \cup ToSet(<<unsub>>) : f.type # "PUBLISH"
    BY ShortSet DEF Frame
  <2>2. \/ WriteOk(<<sub>>) \/ WriteFails(<<sub>>) \/ WriteOk(<<unsub>>) \/ WriteFails(<<unsub>>)
        \/ c2s' = c2s
    BY DEF Subscribe, Unsubscribe
  <2>3. CASE c2s' = c2s
    BY <2>3 DEF NoNewPublish
  <2> HIDE DEF sub, unsub
  <2> QED BY <1>2, <2>1, <2>2, <2>3, WriteQuiet
<1>4. NoNewPuback /\ NoNewOk
  <2>1. PICK cs, queued, routed :
          \/ KeepDriving(Resolve(cs, "cancelled"), queued, routed)
          \/ DropConnection(Resolve(cs, "cancelled"), queued, routed)
    BY DEF Subscribe, Unsubscribe
  <2> QED BY <2>1, OutcomeQuiet, ResolveQuiet DEF NoNewOk
<1>5. Monotone
  BY <1>1, TakePidsQuiet
<1>6. RespondersKnown'
  BY <1>1 DEF Subscribe, Unsubscribe, With, Delivery, RespondersKnown
<1> QED BY <1>1, <1>3, <1>4, <1>5, <1>6, QuietStep

\* A datagram is tracked nowhere and answers no publish.
LEMMA DatagramDelivers ==
  ASSUME TypeOK, TypeOK', StillThere, Delivery, NEW c \in Calls, PublishDatagram(c)
  PROVE  Delivery'
<1>1. UNCHANGED <<inflight, subWait, unsubWait, accepted, pidVars, c2s>> /\ received \subseteq received'
  BY DEF PublishDatagram
<1>2. NoNewPuback /\ NoNewOk
  <2>1. PICK r, queued, routed :
          \/ KeepDriving(Resolve({c}, r), queued, routed)
          \/ DropConnection(Resolve({c}, r), queued, routed)
    BY DEF PublishDatagram
  <2>2. Request[c].op = "datagram"
    BY DEF PublishDatagram
  <2> QED BY <2>1, <2>2, OutcomeQuiet, ResolveQuiet DEF NoNewOk
<1>3. NoNewPublish
  BY <1>1 DEF NoNewPublish
<1>4. Monotone
  BY <1>1, SamePidsQuiet
<1>5. RespondersKnown'
  BY <1>1, SameRespondersKnown
<1> QED BY <1>1, <1>2, <1>3, <1>4, <1>5, QuietStep

\* Disconnecting and pinging send no PUBLISH.
LEMMA ShutdownDelivers ==
  ASSUME TypeOK, TypeOK', StillThere, Delivery, (\E c \in Calls : Disconnect(c)) \/ HandlesGone \/ PingTick
  PROVE  Delivery'
<1>1. UNCHANGED <<inflight, subWait, unsubWait, accepted, pidVars, brokerVars>>
  BY DEF Disconnect, HandlesGone, PingTick, tableVars
<1>2. NoNewPublish
  <2>1. \A t \in {"DISCONNECT", "PINGREQ"} :
          <<Plain(t)>> \in Seq(ClientFrames) /\ \A f \in ToSet(<<Plain(t)>>) : f.type # "PUBLISH"
    <3>1. \A t \in {"DISCONNECT", "PINGREQ"} : <<Plain(t)>> \in Seq(ClientFrames)
      BY PlainType, ShortIsSeq
    <3>2. \A t \in {"DISCONNECT", "PINGREQ"} : \A f \in ToSet(<<Plain(t)>>) : f.type # "PUBLISH"
      BY ShortSet DEF Plain, Frame
    <3> QED BY <3>1, <3>2
  <2>2. CASE HandlesGone
    <3>1. c2s' = c2s \/ c2s' = c2s \o <<Plain("DISCONNECT")>>
      BY <2>2, PlainType DEF HandlesGone, TypeOK, WireOK
    <3>2. c2s \in Seq(ClientFrames)
      BY DEF TypeOK, WireOK
    <3>3. ToSet(c2s \o <<Plain("DISCONNECT")>>) = ToSet(c2s) \cup ToSet(<<Plain("DISCONNECT")>>)
      BY <2>1, <3>2, FramesConcat, Zenon
    <3> QED BY <2>1, <3>1, <3>3 DEF NoNewPublish
  <2>3. CASE ~HandlesGone
    <3>1. PICK t \in {"DISCONNECT", "PINGREQ"} : WriteOk(<<Plain(t)>>) \/ WriteFails(<<Plain(t)>>)
      BY <2>3 DEF Disconnect, PingTick
    <3> QED BY <3>1, <2>1, WriteQuiet
  <2> QED BY <2>2, <2>3
<1>3. NoNewPuback /\ NoNewOk
  <2>1. CASE HandlesGone
    BY <2>1 DEF HandlesGone, callVars, NoNewPuback, NoNewOk
  <2>2. CASE PingTick
    BY <2>2, OutcomeQuiet DEF PingTick, NoNewOk
  <2>3. ASSUME NEW c \in Calls, Disconnect(c) PROVE NoNewPuback /\ NoNewOk
    <3>1. result' = Resolve({c}, "ok") /\ UNCHANGED <<s2c, rx>> /\ Request[c].op = "disconnect"
      BY <2>3 DEF Disconnect
    <3> QED BY <3>1, ResolveQuiet DEF NoNewOk, NoNewPuback
  <2> QED BY <2>1, <2>2, <2>3
<1>4. Monotone
  BY <1>1, SamePidsQuiet DEF brokerVars
<1>5. RespondersKnown'
  BY <1>1, SameRespondersKnown
<1> QED BY <1>1, <1>2, <1>3, <1>4, <1>5, QuietStep

-----------------------------------------------------------------------------
(* The broker and the network. *)

\* What a frame of the broker adds to the wire.
LEMMA SendSet ==
  ASSUME TypeOK, NEW f \in BrokerFrames, Send(<<f>>)
  PROVE  ToSet(s2c') \subseteq ToSet(s2c) \cup {f}
<1>1. s2c \in Seq(BrokerFrames) /\ <<f>> \in Seq(BrokerFrames)
  BY ShortIsSeq DEF TypeOK, WireOK
<1>2. ToSet(s2c \o <<f>>) = ToSet(s2c) \cup ToSet(<<f>>)
  BY <1>1, ConcatSet
<1>3. ToSet(<<f>>) = {f}
  BY ShortSet
<1> QED BY <1>2, <1>3 DEF Send

\* CONNACK and the closing of the connection carry no PUBACK.
LEMMA BrokerConnectDelivers ==
  ASSUME TypeOK, TypeOK', StillThere, Delivery, BrokerConnect \/ BrokerClose
  PROVE  Delivery'
<1>1. UNCHANGED <<result, tableVars, pidVars, rx, received>>
  BY DEF BrokerConnect, BrokerClose, callVars, brokerVars
<1>2. ToSet(c2s') \subseteq ToSet(c2s)
  BY TailSet, ShortSet DEF BrokerConnect, BrokerClose, TypeOK, WireOK
<1>3. ToSet(s2c') \subseteq ToSet(s2c) \cup {Plain("CONNACK")}
  <2>1. CASE BrokerConnect
    BY <2>1, SendSet, BrokerFrameType DEF BrokerConnect
  <2>2. CASE BrokerClose
    BY <2>2, ShortSet DEF BrokerClose
  <2> QED BY <2>1, <2>2
<1>4. NoNewPublish /\ NoNewPuback /\ NoNewOk
  BY <1>1, <1>2, <1>3 DEF NoNewPublish, NoNewPuback, NoNewOk, Plain, Frame
<1>5. Monotone
  BY <1>1, SamePidsQuiet
<1>6. RespondersKnown'
  BY <1>1, SameRespondersKnown DEF tableVars
<1> QED BY <1>1, <1>4, <1>5, <1>6, QuietStep DEF tableVars

\* Nor do publishes, faults, broken links and stuttering.
LEMMA NetworkStepDelivers ==
  ASSUME TypeOK, TypeOK', StillThere, Delivery, NetworkStep \/ UNCHANGED vars
  PROVE  Delivery'
<1>1. UNCHANGED <<result, tableVars, pidVars, rx, received>>
  BY DEF NetworkStep, BrokerPublish, BrokerFault, Break, callVars, brokerVars, netVars, vars
<1>2. ToSet(c2s') \subseteq ToSet(c2s)
  BY ShortSet DEF NetworkStep, BrokerPublish, BrokerFault, Break, vars, netVars
<1>3. \A f \in ToSet(s2c') : f \in ToSet(s2c) \/ f.type # "PUBACK"
  <2>1. ASSUME NEW i \in InMsgs, BrokerPublish(i) PROVE \A f \in ToSet(s2c') : f \in ToSet(s2c) \/ f.type # "PUBACK"
    <3>1. ToSet(s2c') \subseteq ToSet(s2c) \cup {Frame("PUBLISH", 0, i, FALSE)}
      BY <2>1, SendSet, BrokerFrameType DEF BrokerPublish
    <3> QED BY <3>1 DEF Frame
  <2>2. ASSUME NEW t \in {"DISCONNECT", "UNDECODABLE"}, BrokerFault(t) PROVE \A f \in ToSet(s2c') : f \in ToSet(s2c) \/ f.type # "PUBACK"
    <3>1. ToSet(s2c') \subseteq ToSet(s2c) \cup {Plain(t)}
      BY <2>2, SendSet, BrokerFrameType DEF BrokerFault
    <3> QED BY <3>1 DEF Plain, Frame
  <2>3. CASE Break \/ UNCHANGED vars
    BY <2>3, ShortSet DEF Break, vars, netVars
  <2> QED BY <2>1, <2>2, <2>3 DEF NetworkStep
<1>4. NoNewPublish /\ NoNewPuback /\ NoNewOk
  BY <1>1, <1>2, <1>3 DEF NoNewPublish, NoNewPuback, NoNewOk
<1>5. Monotone
  BY <1>1, SamePidsQuiet
<1>6. RespondersKnown'
  BY <1>1, SameRespondersKnown DEF tableVars
<1> QED BY <1>1, <1>4, <1>5, <1>6, QuietStep DEF tableVars

\* The broker answers a frame with one frame or none; a PUBACK answers a PUBLISH.
LEMMA ReplyShape ==
  ASSUME NEW f
  PROVE  \/ f.type = "PUBLISH" /\ Reply(f) = <<Frame("PUBACK", f.pid, Nothing, FALSE)>>
         \/ \E t \in {"PUBREC", "SUBACK", "UNSUBACK"} : Reply(f) = <<Frame(t, f.pid, Nothing, FALSE)>>
         \/ Reply(f) = <<Plain("PINGRESP")>>
         \/ Reply(f) = <<>>
<1> DEFINE answer(t) == <<Frame(t, f.pid, Nothing, FALSE)>>
           ping == <<Plain("PINGRESP")>>
<1>1. Reply(f) = CASE f.type = "PUBLISH" /\ QoSOf[f.item] = 1 -> answer("PUBACK")
                   [] f.type = "PUBLISH" /\ QoSOf[f.item] = 2 -> answer("PUBREC")
                   [] f.type = "SUBSCRIBE"   -> answer("SUBACK")
                   [] f.type = "UNSUBSCRIBE" -> answer("UNSUBACK")
                   [] f.type = "PINGREQ"     -> ping
                   [] OTHER -> <<>>
  BY DEF Reply
<1> HIDE DEF answer, ping
<1>2. CASE f.type = "PUBLISH" /\ QoSOf[f.item] = 1
  <2>1. Reply(f) = answer("PUBACK")
    BY <1>1, <1>2
  <2> QED BY <1>2, <2>1 DEF answer
<1>3. CASE f.type = "PUBLISH" /\ QoSOf[f.item] = 2
  <2>1. Reply(f) = answer("PUBREC")
    BY <1>1, <1>3
  <2> QED BY <2>1 DEF answer
<1>4. CASE f.type = "SUBSCRIBE"
  <2>1. Reply(f) = answer("SUBACK")
    BY <1>1, <1>4
  <2> QED BY <2>1 DEF answer
<1>5. CASE f.type = "UNSUBSCRIBE"
  <2>1. Reply(f) = answer("UNSUBACK")
    BY <1>1, <1>5
  <2> QED BY <2>1 DEF answer
<1>6. CASE f.type = "PINGREQ"
  <2>1. Reply(f) = ping
    BY <1>1, <1>6
  <2> QED BY <2>1 DEF ping
<1>7. CASE /\ ~(f.type = "PUBLISH" /\ QoSOf[f.item] = 1) /\ ~(f.type = "PUBLISH" /\ QoSOf[f.item] = 2)
           /\ f.type # "SUBSCRIBE" /\ f.type # "UNSUBSCRIBE" /\ f.type # "PINGREQ"
  <2>1. Reply(f) = <<>>
    BY <1>1, <1>7
  <2> QED BY <2>1
<1> QED BY <1>2, <1>3, <1>4, <1>5, <1>6, <1>7

\* A PUBACK is sent in the step in which the broker gets the message.
LEMMA BrokerRecvDelivers ==
  ASSUME TypeOK, TypeOK', StillThere, Delivery, BrokerRecv
  PROVE  Delivery'
<1> DEFINE f == Head(c2s)
<1>1. /\ UNCHANGED <<result, tableVars, pidVars, rx>> /\ received \subseteq received'
      /\ c2s # <<>> /\ c2s' = Tail(c2s) /\ Send(Reply(f))
      /\ f.type = "PUBLISH" => f.item \in received'
  BY DEF BrokerRecv, callVars
<1>2. f \in ToSet(c2s) /\ ToSet(c2s') \subseteq ToSet(c2s) /\ f \in ClientFrames
  BY <1>1, TailSet DEF TypeOK, WireOK
<1>3. f.pid \in 0..MaxPid
  BY <1>2, EventLoopAssumption DEF ClientFrames, FrameSet, Pids
<1> HIDE DEF f
<1>4. Monotone
  BY <1>1, SamePidsQuiet
<1>5. \/ Reply(f) = <<>>
      \/ \E r \in BrokerFrames : /\ Reply(f) = <<r>>
                                 /\ r.type = "PUBACK" => f.type = "PUBLISH" /\ r.pid = f.pid
  <2>1. \/ f.type = "PUBLISH" /\ Reply(f) = <<Frame("PUBACK", f.pid, Nothing, FALSE)>>
        \/ \E t \in {"PUBREC", "SUBACK", "UNSUBACK"} : Reply(f) = <<Frame(t, f.pid, Nothing, FALSE)>>
        \/ Reply(f) = <<Plain("PINGRESP")>>
        \/ Reply(f) = <<>>
    BY ReplyShape
  <2>2. /\ \A t \in {"PUBACK", "PUBREC", "SUBACK", "UNSUBACK"} : Frame(t, f.pid, Nothing, FALSE) \in BrokerFrames
        /\ Plain("PINGRESP") \in BrokerFrames
    BY <1>3, BrokerFrameType
  <2> QED BY <2>1, <2>2 DEF Frame, Plain
<1>6. \A r \in ToSet(s2c') :
        r \in ToSet(s2c) \/ (r.type = "PUBACK" => f.type = "PUBLISH" /\ r.pid = f.pid)
  <2>1. CASE Reply(f) = <<>>
    BY <1>1, <2>1 DEF Send, TypeOK, WireOK
  <2>2. ASSUME NEW r \in BrokerFrames, Reply(f) = <<r>>,
               r.type = "PUBACK" => f.type = "PUBLISH" /\ r.pid = f.pid
        PROVE  \A q \in ToSet(s2c') :
                 q \in ToSet(s2c) \/ (q.type = "PUBACK" => f.type = "PUBLISH" /\ q.pid = f.pid)
    <3>1. ToSet(s2c') \subseteq ToSet(s2c) \cup {r}
      BY <1>1, <2>2, SendSet
    <3> QED BY <2>2, <3>1
  <2> QED BY <1>5, <2>1, <2>2
<1>7. ~wrapped' => NewFramesRight
  <2> SUFFICES ASSUME ~wrapped' PROVE NewFramesRight
    OBVIOUS
  <2>1. f.type = "PUBLISH" => f.pid < nextPid /\ (f.pid \in DOMAIN inflight => inflight[f.pid].msg \in received')
    BY <1>1, <1>2, <1>4 DEF Delivery, IdentifiersUnique, PublishTracked, Monotone
  <2>2. \A r \in ToSet(s2c') : r \in ToSet(s2c) \/ PubackEarned(r)'
    BY <1>1, <1>6, <2>1 DEF PubackEarned, tableVars, pidVars
  <2> QED BY <1>1, <1>2, <2>2 DEF NewFramesRight
<1>8. TableGrows /\ NoNewOk
  BY <1>1 DEF TableGrows, NoNewOk, tableVars
<1>9. RespondersKnown'
  BY <1>1, SameRespondersKnown DEF tableVars
<1> QED BY <1>4, <1>7, <1>8, <1>9, ExtendingStep

-----------------------------------------------------------------------------
(* Publishing. *)

\* A publish is tracked under a new identifier in the step that writes it.
LEMMA PublishDelivers ==
  ASSUME TypeOK, TypeOK', StillThere, Delivery, NEW c \in Calls, Publish(c)
  PROVE  Delivery'
<1> DEFINE m   == Request[c].msgs[1]
           qos == QoSOf[m]
           old == IF nextPid \in DOMAIN inflight /\ qos > 0 THEN {inflight[nextPid].call} ELSE {}
           res == IF qos = 0 THEN Resolve({c}, "ok") ELSE Resolve(old, "cancelled")
<1>0. PICK frame : frame = Frame("PUBLISH", IF qos = 0 THEN 0 ELSE nextPid, m, FALSE)
  OBVIOUS
<1>1. /\ Request[c].op = "publish" /\ received' = received /\ UNCHANGED <<subWait, unsubWait>>
      /\ IF qos > 0
         THEN /\ inflight' = With(inflight, nextPid, Entry(m, Responder(c)))
              /\ TakePids(1) /\ accepted' = accepted \cup {m}
         ELSE UNCHANGED <<inflight, pidVars, accepted>>
      /\ \/ WriteOk(<<frame>>) \/ WriteFails(<<frame>>) \/ c2s' = c2s
      /\ KeepDriving(res, Tail(reqs), router) \/ DropConnection(res, Tail(reqs), router)
  BY <1>0 DEF Publish, brokerVars
<1>2. m \in Msgs /\ qos \in 0..2 /\ DOMAIN Request[c].msgs = {1}
  BY <1>1, EventLoopAssumption
<1>3. ToSet(c2s') \subseteq ToSet(c2s) \cup {frame}
  <2>1. frame \in ClientFrames
    BY <1>0, <1>2, EventLoopAssumption DEF Frame, ClientFrames, FrameSet, Pids, TypeOK, LoopOK
  <2>2. <<frame>> \in Seq(ClientFrames) /\ ToSet(<<frame>>) = {frame}
    BY <2>1, ShortIsSeq, ShortSet
  <2> QED BY <1>1, <2>2, SentByWrite
<1>4. NoNewPuback /\ NoNewOk
  <2>1. \A d \in Calls : res[d] = "ok" => result[d] = "ok" \/ (d = c /\ qos = 0)
    BY ResolveQuiet
  <2> HIDE DEF res
  <2>2. NoNewPuback /\ \A d \in Calls : result'[d] = "ok" => res[d] = "ok"
    BY <1>1, OutcomeQuiet
  <2> QED BY <1>2, <2>1, <2>2 DEF NoNewOk
<1>5. Monotone
  BY <1>1, TakePidsQuiet, SamePidsQuiet
<1>6. RespondersKnown'
  BY <1>1 DEF Delivery, RespondersKnown, With, Entry, Responder
<1>7. ~wrapped' => TableGrows /\ NewFramesRight
  <2> SUFFICES ASSUME ~wrapped' PROVE TableGrows /\ NewFramesRight
    OBVIOUS
  <2>1. CASE qos > 0
    <3>1. nextPid' = nextPid + 1 /\ nextPid \in Nat
      BY <1>1, <2>1, PidMonotone, FramePids
    <3>2. \A p \in DOMAIN inflight : p # nextPid
      BY <1>5, <3>1, FramePids DEF Delivery, IdentifiersUnique, Monotone
    <3>3. /\ nextPid \in DOMAIN inflight' /\ inflight'[nextPid].msg = m
          /\ DOMAIN inflight' = DOMAIN inflight \cup {nextPid}
          /\ \A p \in DOMAIN inflight : inflight'[p] = inflight[p]
      BY <1>1, <2>1, <3>2 DEF With, Entry
    <3>4. TableGrows
      BY <1>1, <2>1, <3>1, <3>3 DEF TableGrows, Tracked
    <3>5. PublishTracked(frame)'
      BY <1>0, <2>1, <3>1, <3>3 DEF PublishTracked, Frame
    <3> QED BY <1>3, <1>4, <3>4, <3>5 DEF NewFramesRight, NoNewPuback, PubackEarned
  <2>2. CASE qos = 0
    <3>1. UNCHANGED <<inflight, nextPid, accepted>>
      BY <1>1, <2>2 DEF pidVars
    <3>2. PublishTracked(frame)'
      BY <1>0, <2>2, <3>1, FramePids, EventLoopAssumption DEF PublishTracked, Frame, TypeOK, LoopOK, Pids
    <3> QED BY <1>3, <1>4, <3>1, <3>2 DEF TableGrows, NewFramesRight, NoNewPuback, PubackEarned
  <2> QED BY <1>2, <2>1, <2>2
<1> QED BY <1>4, <1>5, <1>6, <1>7, ExtendingStep

\* Each QoS 1/2 message of a batch takes an identifier more.
LEMMA PidsUpToGrows ==
  ASSUME NEW ms, NEW i \in Nat \ {0}, NEW j \in Nat, i <= j, QoSOf[ms[i]] > 0
  PROVE  PidsUpTo(ms, i - 1) < PidsUpTo(ms, j)
<1> DEFINE takers(n) == {t \in 1..n : QoSOf[ms[t]] > 0}
<1>1. IsFiniteSet(takers(j)) /\ IsFiniteSet(takers(i - 1))
  <2>1. IsFiniteSet(1..j) /\ IsFiniteSet(1..(i - 1))
    <3>1. \A m \in Int : IsFiniteSet(1..m)
      BY FS_Interval
    <3> QED BY <3>1
  <2>2. takers(j) \subseteq 1..j /\ takers(i - 1) \subseteq 1..(i - 1)
    OBVIOUS
  <2> HIDE DEF takers
  <2> QED BY <2>1, <2>2, FS_Subset
<1>2. takers(i - 1) \cup {i} \subseteq takers(j) /\ i \notin takers(i - 1)
  OBVIOUS
<1> HIDE DEF takers
<1>3. Cardinality(takers(i - 1) \cup {i}) = Cardinality(takers(i - 1)) + 1
  BY <1>1, <1>2, FS_AddElement
<1>4. Cardinality(takers(i - 1) \cup {i}) <= Cardinality(takers(j))
  BY <1>1, <1>2, FS_Subset
<1>5. Cardinality(takers(i - 1)) \in Nat /\ Cardinality(takers(j)) \in Nat
  BY <1>1, FS_CardinalityType
<1>6. PidsUpTo(ms, i - 1) = Cardinality(takers(i - 1)) /\ PidsUpTo(ms, j) = Cardinality(takers(j))
  BY DEF PidsUpTo, takers
<1> QED BY <1>3, <1>4, <1>5, <1>6

\* Short of MaxPid a batch takes new identifiers.
LEMMA BatchPids ==
  ASSUME TypeOK, NEW ms \in Seq(Msgs), NEW n \in 0..Len(ms), TakePids(PidsUpTo(ms, n)), ~wrapped',
         NEW j \in 1..n, QoSOf[ms[j]] > 0
  PROVE  /\ BatchPid(ms, j) = nextPid + PidsUpTo(ms, j - 1)
         /\ nextPid <= BatchPid(ms, j) /\ BatchPid(ms, j) < nextPid'
<1>1. PidsUpTo(ms, j - 1) \in Nat /\ PidsUpTo(ms, n) \in Nat /\ PidsUpTo(ms, j - 1) < PidsUpTo(ms, n)
  BY PidsUpToType, PidsUpToGrows
<1>2. nextPid' = nextPid + PidsUpTo(ms, n) /\ nextPid + PidsUpTo(ms, n) <= MaxPid
  BY <1>1, PidMonotone
<1>3. nextPid \in Nat /\ MaxPid \in Nat
  BY EventLoopAssumption DEF TypeOK, LoopOK, Pids
<1>4. nextPid + PidsUpTo(ms, j - 1) <= MaxPid
  BY <1>1, <1>2, <1>3
<1>5. BatchPid(ms, j) = nextPid + PidsUpTo(ms, j - 1)
  BY <1>1, <1>4, PidAfterSmall DEF BatchPid
<1> QED BY <1>1, <1>2, <1>3, <1>5

\* And then each of its messages is tracked under its own.
LEMMA BatchTable ==
  ASSUME TypeOK, NEW ms \in Seq(Msgs), NEW n \in 0..Len(ms), TakeBatch(ms, n), ~wrapped'
  PROVE  /\ \A p \in DOMAIN inflight : p < nextPid => p \in DOMAIN inflight' /\ inflight'[p] = inflight[p]
         /\ \A p \in DOMAIN inflight' :
              (p \in DOMAIN inflight /\ inflight'[p] = inflight[p]) \/ (nextPid <= p /\ p < nextPid')
         /\ \A j \in 1..n : QoSOf[ms[j]] > 0 =>
              BatchPid(ms, j) \in DOMAIN inflight' /\ inflight'[BatchPid(ms, j)].msg = ms[j]
<1> DEFINE js == {j \in 1..n : QoSOf[ms[j]] > 0}
           LastTaker(p) == CHOOSE j \in js : BatchPid(ms, j) = p /\ \A i \in js : BatchPid(ms, i) = p => i <= j
           pids == {BatchPid(ms, j) : j \in js}
<1>1. inflight' = [p \in DOMAIN inflight \cup pids |->
                     IF p \in pids THEN Entry(ms[LastTaker(p)], NoCall) ELSE inflight[p]]
  BY DEF TakeBatch, BatchTracked
<1>2. ASSUME NEW j \in js PROVE nextPid <= BatchPid(ms, j) /\ BatchPid(ms, j) < nextPid'
  BY BatchPids DEF TakeBatch
<1>3. ASSUME NEW i \in js, NEW j \in js, BatchPid(ms, i) = BatchPid(ms, j) PROVE i = j
  <2>1. /\ BatchPid(ms, i) = nextPid + PidsUpTo(ms, i - 1)
        /\ BatchPid(ms, j) = nextPid + PidsUpTo(ms, j - 1)
    BY BatchPids DEF TakeBatch
  <2>2. nextPid \in Nat /\ PidsUpTo(ms, i - 1) \in Nat /\ PidsUpTo(ms, j - 1) \in Nat
    BY FramePids, PidsUpToType
  <2>3. PidsUpTo(ms, i - 1) = PidsUpTo(ms, j - 1)
    <3> DEFINE a == PidsUpTo(ms, i - 1)
               b == PidsUpTo(ms, j - 1)
    <3>1. nextPid + a = nextPid + b
      BY <1>3, <2>1
    <3>2. nextPid \in Nat /\ a \in Nat /\ b \in Nat
      BY <2>2
    <3> HIDE DEF a, b
    <3>3. a = b
      BY <3>1, <3>2
    <3> QED BY <3>3 DEF a, b
  <2>4. i \in Nat \ {0} /\ j \in Nat \ {0} /\ QoSOf[ms[i]] > 0 /\ QoSOf[ms[j]] > 0
    OBVIOUS
  <2> HIDE DEF js
  <2>5. ASSUME i < j PROVE FALSE
    <3>1. PidsUpTo(ms, i - 1) < PidsUpTo(ms, j - 1)
      BY <2>4, <2>5, PidsUpToGrows
    <3> QED BY <2>2, <2>3, <3>1
  <2>6. ASSUME j < i PROVE FALSE
    <3>1. PidsUpTo(ms, j - 1) < PidsUpTo(ms, i - 1)
      BY <2>4, <2>6, PidsUpToGrows
    <3> QED BY <2>2, <2>3, <3>1
  <2> QED BY <2>4, <2>5, <2>6
<1>4. js \subseteq Int
  OBVIOUS
<1> HIDE DEF js
<1>5. ASSUME NEW j \in js PROVE LastTaker(BatchPid(ms, j)) = j
  <2>1. BatchPid(ms, j) = BatchPid(ms, j) /\ \A i \in js : BatchPid(ms, i) = BatchPid(ms, j) => i <= j
    BY <1>3, <1>4
  <2>2. LastTaker(BatchPid(ms, j)) \in js /\ BatchPid(ms, LastTaker(BatchPid(ms, j))) = BatchPid(ms, j)
    BY <2>1
  <2> HIDE DEF LastTaker
  <2> QED BY <1>3, <2>2
<1> HIDE DEF LastTaker
<1>6. nextPid \in Nat /\ DOMAIN inflight \subseteq Nat
  BY FramePids
<1>7. \A p \in pids : nextPid <= p /\ p < nextPid'
  BY <1>2
<1>8. \A j \in js : BatchPid(ms, j) \in DOMAIN inflight' /\ inflight'[BatchPid(ms, j)].msg = ms[j]
  BY <1>1, <1>5 DEF Entry
<1>9. \A p \in DOMAIN inflight' :
        (p \in DOMAIN inflight /\ inflight'[p] = inflight[p]) \/ (nextPid <= p /\ p < nextPid')
  <2> HIDE DEF pids
  <2> QED BY <1>1, <1>7
<1>10. \A p \in DOMAIN inflight : p < nextPid => p \in DOMAIN inflight' /\ inflight'[p] = inflight[p]
  <2>1. \A p \in pids : ~(p < nextPid)
    <3>1. pids \subseteq Pids /\ Pids \subseteq Nat
      BY BatchPidType, <1>4, EventLoopAssumption DEF Pids
    <3> HIDE DEF pids
    <3> QED BY <1>6, <1>7, <3>1
  <2> HIDE DEF pids
  <2> QED BY <1>1, <2>1
<1> QED BY <1>8, <1>9, <1>10 DEF js

\* Taking messages of a batch and writing frames of some of them keeps Delivery.
LEMMA TakeBatchGrows ==
  ASSUME TypeOK, TypeOK', StillThere, Delivery, NEW ms \in Seq(Msgs), NEW n \in 0..Len(ms), TakeBatch(ms, n),
         NEW sent \in 0..n,
         ToSet(c2s') \subseteq ToSet(c2s) \cup ToSet(BatchFrames(ms, sent)),
         NoNewPuback, NoNewOk, received' = received, UNCHANGED <<subWait, unsubWait>>
  PROVE  Delivery'
<1>1. Monotone
  BY PidsUpToType, TakePidsQuiet DEF TakeBatch
<1>2. RespondersKnown'
  <2>1. \A p \in DOMAIN inflight' :
          (p \in DOMAIN inflight /\ inflight'[p] = inflight[p]) \/ inflight'[p].call = NoCall
    BY DEF TakeBatch, BatchTracked, Entry
  <2> QED BY <2>1 DEF Delivery, RespondersKnown
<1>3. ASSUME ~wrapped' PROVE TableGrows /\ NewFramesRight
  <2>1. TableGrows
    <3>1. \A p \in DOMAIN inflight : p < nextPid
      BY <1>1, <1>3 DEF Delivery, IdentifiersUnique, Monotone
    <3>2. accepted' \subseteq accepted \cup Tracked'
      BY <1>3, BatchTable DEF TakeBatch, Tracked
    <3> QED BY <1>3, <3>1, <3>2, BatchTable DEF TableGrows
  <2>2. ASSUME NEW f \in ToSet(BatchFrames(ms, sent)) PROVE PublishTracked(f)'
    <3>0. PICK j \in 1..sent :
            f = Frame("PUBLISH", IF QoSOf[ms[j]] = 0 THEN 0 ELSE BatchPid(ms, j), ms[j], FALSE)
      <4>1. sent \in 0..Len(ms)
        OBVIOUS
      <4> QED BY <4>1, BatchFramesItems
    <3>1. ms[j] \in Msgs /\ QoSOf[ms[j]] \in 0..2 /\ j \in 1..n
      BY EventLoopAssumption
    <3>2. CASE QoSOf[ms[j]] = 0
      <4>1. f.pid = 0 /\ 0 < nextPid' /\ 0 \notin DOMAIN inflight'
        BY <3>0, <3>2, EventLoopAssumption DEF Frame, TypeOK, LoopOK, Pids
      <4> QED BY <4>1 DEF PublishTracked
    <3>3. CASE QoSOf[ms[j]] > 0
      <4>1. f.pid = BatchPid(ms, j) /\ f.item = ms[j]
        BY <3>0, <3>1, <3>3 DEF Frame
      <4>2. BatchPid(ms, j) < nextPid'
        BY <1>3, <3>1, <3>3, BatchPids DEF TakeBatch
      <4>3. inflight'[BatchPid(ms, j)].msg = ms[j]
        BY <1>3, <3>1, <3>3, BatchTable
      <4> QED BY <4>1, <4>2, <4>3 DEF PublishTracked
    <3>4. QoSOf[ms[j]] = 0 \/ QoSOf[ms[j]] > 0
      BY <3>1
    <3> QED BY <3>2, <3>3, <3>4
  <2> QED BY <2>1, <2>2 DEF NewFramesRight, NoNewPuback, PubackEarned
<1> QED BY <1>1, <1>2, <1>3, ExtendingStep

\* A batch keeps Delivery, however far it gets.
LEMMA PublishBatchDelivers ==
  ASSUME TypeOK, TypeOK', StillThere, Delivery, NEW c \in Calls, PublishBatch(c)
  PROVE  Delivery'
<1> DEFINE ms  == Request[c].msgs
           end == BatchEnd(ms)
           Res(n, r) == [Resolve(Overwritten(ms, n), "cancelled") EXCEPT ![c] = r]
<1>1. ms \in Seq(Msgs) /\ Request[c].op = "batch" /\ UNCHANGED <<subWait, unsubWait, received>>
  BY EventLoopAssumption DEF PublishBatch, brokerVars
<1>2. end \in 1..(Len(ms) + 1) /\ Len(ms) \in Nat
  BY <1>1, BatchEndType
<1>3. PICK n \in 0..Len(ms), sent \in 0..Len(ms), r \in {"ok", "cancelled"} :
        /\ sent <= n /\ TakeBatch(ms, n)
        /\ WriteOk(BatchFrames(ms, sent)) \/ WriteFails(BatchFrames(ms, sent))
        /\ \/ KeepDriving(Res(n, r), Tail(reqs), router)
           \/ DropConnection(Res(n, r), Tail(reqs), router)
  <2>1. \/ /\ end > Len(ms) /\ TakeBatch(ms, Len(ms)) /\ WriteOk(BatchFrames(ms, Len(ms)))
           /\ KeepDriving(Res(Len(ms), "ok"), Tail(reqs), router)
        \/ /\ end <= Len(ms) /\ TakeBatch(ms, end) /\ WriteOk(BatchFrames(ms, end - 1))
           /\ DropConnection(Res(end, "cancelled"), Tail(reqs), router)
        \/ \E n \in DOMAIN ms :
             /\ n <= end /\ TakeBatch(ms, n)
             /\ WriteFails(BatchFrames(ms, IF n < end THEN n ELSE end - 1))
             /\ DropConnection(Res(n, "cancelled"), Tail(reqs), router)
    BY DEF PublishBatch
  <2>2. DOMAIN ms = 1..Len(ms)
    BY <1>1
  <2> HIDE DEF ms, end, Res
  <2>3. CASE /\ end > Len(ms) /\ TakeBatch(ms, Len(ms)) /\ WriteOk(BatchFrames(ms, Len(ms)))
             /\ KeepDriving(Res(Len(ms), "ok"), Tail(reqs), router)
    <3>1. Len(ms) \in 0..Len(ms) /\ Len(ms) <= Len(ms)
      BY <1>2
    <3> QED BY <2>3, <3>1
  <2>4. CASE /\ end <= Len(ms) /\ TakeBatch(ms, end) /\ WriteOk(BatchFrames(ms, end - 1))
             /\ DropConnection(Res(end, "cancelled"), Tail(reqs), router)
    <3>1. end \in 0..Len(ms) /\ end - 1 \in 0..Len(ms) /\ end - 1 <= end
      BY <1>2, <2>4
    <3> QED BY <2>4, <3>1
  <2>5. ASSUME NEW n \in DOMAIN ms,
               n <= end, TakeBatch(ms, n),
               WriteFails(BatchFrames(ms, IF n < end THEN n ELSE end - 1)),
               DropConnection(Res(n, "cancelled"), Tail(reqs), router)
        PROVE  \E k \in 0..Len(ms), sent \in 0..Len(ms), r \in {"ok", "cancelled"} :
                 /\ sent <= k /\ TakeBatch(ms, k)
                 /\ WriteOk(BatchFrames(ms, sent)) \/ WriteFails(BatchFrames(ms, sent))
                 /\ \/ KeepDriving(Res(k, r), Tail(reqs), router)
                    \/ DropConnection(Res(k, r), Tail(reqs), router)
    <3> DEFINE sent == IF n < end THEN n ELSE end - 1
    <3>1. n \in 0..Len(ms) /\ sent \in 0..Len(ms) /\ sent <= n
      BY <1>2, <2>2, <2>5
    <3>2. WriteFails(BatchFrames(ms, sent))
      BY <2>5
    <3> HIDE DEF sent
    <3> QED BY <2>5, <3>1, <3>2
  <2> QED BY <2>1, <2>3, <2>4, <2>5
<1>4. ToSet(c2s') \subseteq ToSet(c2s) \cup ToSet(BatchFrames(ms, sent))
  <2> HIDE DEF ms
  <2>1. BatchFrames(ms, sent) \in Seq(ClientFrames)
    BY <1>1, BatchFramesType
  <2> QED BY <1>3, <2>1, SentByWrite
<1>5. NoNewPuback /\ NoNewOk
  <2>1. \A d \in Calls : Res(n, r)[d] = "ok" => result[d] = "ok" \/ d = c
    <3>1. \A d \in Calls : Res(n, r)[d] = IF d = c THEN r ELSE Resolve(Overwritten(ms, n), "cancelled")[d]
      BY DEF Resolve
    <3> HIDE DEF ms, Res
    <3> QED BY <3>1, ResolveQuiet
  <2> HIDE DEF Res
  <2>2. NoNewPuback /\ \A d \in Calls : result'[d] = "ok" => Res(n, r)[d] = "ok"
    BY <1>3, OutcomeQuiet
  <2> QED BY <1>1, <2>1, <2>2 DEF NoNewOk
<1>6. sent \in 0..n
  BY <1>2, <1>3
<1> HIDE DEF ms
<1> QED BY <1>1, <1>3, <1>4, <1>5, <1>6, TakeBatchGrows

-----------------------------------------------------------------------------
(* The theorems. *)

\* Delivery holds initially.
LEMMA InitDelivers == Init => Delivery
<1> SUFFICES ASSUME Init PROVE Delivery
  OBVIOUS
<1>1. DOMAIN <<>> = {} /\ ToSet(<<>>) = {}
  BY ShortSet
<1>2. IdentifiersUnique
  BY <1>1 DEF Init, IdentifiersUnique
<1>3. RespondersKnown
  BY <1>1 DEF Init, RespondersKnown
<1>4. UnackedRecoverable /\ AckedReceived
  BY DEF Init, UnackedRecoverable, AckedReceived
<1> QED BY <1>2, <1>3, <1>4 DEF Delivery

\* Every step keeps Delivery.
LEMMA DeliveryStep ==
  ASSUME TypeOK, Delivery, [Next]_vars
  PROVE  Delivery'
<1>1. TypeOK' /\ StillThere
  BY TypeStep, GoneStays
<1>2. CASE RequestStep
  BY <1>1, <1>2, PublishDelivers, PublishBatchDelivers, DatagramDelivers, SubscribeDelivers,
     ShutdownDelivers DEF RequestStep
<1>3. CASE BrokerStep
  BY <1>1, <1>3, BrokerConnectDelivers, BrokerRecvDelivers DEF BrokerStep
<1> QED
  BY <1>1, <1>2, <1>3, CallerStepDelivers, ConnectStepDelivers, ReadStepDelivers,
     ShutdownDelivers, NetworkStepDelivers DEF Next

\* The inductive invariant: tables, wire and results agree on what was delivered.
THEOREM DeliveryCorrect == Spec => []Delivery
<1>1. Init => TypeOK /\ Delivery
  BY InitType, InitDelivers
<1>2. TypeOK /\ Delivery /\ [Next]_vars => TypeOK' /\ Delivery'
  BY TypeStep, DeliveryStep
<1> QED BY <1>1, <1>2, PTL DEF Spec

\* Until packet identifiers repeat, every PUBLISH in flight carries the message tracked
\* under its identifier, and every PUBACK in flight is for a message the broker has:
\* retransmission after a reconnection never confuses two messages.
THEOREM IdentifiersAreUnique == Spec => []IdentifiersUnique
<1>1. Delivery => IdentifiersUnique
  BY DEF Delivery
<1> QED BY <1>1, DeliveryCorrect, PTL

\* Until packet identifiers repeat, no fault, reconnection, failed write, partly sent
\* batch or stop makes the loop forget a QoS 1/2 message it took before the broker has it,
\* as long as the EventLoop value lives.
THEOREM UnackedAreRecoverable == Spec => []UnackedRecoverable
<1>1. Delivery => UnackedRecoverable
  BY DEF Delivery
<1> QED BY <1>1, DeliveryCorrect, PTL

\* Until packet identifiers repeat, publish_with_ack reports Ok for a QoS 1/2 message
\* only once the broker has it, however often the connection broke in between.
THEOREM AcknowledgedAreReceived == Spec => []AckedReceived
<1>1. Delivery => AckedReceived
  BY DEF Delivery
<1> QED BY <1>1, DeliveryCorrect, PTL

-----------------------------------------------------------------------------
(* Callers that are not given up.  A responder is dropped with the loop, with  *)
(* the request of a call that fails, or with the entry it was stored in when   *)
(* the identifier is handed out again; the last is what IdentifiersUnique      *)
(* excludes, and RespondersKnown tells the calls of the other tables apart.    *)

IsTracked(c) == Request[c].op = "publish" /\ QoSOf[Request[c].msgs[1]] > 0
NoneCancelled(res) == \A c \in Calls : IsTracked(c) /\ res[c] = "cancelled" => result[c] = "cancelled"

\* Resolving cancels nobody but those it is told to.
LEMMA ResolveCancels ==
  ASSUME TypeOK, NEW cs, NEW r, r # "cancelled" \/ \A c \in cs : ~IsTracked(c)
  PROVE  NoneCancelled(Resolve(cs, r))
BY DEF Resolve, NoneCancelled

\* The outcome of a handler cancels nobody on its own.
LEMMA OutcomeCancels ==
  ASSUME NEW res, NEW queued, NEW routed, NoneCancelled(res),
         KeepDriving(res, queued, routed) \/ DropConnection(res, queued, routed)
  PROVE  NoneCancelled(result')
BY DEF KeepDriving, DropConnection

\* A publish that takes a new identifier overwrites no entry.
LEMMA PublishCancels ==
  ASSUME TypeOK, IdentifiersUnique, NEW c \in Calls, Publish(c), ~wrapped'
  PROVE  NoneCancelled(result') /\ ~wrapped
<1> DEFINE qos == QoSOf[Request[c].msgs[1]]
           old == IF nextPid \in DOMAIN inflight /\ qos > 0 THEN {inflight[nextPid].call} ELSE {}
           res == IF qos = 0 THEN Resolve({c}, "ok") ELSE Resolve(old, "cancelled")
<1>1. /\ KeepDriving(res, Tail(reqs), router) \/ DropConnection(res, Tail(reqs), router)
      /\ IF qos > 0 THEN TakePids(1) ELSE UNCHANGED pidVars
  BY DEF Publish
<1>2. ~wrapped
  BY <1>1, PidMonotone DEF pidVars
<1>3. nextPid \notin DOMAIN inflight
  BY <1>2, FramePids DEF IdentifiersUnique
<1>4. NoneCancelled(res)
  BY <1>3, ResolveCancels
<1> HIDE DEF res
<1> QED BY <1>1, <1>2, <1>4, OutcomeCancels

\* Nor does a batch.
LEMMA BatchCancels ==
  ASSUME TypeOK, IdentifiersUnique, NEW c \in Calls, PublishBatch(c), ~wrapped'
  PROVE  NoneCancelled(result') /\ ~wrapped
<1> DEFINE ms  == Request[c].msgs
           end == BatchEnd(ms)
           Res(n, r) == [Resolve(Overwritten(ms, n), "cancelled") EXCEPT ![c] = r]
<1>1. ms \in Seq(Msgs) /\ end \in 1..(Len(ms) + 1) /\ Request[c].op = "batch"
  BY EventLoopAssumption, BatchEndType DEF PublishBatch
<1>2. PICK n \in 0..Len(ms), r \in {"ok", "cancelled"} :
        /\ TakeBatch(ms, n)
        /\ \/ KeepDriving(Res(n, r), Tail(reqs), router)
           \/ DropConnection(Res(n, r), Tail(reqs), router)
  <2>1. \/ TakeBatch(ms, Len(ms)) /\ KeepDriving(Res(Len(ms), "ok"), Tail(reqs), router)
        \/ /\ end <= Len(ms) /\ TakeBatch(ms, end)
           /\ DropConnection(Res(end, "cancelled"), Tail(reqs), router)
        \/ \E n \in DOMAIN ms :
             TakeBatch(ms, n) /\ DropConnection(Res(n, "cancelled"), Tail(reqs), router)
    BY DEF PublishBatch
  <2>2. DOMAIN ms = 1..Len(ms) /\ Len(ms) \in 0..Len(ms) /\ (end <= Len(ms) => end \in 0..Len(ms))
    BY <1>1
  <2> HIDE DEF ms, end, Res
  <2> QED BY <2>1, <2>2
<1>3. ~wrapped
  BY <1>2, PidMonotone, PidsUpToType DEF TakeBatch
<1>4. Overwritten(ms, n) = {}
  <2>1. ASSUME NEW j \in 1..n, QoSOf[ms[j]] > 0 PROVE BatchPid(ms, j) \notin DOMAIN inflight
    <3>1. nextPid <= BatchPid(ms, j) /\ nextPid \in Nat /\ DOMAIN inflight \subseteq Nat
      BY <1>1, <1>2, <2>1, BatchPids, FramePids DEF TakeBatch
    <3>2. \A p \in DOMAIN inflight : p < nextPid
      BY <1>3 DEF IdentifiersUnique
    <3> QED BY <3>1, <3>2
  <2> HIDE DEF ms
  <2> QED BY <2>1 DEF Overwritten
<1>5. NoneCancelled(Resolve(Overwritten(ms, n), "cancelled"))
  BY <1>4, ResolveCancels
<1>6. NoneCancelled(Res(n, r))
  <2>1. \A d \in Calls : Res(n, r)[d] = IF d = c THEN r ELSE Resolve(Overwritten(ms, n), "cancelled")[d]
    BY DEF Resolve
  <2>2. ~IsTracked(c)
    BY <1>1 DEF IsTracked
  <2> HIDE DEF ms, Res
  <2> QED BY <1>5, <2>1, <2>2 DEF NoneCancelled
<1> HIDE DEF Res
<1> QED BY <1>2, <1>3, <1>6, OutcomeCancels

\* The requests that track no publish hold no responder of one.
LEMMA OtherRequestCancels ==
  ASSUME TypeOK, RespondersKnown, NEW c \in Calls,
         PublishDatagram(c) \/ Subscribe(c) \/ Unsubscribe(c) \/ Disconnect(c), ~wrapped'
  PROVE  NoneCancelled(result') /\ ~wrapped
<1>0. ~wrapped
  <2>1. TakePids(1) \/ UNCHANGED pidVars
    BY DEF PublishDatagram, Subscribe, Unsubscribe, Disconnect
  <2> QED BY <2>1, PidMonotone DEF pidVars
<1> SUFFICES NoneCancelled(result')
  BY <1>0
<1>1. CASE Disconnect(c)
  BY <1>1, ResolveCancels DEF Disconnect
<1>2. CASE PublishDatagram(c)
  <2>1. PICK r, queued, routed :
          \/ KeepDriving(Resolve({c}, r), queued, routed)
          \/ DropConnection(Resolve({c}, r), queued, routed)
    BY <1>2 DEF PublishDatagram
  <2>2. ~IsTracked(c)
    BY <1>2 DEF PublishDatagram, IsTracked
  <2> QED BY <2>1, <2>2, OutcomeCancels, ResolveCancels
<1>3. CASE Subscribe(c) \/ Unsubscribe(c)
  <2>1. PICK cs, queued, routed :
          /\ \A d \in cs : ~IsTracked(d)
          /\ \/ KeepDriving(Resolve(cs, "cancelled"), queued, routed)
             \/ DropConnection(Resolve(cs, "cancelled"), queued, routed)
    <3>1. \A d \in {c} : ~IsTracked(d)
      BY <1>3 DEF Subscribe, Unsubscribe, IsTracked
    <3>2. /\ \A d \in (IF nextPid \in DOMAIN subWait THEN {subWait[nextPid]} ELSE {}) : ~IsTracked(d)
          /\ \A d \in (IF nextPid \in DOMAIN unsubWait THEN {unsubWait[nextPid]} ELSE {}) : ~IsTracked(d)
      BY DEF RespondersKnown, IsTracked
    <3> QED BY <1>3, <3>1, <3>2 DEF Subscribe, Unsubscribe
  <2> QED BY <2>1, OutcomeCancels, ResolveCancels
<1> QED BY <1>1, <1>2, <1>3

\* Every step keeps CancelledOnlyByDrop.
LEMMA CancelledStep ==
  ASSUME TypeOK, IdentifiersUnique, RespondersKnown, CancelledOnlyByDrop, [Next]_vars
  PROVE  CancelledOnlyByDrop'
<1> SUFFICES ASSUME ~wrapped', phase' # "gone" PROVE NoneCancelled(result') /\ ~wrapped
  BY GoneStays DEF CancelledOnlyByDrop, NoneCancelled, IsTracked, StillThere
<1>1. CASE CallerStep
  <2>1. NoneCancelled(result')
    BY <1>1 DEF CallerStep, Call, StreamRecv, StreamDrop, DropHandles, DropLoop, callVars,
                NoneCancelled, TypeOK, CallersOK
  <2>2. ~wrapped
    BY <1>1 DEF CallerStep, Call, StreamRecv, StreamDrop, DropHandles, DropLoop, pidVars
  <2> QED BY <2>1, <2>2
<1>2. CASE ConnectStep
  <2>1. result' = result
    BY <1>2 DEF ConnectStep, StartAttempt, Wake, DialFails, Dial, HandshakeFails, HandshakeOk,
                AttemptFailed, callVars
  <2>2. ~wrapped
    <3>1. ASSUME NEW k \in 1..Len(s2c), HandshakeOk(k) PROVE ~wrapped
      BY <3>1, PidMonotone, ResendableType, FS_CardinalityType DEF HandshakeOk
    <3> QED BY <1>2, <3>1 DEF ConnectStep, StartAttempt, Wake, DialFails, Dial, HandshakeFails, pidVars
  <2> QED BY <2>1, <2>2 DEF NoneCancelled
<1>3. CASE ReadStep \/ PingTick \/ HandlesGone
  <2>1. result' = result \/ HandleAnswer
    BY <1>3 DEF ReadStep, Read, ReadUndecodable, ReadClosed, HandlePublish, HandleFails, PingTick,
                HandlesGone, KeepDriving, DropConnection, callVars
  <2>2. ~wrapped
    BY <1>3 DEF ReadStep, Read, ReadUndecodable, ReadClosed, HandlePublish, HandleAnswer, HandleFails,
                PingTick, HandlesGone, pidVars
  <2> QED BY <2>1, <2>2, ResolveCancels DEF NoneCancelled, HandleAnswer
<1>4. ASSUME NEW c \in Calls,
             \/ Publish(c) \/ PublishBatch(c) \/ PublishDatagram(c)
             \/ Subscribe(c) \/ Unsubscribe(c) \/ Disconnect(c)
      PROVE  NoneCancelled(result') /\ ~wrapped
  BY <1>4, PublishCancels, BatchCancels, OtherRequestCancels
<1>5. CASE BrokerStep \/ NetworkStep \/ UNCHANGED vars
  <2>1. UNCHANGED <<callVars, pidVars>>
    BY <1>5 DEF BrokerStep, BrokerConnect, BrokerRecv, BrokerClose, NetworkStep, BrokerPublish,
                BrokerFault, Break, vars
  <2>2. result' = result /\ wrapped' = wrapped
    BY <2>1 DEF callVars, pidVars
  <2> QED BY <2>2 DEF NoneCancelled
<1> QED BY <1>1, <1>2, <1>3, <1>4, <1>5 DEF Next, RequestStep

\* Until packet identifiers repeat, a waiting publish_with_ack of a QoS 1/2 message is
\* cancelled by nothing short of dropping the EventLoop: a broken connection, a message
\* that cannot be encoded and a stop all leave its responder with the tracked message.
THEOREM CancelledMeansGone == Spec => []CancelledOnlyByDrop
<1>1. Init => CancelledOnlyByDrop
  BY DEF Init, CancelledOnlyByDrop
<1>2. Delivery => IdentifiersUnique /\ RespondersKnown
  BY DEF Delivery
<1>3. /\ TypeOK /\ IdentifiersUnique /\ RespondersKnown /\ CancelledOnlyByDrop /\ [Next]_vars
      => CancelledOnlyByDrop'
  BY CancelledStep
<1> QED BY <1>1, <1>2, <1>3, TypeCorrect, DeliveryCorrect, PTL DEF Spec

-----------------------------------------------------------------------------
(* Exchanges that go on.  Inductive is that the PUBLISH on its way is of a   *)
(* QoS 1 message, so that the broker answers it with a PUBACK; it holds      *)
(* whether or not identifiers repeat.                                        *)

Owed(m) == QoSOf[m] = 1 /\ m \notin Oversize
Driven  == phase = "drive" /\ conn = "up"
PublishOut(p) == \E f \in ToSet(c2s) : f.type = "PUBLISH" /\ f.pid = p /\ QoSOf[f.item] = 1
PubackBack(p) == \E f \in ToSet(rx) \cup ToSet(s2c) : f.type = "PUBACK" /\ f.pid = p
AliveInv ==
  Driven => \A p \in DOMAIN inflight : Owed(inflight[p].msg) => PublishOut(p) \/ PubackBack(p)

\* What a step that lets every exchange go on does not lose.
OutKept  == \A f \in ToSet(c2s) : f.type = "PUBLISH" => f \in ToSet(c2s)'
BackKept == \A f \in ToSet(rx) \cup ToSet(s2c) : f.type = "PUBACK" => f \in ToSet(rx)' \cup ToSet(s2c)'

LEMMA KeptAlive ==
  ASSUME AliveInv, Driven' => Driven /\ OutKept /\ BackKept, inflight' = inflight
  PROVE  AliveInv'
<1> SUFFICES ASSUME Driven', NEW p \in DOMAIN inflight, Owed(inflight[p].msg)
             PROVE  PublishOut(p)' \/ PubackBack(p)'
  BY DEF AliveInv, Owed
<1>1. PublishOut(p) \/ PubackBack(p)
  BY DEF AliveInv
<1>2. PublishOut(p) => PublishOut(p)'
  BY DEF PublishOut, OutKept
<1>3. PubackBack(p) => PubackBack(p)'
  BY DEF PubackBack, BackKept
<1> QED BY <1>1, <1>2, <1>3

LEMMA NotDriven ==
  ASSUME ~Driven' PROVE AliveInv'
BY DEF AliveInv

\* A connection that is given up promises nothing, nor does one not yet set up.
LEMMA DroppedNotDriven ==
  ASSUME (\E res, queued, routed : DropConnection(res, queued, routed)) \/ AttemptFailed
  PROVE  ~Driven'
BY DEF DropConnection, AttemptFailed, Driven

\* A write on a link that is up adds its frames.
LEMMA WriteAdds ==
  ASSUME TypeOK, NEW frames \in Seq(ClientFrames), WriteOk(frames), conn = "up"
  PROVE  ToSet(c2s)' = ToSet(c2s) \cup ToSet(frames)
<1>1. c2s \in Seq(ClientFrames)
  BY DEF TypeOK, WireOK
<1>2. ToSet(c2s \o frames) = ToSet(c2s) \cup ToSet(frames)
  BY <1>1, FramesConcat, Zenon
<1> DEFINE both == c2s \o frames
<1>3. c2s' = both /\ ToSet(both) = ToSet(c2s) \cup ToSet(frames)
  BY <1>2 DEF WriteOk
<1> HIDE DEF both
<1> QED BY <1>3 DEF ToSet

\* A handler that writes and leaves the table alone.
LEMMA HandlerAlive ==
  ASSUME TypeOK, AliveInv, inflight' = inflight,
         NEW res, NEW queued, NEW routed,
         \/ DropConnection(res, queued, routed)
         \/ /\ KeepDriving(res, queued, routed)
            /\ \/ c2s' = c2s
               \/ \E frames \in Seq(ClientFrames) : WriteOk(frames)
  PROVE  AliveInv'
<1>1. CASE DropConnection(res, queued, routed)
  BY <1>1, DroppedNotDriven, NotDriven
<1>2. CASE KeepDriving(res, queued, routed) /\ c2s' = c2s
  BY <1>2, KeptAlive DEF KeepDriving, Driven, OutKept, BackKept, ToSet
<1>3. ASSUME KeepDriving(res, queued, routed), NEW frames \in Seq(ClientFrames), WriteOk(frames)
      PROVE  AliveInv'
  <2>1. UNCHANGED <<phase, conn, s2c, rx>>
    BY <1>3 DEF KeepDriving
  <2>2. CASE conn = "up"
    <3>1. OutKept
      BY <1>3, <2>2, WriteAdds DEF OutKept
    <3>2. BackKept /\ (Driven' => Driven)
      BY <2>1 DEF BackKept, Driven, ToSet
    <3> QED BY <3>1, <3>2, KeptAlive
  <2>3. CASE conn # "up"
    BY <2>1, <2>3, NotDriven DEF Driven
  <2> QED BY <2>2, <2>3
<1> QED BY <1>1, <1>2, <1>3

\* An enumeration of a finite set has all of its members.
LEMMA SetToSeqsAll ==
  ASSUME NEW S, IsFiniteSet(S), NEW s \in SetToSeqs(S), NEW x \in S
  PROVE  \E i \in DOMAIN s : s[i] = x
<1>1. Cardinality(S) \in Nat
  BY FS_CardinalityType
<1> DEFINE D == 1..Cardinality(S)
<1>2. s \in [D -> S] /\ \A i, j \in D : i # j => s[i] # s[j]
  BY DEF SetToSeqs
<1>3. IsFiniteSet(D) /\ Cardinality(D) = Cardinality(S)
  <2>1. \A n \in Nat : IsFiniteSet(1..n) /\ Cardinality(1..n) = n
    BY FS_Interval
  <2> QED BY <1>1, <2>1
<1> HIDE DEF D
<1>4. s \in Injection(D, S)
  BY <1>2 DEF Injection, IsInjective
<1>5. s \in Surjection(D, S)
  BY <1>3, <1>4, FS_Injection
<1> QED BY <1>5 DEF Surjection

\* After a reconnection every entry that can be encoded is resent.
LEMMA HandshakeOkAlive ==
  ASSUME ResendUnacked, TypeOK, NEW k \in 1..Len(s2c), HandshakeOk(k)
  PROVE  AliveInv'
<1> SUFFICES ASSUME Driven', NEW p \in DOMAIN inflight, Owed(inflight[p].msg)
             PROVE  PublishOut(p)'
  <2>1. inflight' = inflight
    BY DEF HandshakeOk, tableVars
  <2> QED BY <2>1 DEF AliveInv, Owed
<1>1. PICK pids \in SetToSeqs(Resendable), topics \in SetToSeqs(Resubscribable \ SubTooLong),
           place \in Places(Cardinality(Resubscribable \ SubTooLong), Cardinality(Resubscribable)) :
        WriteOk(Resends(pids) \o Resubscribes(topics, place)) /\ conn = "up"
  BY DEF HandshakeOk, Driven
<1>3. /\ Resends(pids) \in Seq(ClientFrames) /\ Resubscribes(topics, place) \in Seq(ClientFrames)
      /\ Resends(pids) \o Resubscribes(topics, place) \in Seq(ClientFrames)
  BY RecoveryType
<1>4. ToSet(Resends(pids)) \subseteq ToSet(c2s)'
  <2>1. ToSet(Resends(pids) \o Resubscribes(topics, place))
          = ToSet(Resends(pids)) \cup ToSet(Resubscribes(topics, place))
    BY <1>3, FramesConcat, Zenon
  <2> DEFINE burst == Resends(pids) \o Resubscribes(topics, place)
  <2> HIDE DEF burst
  <2>2. burst \in Seq(ClientFrames) /\ WriteOk(burst)
    BY <1>1, <1>3 DEF burst
  <2>3. ToSet(burst) \subseteq ToSet(c2s)'
    BY <1>1, <2>2, WriteAdds
  <2> QED BY <2>1, <2>3 DEF burst
<1>5. p \in Resendable
  BY DEF Resendable, Owed
<1>6. PICK i \in DOMAIN pids : pids[i] = p
  BY <1>5, ResendableType, SetToSeqsAll
<1>7. Resends(pids)[i] = Frame("PUBLISH", p, inflight[p].msg, TRUE) /\ i \in DOMAIN Resends(pids)
  BY <1>6 DEF Resends
<1>8. Frame("PUBLISH", p, inflight[p].msg, TRUE) \in ToSet(c2s)'
  BY <1>4, <1>7 DEF ToSet
<1> QED BY <1>8 DEF PublishOut, Frame, Owed

LEMMA ConnectStepAlive ==
  ASSUME ResendUnacked, TypeOK, AliveInv, ConnectStep PROVE AliveInv'
<1>1. CASE StartAttempt \/ Wake \/ Dial
  BY <1>1, NotDriven DEF StartAttempt, Wake, Dial, Driven
<1>2. CASE DialFails \/ HandshakeFails
  BY <1>2, DroppedNotDriven, NotDriven DEF DialFails, HandshakeFails
<1> QED BY <1>1, <1>2, HandshakeOkAlive DEF ConnectStep


LEMMA CallerStepAlive ==
  ASSUME AliveInv, CallerStep PROVE AliveInv'
<1> SUFFICES ASSUME ~DropLoop PROVE AliveInv'
  BY NotDriven DEF DropLoop, Driven
<1>1. UNCHANGED <<inflight, phase, conn, c2s, s2c, rx>>
  BY DEF CallerStep, Call, DropHandles, StreamRecv, StreamDrop, tableVars, loopVars, netVars
<1> QED BY <1>1, KeptAlive DEF Driven, OutKept, BackKept, ToSet

\* A read moves frames from the wire to the actions, and loses none.
LEMMA ReadAlive ==
  ASSUME TypeOK, AliveInv, NEW k \in 1..Len(s2c), Read(k) PROVE AliveInv'
<1>1. /\ UNCHANGED <<inflight, phase, conn, c2s>> /\ rx = <<>>
      /\ rx' = SubSeq(s2c, 1, k) /\ s2c' = SubSeq(s2c, k + 1, Len(s2c))
  BY DEF Read, Driving, tableVars, loopVars
<1>2. ToSet(s2c) \subseteq ToSet(SubSeq(s2c, 1, k)) \cup ToSet(SubSeq(s2c, k + 1, Len(s2c)))
  <2>1. s2c \in Seq(BrokerFrames) /\ k \in 0..Len(s2c)
    BY DEF TypeOK, WireOK
  <2> QED BY <2>1, SplitSet
<1>3. ToSet(rx) = {}
  BY <1>1, ShortSet
<1>4. BackKept
  BY <1>1, <1>2, <1>3 DEF BackKept, ToSet
<1>5. OutKept /\ (Driven' => Driven)
  BY <1>1 DEF OutKept, Driven, ToSet
<1> QED BY <1>1, <1>4, <1>5, KeptAlive

\* An incoming publish is no PUBACK, and is answered behind what is on its way.
LEMMA HandlePublishAlive ==
  ASSUME TypeOK, AliveInv, HandlePublish PROVE AliveInv'
<1>1. /\ UNCHANGED <<inflight, phase, conn, s2c>> /\ rx # <<>> /\ rx' = Tail(rx)
      /\ Head(rx).type = "PUBLISH" /\ WriteOk(Acks(Head(rx)))
  BY DEF HandlePublish, loopVars
<1>2. Acks(Head(rx)) \in Seq(ClientFrames)
  BY <1>1, AcksSeq
<1>3. CASE conn = "up"
  <2>1. OutKept
    BY <1>1, <1>2, <1>3, WriteAdds DEF OutKept
  <2>2. ToSet(rx) = {Head(rx)} \cup ToSet(Tail(rx))
    BY <1>1, HeadTailSet DEF TypeOK, WireOK
  <2>3. BackKept
    BY <1>1, <2>2 DEF BackKept, ToSet
  <2> QED BY <1>1, <2>1, <2>3, KeptAlive DEF Driven
<1>4. CASE conn # "up"
  BY <1>1, <1>4, NotDriven DEF Driven
<1> QED BY <1>3, <1>4

\* An answer leaves every entry but the one it is for.
LEMMA HandleAnswerAlive ==
  ASSUME TypeOK, AliveInv, HandleAnswer PROVE AliveInv'
<1> DEFINE f == Head(rx)
<1>1. /\ UNCHANGED <<phase, conn, c2s, s2c>> /\ rx # <<>> /\ rx' = Tail(rx)
      /\ inflight' = Without(inflight, Answered(f, "PUBACK", inflight))
  BY DEF HandleAnswer, loopVars
<1>2. ToSet(rx) = {f} \cup ToSet(rx')
  BY <1>1, HeadTailSet DEF TypeOK, WireOK
<1> HIDE DEF f
<1> SUFFICES ASSUME Driven', NEW p \in DOMAIN inflight', Owed(inflight'[p].msg)
             PROVE  PublishOut(p)' \/ PubackBack(p)'
  BY DEF AliveInv, Owed
<1>3. p \in DOMAIN inflight /\ inflight'[p] = inflight[p] /\ ~(f.type = "PUBACK" /\ f.pid = p)
  BY <1>1 DEF Without, Answered
<1>4. PublishOut(p) \/ PubackBack(p)
  BY <1>1, <1>3 DEF AliveInv, Driven
<1>5. PublishOut(p) => PublishOut(p)'
  BY <1>1 DEF PublishOut, ToSet
<1>6. PubackBack(p) => PubackBack(p)'
  BY <1>1, <1>2, <1>3 DEF PubackBack, ToSet
<1> QED BY <1>4, <1>5, <1>6

LEMMA ReadStepAlive ==
  ASSUME TypeOK, AliveInv, ReadStep PROVE AliveInv'
<1>1. CASE ReadUndecodable \/ ReadClosed \/ HandleFails
  BY <1>1, DroppedNotDriven, NotDriven DEF ReadUndecodable, ReadClosed, HandleFails
<1> QED BY <1>1, ReadAlive, HandlePublishAlive, HandleAnswerAlive DEF ReadStep

\* An entry is stored in the step that writes its PUBLISH, if the connection stands.
LEMMA PublishAlive ==
  ASSUME TypeOK, AliveInv, NEW c \in Calls, Publish(c) PROVE AliveInv'
<1> DEFINE m   == Request[c].msgs[1]
           qos == QoSOf[m]
           old == IF nextPid \in DOMAIN inflight /\ qos > 0 THEN {inflight[nextPid].call} ELSE {}
           res == IF qos = 0 THEN Resolve({c}, "ok") ELSE Resolve(old, "cancelled")
<1>0. PICK frame : frame = Frame("PUBLISH", IF qos = 0 THEN 0 ELSE nextPid, m, FALSE)
  OBVIOUS
<1>1. /\ IF qos > 0
         THEN inflight' = With(inflight, nextPid, Entry(m, Responder(c)))
         ELSE inflight' = inflight
      /\ \/ m \notin Oversize /\ WriteOk(<<frame>>) /\ KeepDriving(res, Tail(reqs), router)
         \/ DropConnection(res, Tail(reqs), router)
      /\ Request[c].op = "publish"
  BY <1>0 DEF Publish
<1>2. m \in Msgs /\ qos \in 0..2
  BY <1>1, EventLoopAssumption
<1> HIDE DEF res
<1>3. CASE DropConnection(res, Tail(reqs), router)
  BY <1>3, DroppedNotDriven, NotDriven
<1>4. CASE WriteOk(<<frame>>) /\ KeepDriving(res, Tail(reqs), router)
  <2>0. UNCHANGED <<phase, conn, s2c, rx>>
    BY <1>4 DEF KeepDriving
  <2> SUFFICES ASSUME Driven', NEW p \in DOMAIN inflight', Owed(inflight'[p].msg)
               PROVE  PublishOut(p)' \/ PubackBack(p)'
    BY DEF AliveInv, Owed
  <2>1. ToSet(c2s)' = ToSet(c2s) \cup {frame}
    <3>1. frame \in ClientFrames
      BY <1>0, <1>2, EventLoopAssumption DEF Frame, ClientFrames, FrameSet, Pids, TypeOK, LoopOK
    <3>2. <<frame>> \in Seq(ClientFrames) /\ ToSet(<<frame>>) = {frame}
      BY <3>1, ShortIsSeq, ShortSet
    <3> QED BY <1>4, <2>0, <3>2, WriteAdds DEF Driven
  <2>2. CASE p \in DOMAIN inflight /\ inflight'[p] = inflight[p]
    <3>1. PublishOut(p) \/ PubackBack(p)
      BY <2>0, <2>2 DEF AliveInv, Driven
    <3> QED BY <2>0, <2>1, <3>1 DEF PublishOut, PubackBack, ToSet
  <2>3. CASE ~(p \in DOMAIN inflight /\ inflight'[p] = inflight[p])
    <3>1. p = nextPid /\ inflight'[p].msg = m /\ qos > 0
      BY <1>1, <2>3 DEF With, Entry
    <3>2. frame.type = "PUBLISH" /\ frame.pid = p /\ frame.item = m
      BY <1>0, <1>2, <3>1 DEF Frame
    <3> QED BY <2>1, <3>1, <3>2 DEF PublishOut, Owed
  <2> QED BY <2>2, <2>3
<1> QED BY <1>1, <1>3, <1>4


\* A message of a batch that can be encoded is never passed over.
LEMMA BatchSends ==
  ASSUME NEW ms \in Seq(Msgs), NEW n \in 0..Len(ms),
         NEW j \in 1..n, ms[j] \notin Oversize, QoSOf[ms[j]] = 1
  PROVE  Frame("PUBLISH", BatchPid(ms, j), ms[j], FALSE) \in ToSet(BatchFrames(ms, n))
<1> DEFINE sendable == {i \in 1..n : ms[i] \notin Oversize}
           first == CHOOSE i \in sendable : \A k \in sendable : i <= k
           skipped == first - 1
           frame(i) == Frame("PUBLISH", IF QoSOf[ms[i]] = 0 THEN 0 ELSE BatchPid(ms, i), ms[i], FALSE)
<1>1. j \in sendable /\ sendable # {}
  OBVIOUS
<1>2. first \in 1..n /\ first <= j
  <2>1. sendable \subseteq 1..n /\ sendable \subseteq Nat
    OBVIOUS
  <2> HIDE DEF sendable
  <2>2. \E i \in sendable : \A k \in sendable : i <= k
    BY <1>1, <2>1, SmallestExists
  <2>3. first \in sendable /\ \A k \in sendable : first <= k
    BY <2>2
  <2> HIDE DEF first
  <2> QED BY <1>1, <2>1, <2>3
<1>3. BatchFrames(ms, n) = [i \in 1..(n - skipped) |-> frame(skipped + i)]
  <2>1. BatchFrames(ms, n) = LET s == IF sendable = {} THEN n ELSE skipped
                             IN  [i \in 1..(n - s) |-> frame(s + i)]
    BY DEF BatchFrames
  <2> HIDE DEF sendable, first, skipped, frame
  <2> QED BY <1>1, <2>1
<1>4. frame(j) = Frame("PUBLISH", BatchPid(ms, j), ms[j], FALSE)
  OBVIOUS
<1> HIDE DEF sendable, first, frame
<1>5. j - skipped \in 1..(n - skipped) /\ skipped + (j - skipped) = j
  BY <1>2
<1> HIDE DEF skipped
<1>6. BatchFrames(ms, n)[j - skipped] = frame(j) /\ j - skipped \in DOMAIN BatchFrames(ms, n)
  BY <1>3, <1>5
<1> QED BY <1>4, <1>6 DEF ToSet

\* What a batch leaves in the table is what was there or one of its messages.
LEMMA BatchEntries ==
  ASSUME TypeOK, NEW ms \in Seq(Msgs), NEW n \in 0..Len(ms), TakeBatch(ms, n),
         NEW p \in DOMAIN inflight'
  PROVE  \/ p \in DOMAIN inflight /\ inflight'[p] = inflight[p]
         \/ \E j \in 1..n : BatchPid(ms, j) = p /\ inflight'[p].msg = ms[j]
<1> DEFINE js == {j \in 1..n : QoSOf[ms[j]] > 0}
           pids == {BatchPid(ms, j) : j \in js}
           LastTaker(q) == CHOOSE j \in js : BatchPid(ms, j) = q /\ \A i \in js : BatchPid(ms, i) = q => i <= j
<1>0. n \in Nat
  OBVIOUS
<1>1. ASSUME p \in pids PROVE LastTaker(p) \in js /\ BatchPid(ms, LastTaker(p)) = p
  <2>1. PICK T : T = {j \in js : BatchPid(ms, j) = p}
    OBVIOUS
  <2>2. T \subseteq 0..n /\ T # {} /\ T \subseteq js
    BY <1>1, <2>1
  <2>3. PICK g \in T : \A t \in T : t <= g
    BY <1>0, <2>2, GreatestExists
  <2>4. g \in js /\ BatchPid(ms, g) = p /\ \A i \in js : BatchPid(ms, i) = p => i <= g
    BY <2>1, <2>2, <2>3
  <2> HIDE DEF js
  <2> QED BY <2>4
<1>2. inflight' = [q \in DOMAIN inflight \cup pids |->
                     IF q \in pids THEN Entry(ms[LastTaker(q)], NoCall) ELSE inflight[q]]
  BY DEF TakeBatch, BatchTracked
<1>3. js \subseteq 1..n
  OBVIOUS
<1> HIDE DEF pids, js, LastTaker
<1> QED BY <1>1, <1>2, <1>3 DEF Entry

\* A batch that leaves the connection standing has written every frame it owes.
LEMMA PublishBatchAlive ==
  ASSUME TypeOK, AliveInv, NEW c \in Calls, PublishBatch(c) PROVE AliveInv'
<1>1. PICK ms : ms = Request[c].msgs
  OBVIOUS
<1>2. ms \in Seq(Msgs) /\ Len(ms) \in 0..Len(ms)
  BY <1>1, EventLoopAssumption DEF PublishBatch
<1>3. \/ \E res, queued, routed : DropConnection(res, queued, routed)
      \/ /\ TakeBatch(ms, Len(ms)) /\ WriteOk(BatchFrames(ms, Len(ms)))
         /\ \E res : KeepDriving(res, Tail(reqs), router)
  BY <1>1 DEF PublishBatch
<1>4. CASE \E res, queued, routed : DropConnection(res, queued, routed)
  BY <1>4, DroppedNotDriven, NotDriven
<1>5. CASE /\ TakeBatch(ms, Len(ms)) /\ WriteOk(BatchFrames(ms, Len(ms)))
           /\ \E res : KeepDriving(res, Tail(reqs), router)
  <2>0. UNCHANGED <<phase, conn, s2c, rx>>
    BY <1>5 DEF KeepDriving
  <2> SUFFICES ASSUME Driven', NEW p \in DOMAIN inflight', Owed(inflight'[p].msg)
               PROVE  PublishOut(p)' \/ PubackBack(p)'
    BY DEF AliveInv, Owed
  <2>1. ToSet(c2s)' = ToSet(c2s) \cup ToSet(BatchFrames(ms, Len(ms)))
    <3>1. BatchFrames(ms, Len(ms)) \in Seq(ClientFrames)
      BY <1>2, BatchFramesType
    <3> QED BY <1>5, <2>0, <3>1, WriteAdds DEF Driven
  <2>2. CASE p \in DOMAIN inflight /\ inflight'[p] = inflight[p]
    <3>1. PublishOut(p) \/ PubackBack(p)
      BY <2>0, <2>2 DEF AliveInv, Driven
    <3> QED BY <2>0, <2>1, <3>1 DEF PublishOut, PubackBack, ToSet
  <2>3. ASSUME NEW j \in 1..Len(ms), BatchPid(ms, j) = p, inflight'[p].msg = ms[j]
        PROVE  PublishOut(p)'
    <3>1. ms[j] \notin Oversize /\ QoSOf[ms[j]] = 1
      BY <2>3 DEF Owed
    <3>2. Frame("PUBLISH", p, ms[j], FALSE) \in ToSet(c2s)'
      BY <1>2, <2>1, <2>3, <3>1, BatchSends
    <3> QED BY <3>1, <3>2 DEF PublishOut, Frame
  <2> QED BY <1>2, <1>5, <2>2, <2>3, BatchEntries
<1> QED BY <1>3, <1>4, <1>5

\* The requests that track no publish.
LEMMA RequestStepAlive ==
  ASSUME TypeOK, AliveInv, RequestStep PROVE AliveInv'
<1>1. ASSUME NEW c \in Calls, Subscribe(c) \/ Unsubscribe(c) PROVE AliveInv'
  <2>1. \A type \in {"SUBSCRIBE", "UNSUBSCRIBE"} :
          <<Frame(type, nextPid, Request[c].topic, FALSE)>> \in Seq(ClientFrames)
    <3>1. \A type \in {"SUBSCRIBE", "UNSUBSCRIBE"} :
            Frame(type, nextPid, Request[c].topic, FALSE) \in ClientFrames
      BY EventLoopAssumption DEF Frame, ClientFrames, FrameSet, TypeOK, LoopOK
    <3> QED BY <3>1, ShortIsSeq
  <2> DEFINE Outcome(type) ==
        \/ \E res, routed : DropConnection(res, Tail(reqs), routed)
        \/ /\ WriteOk(<<Frame(type, nextPid, Request[c].topic, FALSE)>>)
           /\ \E res, routed : KeepDriving(res, Tail(reqs), routed)
  <2>2. \E type \in {"SUBSCRIBE", "UNSUBSCRIBE"} : Outcome(type)
    <3>1. CASE Subscribe(c)
      <4>1. Outcome("SUBSCRIBE")
        BY <3>1 DEF Subscribe
      <4> QED BY <4>1
    <3>2. CASE Unsubscribe(c)
      <4>1. Outcome("UNSUBSCRIBE")
        BY <3>2 DEF Unsubscribe
      <4> QED BY <4>1
    <3> QED BY <1>1, <3>1, <3>2
  <2>3. inflight' = inflight
    BY <1>1 DEF Subscribe, Unsubscribe
  <2> QED BY <2>1, <2>2, <2>3, HandlerAlive
<1>2. ASSUME NEW c \in Calls, Disconnect(c) PROVE AliveInv'
  BY <1>2, NotDriven DEF Disconnect, Driven
<1>3. ASSUME NEW c \in Calls, PublishDatagram(c) PROVE AliveInv'
  <2>1. UNCHANGED <<inflight, c2s>>
    BY <1>3 DEF PublishDatagram
  <2>2. PICK res : DropConnection(res, Tail(reqs), router) \/ KeepDriving(res, Tail(reqs), router)
    BY <1>3 DEF PublishDatagram
  <2> QED BY <2>1, <2>2, HandlerAlive
<1>4. CASE HandlesGone
  <2>1. UNCHANGED <<inflight, phase, conn, s2c, rx>> /\ ToSet(c2s) \subseteq ToSet(c2s)'
    <3>1. UNCHANGED <<inflight, phase, conn, s2c, rx>>
      BY <1>4 DEF HandlesGone, tableVars
    <3>2. ToSet(c2s) \subseteq ToSet(Append(c2s, Plain("DISCONNECT")))
      BY DEF ToSet, TypeOK, WireOK
    <3>3. c2s' = c2s \/ c2s' = Append(c2s, Plain("DISCONNECT"))
      BY <1>4 DEF HandlesGone
    <3> QED BY <3>1, <3>2, <3>3 DEF ToSet
  <2> QED BY <2>1, KeptAlive DEF Driven, OutKept, BackKept, ToSet
<1> QED BY <1>1, <1>2, <1>3, <1>4, PublishAlive, PublishBatchAlive DEF RequestStep

LEMMA PingTickAlive ==
  ASSUME TypeOK, AliveInv, PingTick PROVE AliveInv'
<1>1. <<Plain("PINGREQ")>> \in Seq(ClientFrames)
  BY PlainType, ShortIsSeq
<1>2. inflight' = inflight
  BY DEF PingTick
<1>3. \/ WriteOk(<<Plain("PINGREQ")>>) /\ KeepDriving(result, reqs, router)
      \/ DropConnection(result, reqs, router)
  BY DEF PingTick
<1> QED BY <1>1, <1>2, <1>3, HandlerAlive


\* What the broker sends follows what is on its way.
LEMMA SendAdds ==
  ASSUME TypeOK, NEW f \in BrokerFrames, Send(<<f>>), conn = "up"
  PROVE  ToSet(s2c)' = ToSet(s2c) \cup {f}
<1>1. s2c \in Seq(BrokerFrames) /\ <<f>> \in Seq(BrokerFrames)
  BY ShortIsSeq DEF TypeOK, WireOK
<1>2. ToSet(s2c \o <<f>>) = ToSet(s2c) \cup ToSet(<<f>>)
  BY <1>1, ConcatSet, Zenon
<1>3. ToSet(<<f>>) = {f}
  BY ShortSet
<1> DEFINE both == s2c \o <<f>>
<1>4. s2c' = both /\ ToSet(both) = ToSet(s2c) \cup {f}
  BY <1>2, <1>3 DEF Send
<1> HIDE DEF both
<1> QED BY <1>4 DEF ToSet

LEMMA ReplyToQoS1 ==
  ASSUME NEW f, f.type = "PUBLISH", QoSOf[f.item] = 1
  PROVE  Reply(f) = <<Frame("PUBACK", f.pid, Nothing, FALSE)>>
<1> DEFINE answer(type) == <<Frame(type, f.pid, Nothing, FALSE)>>
           ping == <<Plain("PINGRESP")>>
<1>1. Reply(f) = CASE f.type = "PUBLISH" /\ QoSOf[f.item] = 1 -> answer("PUBACK")
                   [] f.type = "PUBLISH" /\ QoSOf[f.item] = 2 -> answer("PUBREC")
                   [] f.type = "SUBSCRIBE"   -> answer("SUBACK")
                   [] f.type = "UNSUBSCRIBE" -> answer("UNSUBACK")
                   [] f.type = "PINGREQ"     -> ping
                   [] OTHER -> <<>>
  BY DEF Reply
<1> HIDE DEF answer, ping
<1>2. Reply(f) = answer("PUBACK")
  BY <1>1
<1> QED BY <1>2 DEF answer

\* The broker answers the PUBLISH of a QoS 1 message with its PUBACK.
LEMMA BrokerRecvAlive ==
  ASSUME TypeOK, AliveInv, BrokerRecv PROVE AliveInv'
<1> DEFINE f == Head(c2s)
<1>1. /\ UNCHANGED <<inflight, phase, conn, rx>>
      /\ c2s # <<>> /\ c2s' = Tail(c2s) /\ Send(Reply(f))
  BY DEF BrokerRecv, tableVars, loopVars
<1>2. ToSet(c2s) = {f} \cup ToSet(Tail(c2s)) /\ f \in ClientFrames
  BY <1>1, HeadTailSet, TailSet DEF TypeOK, WireOK
<1>3. f.pid \in 0..MaxPid
  BY <1>2, EventLoopAssumption DEF ClientFrames, FrameSet, Pids
<1> HIDE DEF f
<1>4. \/ Reply(f) = <<>>
      \/ \E r \in BrokerFrames : Reply(f) = <<r>>
  <2>1. /\ \A t \in {"PUBACK", "PUBREC", "SUBACK", "UNSUBACK"} : Frame(t, f.pid, Nothing, FALSE) \in BrokerFrames
        /\ Plain("PINGRESP") \in BrokerFrames
    BY <1>3, BrokerFrameType
  <2> QED BY <2>1, ReplyShape
<1> SUFFICES ASSUME Driven', NEW p \in DOMAIN inflight, Owed(inflight[p].msg)
             PROVE  PublishOut(p)' \/ PubackBack(p)'
  BY <1>1 DEF AliveInv, Owed
<1>5. conn = "up" /\ Driven
  BY <1>1 DEF Driven
<1>6. ToSet(s2c) \subseteq ToSet(s2c)'
  <2>1. CASE Reply(f) = <<>>
    <3>1. s2c' = s2c
      BY <1>1, <2>1 DEF Send, TypeOK, WireOK
    <3> QED BY <3>1 DEF ToSet
  <2>2. ASSUME NEW r \in BrokerFrames, Reply(f) = <<r>> PROVE ToSet(s2c) \subseteq ToSet(s2c)'
    BY <1>1, <1>5, <2>2, SendAdds
  <2> QED BY <1>4, <2>1, <2>2
<1>7. CASE PubackBack(p)
  BY <1>1, <1>6, <1>7 DEF PubackBack, ToSet
<1>8. CASE PublishOut(p)
  <2>1. PICK g \in ToSet(c2s) : g.type = "PUBLISH" /\ g.pid = p /\ QoSOf[g.item] = 1
    BY <1>8 DEF PublishOut
  <2>2. CASE g # f
    BY <1>1, <1>2, <2>1, <2>2 DEF PublishOut, ToSet
  <2>3. CASE g = f
    <3>1. Reply(f) = <<Frame("PUBACK", f.pid, Nothing, FALSE)>> /\ f.pid = p
      BY <2>1, <2>3, ReplyToQoS1
    <3>2. Frame("PUBACK", p, Nothing, FALSE) \in BrokerFrames
      BY <1>3, <2>1, <2>3, BrokerFrameType
    <3>3. Frame("PUBACK", p, Nothing, FALSE) \in ToSet(s2c)'
      BY <1>1, <1>5, <3>1, <3>2, SendAdds
    <3> QED BY <3>3 DEF PubackBack, Frame
  <2> QED BY <2>2, <2>3
<1> QED BY <1>5, <1>7, <1>8 DEF AliveInv

\* CONNECT is no PUBLISH; a connection that breaks or is closed is not up.
LEMMA OtherStepAlive ==
  ASSUME TypeOK, AliveInv,
         BrokerConnect \/ BrokerClose \/ NetworkStep \/ UNCHANGED vars
  PROVE  AliveInv'
<1>1. CASE BrokerClose \/ Break
  BY <1>1, NotDriven DEF BrokerClose, Break, Driven
<1>2. CASE UNCHANGED vars
  BY <1>2, KeptAlive DEF vars, tableVars, loopVars, netVars, Driven, OutKept, BackKept, ToSet
<1>3. CASE BrokerConnect
  <2>1. /\ UNCHANGED <<inflight, phase, conn, rx>> /\ Send(<<Plain("CONNACK")>>)
        /\ c2s # <<>> /\ c2s' = Tail(c2s) /\ Head(c2s).type = "CONNECT"
    BY <1>3 DEF BrokerConnect, tableVars, loopVars
  <2>2. ToSet(c2s) = {Head(c2s)} \cup ToSet(Tail(c2s))
    BY <2>1, HeadTailSet DEF TypeOK, WireOK
  <2>3. OutKept
    BY <2>1, <2>2 DEF OutKept, ToSet
  <2>4. Driven' => ToSet(s2c) \subseteq ToSet(s2c)'
    <3>1. Plain("CONNACK") \in BrokerFrames
      BY BrokerFrameType
    <3> QED BY <2>1, <3>1, SendAdds DEF Driven
  <2> QED BY <2>1, <2>3, <2>4, KeptAlive DEF Driven, BackKept, ToSet
<1>4. ASSUME NEW f \in BrokerFrames, Send(<<f>>), conn = "up", UNCHANGED <<inflight, phase, conn, rx, c2s>>
      PROVE  AliveInv'
  <2>1. ToSet(s2c) \subseteq ToSet(s2c)'
    BY <1>4, SendAdds
  <2> QED BY <1>4, <2>1, KeptAlive DEF Driven, OutKept, BackKept, ToSet
<1>5. ASSUME NEW i \in InMsgs, BrokerPublish(i) PROVE AliveInv'
  <2>1. Frame("PUBLISH", 0, i, FALSE) \in BrokerFrames
    BY BrokerFrameType
  <2> QED BY <1>4, <1>5, <2>1 DEF BrokerPublish, tableVars, loopVars
<1>6. ASSUME NEW t \in {"DISCONNECT", "UNDECODABLE"}, BrokerFault(t) PROVE AliveInv'
  <2>1. Plain(t) \in BrokerFrames
    BY BrokerFrameType
  <2> QED BY <1>4, <1>6, <2>1 DEF BrokerFault, tableVars, loopVars
<1> QED BY <1>1, <1>2, <1>3, <1>5, <1>6 DEF NetworkStep

\* Every step keeps AliveInv when the recovery resends.
LEMMA AliveStep ==
  ASSUME ResendUnacked, TypeOK, AliveInv, [Next]_vars
  PROVE  AliveInv'
BY CallerStepAlive, ConnectStepAlive, ReadStepAlive, RequestStepAlive, PingTickAlive,
   BrokerRecvAlive, OtherStepAlive
   DEF Next, BrokerStep

\* The members of what was read and what is still on the wire are a frame of both.
LEMMA AliveImplies ==
  ASSUME TypeOK, AliveInv PROVE ExchangeAlive
<1> SUFFICES ASSUME Driven, NEW p \in DOMAIN inflight, Owed(inflight[p].msg)
             PROVE  HasFrame(c2s, "PUBLISH", p) \/ HasFrame(rx \o s2c, "PUBACK", p)
  BY DEF ExchangeAlive, Owed, Driven
<1>1. ToSet(rx \o s2c) = ToSet(rx) \cup ToSet(s2c)
  <2>1. rx \in Seq(BrokerFrames) /\ s2c \in Seq(BrokerFrames)
    BY DEF TypeOK, WireOK
  <2> QED BY <2>1, ConcatSet, Zenon
<1>2. CASE PublishOut(p)
  BY <1>2 DEF PublishOut, HasFrame, ToSet
<1>3. CASE PubackBack(p)
  <2> DEFINE back == rx \o s2c
  <2>1. PICK f \in ToSet(back) : f.type = "PUBACK" /\ f.pid = p
    BY <1>1, <1>3 DEF PubackBack
  <2>2. HasFrame(back, "PUBACK", p)
    <3> HIDE DEF back
    <3> QED BY <2>1 DEF HasFrame, ToSet
  <2> QED BY <2>2
<1> QED BY <1>2, <1>3 DEF AliveInv

\* If the policy resends unacknowledged publishes (DataRecoveryPolicy of
\* eventloop.rs), a QoS 1 publish in inflight_publishes is never left without an
\* exchange that can complete it: on a live connection its PUBLISH is on its way to
\* the broker or its PUBACK on its way back, also after identifiers have repeated.
THEOREM ExchangesGoOn ==
  ASSUME ResendUnacked PROVE Spec => []ExchangeAlive
<1>1. Init => TypeOK /\ AliveInv
  BY InitType DEF Init, AliveInv, Driven
<1>2. TypeOK /\ AliveInv /\ [Next]_vars => TypeOK' /\ AliveInv'
  BY TypeStep, AliveStep
<1>3. TypeOK /\ AliveInv => ExchangeAlive
  BY AliveImplies
<1> QED BY <1>1, <1>2, <1>3, PTL DEF Spec

-----------------------------------------------------------------------------
(* Subscriptions.  Frames for a filter may still be on their way: inductive  *)
(* is that the last one of them says what active_subscriptions says, or that *)
(* there is none and the broker's filter is right, for the filters that can  *)
(* be installed.  After a reconnection this holds because the greeting       *)
(* leaves nothing on the wire, so that the recovery's SUBSCRIBE frames are   *)
(* the first and the last.                                                   *)

About(f, t)  == f.type \in {"SUBSCRIBE", "UNSUBSCRIBE"} /\ f.item = t
Silent(s, t) == \A i \in DOMAIN s : ~About(s[i], t)
LastSays(s, t, type) ==
  \E i \in DOMAIN s : About(s[i], t) /\ s[i].type = type /\ \A j \in DOMAIN s : j > i => ~About(s[j], t)

FrameFor(t) == IF t \in active THEN "SUBSCRIBE" ELSE "UNSUBSCRIBE"
AtBroker(t) == /\ t \in active \cap Installable => t \in brokerSubs
               /\ CleanSession /\ t \in brokerSubs => t \in active
Right(t)    == LastSays(c2s, t, FrameFor(t)) \/ (Silent(c2s, t) /\ AtBroker(t))
Connecting(frames) == \E i \in DOMAIN frames : frames[i].type = "CONNECT"

\* CONNECT is not yet answered, or it is and the wire to the broker is empty.
Greeting ==
  \/ c2s = <<Plain("CONNECT")>> /\ ~HasType(s2c, "CONNACK")
  \/ c2s = <<>> /\ (CleanSession => brokerSubs = {})
InstallInv ==
  /\ Driven => ~Connecting(c2s) /\ \A t \in Topics : Right(t)
  /\ phase = "handshake" => /\ conn \in {"up", "broken"}
                            /\ conn = "broken" => s2c = <<>>
                            /\ conn = "up" => Greeting

\* What taking the first frame off a sequence does.
LEMMA TailSays ==
  ASSUME NEW S, NEW s \in Seq(S), s # <<>>, NEW t, NEW type
  PROVE  /\ Silent(s, t) => Silent(Tail(s), t) /\ ~About(Head(s), t)
         /\ LastSays(s, t, type) =>
              \/ LastSays(Tail(s), t, type)
              \/ About(Head(s), t) /\ Head(s).type = type /\ Silent(Tail(s), t)
         /\ Connecting(Tail(s)) => Connecting(s)
<1>1. /\ Len(s) \in Nat \ {0} /\ DOMAIN s = 1..Len(s) /\ Head(s) = s[1]
      /\ DOMAIN Tail(s) = 1..(Len(s) - 1) /\ \A i \in 1..(Len(s) - 1) : Tail(s)[i] = s[i + 1]
  OBVIOUS
<1>2. \A i \in 1..(Len(s) - 1) : i + 1 \in 1..Len(s)
  BY <1>1
<1>3. Silent(s, t) => Silent(Tail(s), t) /\ ~About(Head(s), t)
  BY <1>1, <1>2 DEF Silent
<1>4. Connecting(Tail(s)) => Connecting(s)
  BY <1>1, <1>2 DEF Connecting
<1>5. ASSUME NEW i \in 1..Len(s), About(s[i], t), s[i].type = type,
             \A j \in 1..Len(s) : j > i => ~About(s[j], t)
      PROVE  \/ LastSays(Tail(s), t, type)
             \/ About(Head(s), t) /\ Head(s).type = type /\ Silent(Tail(s), t)
  <2>1. CASE i = 1
    <3>1. \A j \in 1..(Len(s) - 1) : j + 1 \in 1..Len(s) /\ j + 1 > 1
      BY <1>1
    <3> QED BY <1>1, <1>5, <2>1, <3>1 DEF Silent
  <2>2. CASE i # 1
    <3>1. i - 1 \in 1..(Len(s) - 1) /\ Tail(s)[i - 1] = s[i]
      BY <1>1, <2>2
    <3>2. \A j \in 1..(Len(s) - 1) : j > i - 1 => j + 1 \in 1..Len(s) /\ j + 1 > i
      BY <1>1
    <3>3. \A j \in 1..(Len(s) - 1) : j > i - 1 => ~About(Tail(s)[j], t)
      BY <1>1, <1>5, <3>2
    <3> QED BY <1>1, <1>5, <3>1, <3>3 DEF LastSays
  <2> QED BY <2>1, <2>2
<1>6. LastSays(s, t, type) => \E i \in 1..Len(s) :
        About(s[i], t) /\ s[i].type = type /\ \A j \in 1..Len(s) : j > i => ~About(s[j], t)
  BY <1>1 DEF LastSays
<1> QED BY <1>3, <1>4, <1>5, <1>6

\* What appending frames that say nothing about a filter does.
LEMMA ConcatSays ==
  ASSUME NEW S, NEW s \in Seq(S), NEW u \in Seq(S), NEW t, NEW type
  PROVE  /\ Silent(s, t) /\ Silent(u, t) => Silent(s \o u, t)
         /\ LastSays(s, t, type) /\ Silent(u, t) => LastSays(s \o u, t, type)
         /\ Connecting(s \o u) => Connecting(s) \/ Connecting(u)
<1> DEFINE b == s \o u
<1>1. /\ Len(s) \in Nat /\ Len(u) \in Nat
      /\ DOMAIN b = 1..(Len(s) + Len(u)) /\ DOMAIN s = 1..Len(s) /\ DOMAIN u = 1..Len(u)
      /\ \A i \in 1..(Len(s) + Len(u)) : b[i] = IF i <= Len(s) THEN s[i] ELSE u[i - Len(s)]
  OBVIOUS
<1> HIDE DEF b
<1>2. \A i \in 1..(Len(s) + Len(u)) :
        \/ i \in 1..Len(s) /\ b[i] = s[i]
        \/ i > Len(s) /\ i - Len(s) \in 1..Len(u) /\ b[i] = u[i - Len(s)]
  BY <1>1
<1>3. Silent(s, t) /\ Silent(u, t) => Silent(b, t)
  BY <1>1, <1>2 DEF Silent
<1>4. Connecting(b) => Connecting(s) \/ Connecting(u)
  BY <1>1, <1>2 DEF Connecting
<1>5. ASSUME LastSays(s, t, type), Silent(u, t) PROVE LastSays(b, t, type)
  <2>1. PICK i \in 1..Len(s) : About(s[i], t) /\ s[i].type = type /\ \A j \in 1..Len(s) : j > i => ~About(s[j], t)
    BY <1>1, <1>5 DEF LastSays
  <2>2. i \in 1..(Len(s) + Len(u)) /\ b[i] = s[i]
    BY <1>1
  <2>3. \A j \in 1..(Len(s) + Len(u)) : j > i => ~About(b[j], t)
    BY <1>1, <1>2, <1>5, <2>1 DEF Silent
  <2> QED BY <1>1, <2>1, <2>2, <2>3 DEF LastSays
<1> QED BY <1>3, <1>4, <1>5 DEF b

\* What appending a frame about a filter does.
LEMMA AppendSays ==
  ASSUME NEW S, NEW s \in Seq(S), NEW f \in S, NEW t, About(f, t)
  PROVE  LastSays(s \o <<f>>, t, f.type)
<1> DEFINE b == s \o <<f>>
<1>1. /\ Len(s) \in Nat /\ DOMAIN b = 1..(Len(s) + 1) /\ b[Len(s) + 1] = f
  OBVIOUS
<1> HIDE DEF b
<1>2. Len(s) + 1 \in DOMAIN b /\ \A j \in DOMAIN b : ~(j > Len(s) + 1)
  BY <1>1
<1>3. LastSays(b, t, f.type)
  BY <1>1, <1>2 DEF LastSays
<1> QED BY <1>3 DEF b

\* Frames about a filter that all say the same.
LEMMA AllSay ==
  ASSUME NEW S, NEW s \in Seq(S), NEW t, NEW type,
         \E i \in DOMAIN s : About(s[i], t),
         \A i \in DOMAIN s : About(s[i], t) => s[i].type = type
  PROVE  LastSays(s, t, type)
<1>1. Len(s) \in Nat /\ DOMAIN s = 1..Len(s)
  OBVIOUS
<1>2. PICK T : T = {i \in DOMAIN s : About(s[i], t)}
  OBVIOUS
<1>3. T \subseteq 0..Len(s) /\ T # {}
  BY <1>1, <1>2
<1>4. PICK g \in T : \A i \in T : i <= g
  BY <1>1, <1>3, GreatestExists
<1>5. g \in DOMAIN s /\ About(s[g], t) /\ \A j \in DOMAIN s : j > g => ~About(s[j], t)
  BY <1>1, <1>2, <1>4
<1> QED BY <1>5 DEF LastSays

\* A step after which there is no connection, or one given up, promises nothing.
LEMMA NoConnection ==
  ASSUME phase' \notin {"drive", "handshake"} PROVE InstallInv'
BY DEF InstallInv, Driven

LEMMA GivenUp ==
  ASSUME (\E res, queued, routed : DropConnection(res, queued, routed)) \/ AttemptFailed
  PROVE  InstallInv'
<1>1. phase' \in {"top", "stopped"}
  BY DEF DropConnection, AttemptFailed
<1> QED BY <1>1, NoConnection

\* A step that touches neither what is on its way to the broker nor a filter.
LEMMA SameWire ==
  ASSUME InstallInv, UNCHANGED <<phase, conn, c2s, active, brokerSubs>>,
         phase = "handshake" => /\ HasType(s2c, "CONNACK")' => HasType(s2c, "CONNACK")
                                /\ conn = "broken" => s2c' = s2c
  PROVE  InstallInv'
<1>1. \A t \in Topics : Right(t) => Right(t)'
  BY DEF Right, LastSays, Silent, FrameFor, AtBroker
<1>2. Connecting(c2s)' => Connecting(c2s)
  BY DEF Connecting
<1>3. phase = "handshake" /\ Greeting => Greeting'
  BY DEF Greeting
<1> QED BY <1>1, <1>2, <1>3 DEF InstallInv, Driven

\* A handler that writes frames that subscribe to nothing.
LEMMA QuietWrite ==
  ASSUME TypeOK, InstallInv, phase = "drive", UNCHANGED <<phase, conn, active, brokerSubs>>,
         NEW frames \in Seq(ClientFrames), WriteOk(frames),
         \A f \in ToSet(frames) : f.type \notin {"CONNECT", "SUBSCRIBE", "UNSUBSCRIBE"}
  PROVE  InstallInv'
<1> SUFFICES ASSUME Driven PROVE ~Connecting(c2s)' /\ \A t \in Topics : Right(t)'
  BY DEF InstallInv, Driven
<1> DEFINE b == c2s \o frames
<1>1. c2s \in Seq(ClientFrames) /\ c2s' = b
  BY DEF TypeOK, WireOK, WriteOk, Driven
<1>2. ~Connecting(frames) /\ \A t \in Topics : Silent(frames, t)
  BY DEF Connecting, Silent, About, ToSet
<1>3. ~Connecting(b)
  BY <1>1, <1>2, ConcatSays DEF InstallInv
<1>4. ASSUME NEW t \in Topics
      PROVE  /\ LastSays(c2s, t, FrameFor(t)) => LastSays(b, t, FrameFor(t))
             /\ Silent(c2s, t) => Silent(b, t)
  BY <1>1, <1>2, ConcatSays
<1> HIDE DEF b
<1>5. ASSUME NEW t \in Topics PROVE Right(t)'
  <2>1. LastSays(b, t, FrameFor(t)) \/ (Silent(b, t) /\ AtBroker(t))
    BY <1>4 DEF InstallInv, Right
  <2>2. FrameFor(t)' = FrameFor(t) /\ (AtBroker(t) => AtBroker(t)')
    BY DEF FrameFor, AtBroker
  <2> QED BY <1>1, <2>1, <2>2 DEF Right, LastSays, Silent
<1> QED BY <1>1, <1>3, <1>5 DEF Connecting


\* The recovery writes its frames on an empty wire, a SUBSCRIBE for every filter that
\* it can encode.
LEMMA HandshakeOkInstalls ==
  ASSUME AutoResubscribe, TypeOK, InstallInv, NEW k \in 1..Len(s2c), HandshakeOk(k)
  PROVE  InstallInv'
<1>1. phase' = "drive" /\ UNCHANGED <<active, brokerSubs>>
  BY DEF HandshakeOk, tableVars, brokerVars
<1> SUFFICES ASSUME Driven' PROVE ~Connecting(c2s)' /\ \A t \in Topics : Right(t)'
  BY <1>1 DEF InstallInv
<1>2. PICK pids \in SetToSeqs(Resendable), topics \in SetToSeqs(Resubscribable \ SubTooLong),
           place \in Places(Cardinality(Resubscribable \ SubTooLong), Cardinality(Resubscribable)) :
        WriteOk(Resends(pids) \o Resubscribes(topics, place)) /\ conn = "up"
  BY DEF HandshakeOk, Driven
<1>3. topics \in Seq(active \ SubTooLong)
  BY ResendableType, SetToSeqsType DEF Resubscribable
<1>5. Resends(pids) \in Seq(ClientFrames) /\ Resubscribes(topics, place) \in Seq(ClientFrames)
  BY RecoveryType
<1>6. c2s = <<>> /\ (CleanSession => brokerSubs = {})
  <2>1. phase = "handshake" /\ HasType(s2c, "CONNACK")
    BY DEF HandshakeOk, HasType, TypeOK, WireOK
  <2> QED BY <1>2, <2>1 DEF InstallInv, Greeting
<1> DEFINE A == Resends(pids)
           B == Resubscribes(topics, place)
           b == A \o B
<1>7. b \in Seq(ClientFrames) /\ ToSet(b) = ToSet(A) \cup ToSet(B)
  <2>1. A \in Seq(ClientFrames) /\ B \in Seq(ClientFrames)
    BY <1>5
  <2> HIDE DEF A, B
  <2>2. b \in Seq(ClientFrames)
    BY <2>1
  <2>3. ToSet(b) = ToSet(A) \cup ToSet(B)
    BY <2>1, FramesConcat, Zenon
  <2> QED BY <2>2, <2>3
<1>8. c2s' = b
  <2> HIDE DEF A, B
  <2>1. \A s \in Seq(ClientFrames) : <<>> \o s = s
    OBVIOUS
  <2> HIDE DEF b
  <2>2. <<>> \o b = b
    BY <1>7, <2>1
  <2> QED BY <1>2, <1>6, <2>2 DEF WriteOk, b, A, B
<1>9. /\ \A f \in ToSet(A) : f.type = "PUBLISH"
      /\ \A f \in ToSet(B) : f.type = "SUBSCRIBE" /\ f.item \in active \ SubTooLong
  BY <1>3 DEF Resends, Resubscribes, Frame, ToSet
<1>10. ASSUME NEW t \in active \ SubTooLong PROVE \E f \in ToSet(B) : About(f, t)
  <2>1. PICK i \in DOMAIN topics : topics[i] = t
    BY ResendableType, SetToSeqsAll DEF Resubscribable
  <2>2. B[i].type = "SUBSCRIBE" /\ B[i].item = t /\ i \in DOMAIN B
    BY <2>1 DEF Resubscribes, Frame
  <2> QED BY <2>2 DEF About, ToSet
<1> HIDE DEF A, B, b
<1>11. ~Connecting(b)
  <2>1. \A i \in DOMAIN b : b[i] \in ToSet(b)
    BY DEF ToSet
  <2> QED BY <1>7, <1>9, <2>1 DEF Connecting
<1>12. ASSUME NEW t \in Topics PROVE Right(t)'
  <2>1. \A i \in DOMAIN b : b[i].type = "PUBLISH" \/ (b[i].type = "SUBSCRIBE" /\ b[i].item \in active \ SubTooLong)
    BY <1>7, <1>9 DEF ToSet
  <2>2. CASE t \in active \ SubTooLong
    <3>1. \E i \in DOMAIN b : About(b[i], t)
      BY <1>7, <1>10, <2>2 DEF ToSet
    <3>2. \A i \in DOMAIN b : About(b[i], t) => b[i].type = "SUBSCRIBE"
      BY <2>1 DEF About
    <3>3. LastSays(b, t, "SUBSCRIBE")
      BY <1>7, <3>1, <3>2, AllSay
    <3> QED BY <1>1, <1>8, <2>2, <3>3 DEF Right, LastSays, FrameFor
  <2>3. CASE t \notin active \ SubTooLong
    <3>1. Silent(b, t)
      BY <2>1, <2>3 DEF Silent, About
    <3> QED BY <1>1, <1>6, <1>8, <2>3, <3>1 DEF Right, Silent, AtBroker, Installable
  <2> QED BY <2>2, <2>3
<1> QED BY <1>8, <1>11, <1>12 DEF Connecting

LEMMA ConnectStepInstalls ==
  ASSUME AutoResubscribe, TypeOK, InstallInv, ConnectStep PROVE InstallInv'
<1>1. CASE StartAttempt \/ Wake
  BY <1>1, NoConnection DEF StartAttempt, Wake
<1>2. CASE DialFails \/ HandshakeFails
  BY <1>2, GivenUp DEF DialFails, HandshakeFails
<1>3. CASE Dial
  BY <1>3 DEF Dial, InstallInv, Driven, Greeting, HasType
<1> QED BY <1>1, <1>2, <1>3, HandshakeOkInstalls DEF ConnectStep

LEMMA ReadStepInstalls ==
  ASSUME TypeOK, InstallInv, ReadStep PROVE InstallInv'
<1>1. CASE ReadUndecodable \/ ReadClosed \/ HandleFails
  BY <1>1, GivenUp DEF ReadUndecodable, ReadClosed, HandleFails
<1>2. CASE HandleAnswer \/ \E k \in 1..Len(s2c) : Read(k)
  <2>1. phase = "drive" /\ UNCHANGED <<phase, conn, c2s, active, brokerSubs>>
    BY <1>2 DEF HandleAnswer, Read, Driving, loopVars, tableVars, brokerVars
  <2> QED BY <2>1, SameWire
<1>3. CASE HandlePublish
  <2>1. phase = "drive" /\ UNCHANGED <<phase, conn, active, brokerSubs>>
    BY <1>3 DEF HandlePublish, loopVars, brokerVars
  <2>2. WriteOk(Acks(Head(rx))) /\ Acks(Head(rx)) \in Seq(ClientFrames)
    BY <1>3, AcksSeq DEF HandlePublish
  <2>3. \A f \in ToSet(Acks(Head(rx))) : f.type = "PUBACK"
    BY ShortSet DEF Acks, Frame
  <2> QED BY <2>1, <2>2, <2>3, QuietWrite
<1> QED BY <1>1, <1>2, <1>3 DEF ReadStep

\* A request for a filter is written behind all others, in the step that records it.
LEMMA SubscribeInstalls ==
  ASSUME TypeOK, InstallInv, NEW c \in Calls, Subscribe(c) \/ Unsubscribe(c) PROVE InstallInv'
<1> DEFINE topic == Request[c].topic
           Written(type) == /\ WriteOk(<<Frame(type, nextPid, topic, FALSE)>>)
                            /\ UNCHANGED <<phase, conn>>
<1>1. \/ \E res, queued, routed : DropConnection(res, queued, routed)
      \/ Subscribe(c) /\ Written("SUBSCRIBE")
      \/ Unsubscribe(c) /\ Written("UNSUBSCRIBE")
  <2>1. CASE Subscribe(c)
    BY <2>1 DEF Subscribe, KeepDriving
  <2>2. CASE Unsubscribe(c)
    BY <2>2 DEF Unsubscribe, KeepDriving
  <2> QED BY <2>1, <2>2
<1>2. brokerSubs' = brokerSubs /\ topic \in Topics
  BY EventLoopAssumption DEF Subscribe, Unsubscribe, brokerVars
<1>3. ASSUME NEW type \in {"SUBSCRIBE", "UNSUBSCRIBE"}, Written(type),
             \A t \in Topics : FrameFor(t)' = IF t = topic THEN type ELSE FrameFor(t),
             \A t \in Topics \ {topic} : t \in active' <=> t \in active
      PROVE  InstallInv'
  <2> SUFFICES ASSUME Driven PROVE ~Connecting(c2s)' /\ \A t \in Topics : Right(t)'
    <3>1. phase = "drive"
      BY DEF Subscribe, Unsubscribe, Taking, Driving
    <3> QED BY <1>3, <3>1 DEF InstallInv, Driven
  <2>1. PICK f : f = Frame(type, nextPid, topic, FALSE)
    OBVIOUS
  <2>2. f \in ClientFrames /\ f.type = type /\ f.item = topic
    BY <1>2, <2>1 DEF Frame, ClientFrames, FrameSet, TypeOK, LoopOK
  <2>3. <<f>> \in Seq(ClientFrames) /\ c2s \in Seq(ClientFrames)
    BY <2>2 DEF TypeOK, WireOK
  <2> DEFINE b == c2s \o <<f>>
  <2>4. c2s' = b
    BY <1>3, <2>1 DEF WriteOk, Driven
  <2>5. ~Connecting(b)
    <3>1. ~Connecting(<<f>>)
      BY <2>2 DEF Connecting
    <3> QED BY <2>3, <3>1, ConcatSays DEF InstallInv
  <2>6. LastSays(b, topic, type)
    BY <2>2, <2>3, AppendSays DEF About
  <2>7. ASSUME NEW t \in Topics, t # topic
        PROVE  /\ LastSays(c2s, t, FrameFor(t)) => LastSays(b, t, FrameFor(t))
               /\ Silent(c2s, t) => Silent(b, t)
    <3>1. Silent(<<f>>, t)
      BY <2>2, <2>7 DEF Silent, About
    <3> QED BY <2>3, <3>1, ConcatSays
  <2> HIDE DEF b
  <2>8. ASSUME NEW t \in Topics PROVE Right(t)'
    <3>1. CASE t = topic
      <4>1. FrameFor(t)' = type
        BY <1>3, <3>1
      <4> QED BY <2>4, <2>6, <3>1, <4>1 DEF Right, LastSays
    <3>2. CASE t # topic
      <4>1. FrameFor(t)' = FrameFor(t) /\ (AtBroker(t) => AtBroker(t)')
        BY <1>2, <1>3, <3>2 DEF AtBroker
      <4>2. LastSays(b, t, FrameFor(t)) \/ (Silent(b, t) /\ AtBroker(t))
        BY <2>7, <3>2 DEF InstallInv, Right
      <4> QED BY <2>4, <4>1, <4>2 DEF Right, LastSays, Silent
    <3> QED BY <3>1, <3>2
  <2> QED BY <2>4, <2>5, <2>8 DEF Connecting
<1>4. CASE \E res, queued, routed : DropConnection(res, queued, routed)
  BY <1>4, GivenUp
<1>5. CASE Subscribe(c) /\ Written("SUBSCRIBE")
  <2>1. active' = active \cup {topic}
    BY <1>5 DEF Subscribe
  <2> HIDE DEF topic
  <2> QED BY <1>3, <1>5, <2>1 DEF FrameFor
<1>6. CASE Unsubscribe(c) /\ Written("UNSUBSCRIBE")
  <2>1. active' = active \ {topic}
    BY <1>6 DEF Unsubscribe
  <2> HIDE DEF topic
  <2> QED BY <1>3, <1>6, <2>1 DEF FrameFor
<1> QED BY <1>1, <1>4, <1>5, <1>6


\* A publish, alone or in a batch, says nothing about a filter.
LEMMA PublishInstalls ==
  ASSUME TypeOK, InstallInv, NEW c \in Calls, Publish(c) \/ PublishBatch(c) PROVE InstallInv'
<1> DEFINE Written == /\ \E frames \in Seq(ClientFrames) : /\ WriteOk(frames)
                                                           /\ \A f \in ToSet(frames) : f.type = "PUBLISH"
                      /\ UNCHANGED <<phase, conn>>
<1>1. phase = "drive" /\ UNCHANGED <<active, brokerSubs>>
  BY DEF Publish, PublishBatch, Taking, Driving, brokerVars
<1>2. CASE \E res, queued, routed : DropConnection(res, queued, routed)
  BY <1>2, GivenUp
<1>3. CASE Written
  BY <1>1, <1>3, QuietWrite
<1>4. CASE Publish(c)
  <2>1. PICK f : f = Frame("PUBLISH", IF QoSOf[Request[c].msgs[1]] = 0 THEN 0 ELSE nextPid, Request[c].msgs[1], FALSE)
    OBVIOUS
  <2>2. \/ \E res, queued, routed : DropConnection(res, queued, routed)
        \/ WriteOk(<<f>>) /\ \E res : KeepDriving(res, Tail(reqs), router)
    BY <1>4, <2>1 DEF Publish
  <2>3. f \in ClientFrames /\ f.type = "PUBLISH"
    <3>1. Request[c].msgs[1] \in Msgs
      BY <1>4, EventLoopAssumption DEF Publish
    <3> QED BY <2>1, <3>1, EventLoopAssumption DEF Frame, ClientFrames, FrameSet, Pids, TypeOK, LoopOK
  <2>4. <<f>> \in Seq(ClientFrames) /\ ToSet(<<f>>) = {f}
    BY <2>3, ShortIsSeq, ShortSet
  <2> QED BY <1>2, <1>3, <2>2, <2>3, <2>4 DEF KeepDriving
<1>5. CASE PublishBatch(c)
  <2>1. PICK ms : ms = Request[c].msgs
    OBVIOUS
  <2>2. ms \in Seq(Msgs) /\ Len(ms) \in 0..Len(ms)
    BY <1>5, <2>1, EventLoopAssumption DEF PublishBatch
  <2>3. \/ \E res, queued, routed : DropConnection(res, queued, routed)
        \/ WriteOk(BatchFrames(ms, Len(ms))) /\ \E res : KeepDriving(res, Tail(reqs), router)
    BY <1>5, <2>1 DEF PublishBatch
  <2>4. BatchFrames(ms, Len(ms)) \in Seq(ClientFrames)
    BY <2>2, BatchFramesType
  <2>5. \A f \in ToSet(BatchFrames(ms, Len(ms))) : f.type = "PUBLISH"
    <3>1. \A f \in ToSet(BatchFrames(ms, Len(ms))) : \E j \in 1..Len(ms) :
            f = Frame("PUBLISH", IF QoSOf[ms[j]] = 0 THEN 0 ELSE BatchPid(ms, j), ms[j], FALSE)
      BY <2>2, BatchFramesItems
    <3> QED BY <3>1 DEF Frame
  <2> QED BY <1>2, <1>3, <2>3, <2>4, <2>5 DEF KeepDriving
<1> QED BY <1>4, <1>5

LEMMA RequestStepInstalls ==
  ASSUME TypeOK, InstallInv, RequestStep \/ PingTick PROVE InstallInv'
<1>1. ASSUME NEW type \in {"PINGREQ", "DISCONNECT"}
      PROVE  /\ <<Plain(type)>> \in Seq(ClientFrames)
             /\ \A f \in ToSet(<<Plain(type)>>) : f.type \notin {"CONNECT", "SUBSCRIBE", "UNSUBSCRIBE"}
  <2>1. Plain(type) \in ClientFrames
    BY PlainType
  <2> QED BY <2>1, ShortIsSeq, ShortSet DEF Plain, Frame
<1>2. ASSUME NEW c \in Calls, Disconnect(c) PROVE InstallInv'
  BY <1>2, NoConnection DEF Disconnect
<1>3. ASSUME NEW c \in Calls, PublishDatagram(c) PROVE InstallInv'
  <2>1. \/ \E res, queued, routed : DropConnection(res, queued, routed)
        \/ UNCHANGED <<phase, conn>>
    BY <1>3 DEF PublishDatagram, KeepDriving
  <2>2. phase = "drive" /\ UNCHANGED <<c2s, active, brokerSubs>>
    BY <1>3 DEF PublishDatagram, Taking, Driving
  <2> QED BY <2>1, <2>2, GivenUp, SameWire
<1>4. CASE HandlesGone
  <2>1. phase = "drive" /\ UNCHANGED <<phase, conn, active, brokerSubs>>
    BY <1>4 DEF HandlesGone, Driving, tableVars, brokerVars
  <2>2. c2s' = c2s \/ WriteOk(<<Plain("DISCONNECT")>>)
    <3>1. Append(c2s, Plain("DISCONNECT")) = c2s \o <<Plain("DISCONNECT")>>
      BY DEF TypeOK, WireOK
    <3> QED BY <1>4, <3>1 DEF HandlesGone, WriteOk, tableVars
  <2> QED BY <1>1, <2>1, <2>2, SameWire, QuietWrite
<1>5. CASE PingTick
  <2>1. phase = "drive" /\ UNCHANGED <<active, brokerSubs>>
    BY <1>5 DEF PingTick, Driving, brokerVars
  <2>2. \/ DropConnection(result, reqs, router)
        \/ WriteOk(<<Plain("PINGREQ")>>) /\ UNCHANGED <<phase, conn>>
    BY <1>5 DEF PingTick, KeepDriving
  <2> QED BY <1>1, <2>1, <2>2, GivenUp, QuietWrite
<1> QED BY <1>2, <1>3, <1>4, <1>5, SubscribeInstalls, PublishInstalls DEF RequestStep

\* What the broker takes off the wire it does: the last frame decides.
LEMMA BrokerRecvInstalls ==
  ASSUME TypeOK, InstallInv, BrokerRecv PROVE InstallInv'
<1> DEFINE f == Head(c2s)
<1>1. /\ UNCHANGED <<phase, conn, active>> /\ c2s # <<>> /\ c2s' = Tail(c2s)
      /\ f.type # "CONNECT" /\ Send(Reply(f))
      /\ brokerSubs' = CASE f.type = "SUBSCRIBE" -> brokerSubs \cup ({f.item} \ Refused)
                         [] f.type = "UNSUBSCRIBE" -> brokerSubs \ {f.item}
                         [] OTHER -> brokerSubs
  BY DEF BrokerRecv, loopVars, tableVars
<1>2. c2s \in Seq(ClientFrames)
  BY DEF TypeOK, WireOK
<1>3. CASE phase = "handshake"
  <2>1. ~Greeting
    BY <1>1 DEF Greeting, Plain, Frame
  <2> QED BY <1>1, <1>3, <2>1 DEF InstallInv, Driven, Send
<1>4. CASE Driven
  <2>1. ~Connecting(c2s)'
    <3>1. ~Connecting(Tail(c2s))
      BY <1>1, <1>2, <1>4, TailSays DEF InstallInv
    <3> QED BY <1>1, <3>1 DEF Connecting
  <2>2. ASSUME NEW t \in Topics PROVE Right(t)'
    <3>1. /\ Silent(c2s, t) => Silent(Tail(c2s), t) /\ ~About(f, t)
          /\ LastSays(c2s, t, FrameFor(t)) =>
               \/ LastSays(Tail(c2s), t, FrameFor(t))
               \/ About(f, t) /\ f.type = FrameFor(t) /\ Silent(Tail(c2s), t)
      BY <1>1, <1>2, TailSays
    <3> HIDE DEF f
    <3>2. FrameFor(t)' = FrameFor(t)
      BY <1>1 DEF FrameFor
    <3>3. ~About(f, t) /\ AtBroker(t) => AtBroker(t)'
      BY <1>1 DEF About, AtBroker
    <3>4. About(f, t) /\ f.type = FrameFor(t) => AtBroker(t)'
      <4>1. CASE t \in active
        BY <1>1, <4>1 DEF About, AtBroker, FrameFor, Installable
      <4>2. CASE t \notin active
        BY <1>1, <4>2 DEF About, AtBroker, FrameFor
      <4> QED BY <4>1, <4>2
    <3>5. LastSays(Tail(c2s), t, FrameFor(t)) \/ (Silent(Tail(c2s), t) /\ AtBroker(t)')
      BY <1>4, <3>1, <3>3, <3>4 DEF InstallInv, Right
    <3> QED BY <1>1, <3>2, <3>5 DEF Right, LastSays, Silent
  <2> QED BY <1>1, <1>4, <2>1, <2>2 DEF InstallInv, Driven
<1>5. CASE phase # "handshake" /\ ~Driven
  BY <1>1, <1>5 DEF InstallInv, Driven
<1> QED BY <1>3, <1>4, <1>5


\* A frame of the broker other than CONNACK greets nobody.
LEMMA SendGreetsNot ==
  ASSUME TypeOK, NEW f \in BrokerFrames, Send(<<f>>), f.type # "CONNACK"
  PROVE  HasType(s2c, "CONNACK")' => HasType(s2c, "CONNACK")
<1>1. ToSet(s2c') \subseteq ToSet(s2c) \cup {f}
  BY SendSet
<1> QED BY <1>1 DEF HasType, ToSet

\* Accepting CONNECT empties the wire, and with a clean session the filters.
LEMMA BrokerConnectInstalls ==
  ASSUME TypeOK, InstallInv, BrokerConnect PROVE InstallInv'
<1>1. /\ UNCHANGED <<phase, conn>> /\ c2s # <<>> /\ c2s' = Tail(c2s) /\ Head(c2s).type = "CONNECT"
      /\ brokerSubs' = IF CleanSession THEN {} ELSE brokerSubs
      /\ Send(<<Plain("CONNACK")>>)
  BY DEF BrokerConnect, loopVars
<1>2. ~Driven
  <2>1. Connecting(c2s)
    BY <1>1 DEF Connecting, TypeOK, WireOK
  <2> QED BY <2>1 DEF InstallInv
<1>3. ASSUME phase = "handshake", conn = "up" PROVE Greeting'
  <2>1. c2s = <<Plain("CONNECT")>>
    BY <1>1, <1>3 DEF InstallInv, Greeting
  <2>2. c2s' = <<>>
    BY <1>1, <2>1
  <2> QED BY <1>1, <2>2 DEF Greeting
<1> QED BY <1>1, <1>2, <1>3 DEF InstallInv, Driven, Send

LEMMA OtherStepInstalls ==
  ASSUME TypeOK, InstallInv, CallerStep \/ BrokerClose \/ NetworkStep \/ UNCHANGED vars
  PROVE  InstallInv'
<1> SUFFICES ASSUME ~DropLoop PROVE InstallInv'
  BY NoConnection DEF DropLoop
<1>1. CASE CallerStep \/ UNCHANGED vars
  <2>1. UNCHANGED <<phase, conn, c2s, s2c, active, brokerSubs>>
    BY <1>1 DEF CallerStep, Call, DropHandles, StreamRecv, StreamDrop, vars, tableVars, loopVars, netVars,
                brokerVars
  <2> QED BY <2>1, SameWire DEF HasType
<1>2. CASE BrokerClose \/ Break
  BY <1>2 DEF BrokerClose, Break, loopVars, InstallInv, Driven
<1>3. ASSUME NEW f \in BrokerFrames, Send(<<f>>), f.type # "CONNACK", conn = "up",
             UNCHANGED <<phase, conn, c2s, active, brokerSubs>>
      PROVE  InstallInv'
  BY <1>3, SendGreetsNot, SameWire
<1>4. ASSUME NEW i \in InMsgs, BrokerPublish(i) PROVE InstallInv'
  <2>1. Frame("PUBLISH", 0, i, FALSE) \in BrokerFrames /\ Frame("PUBLISH", 0, i, FALSE).type # "CONNACK"
    BY BrokerFrameType DEF Frame
  <2> QED BY <1>3, <1>4, <2>1 DEF BrokerPublish, tableVars, loopVars
<1>5. ASSUME NEW t \in {"DISCONNECT", "UNDECODABLE"}, BrokerFault(t) PROVE InstallInv'
  <2>1. Plain(t) \in BrokerFrames /\ Plain(t).type # "CONNACK"
    BY BrokerFrameType DEF Plain, Frame
  <2> QED BY <1>3, <1>5, <2>1 DEF BrokerFault, tableVars, loopVars, brokerVars
<1> QED BY <1>1, <1>2, <1>4, <1>5 DEF NetworkStep

\* Every step keeps InstallInv when the recovery resubscribes.
LEMMA InstallStep ==
  ASSUME AutoResubscribe, TypeOK, InstallInv, [Next]_vars
  PROVE  InstallInv'
BY ConnectStepInstalls, ReadStepInstalls, RequestStepInstalls, BrokerConnectInstalls,
   BrokerRecvInstalls, OtherStepInstalls
   DEF Next, BrokerStep

LEMMA InstallImplies ==
  ASSUME TypeOK, InstallInv PROVE SubscriptionsInstalled
<1> SUFFICES ASSUME Driven, ~HasType(c2s, "SUBSCRIBE"), ~HasType(c2s, "UNSUBSCRIBE")
             PROVE  /\ active \cap Installable \subseteq brokerSubs
                    /\ CleanSession => brokerSubs \subseteq active
  BY DEF SubscriptionsInstalled, Driven
<1>1. active \subseteq Topics /\ brokerSubs \subseteq Topics
  BY DEF TypeOK, LoopOK, WireOK
<1>2. \A t \in Topics : ~LastSays(c2s, t, FrameFor(t))
  BY DEF LastSays, About, HasType
<1>3. \A t \in Topics : AtBroker(t)
  BY <1>2 DEF InstallInv, Right
<1> QED BY <1>1, <1>3 DEF AtBroker

\* If the policy resubscribes (DataRecoveryPolicy of eventloop.rs), then on a live
\* connection with no SUBSCRIBE or UNSUBSCRIBE on its way the broker has every filter
\* of active_subscriptions that can be encoded and is not refused, and with a clean
\* session none that is not there, whatever requests, errors, losses and reconnections
\* went before.
THEOREM SubscriptionsAreInstalled ==
  ASSUME AutoResubscribe PROVE Spec => []SubscriptionsInstalled
<1>1. Init => TypeOK /\ InstallInv
  BY InitType DEF Init, InstallInv, Driven
<1>2. TypeOK /\ InstallInv /\ [Next]_vars => TypeOK' /\ InstallInv'
  BY TypeStep, InstallStep
<1>3. TypeOK /\ InstallInv => SubscriptionsInstalled
  BY InstallImplies
<1> QED BY <1>1, <1>2, <1>3, PTL DEF Spec

===============================================================================
