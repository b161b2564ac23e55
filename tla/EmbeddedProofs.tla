----------------------------- MODULE EmbeddedProofs ----------------------------
(***************************************************************************)
(* Four theorems about the embedded client, for every table size, read     *)
(* size and number of messages and faults.                                 *)
(*                                                                         *)
(* What it tells the broker is received, its application has been given,   *)
(* when the application uses poll and the broker keeps the session.  The   *)
(* property speaks of the broker's side only.  Inductive is that it also   *)
(* holds of every acknowledgement on its way to the broker and of every    *)
(* PUBREL on its way back.                                                 *)
(*                                                                         *)
(* Its variables keep their types, the bound of the in-flight table        *)
(* included, whatever the application calls.                               *)
(*                                                                         *)
(* And as long as no call tracks a message it does not send, every entry   *)
(* of the table belongs to an exchange of the present link, and that       *)
(* exchange goes on.                                                       *)
(***************************************************************************)
EXTENDS EmbeddedClient, FiniteSetTheorems, OrderLemmas

Acks == {"PUBACK", "PUBREC", "PUBCOMP"}
FrameTypes == Acks \cup {"CONNECT", "CONNACK", "PUBLISH", "PUBREL", "SUBSCRIBE", "SUBACK",
                         "PINGREQ", "PINGRESP", "DISCONNECT"}
PacketFrame == [type : FrameTypes, pid : Nat, item : OutMsgs \cup InMsgs \cup {Nothing}]

FramesOK == c2s \in Seq(PacketFrame) /\ s2c \in Seq(PacketFrame) /\ rx \in Seq(PacketFrame)

\* poll handles one frame, and it is alone in its read.
OnePerRead == events = <<>> /\ (rx # <<>> => call = "poll" /\ Len(rx) = 1)

AckInv ==
  /\ FramesOK /\ OnePerRead /\ nextPid \in Nat /\ DOMAIN inbox = InMsgs
  /\ \A f \in ToSet(c2s) : f.type \in Acks => f.item \in delivered
  /\ \A f \in ToSet(s2c) \cup ToSet(rx) : f.type = "PUBREL" => f.item \in delivered
  /\ AckedIsDelivered

-------------------------------------------------------------------------------
(* Sequences of frames. *)

LEMMA Append1 ==
  ASSUME NEW S, NEW s \in Seq(S), NEW x \in S
  PROVE s \o <<x>> \in Seq(S) /\ ToSet(s \o <<x>>) = ToSet(s) \cup {x}
<1> DEFINE t == <<x>>
<1>1. t \in Seq(S) /\ ToSet(t) = {x}
  BY ShortSet, ShortIsSeq
<1> HIDE DEF t
<1>2. s \o t \in Seq(S) /\ ToSet(s \o t) = ToSet(s) \cup ToSet(t)
  BY <1>1, ConcatSet
<1> QED BY <1>1, <1>2 DEF t

LEMMA TailOfOne ==
  ASSUME NEW S, NEW s \in Seq(S), Len(s) = 1
  PROVE Tail(s) = <<>>
<1>1. s = <<s[1]>>
  OBVIOUS
<1>2. Tail(<<s[1]>>) = <<>>
  OBVIOUS
<1> QED BY <1>1, <1>2

LEMMA PlainFrame ==
  ASSUME NEW type \in FrameTypes, NEW pid \in Nat
  PROVE /\ Plain(type, pid) \in PacketFrame /\ Plain(type, pid).type = type
BY DEF Plain, Frame, PacketFrame, Nothing

\* What a send leaves on its way to the broker: frames that were there, or of those
\* that are sent; nothing of a single frame whose send fails.
LEMMA Sent ==
  ASSUME FramesOK, NEW frames \in Seq(PacketFrame), SendOk(frames) \/ SendFails(frames)
  PROVE /\ c2s' \in Seq(PacketFrame) /\ ToSet(c2s') \subseteq ToSet(c2s) \cup ToSet(frames)
        /\ s2c' \in Seq(PacketFrame) /\ ToSet(s2c') \subseteq ToSet(s2c)
<1> USE DEF FramesOK
<1>1. CASE SendOk(frames)
  <2>1. c2s \o frames \in Seq(PacketFrame) /\ ToSet(c2s \o frames) = ToSet(c2s) \cup ToSet(frames)
    BY ConcatSet
  <2>2. c2s' = c2s \o frames \/ c2s' = c2s
    BY <1>1 DEF SendOk
  <2>3. s2c' = s2c
    BY <1>1 DEF SendOk
  <2> HIDE DEF FramesOK
  <2>4. CASE c2s' = c2s \o frames
    BY <2>1, <2>3, <2>4 DEF FramesOK
  <2>5. CASE c2s' = c2s
    BY <2>3, <2>5 DEF FramesOK
  <2> QED BY <2>2, <2>4, <2>5
<1>2. CASE SendFails(frames)
  <2>1. PICK n \in 0..(Len(frames) - 1) :
          c2s' = IF link = "up" THEN c2s \o SubSeq(frames, 1, n) ELSE c2s
    BY <1>2 DEF SendFails
  <2> DEFINE part == SubSeq(frames, 1, n)
  <2>2. part \in Seq(PacketFrame) /\ ToSet(part) \subseteq ToSet(frames)
    BY SubSeqSet
  <2> HIDE DEF part
  <2>3. c2s \o part \in Seq(PacketFrame) /\ ToSet(c2s \o part) = ToSet(c2s) \cup ToSet(part)
    BY <2>2, ConcatSet
  <2>4. c2s' = c2s \o part \/ c2s' = c2s
    BY <2>1 DEF part
  <2>5. s2c' = <<>>
    BY <1>2 DEF SendFails
  <2>6. s2c' \in Seq(PacketFrame) /\ ToSet(s2c') = {}
    BY <2>5, ShortSet
  <2>7. CASE c2s' = c2s \o part
    BY <2>2, <2>3, <2>6, <2>7
  <2>8. CASE c2s' = c2s
    BY <2>6, <2>8
  <2> QED BY <2>4, <2>7, <2>8
<1> QED BY <1>1, <1>2

LEMMA FailsAlone ==
  ASSUME FramesOK, NEW f \in PacketFrame, SendFails(<<f>>)
  PROVE c2s' = c2s /\ s2c' = <<>>
<1>1. PICK n \in 0..(Len(<<f>>) - 1) :
        c2s' = IF link = "up" THEN c2s \o SubSeq(<<f>>, 1, n) ELSE c2s
  BY DEF SendFails
<1>2. n = 0 /\ SubSeq(<<f>>, 1, 0) = <<>>
  OBVIOUS
<1>3. c2s \o <<>> = c2s
  BY DEF FramesOK
<1> QED BY <1>1, <1>2, <1>3 DEF SendFails

-------------------------------------------------------------------------------
(* Steps that neither acknowledge anything nor hand anything over. *)

LEMMA QuietKeeps ==
  ASSUME AckInv, UNCHANGED <<callVars, inbox>>, nextPid' \in Nat,
         c2s' \in Seq(PacketFrame), s2c' \in Seq(PacketFrame),
         \A f \in ToSet(c2s') \ ToSet(c2s) : f.type \notin Acks,
         \A f \in ToSet(s2c') \ ToSet(s2c) : f.type = "PUBREL" => f.item \in delivered
  PROVE AckInv'
<1>1. FramesOK' /\ OnePerRead'
  BY DEF AckInv, FramesOK, OnePerRead, callVars
<1>2. \A f \in ToSet(c2s)' : f.type \in Acks => f.item \in delivered'
  BY DEF AckInv, callVars, ToSet
<1>3. \A f \in ToSet(s2c)' \cup ToSet(rx)' : f.type = "PUBREL" => f.item \in delivered'
  BY DEF AckInv, callVars, ToSet
<1>4. AckedIsDelivered' /\ DOMAIN inbox' = InMsgs
  BY DEF AckInv, callVars, AckedIsDelivered
<1> QED BY <1>1, <1>2, <1>3, <1>4 DEF AckInv

\* A call that sends frames of its own.
LEMMA SendKeeps ==
  ASSUME AckInv, NEW frames \in Seq(PacketFrame), SendOk(frames) \/ SendFails(frames),
         \A f \in ToSet(frames) : f.type \notin Acks,
         UNCHANGED <<callVars, inbox>>, nextPid' \in Nat
  PROVE AckInv'
<1>1. FramesOK
  BY DEF AckInv
<1>2. /\ c2s' \in Seq(PacketFrame) /\ ToSet(c2s') \subseteq ToSet(c2s) \cup ToSet(frames)
      /\ s2c' \in Seq(PacketFrame) /\ ToSet(s2c') \subseteq ToSet(s2c)
  BY <1>1, Sent
<1> QED BY <1>2, QuietKeeps

LEMMA CountType ==
  ASSUME NEW ms, NEW n \in Nat PROVE Cardinality(QoS12(ms, n)) \in Nat
<1>1. IsFiniteSet(1..n)
  BY FS_Interval
<1>2. IsFiniteSet(QoS12(ms, n))
  BY <1>1, FS_Subset DEF QoS12
<1> QED BY <1>2, FS_CardinalityType

LEMMA BatchEnds ==
  ASSUME NEW ms \in Batches
  PROVE ms \in Seq(OutMsgs) /\ BatchEnd(ms) \in 1..(Len(ms) + 1)
<1>1. ms \in Seq(OutMsgs)
  BY EmbeddedAssumption
<1>2. Stops(ms) \subseteq 1..Len(ms)
  BY <1>1 DEF Stops
<1>3. CASE Stops(ms) # {}
  <2>1. \E j \in Stops(ms) : \A i \in Stops(ms) : j <= i
    BY <1>1, <1>2, <1>3, SmallestExists
  <2>2. BatchEnd(ms) \in Stops(ms)
    BY <1>3, <2>1 DEF BatchEnd
  <2> QED BY <1>1, <1>2, <2>2
<1> QED BY <1>1, <1>3 DEF BatchEnd

LEMMA BatchFrameTypes ==
  ASSUME nextPid \in Nat, NEW ms \in Seq(OutMsgs), NEW n \in 0..Len(ms)
  PROVE /\ BatchFrames(ms, n) \in Seq(PacketFrame)
        /\ \A f \in ToSet(BatchFrames(ms, n)) : f.type \notin Acks
<1>1. ASSUME NEW j \in 1..n
      PROVE /\ PublishFrame(ms[j], PidIn(ms, j)) \in PacketFrame
            /\ PublishFrame(ms[j], PidIn(ms, j)).type \notin Acks
  <2>1. PidIn(ms, j) \in Nat
    BY CountType DEF PidIn
  <2>2. ms[j] \in OutMsgs
    OBVIOUS
  <2> QED BY <2>1, <2>2 DEF PublishFrame, Frame, PacketFrame, FrameTypes, Acks
<1>2. BatchFrames(ms, n) \in [1..n -> PacketFrame]
  BY <1>1 DEF BatchFrames
<1>3. BatchFrames(ms, n) \in Seq(PacketFrame) /\ DOMAIN BatchFrames(ms, n) = 1..n
  BY <1>2, FunctionIsSeq
<1> QED BY <1>1, <1>3 DEF BatchFrames, ToSet

LEMMA AppKeeps ==
  ASSUME AckInv, AppStep PROVE AckInv'
<1> USE EmbeddedAssumption
<1>1. FramesOK /\ nextPid \in Nat /\ NextPid(nextPid) \in Nat
  BY DEF AckInv, NextPid
<1>2. CASE Connect
  <2>1. Plain("CONNECT", 0) \in PacketFrame /\ Plain("CONNECT", 0).type = "CONNECT"
    BY PlainFrame DEF FrameTypes
  <2>2. c2s' = <<Plain("CONNECT", 0)>> /\ s2c' = <<>> /\ rx = <<>>
        /\ UNCHANGED <<rx, events, delivered, nextPid, inbox>>
    BY <1>2 DEF Connect, Idle, AckInv, OnePerRead
  <2> HIDE DEF Plain
  <2>3. /\ c2s' \in Seq(PacketFrame) /\ s2c' \in Seq(PacketFrame)
        /\ \A f \in ToSet(c2s') : f.type \notin Acks
        /\ ToSet(s2c') = {} /\ ToSet(rx') = {}
    BY <2>1, <2>2, ShortSet, ShortIsSeq DEF Acks
  <2>4. FramesOK' /\ OnePerRead'
    BY <2>2, <2>3 DEF AckInv, FramesOK, OnePerRead
  <2>5. AckedIsDelivered' /\ DOMAIN inbox' = InMsgs /\ nextPid' \in Nat
    BY <2>2 DEF AckInv, AckedIsDelivered
  <2> QED BY <2>2, <2>3, <2>4, <2>5 DEF AckInv, ToSet
<1>3. ASSUME NEW k \in 1..Len(s2c), ConnectOk(k) PROVE AckInv'
  <2>1. /\ s2c' = SubSeq(s2c, k + 1, Len(s2c)) /\ call = "connect" /\ call' = "none"
        /\ UNCHANGED <<c2s, rx, events, delivered, nextPid, inbox>>
    BY <1>3 DEF ConnectOk, brokerVars
  <2>2. s2c' \in Seq(PacketFrame) /\ ToSet(s2c') \subseteq ToSet(s2c)
    BY <1>1, <2>1, SubSeqSet DEF FramesOK
  <2> QED BY <2>1, <2>2 DEF AckInv, FramesOK, OnePerRead, AckedIsDelivered, ToSet
<1>4. CASE ConnectFails
  <2>1. /\ s2c' = <<>> /\ call = "connect"
        /\ UNCHANGED <<c2s, rx, events, delivered, nextPid, inbox>>
    BY <1>4 DEF ConnectFails, brokerVars, tableVars
  <2>2. s2c' \in Seq(PacketFrame) /\ ToSet(s2c') = {}
    BY <2>1, ShortSet
  <2> QED BY <2>1, <2>2 DEF AckInv, FramesOK, OnePerRead, AckedIsDelivered, ToSet
<1>5. ASSUME NEW m \in OutMsgs, Publish(m) PROVE AckInv'
  <2> DEFINE f == PublishFrame(m, nextPid)
  <2>1. f \in PacketFrame /\ f.type = "PUBLISH"
    BY <1>1 DEF PublishFrame, Frame, PacketFrame, FrameTypes
  <2>2. <<f>> \in Seq(PacketFrame) /\ \A g \in ToSet(<<f>>) : g.type \notin Acks
    BY <2>1, ShortSet, ShortIsSeq DEF Acks
  <2>3. UNCHANGED <<callVars, inbox>> /\ nextPid' \in Nat
    BY <1>1, <1>5 DEF Publish, brokerVars
  <2>4. UNCHANGED netVars \/ SendOk(<<f>>) \/ SendFails(<<f>>)
    BY <1>5 DEF Publish
  <2> HIDE DEF f
  <2>5. CASE UNCHANGED netVars
    BY <1>1, <2>3, <2>5, QuietKeeps DEF netVars, FramesOK
  <2> QED BY <2>2, <2>3, <2>4, <2>5, SendKeeps
<1>6. ASSUME NEW ms \in Batches, PublishBatch(ms) PROVE AckInv'
  <2>1. ms \in Seq(OutMsgs) /\ BatchEnd(ms) \in 1..(Len(ms) + 1)
    BY BatchEnds
  <2>2. PICK n \in 0..Len(ms) : SendOk(BatchFrames(ms, n)) \/ SendFails(BatchFrames(ms, n))
    BY <1>6, <2>1 DEF PublishBatch
  <2>3. \E n_1 \in 0..Len(ms) : nextPid' = nextPid + Cardinality(QoS12(ms, n_1))
    BY <1>6, <2>1 DEF PublishBatch, TakeBatch
  <2>4. nextPid' \in Nat /\ UNCHANGED <<callVars, inbox>>
    BY <1>1, <1>6, <2>1, <2>3, CountType DEF PublishBatch, brokerVars
  <2>5. /\ BatchFrames(ms, n) \in Seq(PacketFrame)
        /\ \A f \in ToSet(BatchFrames(ms, n)) : f.type \notin Acks
    BY <1>1, <2>1, BatchFrameTypes
  <2> QED BY <2>2, <2>4, <2>5, SendKeeps
<1>7. CASE Subscribe
  <2> DEFINE f == Plain("SUBSCRIBE", nextPid)
  <2>0. f \in PacketFrame /\ f.type = "SUBSCRIBE"
    BY <1>1, PlainFrame DEF FrameTypes
  <2> HIDE DEF f
  <2>1. <<f>> \in Seq(PacketFrame) /\ \A g \in ToSet(<<f>>) : g.type \notin Acks
    BY <2>0, ShortSet, ShortIsSeq DEF Acks
  <2>2. (SendOk(<<f>>) \/ SendFails(<<f>>)) /\ UNCHANGED <<callVars, inbox>> /\ nextPid' \in Nat
    BY <1>1, <1>7 DEF f, Subscribe, brokerVars
  <2> HIDE DEF f
  <2> QED BY <2>1, <2>2, SendKeeps
<1>8. CASE Disconnect
  <2> DEFINE f == Plain("DISCONNECT", 0)
  <2>0. f \in PacketFrame /\ f.type = "DISCONNECT"
    BY <1>1, PlainFrame DEF FrameTypes
  <2> HIDE DEF f
  <2>1. <<f>> \in Seq(PacketFrame) /\ \A g \in ToSet(<<f>>) : g.type \notin Acks
    BY <2>0, ShortSet, ShortIsSeq DEF Acks
  <2>2. (SendOk(<<f>>) \/ SendFails(<<f>>)) /\ UNCHANGED <<callVars, inbox>> /\ nextPid' \in Nat
    BY <1>1, <1>8 DEF f, Disconnect, brokerVars, tableVars
  <2> HIDE DEF f
  <2> QED BY <2>1, <2>2, SendKeeps
<1>9. CASE Ping
  <2> DEFINE f == Plain("PINGREQ", 0)
  <2>0. f \in PacketFrame /\ f.type = "PINGREQ"
    BY <1>1, PlainFrame DEF FrameTypes
  <2> HIDE DEF f
  <2>1. <<f>> \in Seq(PacketFrame) /\ \A g \in ToSet(<<f>>) : g.type \notin Acks
    BY <2>0, ShortSet, ShortIsSeq DEF Acks
  <2>2. (SendOk(<<f>>) \/ SendFails(<<f>>)) /\ UNCHANGED <<callVars, inbox>> /\ nextPid' \in Nat
    BY <1>1, <1>9 DEF f, Ping, brokerVars, tableVars
  <2> HIDE DEF f
  <2> QED BY <2>1, <2>2, SendKeeps
<1> QED BY <1>2, <1>3, <1>4, <1>5, <1>6, <1>7, <1>8, <1>9 DEF AppStep

-------------------------------------------------------------------------------
(* poll. *)

\* An answer is one frame at most, and acknowledges what it answers.
LEMMA Answers ==
  ASSUME NEW f \in PacketFrame, Answer(f) # <<>>
  PROVE \E g \in PacketFrame :
          /\ Answer(f) = <<g>>
          /\ g.type \in Acks => g.item = f.item /\ f.type \in {"PUBLISH", "PUBREL"}
<1>1. f.pid \in Nat /\ f.item \in OutMsgs \cup InMsgs \cup {Nothing}
  BY DEF PacketFrame
<1>2. CASE f.type = "PUBREC"
  <2>1. Answer(f) = <<Plain("PUBREL", f.pid)>>
    BY <1>2 DEF Answer
  <2>2. Plain("PUBREL", f.pid) \in PacketFrame /\ Plain("PUBREL", f.pid).type = "PUBREL"
    BY <1>1, PlainFrame DEF FrameTypes
  <2> QED BY <2>1, <2>2 DEF Acks
<1>3. CASE f.type # "PUBREC"
  <2>1. \/ f.type = "PUBLISH" /\ Answer(f) = <<Frame("PUBACK", f.pid, f.item)>>
        \/ f.type = "PUBLISH" /\ Answer(f) = <<Frame("PUBREC", f.pid, f.item)>>
        \/ f.type = "PUBREL" /\ Answer(f) = <<Frame("PUBCOMP", f.pid, f.item)>>
    BY <1>3 DEF Answer, AnswerNoPubrel
  <2>2. \A type \in Acks : Frame(type, f.pid, f.item) \in PacketFrame
    BY <1>1 DEF Frame, PacketFrame, FrameTypes
  <2>3. \A type : Frame(type, f.pid, f.item).item = f.item
    BY DEF Frame
  <2> QED BY <2>1, <2>2, <2>3 DEF Acks
<1> QED BY <1>2, <1>3

LEMMA ReadKeeps ==
  ASSUME AckInv, PollKinds \subseteq {"poll"}, NEW kind \in PollKinds, NEW k \in 1..Len(s2c), Read(kind, k)
  PROVE AckInv'
<1>1. /\ rx' = SubSeq(s2c, 1, 1) /\ s2c' = SubSeq(s2c, k + 1, Len(s2c)) /\ call' = "poll"
      /\ UNCHANGED <<c2s, events, delivered, nextPid, inbox>>
  BY DEF Read, tableVars, brokerVars
<1>2. s2c \in Seq(PacketFrame)
  BY DEF AckInv, FramesOK
<1>3. rx' \in Seq(PacketFrame) /\ ToSet(rx') \subseteq ToSet(s2c) /\ Len(rx') = 1
  BY <1>1, <1>2, SubSeqSet
<1>4. s2c' \in Seq(PacketFrame) /\ ToSet(s2c') \subseteq ToSet(s2c)
  BY <1>1, <1>2, SubSeqSet
<1>5. FramesOK' /\ OnePerRead'
  BY <1>1, <1>3, <1>4 DEF AckInv, FramesOK, OnePerRead
<1>6. \A f \in ToSet(s2c)' \cup ToSet(rx)' : f.type = "PUBREL" => f.item \in delivered'
  BY <1>1, <1>3, <1>4 DEF AckInv, ToSet
<1>7. \A f \in ToSet(c2s)' : f.type \in Acks => f.item \in delivered'
  BY <1>1 DEF AckInv, ToSet
<1> QED BY <1>1, <1>5, <1>6, <1>7 DEF AckInv, AckedIsDelivered

\* The one frame of the read: it is handed over before its answer can arrive.
LEMMA HandleKeeps ==
  ASSUME AckInv, HandleOk PROVE AckInv'
<1> DEFINE f == Head(rx)
<1>1. rx \in Seq(PacketFrame) /\ rx # <<>> /\ Len(rx) = 1 /\ call = "poll" /\ events = <<>>
  BY DEF AckInv, FramesOK, OnePerRead, HandleOk
<1>2. f \in PacketFrame /\ f \in ToSet(rx) /\ Tail(rx) = <<>>
  <2>1. f \in PacketFrame
    BY <1>1
  <2>2. f \in ToSet(rx)
    BY <1>1, TailSet
  <2> HIDE DEF f
  <2>4. Tail(rx) = <<>>
    BY <1>1, TailOfOne
  <2> QED BY <2>1, <2>2, <2>4
<1>3. Collected(f) = <<f>>
  BY <1>1 DEF Collected, Event
<1>4. /\ rx' = <<>> /\ events' = <<>> /\ call' = "none"
      /\ delivered' = delivered \cup Messages(<<f>>)
      /\ UNCHANGED <<nextPid, inbox>>
      /\ UNCHANGED <<c2s, s2c>> \/ (Answer(f) # <<>> /\ SendOk(Answer(f)))
  BY <1>2, <1>3 DEF HandleOk, netVars, brokerVars
<1>5. f.type = "PUBLISH" => f.item \in delivered'
  BY <1>4, ShortSet DEF Messages
<1>6. f.type = "PUBREL" => f.item \in delivered
  BY <1>2 DEF AckInv
<1>7. delivered \subseteq delivered'
  BY <1>4
<1> HIDE DEF f
<1>8. /\ c2s' \in Seq(PacketFrame) /\ s2c' = s2c
      /\ \A g \in ToSet(c2s') : g.type \in Acks => g.item \in delivered'
  <2>1. CASE UNCHANGED <<c2s, s2c>>
    BY <1>7, <2>1 DEF AckInv, FramesOK
  <2>2. CASE Answer(f) # <<>> /\ SendOk(Answer(f))
    <3>1. PICK g \in PacketFrame :
            /\ Answer(f) = <<g>>
            /\ g.type \in Acks => g.item = f.item /\ f.type \in {"PUBLISH", "PUBREL"}
      BY <1>2, <2>2, Answers
    <3>3. c2s \in Seq(PacketFrame)
      BY DEF AckInv, FramesOK
    <3>4. c2s \o <<g>> \in Seq(PacketFrame) /\ ToSet(c2s \o <<g>>) = ToSet(c2s) \cup {g}
      BY <3>3, Append1
    <3>5. s2c' = s2c /\ (c2s' = c2s \/ c2s' = c2s \o <<g>>)
      BY <2>2, <3>1 DEF SendOk
    <3>6. g.type \in Acks => g.item \in delivered'
      BY <1>5, <1>6, <1>7, <3>1
    <3>7. CASE c2s' = c2s
      BY <1>7, <3>3, <3>5, <3>7 DEF AckInv
    <3>8. CASE c2s' = c2s \o <<g>>
      BY <1>7, <3>4, <3>5, <3>6, <3>8 DEF AckInv
    <3> QED BY <3>5, <3>7, <3>8
  <2> QED BY <1>4, <2>1, <2>2
<1>9. rx' \in Seq(PacketFrame) /\ ToSet(rx') = {}
  BY <1>4, ShortSet
<1>10. FramesOK' /\ OnePerRead'
  BY <1>4, <1>8, <1>9 DEF AckInv, FramesOK, OnePerRead
<1>11. \A g \in ToSet(s2c)' \cup ToSet(rx)' : g.type = "PUBREL" => g.item \in delivered'
  BY <1>7, <1>8, <1>9 DEF AckInv, ToSet
<1>12. \A g \in ToSet(c2s)' : g.type \in Acks => g.item \in delivered'
  BY <1>8 DEF ToSet
<1> QED BY <1>4, <1>7, <1>10, <1>11, <1>12 DEF AckInv, AckedIsDelivered

\* An answer that fails never arrives.
LEMMA HandleFailsKeeps ==
  ASSUME AckInv, HandleFails PROVE AckInv'
<1> DEFINE f == Head(rx)
<1>1. FramesOK /\ rx \in Seq(PacketFrame) /\ rx # <<>>
  BY DEF AckInv, FramesOK, HandleFails
<1>2. f \in PacketFrame
  BY <1>1
<1>3. /\ Answer(f) # <<>> /\ SendFails(Answer(f))
      /\ rx' = <<>> /\ events' = <<>> /\ UNCHANGED <<delivered, nextPid, inbox>>
  BY DEF HandleFails, brokerVars
<1> HIDE DEF f
<1>4. PICK g \in PacketFrame : Answer(f) = <<g>>
  BY <1>2, <1>3, Answers
<1>5. SendFails(<<g>>)
  BY <1>3, <1>4
<1>6. c2s' = c2s /\ s2c' = <<>>
  BY <1>1, <1>5, FailsAlone
<1>7. /\ s2c' \in Seq(PacketFrame) /\ ToSet(s2c') = {}
      /\ rx' \in Seq(PacketFrame) /\ ToSet(rx') = {}
  BY <1>3, <1>6, ShortSet
<1>8. FramesOK' /\ OnePerRead'
  BY <1>3, <1>6, <1>7 DEF AckInv, FramesOK, OnePerRead
<1> QED BY <1>3, <1>6, <1>7, <1>8 DEF AckInv, AckedIsDelivered, ToSet

-------------------------------------------------------------------------------
(* The broker and the network. *)

\* What the broker sends is appended, or nothing is.
LEMMA Pushed ==
  ASSUME FramesOK, NEW f \in PacketFrame, Send(<<f>>)
  PROVE s2c' \in Seq(PacketFrame) /\ ToSet(s2c') \subseteq ToSet(s2c) \cup {f}
<1>1. s2c \in Seq(PacketFrame)
  BY DEF FramesOK
<1>3. s2c \o <<f>> \in Seq(PacketFrame) /\ ToSet(s2c \o <<f>>) = ToSet(s2c) \cup {f}
  BY <1>1, Append1
<1>4. s2c' = s2c \/ s2c' = s2c \o <<f>>
  BY DEF Send
<1>5. CASE s2c' = s2c
  BY <1>1, <1>5
<1>6. CASE s2c' = s2c \o <<f>>
  BY <1>3, <1>6
<1> QED BY <1>4, <1>5, <1>6

\* A reply is one frame at most; a PUBREL releases what its PUBREC acknowledged.
LEMMA Replies ==
  ASSUME NEW f \in PacketFrame, Reply(f) # <<>>
  PROVE \E g \in PacketFrame :
          /\ Reply(f) = <<g>> /\ g.type # "PUBLISH"
          /\ g.type = "PUBREL" => f.type = "PUBREC" /\ g.item = f.item
<1>1. f.pid \in Nat /\ f.item \in OutMsgs \cup InMsgs \cup {Nothing}
  BY DEF PacketFrame
<1>2. \/ Reply(f) \in {<<Plain(type, f.pid)>> : type \in {"PUBACK", "PUBREC", "PUBCOMP", "SUBACK"}}
      \/ Reply(f) = <<Plain("PINGRESP", 0)>>
      \/ f.type = "PUBREC" /\ Reply(f) = <<Frame("PUBREL", f.pid, f.item)>>
  BY DEF Reply
<1>3. ASSUME NEW type \in {"PUBACK", "PUBREC", "PUBCOMP", "SUBACK", "PINGRESP"}, NEW pid \in Nat
      PROVE Plain(type, pid) \in PacketFrame /\ Plain(type, pid).type \notin {"PUBREL", "PUBLISH"}
  BY PlainFrame DEF FrameTypes, Acks
<1>4. /\ Frame("PUBREL", f.pid, f.item) \in PacketFrame
      /\ Frame("PUBREL", f.pid, f.item).item = f.item /\ Frame("PUBREL", f.pid, f.item).type = "PUBREL"
  BY <1>1 DEF Frame, PacketFrame, FrameTypes
<1> QED BY <1>1, <1>2, <1>3, <1>4

LEMMA BrokerConnectKeeps ==
  ASSUME AckInv, ~CleanSession, BrokerConnect PROVE AckInv'
<1> DEFINE g == Plain("CONNACK", 0)
<1>1. g \in PacketFrame /\ g.type = "CONNACK"
  BY PlainFrame DEF FrameTypes
<1> HIDE DEF g
<1>2. Send(<<g>>) /\ c2s # <<>> /\ c2s' = Tail(c2s) /\ UNCHANGED <<callVars, inbox, nextPid>>
  BY DEF g, BrokerConnect, tableVars
<1>3. FramesOK
  BY DEF AckInv
<1>4. s2c' \in Seq(PacketFrame) /\ ToSet(s2c') \subseteq ToSet(s2c) \cup {g}
  BY <1>1, <1>2, <1>3, Pushed
<1>5. c2s' \in Seq(PacketFrame) /\ ToSet(c2s') \subseteq ToSet(c2s)
  BY <1>2, <1>3, TailSet DEF FramesOK
<1> QED BY <1>1, <1>2, <1>4, <1>5, QuietKeeps DEF AckInv

LEMMA BrokerRecvKeeps ==
  ASSUME AckInv, BrokerRecv PROVE AckInv'
<1> DEFINE f == Head(c2s)
<1>1. FramesOK /\ c2s \in Seq(PacketFrame) /\ c2s # <<>>
  BY DEF AckInv, FramesOK, BrokerRecv
<1>2. f \in PacketFrame /\ f \in ToSet(c2s)
  BY <1>1 DEF ToSet
<1>3. f.type \in Acks => f.item \in delivered
  BY <1>2 DEF AckInv
<1>4. /\ c2s' = Tail(c2s) /\ Send(Reply(f))
      /\ UNCHANGED <<callVars, nextPid>>
      /\ \/ inbox' = inbox
         \/ f.type \in Acks /\ \E v : inbox' = [inbox EXCEPT ![f.item] = v]
  BY DEF BrokerRecv, tableVars, Acks
<1> HIDE DEF f
<1>5. c2s' \in Seq(PacketFrame) /\ ToSet(c2s') \subseteq ToSet(c2s)
  BY <1>1, <1>4, TailSet
<1>6. /\ s2c' \in Seq(PacketFrame)
      /\ \A g \in ToSet(s2c') : g.type = "PUBREL" => g.item \in delivered
  <2>1. CASE Reply(f) = <<>>
    <3>1. s2c \in Seq(PacketFrame) /\ s2c \o <<>> = s2c
      BY <1>1 DEF FramesOK
    <3>2. s2c' = s2c
      BY <1>4, <2>1, <3>1 DEF Send
    <3> QED BY <3>1, <3>2 DEF AckInv
  <2>2. CASE Reply(f) # <<>>
    <3>1. PICK g \in PacketFrame :
            Reply(f) = <<g>> /\ (g.type = "PUBREL" => f.type = "PUBREC" /\ g.item = f.item)
      BY <1>2, <2>2, Replies
    <3>2. s2c' \in Seq(PacketFrame) /\ ToSet(s2c') \subseteq ToSet(s2c) \cup {g}
      BY <1>1, <1>4, <3>1, Pushed
    <3> QED BY <1>3, <3>1, <3>2 DEF AckInv, Acks
  <2> QED BY <2>1, <2>2
<1>7. DOMAIN inbox' = InMsgs /\ AckedIsDelivered'
  <2>1. CASE inbox' = inbox
    BY <1>4, <2>1 DEF AckInv, AckedIsDelivered, callVars
  <2>2. CASE f.type \in Acks /\ \E v : inbox' = [inbox EXCEPT ![f.item] = v]
    <3>1. PICK v : inbox' = [inbox EXCEPT ![f.item] = v]
      BY <2>2
    <3>2. DOMAIN inbox = InMsgs
      BY DEF AckInv
    <3>3. DOMAIN inbox' = InMsgs /\ \A i \in InMsgs : i # f.item => inbox'[i] = inbox[i]
      BY <3>1, <3>2
    <3> QED BY <1>3, <1>4, <2>2, <3>3 DEF AckInv, AckedIsDelivered, callVars
  <2> QED BY <1>4, <2>1, <2>2
<1>8. FramesOK' /\ OnePerRead' /\ nextPid' \in Nat
  BY <1>4, <1>5, <1>6 DEF AckInv, FramesOK, OnePerRead, callVars
<1> QED BY <1>4, <1>5, <1>6, <1>7, <1>8 DEF AckInv, callVars, ToSet

LEMMA BrokerPublishKeeps ==
  ASSUME AckInv, NEW i \in InMsgs, BrokerPublish(i) PROVE AckInv'
<1> USE EmbeddedAssumption
<1>1. FramesOK /\ c2s' = c2s /\ UNCHANGED <<callVars, nextPid>>
  BY DEF AckInv, BrokerPublish, tableVars
<1>2. InPid[i] \in Nat
  OBVIOUS
<1>3. CASE /\ Send(<<Frame("PUBLISH", IF InQoS[i] = 0 THEN 0 ELSE InPid[i], i)>>)
           /\ inbox' = [inbox EXCEPT ![i] = "sent"]
  <2> DEFINE g == Frame("PUBLISH", IF InQoS[i] = 0 THEN 0 ELSE InPid[i], i)
  <2>1. g \in PacketFrame /\ g.type = "PUBLISH"
    BY <1>2 DEF Frame, PacketFrame, FrameTypes
  <2> HIDE DEF g
  <2>2. s2c' \in Seq(PacketFrame) /\ ToSet(s2c') \subseteq ToSet(s2c) \cup {g}
    BY <1>1, <1>3, <2>1, Pushed DEF g
  <2>3. DOMAIN inbox' = InMsgs /\ AckedIsDelivered'
    BY <1>1, <1>3 DEF AckInv, AckedIsDelivered, callVars
  <2>4. FramesOK' /\ OnePerRead' /\ nextPid' \in Nat
    BY <1>1, <2>2 DEF AckInv, FramesOK, OnePerRead, callVars
  <2> QED BY <1>1, <2>1, <2>2, <2>3, <2>4 DEF AckInv, callVars, ToSet
<1>4. CASE inbox[i] = "rel" /\ Send(<<Frame("PUBREL", InPid[i], i)>>) /\ UNCHANGED inbox
  <2> DEFINE g == Frame("PUBREL", InPid[i], i)
  <2>1. g \in PacketFrame /\ g.item = i
    BY <1>2 DEF Frame, PacketFrame, FrameTypes
  <2> HIDE DEF g
  <2>2. s2c' \in Seq(PacketFrame) /\ ToSet(s2c') \subseteq ToSet(s2c) \cup {g}
    BY <1>1, <1>4, <2>1, Pushed DEF g
  <2>3. i \in delivered
    BY <1>4 DEF AckInv, AckedIsDelivered
  <2>4. FramesOK' /\ OnePerRead' /\ nextPid' \in Nat
    BY <1>1, <2>2 DEF AckInv, FramesOK, OnePerRead, callVars
  <2> QED BY <1>1, <1>4, <2>1, <2>2, <2>3, <2>4 DEF AckInv, AckedIsDelivered, callVars, ToSet
<1> QED BY <1>3, <1>4 DEF BrokerPublish

LEMMA BrokerDisconnectKeeps ==
  ASSUME AckInv, BrokerDisconnect PROVE AckInv'
<1> DEFINE g == Plain("DISCONNECT", 0)
<1>1. g \in PacketFrame /\ g.type = "DISCONNECT"
  BY PlainFrame DEF FrameTypes
<1> HIDE DEF g
<1>2. Send(<<g>>) /\ UNCHANGED <<callVars, inbox, nextPid, c2s>>
  BY DEF g, BrokerDisconnect, tableVars, brokerVars
<1>3. FramesOK
  BY DEF AckInv
<1>4. s2c' \in Seq(PacketFrame) /\ ToSet(s2c') \subseteq ToSet(s2c) \cup {g}
  BY <1>1, <1>2, <1>3, Pushed
<1> QED BY <1>1, <1>2, <1>3, <1>4, QuietKeeps DEF AckInv, FramesOK

\* The link is lost, by BrokerClose or Break.
LEMMA LossKeeps ==
  ASSUME AckInv, c2s' = <<>>, s2c' = <<>>, UNCHANGED <<callVars, inbox, nextPid>>
  PROVE AckInv'
<1>1. /\ c2s' \in Seq(PacketFrame) /\ s2c' \in Seq(PacketFrame)
      /\ ToSet(c2s') = {} /\ ToSet(s2c') = {}
  BY ShortSet
<1> QED BY <1>1, QuietKeeps DEF AckInv

-------------------------------------------------------------------------------
LEMMA AckInit == Init => AckInv
<1> SUFFICES ASSUME Init PROVE AckInv
  OBVIOUS
<1>1. /\ c2s = <<>> /\ s2c = <<>> /\ rx = <<>> /\ events = <<>> /\ nextPid = 1
      /\ inbox = [i \in InMsgs |-> "new"]
  BY DEF Init
<1>2. ToSet(c2s) = {} /\ ToSet(s2c) = {} /\ ToSet(rx) = {} /\ FramesOK
  BY <1>1, ShortSet DEF FramesOK
<1>3. OnePerRead /\ AckedIsDelivered /\ DOMAIN inbox = InMsgs /\ nextPid \in Nat
  BY <1>1 DEF OnePerRead, AckedIsDelivered
<1> QED BY <1>2, <1>3 DEF AckInv

LEMMA AckStep ==
  ASSUME PollKinds \subseteq {"poll"}, ~CleanSession, AckInv, [Next]_vars
  PROVE AckInv'
<1>1. CASE PollStep
  BY <1>1, ReadKeeps, HandleKeeps, HandleFailsKeeps DEF PollStep
<1>2. CASE AppStep
  BY <1>2, AppKeeps
<1>3. CASE BrokerStep
  <2>1. CASE BrokerClose
    BY <2>1, LossKeeps DEF BrokerClose, brokerVars, tableVars
  <2> QED BY <1>3, <2>1, BrokerConnectKeeps, BrokerRecvKeeps, BrokerPublishKeeps DEF BrokerStep
<1>4. CASE BrokerDisconnect
  BY <1>4, BrokerDisconnectKeeps
<1>5. CASE Break
  BY <1>5, LossKeeps DEF Break, brokerVars, tableVars
<1>6. CASE UNCHANGED vars
  BY <1>6, QuietKeeps DEF vars, tableVars, netVars, brokerVars, AckInv, FramesOK
<1> QED BY <1>1, <1>2, <1>3, <1>4, <1>5, <1>6 DEF Next

(* With poll and a kept session, the broker is told that a message is      *)
(* received only after poll has returned it (client.rs answers first, but  *)
(* the answer's frame is the only one of its read, and a failed send has   *)
(* not written it whole).                                                  *)
THEOREM AckedAreDelivered ==
  ASSUME PollKinds \subseteq {"poll"}, ~CleanSession
  PROVE Spec => []AckedIsDelivered
<1>1. AckInv /\ [Next]_vars => AckInv'
  BY AckStep
<1>2. AckInv => AckedIsDelivered
  BY DEF AckInv
<1> QED BY AckInit, <1>1, <1>2, PTL DEF Spec

-------------------------------------------------------------------------------
(* Types, and the bound of the table: for any choice of poll and           *)
(* poll_batch, and any session.                                            *)

Tabled(t) ==
  /\ DOMAIN t \subseteq 1..MaxPid /\ Cardinality(DOMAIN t) <= MaxInflight
  /\ \A p \in DOMAIN t : t[p] \in InflightStatus

\* What the broker sends: its publishes are its messages, under its identifiers.
IncomingFrame ==
  {f \in PacketFrame : f.type = "PUBLISH" =>
     f.item \in InMsgs /\ (InQoS[f.item] = 2 => f.pid \in 1..MaxPid)}

TypeInv ==
  /\ TypeOK /\ c2s \in Seq(PacketFrame) /\ s2c \in Seq(IncomingFrame)
  /\ rx \in Seq(IncomingFrame) /\ events \in Seq(IncomingFrame)

LEMMA TableSize ==
  ASSUME NEW t, Tabled(t) PROVE IsFiniteSet(DOMAIN t) /\ Cardinality(DOMAIN t) \in Nat
<1>1. IsFiniteSet(1..MaxPid)
  BY EmbeddedAssumption, FS_Interval
<1>2. IsFiniteSet(DOMAIN t)
  BY <1>1, FS_Subset DEF Tabled
<1> QED BY <1>2, FS_CardinalityType

LEMMA PutTabled ==
  ASSUME NEW t, Tabled(t), NEW pid \in 1..MaxPid, HasSlot(t, pid), NEW status \in InflightStatus
  PROVE Tabled(Put(t, pid, status))
<1>1. DOMAIN Put(t, pid, status) = DOMAIN t \cup {pid}
  BY DEF Put
<1>2. Cardinality(DOMAIN t \cup {pid}) <= MaxInflight
  <2>1. /\ Cardinality(DOMAIN t) \in Nat
        /\ Cardinality(DOMAIN t \cup {pid})
             = IF pid \in DOMAIN t THEN Cardinality(DOMAIN t) ELSE Cardinality(DOMAIN t) + 1
    BY TableSize, FS_AddElement
  <2> QED BY <2>1, InflightAssumption DEF HasSlot, Tabled
<1>3. \A p \in DOMAIN t \cup {pid} : Put(t, pid, status)[p] \in InflightStatus
  BY DEF Put, Tabled
<1> QED BY <1>1, <1>2, <1>3 DEF Tabled

LEMMA DropTabled ==
  ASSUME NEW t, Tabled(t), NEW pid PROVE Tabled(Drop(t, pid))
<1>1. DOMAIN Drop(t, pid) = DOMAIN t \ {pid} /\ \A p \in DOMAIN t \ {pid} : Drop(t, pid)[p] = t[p]
  BY DEF Drop
<1>2. Cardinality(DOMAIN t \ {pid}) <= MaxInflight
  <2>1. /\ Cardinality(DOMAIN t) \in Nat
        /\ Cardinality(DOMAIN t \ {pid})
             = IF pid \in DOMAIN t THEN Cardinality(DOMAIN t) - 1 ELSE Cardinality(DOMAIN t)
    BY TableSize, FS_RemoveElement
  <2> QED BY <2>1, InflightAssumption DEF Tabled
<1> QED BY <1>1, <1>2 DEF Tabled

LEMMA EmptyTabled == Tabled(Empty)
<1>1. DOMAIN Empty = {}
  BY DEF Empty
<1> QED BY <1>1, FS_EmptySet, InflightAssumption DEF Tabled

\* Whatever frame is handled.
LEMMA HandlingTabled ==
  ASSUME NEW f \in IncomingFrame, NEW t, Tabled(t)
  PROVE Tabled(Before(f, t)) /\ Tabled(After(f, t))
<1>1. Tabled(HandlePuback(t, f.pid)) /\ Tabled(HandlePubrel(t, f.pid)) /\ Tabled(HandlePubcomp(t, f.pid))
  BY DropTabled DEF HandlePuback, HandlePubrel, HandlePubcomp
<1>2. Tabled(HandlePubrec(t, f.pid))
  <2>1. ASSUME f.pid \in DOMAIN t PROVE Tabled(Put(t, f.pid, "AwaitingPubComp"))
    <3>1. f.pid \in 1..MaxPid /\ HasSlot(t, f.pid) /\ "AwaitingPubComp" \in InflightStatus
      BY <2>1 DEF Tabled, HasSlot, InflightStatus
    <3> QED BY <3>1, PutTabled
  <2> QED BY <2>1 DEF HandlePubrec, Is
<1>3. Tabled(After(f, t))
  <2>1. ASSUME f.type = "PUBLISH", InQoS[f.item] = 2 PROVE Tabled(TrackInbound(t, f.pid))
    <3>1. f.pid \in 1..MaxPid /\ "AwaitingPubRel" \in InflightStatus
      BY <2>1 DEF IncomingFrame, InflightStatus
    <3> QED BY <3>1, PutTabled DEF TrackInbound
  <2> QED BY <2>1 DEF After
<1>4. Tabled(Before(f, t))
  BY <1>1, <1>2 DEF Before
<1> QED BY <1>3, <1>4

LEMMA BatchPidsFit ==
  ASSUME nextPid \in 1..MaxPid, NEW ms \in Seq(OutMsgs),
         nextPid + Cardinality(QoS12(ms, Len(ms))) <= MaxPid, NEW n \in 0..Len(ms)
  PROVE nextPid + Cardinality(QoS12(ms, n)) \in 1..MaxPid
<1>1. IsFiniteSet(1..Len(ms))
  BY FS_Interval
<1>2. IsFiniteSet(QoS12(ms, Len(ms)))
  BY <1>1, FS_Subset DEF QoS12
<1>3. QoS12(ms, n) \in SUBSET QoS12(ms, Len(ms))
  BY DEF QoS12
<1>4. Cardinality(QoS12(ms, n)) <= Cardinality(QoS12(ms, Len(ms)))
  BY <1>2, <1>3, FS_Subset
<1>5. Cardinality(QoS12(ms, n)) \in Nat /\ Cardinality(QoS12(ms, Len(ms))) \in Nat
  BY CountType
<1> QED BY EmbeddedAssumption, <1>4, <1>5

\* A batch takes no more than the table has room for: its k-th message that takes an
\* identifier finds room for all before it too.
LEMMA BatchTabled ==
  ASSUME TypeOK, NEW ms \in Seq(OutMsgs), nextPid + Cardinality(QoS12(ms, Len(ms))) <= MaxPid,
         NEW k \in 0..Len(ms), \A j \in 1..k : RoomFor(ms, j)
  PROVE /\ Tabled(BatchTracked(ms, k)) /\ BatchPids(ms, k) \subseteq 1..MaxPid
<1> USE EmbeddedAssumption
<1>1. Tabled(inflight) /\ nextPid \in 1..MaxPid
  BY DEF TypeOK, Tabled
<1>2. \A n \in 0..Len(ms) : nextPid + Cardinality(QoS12(ms, n)) \in 1..MaxPid
  BY <1>1, BatchPidsFit
<1>3. BatchPids(ms, k) \subseteq 1..MaxPid
  <2>1. ASSUME NEW j \in QoS12(ms, k) PROVE PidIn(ms, j) \in 1..MaxPid
    <3>1. j - 1 \in 0..Len(ms)
      BY DEF QoS12
    <3> QED BY <1>2, <3>1 DEF PidIn
  <2> QED BY <2>1 DEF BatchPids
<1>4. DOMAIN BatchTracked(ms, k) = DOMAIN inflight \cup BatchPids(ms, k)
  BY DEF BatchTracked
<1>5. Cardinality(DOMAIN inflight \cup BatchPids(ms, k)) <= MaxInflight
  <2>1. CASE QoS12(ms, k) = {}
    <3>1. DOMAIN inflight \cup BatchPids(ms, k) = DOMAIN inflight
      BY <2>1 DEF BatchPids
    <3> QED BY <1>1, <3>1 DEF Tabled
  <2>2. CASE QoS12(ms, k) # {}
    <3>1. QoS12(ms, k) \subseteq 0..k
      BY DEF QoS12
    <3>2. PICK g \in QoS12(ms, k) : \A j \in QoS12(ms, k) : j <= g
      BY <2>2, <3>1, GreatestExists
    <3>3. g \in 1..k /\ OutQoS[ms[g]] > 0 /\ RoomFor(ms, g)
      BY DEF QoS12
    <3>4. QoS12(ms, g) = QoS12(ms, k)
      BY <3>2, <3>3 DEF QoS12
    <3>5. OutQoS[ms[g]] # 0
      BY <3>3
    <3> QED BY <3>3, <3>4, <3>5 DEF RoomFor, BatchPids
  <2> QED BY <2>1, <2>2
<1>6. ASSUME NEW p \in DOMAIN inflight \cup BatchPids(ms, k)
      PROVE BatchTracked(ms, k)[p] \in InflightStatus
  BY <1>1 DEF BatchTracked, FirstStatus, InflightStatus, Tabled
<1>7. DOMAIN BatchTracked(ms, k) \subseteq 1..MaxPid
  BY <1>1, <1>3, <1>4 DEF Tabled
<1>8. Tabled(BatchTracked(ms, k))
  BY <1>4, <1>5, <1>6, <1>7 DEF Tabled
<1> QED BY <1>2, <1>3, <1>8

\* A send keeps the types of the network.
LEMMA SentTyped ==
  ASSUME TypeInv, NEW frames \in Seq(PacketFrame), SendOk(frames) \/ SendFails(frames)
  PROVE /\ c2s' \in Seq(PacketFrame) /\ s2c' \in Seq(IncomingFrame)
        /\ link' \in {"down", "up", "broken"} /\ faults' \in 0..MaxFaults
<1>1. c2s \in Seq(PacketFrame) /\ s2c \in Seq(IncomingFrame)
      /\ link \in {"down", "up", "broken"} /\ faults \in 0..MaxFaults
  BY DEF TypeInv, TypeOK
<1>2. CASE SendOk(frames)
  <2>1. c2s \o frames \in Seq(PacketFrame)
    BY <1>1
  <2> QED BY <1>1, <1>2, <2>1 DEF SendOk
<1>3. CASE SendFails(frames)
  <2>1. PICK n \in 0..(Len(frames) - 1) :
          c2s' = IF link = "up" THEN c2s \o SubSeq(frames, 1, n) ELSE c2s
    BY <1>3 DEF SendFails
  <2>2. SubSeq(frames, 1, n) \in Seq(PacketFrame)
    BY SubSeqSet
  <2>3. c2s \o SubSeq(frames, 1, n) \in Seq(PacketFrame)
    BY <1>1, <2>2
  <2>4. faults' \in 0..MaxFaults
    BY <1>1, <1>3, EmbeddedAssumption DEF SendFails, SpendUnlessBroken, Spend
  <2>5. s2c' = <<>> /\ link' = "broken"
    BY <1>3 DEF SendFails
  <2>6. s2c' \in Seq(IncomingFrame)
    BY <2>5
  <2> QED BY <1>1, <2>1, <2>3, <2>4, <2>5, <2>6
<1> QED BY <1>2, <1>3

\* A call that sends, and changes identifiers and the table.
LEMMA CallTyped ==
  ASSUME TypeInv, NEW frames \in Seq(PacketFrame),
         (UNCHANGED netVars /\ UNCHANGED faults) \/ SendOk(frames) \/ SendFails(frames),
         UNCHANGED <<callVars, brokerVars>>, state' \in {"Disconnected", "Connecting", "Connected"},
         nextPid' \in 1..MaxPid, Tabled(inflight'), sent' \subseteq 1..MaxPid,
         attempted' \subseteq OutMsgs, requests' \in 0..MaxRequests
  PROVE TypeInv'
<1>1. /\ c2s' \in Seq(PacketFrame) /\ s2c' \in Seq(IncomingFrame)
      /\ link' \in {"down", "up", "broken"} /\ faults' \in 0..MaxFaults
  <2>1. CASE UNCHANGED netVars /\ UNCHANGED faults
    BY <2>1 DEF netVars, TypeInv, TypeOK
  <2> QED BY <2>1, SentTyped
<1>2. rx' \in Seq(IncomingFrame) /\ events' \in Seq(IncomingFrame)
  BY DEF callVars, TypeInv
<1>3. TypeOK'
  BY <1>1 DEF TypeInv, TypeOK, Tabled, callVars, brokerVars
<1> QED BY <1>1, <1>2, <1>3 DEF TypeInv

LEMMA PublishTyped ==
  ASSUME TypeInv, NEW m \in OutMsgs, Publish(m) PROVE TypeInv'
<1> USE EmbeddedAssumption
<1>1. /\ nextPid \in 1..MaxPid /\ NextPid(nextPid) \in 1..MaxPid /\ Tabled(inflight)
      /\ attempted \subseteq OutMsgs /\ sent \subseteq 1..MaxPid /\ requests \in 0..MaxRequests
      /\ state \in {"Disconnected", "Connecting", "Connected"}
  BY DEF TypeInv, TypeOK, Tabled, NextPid
<1> DEFINE f == PublishFrame(m, nextPid)
<1>2. f \in PacketFrame
  BY <1>1 DEF PublishFrame, Frame, PacketFrame, FrameTypes
<1>3. <<f>> \in Seq(PacketFrame)
  BY <1>2
<1>4. (UNCHANGED netVars /\ UNCHANGED faults) \/ SendOk(<<f>>) \/ SendFails(<<f>>)
  BY DEF Publish
<1>5. nextPid' \in 1..MaxPid
  BY <1>1 DEF Publish
<1>6. Tabled(inflight')
  <2>1. ASSUME HasSlot(inflight, nextPid) PROVE Tabled(TrackOutbound(inflight, nextPid, OutQoS[m]))
    <3>1. FirstStatus(OutQoS[m]) \in InflightStatus
      BY DEF FirstStatus, InflightStatus
    <3> QED BY <1>1, <2>1, <3>1, PutTabled DEF TrackOutbound
  <2> QED BY <1>1, <2>1 DEF Publish
<1>7. sent' \subseteq 1..MaxPid /\ attempted' \subseteq OutMsgs
  BY <1>1 DEF Publish
<1>8. state' \in {"Disconnected", "Connecting", "Connected"} /\ requests' \in 0..MaxRequests
      /\ UNCHANGED <<callVars, brokerVars>>
  BY <1>1 DEF Publish
<1> HIDE DEF f
<1> QED BY <1>3, <1>4, <1>5, <1>6, <1>7, <1>8, CallTyped

\* What a batch does, however it ends: n messages take identifiers, k of them
\* entries, for which there is room, and p are written.
BatchDoes(ms, n, k, p) ==
  /\ TakeBatch(ms, n, k) /\ \A j \in 1..k : RoomFor(ms, j)
  /\ SendOk(BatchFrames(ms, p)) \/ SendFails(BatchFrames(ms, p))
  /\ sent' = sent \/ \E q \in 0..k : sent' = sent \cup BatchPids(ms, q)

LEMMA BatchSplit ==
  ASSUME NEW ms \in Batches, PublishBatch(ms)
  PROVE \E n \in 0..Len(ms), k \in 0..Len(ms), p \in 0..Len(ms) : BatchDoes(ms, n, k, p)
<1> DEFINE e == BatchEnd(ms)
<1>1. ms \in Seq(OutMsgs) /\ e \in 1..(Len(ms) + 1)
  BY BatchEnds
<1>2. \A j \in 1..(e - 1) : j <= Len(ms) => RoomFor(ms, j)
  <2>1. Stops(ms) \subseteq 1..Len(ms) /\ DOMAIN ms = 1..Len(ms)
    BY <1>1 DEF Stops
  <2>2. CASE Stops(ms) # {}
    <3>1. \E j \in Stops(ms) : \A i \in Stops(ms) : j <= i
      BY <1>1, <2>1, <2>2, SmallestExists
    <3>2. \A i \in Stops(ms) : e <= i
      BY <2>2, <3>1 DEF BatchEnd
    <3> HIDE DEF e
    <3> QED BY <1>1, <2>1, <3>2 DEF Stops
  <2>3. CASE Stops(ms) = {}
    <3> HIDE DEF e
    <3> QED BY <1>1, <2>1, <2>3 DEF Stops
  <2> QED BY <2>2, <2>3
<1>3. \/ /\ e > Len(ms) /\ TakeBatch(ms, Len(ms), Len(ms))
         /\ \/ SendOk(BatchFrames(ms, Len(ms))) /\ sent' = sent \cup BatchPids(ms, Len(ms))
            \/ SendFails(BatchFrames(ms, Len(ms))) /\ UNCHANGED sent
      \/ \E j \in 2..Len(ms) :
           /\ j <= e /\ RoomFor(ms, j) /\ TakeBatch(ms, j, j)
           /\ SendFails(BatchFrames(ms, j - 1)) /\ UNCHANGED sent
      \/ /\ e <= Len(ms)
         /\ TakeBatch(ms, e, IF RoomFor(ms, e) THEN e ELSE e - 1)
         /\ \E n \in IF RoomFor(ms, e) THEN {e - 1} ELSE {0} \cup 0..(e - 2) :
              SendOk(BatchFrames(ms, n)) /\ sent' = sent \cup BatchPids(ms, n)
  BY DEF PublishBatch
<1> HIDE DEF e
<1>4. ASSUME e > Len(ms), TakeBatch(ms, Len(ms), Len(ms)),
             \/ SendOk(BatchFrames(ms, Len(ms))) /\ sent' = sent \cup BatchPids(ms, Len(ms))
             \/ SendFails(BatchFrames(ms, Len(ms))) /\ UNCHANGED sent
      PROVE BatchDoes(ms, Len(ms), Len(ms), Len(ms))
  BY <1>1, <1>2, <1>4 DEF BatchDoes
<1>5. ASSUME NEW j \in 2..Len(ms), j <= e, RoomFor(ms, j), TakeBatch(ms, j, j),
             SendFails(BatchFrames(ms, j - 1)), UNCHANGED sent
      PROVE BatchDoes(ms, j, j, j - 1)
  BY <1>1, <1>2, <1>5 DEF BatchDoes
<1>6. ASSUME e <= Len(ms), NEW k, k = IF RoomFor(ms, e) THEN e ELSE e - 1, TakeBatch(ms, e, k),
             NEW n \in IF RoomFor(ms, e) THEN {e - 1} ELSE {0} \cup 0..(e - 2),
             SendOk(BatchFrames(ms, n)), sent' = sent \cup BatchPids(ms, n)
      PROVE k \in 0..Len(ms) /\ n \in 0..Len(ms) /\ BatchDoes(ms, e, k, n)
  <2>1. k \in 0..Len(ms) /\ n \in 0..k /\ \A j \in 1..k : RoomFor(ms, j)
    BY <1>1, <1>2, <1>6
  <2> QED BY <1>1, <1>6, <2>1 DEF BatchDoes
<1>7. Len(ms) \in 0..Len(ms) /\ \A j \in 2..Len(ms) : j \in 0..Len(ms) /\ j - 1 \in 0..Len(ms)
  BY <1>1
<1>8. e <= Len(ms) => e \in 0..Len(ms)
  BY <1>1
<1> QED BY <1>3, <1>4, <1>5, <1>6, <1>7, <1>8

LEMMA BatchTyped ==
  ASSUME TypeInv, NEW ms \in Batches, PublishBatch(ms) PROVE TypeInv'
<1>1. ms \in Seq(OutMsgs) /\ nextPid + Cardinality(QoS12(ms, Len(ms))) <= MaxPid
  BY BatchEnds DEF PublishBatch
<1>2. /\ nextPid \in 1..MaxPid /\ TypeOK /\ attempted \subseteq OutMsgs /\ sent \subseteq 1..MaxPid
      /\ requests \in 0..MaxRequests /\ state \in {"Disconnected", "Connecting", "Connected"}
  BY DEF TypeInv, TypeOK
<1>3. /\ attempted' = attempted \cup ToSet(ms)
      /\ UNCHANGED <<state, callVars, requests, brokerVars>>
  BY DEF PublishBatch
<1>4. attempted' \subseteq OutMsgs
  BY <1>1, <1>2, <1>3 DEF ToSet
<1>5. PICK n \in 0..Len(ms), k \in 0..Len(ms), p \in 0..Len(ms) : BatchDoes(ms, n, k, p)
  BY BatchSplit
<1>6. nextPid' \in 1..MaxPid
  BY <1>1, <1>2, <1>5, BatchPidsFit DEF BatchDoes, TakeBatch
<1>7. Tabled(inflight')
  BY <1>1, <1>2, <1>5, BatchTabled DEF BatchDoes, TakeBatch
<1>8. sent' \subseteq 1..MaxPid
  <2>1. ASSUME NEW q \in 0..k PROVE BatchPids(ms, q) \subseteq 1..MaxPid
    <3>1. q \in 0..Len(ms) /\ \A j \in 1..q : RoomFor(ms, j)
      BY <1>1, <1>5 DEF BatchDoes
    <3> QED BY <1>1, <1>2, <3>1, BatchTabled
  <2> QED BY <1>2, <1>5, <2>1 DEF BatchDoes
<1>9. nextPid \in Nat
  BY <1>2, EmbeddedAssumption
<1>10. BatchFrames(ms, p) \in Seq(PacketFrame)
  BY <1>1, <1>9, BatchFrameTypes
<1>11. SendOk(BatchFrames(ms, p)) \/ SendFails(BatchFrames(ms, p))
  BY <1>5 DEF BatchDoes
<1> QED BY <1>2, <1>3, <1>4, <1>6, <1>7, <1>8, <1>10, <1>11, CallTyped

LEMMA AppTyped ==
  ASSUME TypeInv, AppStep PROVE TypeInv'
<1> USE EmbeddedAssumption
<1>1. /\ nextPid \in 1..MaxPid /\ NextPid(nextPid) \in 1..MaxPid /\ Tabled(inflight)
      /\ attempted \subseteq OutMsgs /\ sent \subseteq 1..MaxPid /\ requests \in 0..MaxRequests
      /\ state \in {"Disconnected", "Connecting", "Connected"}
  BY DEF TypeInv, TypeOK, Tabled, NextPid
<1>2. CASE Connect
  <2>1. /\ c2s' = <<Plain("CONNECT", 0)>> /\ s2c' = <<>>
        /\ UNCHANGED <<rx, events, delivered, nextPid, inflight, appVars, inbox, faults>>
        /\ state' = "Connecting" /\ call' = "connect" /\ link' = "up"
        /\ session' = FALSE /\ pushed' = {} /\ sent' = {}
    BY <1>2 DEF Connect
  <2>2. Plain("CONNECT", 0) \in PacketFrame
    BY PlainFrame DEF FrameTypes
  <2>3. c2s' \in Seq(PacketFrame) /\ s2c' \in Seq(IncomingFrame)
    BY <2>1, <2>2, ShortIsSeq
  <2> HIDE DEF Plain
  <2> QED BY <2>1, <2>3 DEF TypeInv, TypeOK, appVars
<1>3. ASSUME NEW k \in 1..Len(s2c), ConnectOk(k) PROVE TypeInv'
  <2>1. /\ s2c' = SubSeq(s2c, k + 1, Len(s2c)) /\ inflight' = Empty
        /\ state' = "Connected" /\ call' = "none"
        /\ UNCHANGED <<rx, events, delivered, nextPid, sent, appVars, link, c2s, brokerVars, faults>>
    BY <1>3 DEF ConnectOk, InflightAfterConnect
  <2>2. s2c \in Seq(IncomingFrame)
    BY DEF TypeInv
  <2>3. s2c' \in Seq(IncomingFrame)
    BY <2>1, <2>2, SubSeqSet
  <2>4. Tabled(inflight')
    BY <2>1, EmptyTabled
  <2> QED BY <2>1, <2>3, <2>4 DEF TypeInv, TypeOK, Tabled, appVars, brokerVars
<1>4. CASE ConnectFails
  <2>1. s2c' \in Seq(IncomingFrame)
    BY <1>4 DEF ConnectFails
  <2>2. faults' \in 0..MaxFaults
    BY <1>4 DEF ConnectFails, SpendUnlessBroken, Spend, TypeInv, TypeOK
  <2> QED BY <1>4, <2>1, <2>2 DEF ConnectFails, TypeInv, TypeOK, appVars, brokerVars, tableVars
<1>5. CASE Subscribe
  <2> DEFINE f == Plain("SUBSCRIBE", nextPid)
  <2>0. nextPid \in Nat
    BY <1>1
  <2>1. f \in PacketFrame
    BY <2>0, PlainFrame DEF FrameTypes
  <2>2. SendOk(<<f>>) \/ SendFails(<<f>>)
    BY <1>5 DEF Subscribe
  <2> HIDE DEF f
  <2>3. <<f>> \in Seq(PacketFrame)
    BY <2>1
  <2>4. /\ UNCHANGED <<callVars, brokerVars>> /\ state' = state /\ sent' = sent /\ inflight' = inflight
        /\ attempted' = attempted /\ nextPid' \in 1..MaxPid /\ requests' \in 0..MaxRequests
    BY <1>1, <1>5 DEF Subscribe
  <2> QED BY <1>1, <2>2, <2>3, <2>4, CallTyped
<1>6. CASE Disconnect
  <2> DEFINE f == Plain("DISCONNECT", 0)
  <2>1. f \in PacketFrame
    BY PlainFrame DEF FrameTypes
  <2>2. SendOk(<<f>>) \/ SendFails(<<f>>)
    BY <1>6 DEF Disconnect
  <2> HIDE DEF f
  <2>3. <<f>> \in Seq(PacketFrame)
    BY <2>1
  <2>4. /\ UNCHANGED <<callVars, brokerVars>> /\ sent' = sent /\ inflight' = inflight
        /\ state' \in {state, "Disconnected"}
        /\ attempted' = attempted /\ nextPid' = nextPid /\ requests' \in 0..MaxRequests
    BY <1>1, <1>6 DEF Disconnect, tableVars
  <2> QED BY <1>1, <2>2, <2>3, <2>4, CallTyped
<1>7. CASE Ping
  <2> DEFINE f == Plain("PINGREQ", 0)
  <2>1. f \in PacketFrame
    BY PlainFrame DEF FrameTypes
  <2>2. SendOk(<<f>>) \/ SendFails(<<f>>)
    BY <1>7 DEF Ping
  <2> HIDE DEF f
  <2>3. <<f>> \in Seq(PacketFrame)
    BY <2>1
  <2>4. /\ UNCHANGED <<callVars, brokerVars>> /\ sent' = sent /\ inflight' = inflight /\ state' = state
        /\ attempted' = attempted /\ nextPid' = nextPid /\ requests' \in 0..MaxRequests
    BY <1>1, <1>7 DEF Ping, tableVars
  <2> QED BY <1>1, <2>2, <2>3, <2>4, CallTyped
<1> QED BY <1>2, <1>3, <1>4, <1>5, <1>6, <1>7, PublishTyped, BatchTyped DEF AppStep

LEMMA PollTyped ==
  ASSUME TypeInv, PollStep PROVE TypeInv'
<1>1. rx \in Seq(IncomingFrame) /\ events \in Seq(IncomingFrame) /\ s2c \in Seq(IncomingFrame)
  BY DEF TypeInv
<1>2. ASSUME NEW kind \in PollKinds, NEW k \in 1..Len(s2c), Read(kind, k) PROVE TypeInv'
  <2>1. /\ call' = kind /\ rx' \in {SubSeq(s2c, 1, 1), SubSeq(s2c, 1, k)}
        /\ s2c' = SubSeq(s2c, k + 1, Len(s2c))
        /\ UNCHANGED <<events, delivered, state, tableVars, appVars, link, c2s, brokerVars, faults>>
    BY <1>2 DEF Read
  <2>2. \A m \in 1..(Len(s2c) + 1), n \in 0..Len(s2c) : SubSeq(s2c, m, n) \in Seq(IncomingFrame)
    BY <1>1
  <2>3. Len(s2c) \in Nat
    BY <1>1
  <2>4. /\ SubSeq(s2c, 1, 1) \in Seq(IncomingFrame) /\ SubSeq(s2c, 1, k) \in Seq(IncomingFrame)
        /\ SubSeq(s2c, k + 1, Len(s2c)) \in Seq(IncomingFrame)
    BY <2>2, <2>3
  <2>5. rx' \in Seq(IncomingFrame) /\ s2c' \in Seq(IncomingFrame)
    BY <2>1, <2>4
  <2> QED BY <2>1, <2>5 DEF TypeInv, TypeOK, tableVars, appVars, brokerVars
<1>3. ASSUME rx # <<>> PROVE /\ Head(rx) \in IncomingFrame /\ Head(rx) \in PacketFrame
                             /\ Tail(rx) \in Seq(IncomingFrame)
  <2>1. Head(rx) \in IncomingFrame /\ Tail(rx) \in Seq(IncomingFrame)
    BY <1>1, <1>3
  <2> QED BY <2>1 DEF IncomingFrame
<1>4. Tabled(inflight)
  BY DEF TypeInv, TypeOK, Tabled
<1>5. CASE HandleOk
  <2> DEFINE f == Head(rx)
  <2>1. f \in IncomingFrame /\ f \in PacketFrame /\ rx' \in Seq(IncomingFrame)
    BY <1>3, <1>5 DEF HandleOk
  <2>2. Tabled(inflight')
    BY <1>4, <1>5, <2>1, HandlingTabled DEF HandleOk
  <2>3. \/ UNCHANGED netVars /\ UNCHANGED faults
        \/ Answer(f) # <<>> /\ SendOk(Answer(f))
    BY <1>5 DEF HandleOk
  <2>4. Collected(f) \in Seq(IncomingFrame)
    <3> HIDE DEF f
    <3>1. events \o <<f>> \in Seq(IncomingFrame)
      BY <1>1, <2>1, Append1
    <3> QED BY <1>1, <3>1 DEF Collected, Event
  <2>5. Messages(Collected(f)) \subseteq InMsgs
    <3> HIDE DEF f
    <3>1. \A g \in ToSet(Collected(f)) : g \in IncomingFrame
      BY <2>4 DEF ToSet
    <3> QED BY <3>1 DEF Messages, IncomingFrame
  <2>6. /\ state' \in {state, "Disconnected"} /\ call' \in {call, "none"}
        /\ events' \in {<<>>, Collected(f)}
        /\ delivered' \in {delivered, delivered \cup Messages(Collected(f))}
        /\ UNCHANGED <<nextPid, sent, appVars, brokerVars>>
    BY <1>5 DEF HandleOk
  <2> HIDE DEF f
  <2>7. /\ c2s' \in Seq(PacketFrame) /\ s2c' \in Seq(IncomingFrame)
        /\ link' \in {"down", "up", "broken"} /\ faults' \in 0..MaxFaults
    <3>1. CASE UNCHANGED netVars /\ UNCHANGED faults
      BY <3>1 DEF netVars, TypeInv, TypeOK
    <3>2. CASE Answer(f) # <<>> /\ SendOk(Answer(f))
      <4>1. PICK g \in PacketFrame : Answer(f) = <<g>>
        BY <2>1, <3>2, Answers
      <4>2. <<g>> \in Seq(PacketFrame) /\ SendOk(<<g>>)
        BY <3>2, <4>1
      <4> QED BY <4>2, SentTyped
    <3> QED BY <2>3, <3>1, <3>2
  <2>8. events' \in Seq(IncomingFrame)
    <3>1. <<>> \in Seq(IncomingFrame)
      BY ShortIsSeq
    <3>2. events' = <<>> \/ events' = Collected(f)
      BY <2>6
    <3> QED BY <2>4, <3>1, <3>2
  <2> QED BY <2>1, <2>2, <2>5, <2>6, <2>7, <2>8 DEF TypeInv, TypeOK, Tabled, appVars, brokerVars
<1>6. CASE HandleFails
  <2> DEFINE f == Head(rx)
  <2>1. f \in IncomingFrame /\ f \in PacketFrame
    BY <1>3, <1>6 DEF HandleFails
  <2>2. Tabled(inflight')
    BY <1>4, <1>6, <2>1, HandlingTabled DEF HandleFails
  <2>3. /\ Answer(f) # <<>> /\ SendFails(Answer(f))
        /\ call' = "none" /\ rx' = <<>> /\ events' = <<>>
        /\ UNCHANGED <<delivered, state, nextPid, sent, appVars, brokerVars>>
    BY <1>6 DEF HandleFails
  <2> HIDE DEF f
  <2>4. PICK g \in PacketFrame : Answer(f) = <<g>>
    BY <2>1, <2>3, Answers
  <2>5. <<g>> \in Seq(PacketFrame) /\ SendFails(<<g>>)
    BY <2>3, <2>4
  <2>6. /\ c2s' \in Seq(PacketFrame) /\ s2c' \in Seq(IncomingFrame)
        /\ link' \in {"down", "up", "broken"} /\ faults' \in 0..MaxFaults
    BY <2>5, SentTyped
  <2>7. rx' \in Seq(IncomingFrame) /\ events' \in Seq(IncomingFrame)
    BY <2>3
  <2> QED BY <2>2, <2>3, <2>6, <2>7 DEF TypeInv, TypeOK, Tabled, appVars, brokerVars
<1> QED BY <1>2, <1>5, <1>6 DEF PollStep

LEMMA BrokerTyped ==
  ASSUME TypeInv, BrokerStep \/ BrokerDisconnect \/ Break PROVE TypeInv'
<1> USE EmbeddedAssumption
<1>1. /\ c2s \in Seq(PacketFrame) /\ s2c \in Seq(IncomingFrame) /\ inbox \in [InMsgs -> {"new", "sent", "rel", "done"}]
      /\ faults \in 0..MaxFaults /\ link \in {"down", "up", "broken"}
  BY DEF TypeInv, TypeOK
<1>2. ASSUME NEW f \in PacketFrame, f.type # "PUBLISH" PROVE f \in IncomingFrame
  BY <1>2 DEF IncomingFrame
<1>3. ASSUME NEW f \in IncomingFrame, Send(<<f>>) PROVE s2c' \in Seq(IncomingFrame)
  <2>1. s2c \o <<f>> \in Seq(IncomingFrame)
    BY <1>1, Append1
  <2> QED BY <1>1, <1>3, <2>1 DEF Send
<1>4. ASSUME c2s # <<>> PROVE Head(c2s) \in PacketFrame /\ Tail(c2s) \in Seq(PacketFrame)
  BY <1>1, <1>4
<1>5. ASSUME UNCHANGED <<state, callVars, tableVars, appVars>>,
             c2s' \in Seq(PacketFrame), s2c' \in Seq(IncomingFrame),
             link' \in {"down", "up", "broken"}, faults' \in 0..MaxFaults, session' \in BOOLEAN,
             inbox' \in [InMsgs -> {"new", "sent", "rel", "done"}], pushed' \subseteq InMsgs
      PROVE TypeInv'
  BY <1>5 DEF TypeInv, TypeOK, callVars, tableVars, appVars
<1>6. session \in BOOLEAN /\ pushed \subseteq InMsgs
  BY DEF TypeInv, TypeOK
<1>7. CASE BrokerConnect
  <2> DEFINE g == Plain("CONNACK", 0)
  <2>1. g \in PacketFrame /\ g.type = "CONNACK"
    BY PlainFrame DEF FrameTypes
  <2>2. Send(<<g>>) /\ c2s' \in Seq(PacketFrame)
    BY <1>4, <1>7 DEF BrokerConnect
  <2>3. inbox' \in [InMsgs -> {"new", "sent", "rel", "done"}]
    BY <1>1, <1>7 DEF BrokerConnect
  <2>4. UNCHANGED <<state, callVars, tableVars, appVars, link, pushed, faults>> /\ session' = TRUE
    BY <1>7 DEF BrokerConnect
  <2> HIDE DEF g
  <2>5. s2c' \in Seq(IncomingFrame)
    BY <1>2, <1>3, <2>1, <2>2
  <2> QED BY <1>1, <1>5, <1>6, <2>2, <2>3, <2>4, <2>5
<1>8. CASE BrokerRecv
  <2> DEFINE f == Head(c2s)
  <2>1. f \in PacketFrame /\ c2s' \in Seq(PacketFrame) /\ Send(Reply(f))
    BY <1>4, <1>8 DEF BrokerRecv
  <2>2. UNCHANGED <<state, callVars, tableVars, appVars, link, session, pushed, faults>>
    BY <1>8 DEF BrokerRecv
  <2>3. inbox' \in [InMsgs -> {"new", "sent", "rel", "done"}]
    BY <1>1, <1>8 DEF BrokerRecv
  <2> HIDE DEF f
  <2>4. s2c' \in Seq(IncomingFrame)
    <3>1. CASE Reply(f) = <<>>
      <4>1. s2c \o <<>> = s2c
        BY <1>1
      <4> QED BY <1>1, <2>1, <3>1, <4>1 DEF Send
    <3>2. CASE Reply(f) # <<>>
      <4>1. PICK g \in PacketFrame : Reply(f) = <<g>> /\ g.type # "PUBLISH"
        BY <2>1, <3>2, Replies
      <4> QED BY <1>2, <1>3, <2>1, <4>1
    <3> QED BY <3>1, <3>2
  <2> QED BY <1>1, <1>5, <1>6, <2>1, <2>2, <2>3, <2>4
<1>9. ASSUME NEW i \in InMsgs, BrokerPublish(i) PROVE TypeInv'
  <2> DEFINE g == Frame("PUBLISH", IF InQoS[i] = 0 THEN 0 ELSE InPid[i], i)
             r == Frame("PUBREL", InPid[i], i)
  <2>1. InPid[i] \in 1..MaxPid /\ InPid[i] \in Nat /\ InQoS[i] \in 0..2
    OBVIOUS
  <2>2. g \in PacketFrame /\ g.item = i /\ (InQoS[i] = 2 => g.pid = InPid[i])
        /\ r \in PacketFrame /\ r.type = "PUBREL"
    BY <2>1 DEF Frame, PacketFrame, FrameTypes
  <2>3. Send(<<g>>) \/ Send(<<r>>)
    BY <1>9 DEF BrokerPublish
  <2>4. inbox' \in [InMsgs -> {"new", "sent", "rel", "done"}]
    BY <1>1, <1>9 DEF BrokerPublish
  <2>5. UNCHANGED <<state, callVars, tableVars, appVars, link, c2s, session, faults>> /\ pushed' \subseteq InMsgs
    BY <1>6, <1>9 DEF BrokerPublish
  <2> HIDE DEF g, r
  <2>6. g \in IncomingFrame
    BY <2>1, <2>2 DEF IncomingFrame
  <2>7. r \in IncomingFrame
    BY <1>2, <2>2
  <2>8. s2c' \in Seq(IncomingFrame)
    BY <1>3, <2>3, <2>6, <2>7
  <2> QED BY <1>1, <1>5, <1>6, <2>4, <2>5, <2>8
<1>10. CASE BrokerDisconnect
  <2> DEFINE g == Plain("DISCONNECT", 0)
  <2>1. g \in PacketFrame /\ g.type = "DISCONNECT"
    BY PlainFrame DEF FrameTypes
  <2>2. /\ Send(<<g>>) /\ faults' \in 0..MaxFaults
        /\ UNCHANGED <<state, callVars, tableVars, appVars, link, c2s, session, inbox, pushed>>
    BY <1>1, <1>10 DEF BrokerDisconnect, Spend, brokerVars
  <2> HIDE DEF g
  <2>3. s2c' \in Seq(IncomingFrame)
    BY <1>2, <1>3, <2>1, <2>2
  <2> QED BY <1>1, <1>5, <1>6, <2>2, <2>3
<1>11. CASE BrokerClose \/ Break
  <2>1. /\ c2s' = <<>> /\ s2c' = <<>> /\ link' = "broken" /\ faults' \in 0..MaxFaults
        /\ UNCHANGED <<state, callVars, tableVars, appVars, session, inbox, pushed>>
    BY <1>1, <1>11 DEF BrokerClose, Break, Spend, brokerVars
  <2>2. c2s' \in Seq(PacketFrame) /\ s2c' \in Seq(IncomingFrame)
    BY <2>1
  <2> QED BY <1>1, <1>5, <1>6, <2>1, <2>2
<1> QED BY <1>7, <1>8, <1>9, <1>10, <1>11 DEF BrokerStep

LEMMA TypeInit == Init => TypeInv
<1> SUFFICES ASSUME Init PROVE TypeInv
  OBVIOUS
<1>1. /\ c2s = <<>> /\ s2c = <<>> /\ rx = <<>> /\ events = <<>> /\ inflight = Empty
      /\ nextPid = 1 /\ faults = 0 /\ requests = 0
  BY DEF Init
<1>2. c2s \in Seq(PacketFrame) /\ s2c \in Seq(IncomingFrame)
      /\ rx \in Seq(IncomingFrame) /\ events \in Seq(IncomingFrame)
  BY <1>1
<1>3. Tabled(inflight)
  BY <1>1, EmptyTabled
<1>4. nextPid \in 1..MaxPid /\ faults \in 0..MaxFaults /\ requests \in 0..MaxRequests
  BY <1>1, EmbeddedAssumption
<1> QED BY <1>2, <1>3, <1>4 DEF Init, TypeInv, TypeOK, Tabled

LEMMA TypeStep == TypeInv /\ [Next]_vars => TypeInv'
<1> SUFFICES ASSUME TypeInv, [Next]_vars PROVE TypeInv'
  OBVIOUS
<1>1. CASE UNCHANGED vars
  BY <1>1 DEF vars, callVars, tableVars, appVars, netVars, brokerVars, TypeInv, TypeOK
<1> QED BY <1>1, AppTyped, PollTyped, BrokerTyped DEF Next

(* The client's variables keep their types, and its table never exceeds    *)
(* MAX_INFLIGHT: every path that adds an entry has looked for room, a      *)
(* batch that takes several slots included.                                *)
THEOREM ClientTypeOK == Spec => []TypeOK
<1>1. TypeInv /\ [Next]_vars => TypeInv'
  BY TypeStep
<1>2. TypeInv => TypeOK
  BY DEF TypeInv
<1> QED BY TypeInit, <1>1, <1>2, PTL DEF Spec

-------------------------------------------------------------------------------
(* Exchanges that are alive. *)

\* The steps that may leave an entry nobody was told of: a message is tracked before
\* it is encoded, and a batch that stops drops what it has encoded and not sent.
SlotLeak ==
  \/ \E m \in Oversize : Publish(m) /\ OutQoS[m] > 0 /\ HasSlot(inflight, nextPid)
  \/ \E ms \in Batches : LET e == BatchEnd(ms) IN
       /\ PublishBatch(ms) /\ e <= Len(ms)
       /\ IF RoomFor(ms, e) THEN OutQoS[ms[e]] > 0 ELSE QoS12(ms, e - 1) # {}

\* What is on its way to the broker and back, for an identifier.
PublishOut(p, qos) == \E f \in ToSet(c2s) : f.type = "PUBLISH" /\ f.pid = p /\ OutQoS[f.item] = qos
Out(type, p)  == \E f \in ToSet(c2s) : f.type = type /\ f.pid = p
Back(type, p) == \E f \in ToSet(rx) \cup ToSet(s2c) : f.type = type /\ f.pid = p

\* What moves an entry on; the message to the broker is of the entry's own QoS.
Alive(p, status) ==
  /\ status = "AwaitingPubAck"  => PublishOut(p, 1) \/ Back("PUBACK", p)
  /\ status = "AwaitingPubRec"  => PublishOut(p, 2) \/ Back("PUBREC", p)
  /\ status = "AwaitingPubComp" => Out("PUBREL", p) \/ Back("PUBCOMP", p)
  /\ status = "AwaitingPubRel"  => Out("PUBREC", p) \/ Back("PUBREL", p)

Live == state = "Connected" /\ link = "up"

AliveInv ==
  /\ call \in {"none", "connect"} => rx = <<>>
  /\ Live => \A p \in DOMAIN inflight : Alive(p, inflight[p])

\* Nothing that was on its way is gone.
NoneLost == /\ ToSet(c2s) \subseteq ToSet(c2s)'
            /\ ToSet(rx) \cup ToSet(s2c) \subseteq ToSet(rx)' \cup ToSet(s2c)'

LEMMA StaysAlive ==
  ASSUME NEW p, NEW status, Alive(p, status), NoneLost PROVE Alive(p, status)'
<1>1. \A qos : PublishOut(p, qos) => PublishOut(p, qos)'
  BY DEF NoneLost, PublishOut
<1>2. \A type : (Out(type, p) => Out(type, p)') /\ (Back(type, p) => Back(type, p)')
  BY DEF NoneLost, Out, Back
<1> QED BY <1>1, <1>2 DEF Alive

\* A step that loses nothing and leaves the table alone.
LEMMA AliveKept ==
  ASSUME AliveInv, NoneLost, Live' => Live, inflight' = inflight,
         call' \in {"none", "connect"} => rx' = <<>>
  PROVE  AliveInv'
<1> SUFFICES ASSUME Live', NEW p \in DOMAIN inflight' PROVE Alive(p, inflight[p])'
  BY DEF AliveInv
<1>1. PICK status : status = inflight[p] /\ status = inflight'[p]
  OBVIOUS
<1>2. Alive(p, status)
  BY <1>1 DEF AliveInv
<1>3. Alive(p, status)'
  BY <1>2, StaysAlive
<1> QED BY <1>1, <1>3 DEF Alive

\* A link that is not up, or a client that is not connected, promises nothing.
LEMMA NotLive ==
  ASSUME ~Live', call' \in {"none", "connect"} => rx' = <<>> PROVE AliveInv'
BY DEF AliveInv

\* On a live link a send that succeeds adds its frames.
LEMMA SendOkAdds ==
  ASSUME TypeInv, NEW frames \in Seq(PacketFrame), SendOk(frames), link = "up"
  PROVE  ToSet(c2s)' = ToSet(c2s) \cup ToSet(frames) /\ s2c' = s2c
<1>1. c2s \in Seq(PacketFrame)
  BY DEF TypeInv
<1>2. ToSet(c2s \o frames) = ToSet(c2s) \cup ToSet(frames)
  BY <1>1, ConcatSet
<1>3. c2s' = c2s \o frames /\ s2c' = s2c
  BY DEF SendOk
<1> DEFINE both == c2s \o frames
<1>4. c2s' = both /\ ToSet(both) = ToSet(c2s) \cup ToSet(frames)
  BY <1>2, <1>3
<1> HIDE DEF both
<1> QED BY <1>3, <1>4 DEF ToSet

LEMMA SendKeepsLink ==
  ASSUME NEW frames, SendOk(frames) \/ SendFails(frames)
  PROVE  link' = "up" => SendOk(frames) /\ link = "up"
BY DEF SendOk, SendFails

\* A call that sends and leaves the table alone.
LEMMA SendKeepsAlive ==
  ASSUME TypeInv, AliveInv, NEW frames \in Seq(PacketFrame),
         (UNCHANGED netVars) \/ SendOk(frames) \/ SendFails(frames),
         inflight' = inflight, UNCHANGED callVars, state' = "Connected" => state = "Connected"
  PROVE  AliveInv'
<1>1. call' \in {"none", "connect"} => rx' = <<>>
  BY DEF AliveInv, callVars
<1>2. CASE UNCHANGED netVars
  <2>1. NoneLost /\ (Live' => Live)
    BY <1>2 DEF NoneLost, Live, netVars, callVars, ToSet
  <2> QED BY <1>1, <2>1, AliveKept
<1>3. CASE SendOk(frames) \/ SendFails(frames)
  <2>1. CASE link' = "up"
    <3>1. SendOk(frames) /\ link = "up"
      BY <1>3, <2>1, SendKeepsLink
    <3>2. NoneLost /\ (Live' => Live)
      BY <3>1, SendOkAdds DEF NoneLost, Live, callVars, ToSet
    <3> QED BY <1>1, <3>2, AliveKept
  <2>2. CASE link' # "up"
    BY <1>1, <2>2, NotLive DEF Live
  <2> QED BY <2>1, <2>2
<1> QED BY <1>2, <1>3

\* A frame that is handled moves the exchange it names: the entry goes, or is made
\* or advanced and answered; every other entry is as it was and waits for another
\* frame than this one.
LEMMA TableMoves ==
  ASSUME NEW f \in IncomingFrame, NEW t,
         NEW p \in DOMAIN After(f, Before(f, t))
  PROVE  LET u == After(f, Before(f, t)) IN
         \/ /\ p \in DOMAIN t /\ u[p] = t[p]
            /\ f.pid = p => /\ t[p] = "AwaitingPubAck"  => f.type # "PUBACK"
                            /\ t[p] = "AwaitingPubRec"  => f.type # "PUBREC"
                            /\ t[p] = "AwaitingPubComp" => f.type # "PUBCOMP"
                            /\ t[p] = "AwaitingPubRel"  => f.type # "PUBREL"
         \/ /\ f.pid = p /\ f.type = "PUBREC" /\ p \in DOMAIN t /\ t[p] = "AwaitingPubRec"
            /\ u[p] = "AwaitingPubComp"
         \/ /\ f.pid = p /\ f.type = "PUBLISH" /\ InQoS[f.item] = 2
            /\ u[p] = "AwaitingPubRel"
<1>1. CASE f.type = "PUBLISH"
  <2>1. Before(f, t) = t
    BY <1>1 DEF Before
  <2>2. CASE InQoS[f.item] = 2 /\ HasSlot(t, f.pid)
    <3>1. After(f, Before(f, t)) = Put(t, f.pid, "AwaitingPubRel")
      BY <1>1, <2>1, <2>2 DEF After, TrackInbound
    <3> QED BY <1>1, <2>2, <3>1 DEF Put
  <2>3. CASE ~(InQoS[f.item] = 2 /\ HasSlot(t, f.pid))
    <3>1. After(f, Before(f, t)) = t
      BY <1>1, <2>1, <2>3 DEF After, TrackInbound
    <3> QED BY <1>1, <3>1
  <2> QED BY <2>2, <2>3
<1>2. CASE f.type = "PUBREC"
  <2>1. After(f, Before(f, t)) = HandlePubrec(t, f.pid)
    BY <1>2 DEF After, Before
  <2>2. CASE Is(t, f.pid, "AwaitingPubRec")
    <3>1. After(f, Before(f, t)) = Put(t, f.pid, "AwaitingPubComp")
      BY <2>1, <2>2 DEF HandlePubrec
    <3> QED BY <1>2, <2>2, <3>1 DEF Put, Is
  <2>3. CASE ~Is(t, f.pid, "AwaitingPubRec")
    <3>1. After(f, Before(f, t)) = t
      BY <2>1, <2>3 DEF HandlePubrec
    <3> QED BY <1>2, <2>3, <3>1 DEF Is
  <2> QED BY <2>2, <2>3
<1>3. ASSUME NEW status, After(f, Before(f, t)) = IF Is(t, f.pid, status) THEN Drop(t, f.pid) ELSE t,
             \/ f.type = "PUBACK" /\ status = "AwaitingPubAck"
             \/ f.type = "PUBREL" /\ status = "AwaitingPubRel"
             \/ f.type = "PUBCOMP" /\ status = "AwaitingPubComp"
      PROVE  /\ p \in DOMAIN t /\ After(f, Before(f, t))[p] = t[p]
             /\ f.pid = p => /\ t[p] = "AwaitingPubAck"  => f.type # "PUBACK"
                             /\ t[p] = "AwaitingPubRec"  => f.type # "PUBREC"
                             /\ t[p] = "AwaitingPubComp" => f.type # "PUBCOMP"
                             /\ t[p] = "AwaitingPubRel"  => f.type # "PUBREL"
  <2>1. CASE Is(t, f.pid, status)
    <3>1. After(f, Before(f, t)) = Drop(t, f.pid)
      BY <1>3, <2>1
    <3> QED BY <3>1 DEF Drop
  <2>2. CASE ~Is(t, f.pid, status)
    <3>1. After(f, Before(f, t)) = t
      BY <1>3, <2>2
    <3> QED BY <1>3, <2>2, <3>1 DEF Is
  <2> QED BY <2>1, <2>2
<1>4. CASE f.type = "PUBACK"
  <2>1. After(f, Before(f, t)) = HandlePuback(t, f.pid)
    BY <1>4 DEF After, Before
  <2> QED BY <1>3, <1>4, <2>1 DEF HandlePuback
<1>5. CASE f.type = "PUBREL"
  <2>1. After(f, Before(f, t)) = HandlePubrel(t, f.pid)
    BY <1>5 DEF After, Before
  <2> QED BY <1>3, <1>5, <2>1 DEF HandlePubrel
<1>6. CASE f.type = "PUBCOMP"
  <2>1. After(f, Before(f, t)) = HandlePubcomp(t, f.pid)
    BY <1>6 DEF After, Before
  <2> QED BY <1>3, <1>6, <2>1 DEF HandlePubcomp
<1>7. CASE f.type \notin {"PUBLISH", "PUBREC", "PUBACK", "PUBREL", "PUBCOMP"}
  <2>1. After(f, Before(f, t)) = t
    BY <1>7 DEF After, Before
  <2> QED BY <1>7, <2>1
<1> QED BY <1>1, <1>2, <1>4, <1>5, <1>6, <1>7

\* A batch that leaves no entry behind: every message it tracks is sent, or the link
\* is lost.
LEMMA BatchSent ==
  ASSUME NEW ms \in Batches, PublishBatch(ms), ~SlotLeak
  PROVE  \E k \in 0..Len(ms) :
           /\ inflight' = BatchTracked(ms, k)
           /\ \/ \E n \in 0..Len(ms) : SendFails(BatchFrames(ms, n)) /\ sent' = sent
              \/ \E n \in 0..Len(ms) :
                   /\ SendOk(BatchFrames(ms, n)) /\ sent' = sent \cup BatchPids(ms, n)
                   /\ QoS12(ms, k) \subseteq QoS12(ms, n)
<1> DEFINE e == BatchEnd(ms)
<1>1. ms \in Seq(OutMsgs) /\ e \in 1..(Len(ms) + 1)
  BY BatchEnds
<1>2. \/ /\ e > Len(ms) /\ TakeBatch(ms, Len(ms), Len(ms))
         /\ \/ SendOk(BatchFrames(ms, Len(ms))) /\ sent' = sent \cup BatchPids(ms, Len(ms))
            \/ SendFails(BatchFrames(ms, Len(ms))) /\ UNCHANGED sent
      \/ \E j \in 2..Len(ms) :
           /\ j <= e /\ RoomFor(ms, j) /\ TakeBatch(ms, j, j)
           /\ SendFails(BatchFrames(ms, j - 1)) /\ UNCHANGED sent
      \/ /\ e <= Len(ms)
         /\ TakeBatch(ms, e, IF RoomFor(ms, e) THEN e ELSE e - 1)
         /\ \E n \in IF RoomFor(ms, e) THEN {e - 1} ELSE {0} \cup 0..(e - 2) :
              SendOk(BatchFrames(ms, n)) /\ sent' = sent \cup BatchPids(ms, n)
  BY DEF PublishBatch
<1>3. e <= Len(ms) => IF RoomFor(ms, e) THEN ~(OutQoS[ms[e]] > 0) ELSE QoS12(ms, e - 1) = {}
  BY DEF SlotLeak
<1> HIDE DEF e
<1>4. CASE e > Len(ms) /\ TakeBatch(ms, Len(ms), Len(ms)) /\
           (\/ SendOk(BatchFrames(ms, Len(ms))) /\ sent' = sent \cup BatchPids(ms, Len(ms))
            \/ SendFails(BatchFrames(ms, Len(ms))) /\ UNCHANGED sent)
  <2>1. Len(ms) \in 0..Len(ms) /\ inflight' = BatchTracked(ms, Len(ms))
    BY <1>1, <1>4 DEF TakeBatch
  <2> QED BY <1>4, <2>1
<1>5. ASSUME NEW j \in 2..Len(ms), TakeBatch(ms, j, j), SendFails(BatchFrames(ms, j - 1)), UNCHANGED sent
      PROVE  /\ j \in 0..Len(ms) /\ j - 1 \in 0..Len(ms) /\ inflight' = BatchTracked(ms, j)
             /\ SendFails(BatchFrames(ms, j - 1)) /\ sent' = sent
  BY <1>1, <1>5 DEF TakeBatch
<1>6. ASSUME e <= Len(ms), NEW k, k = IF RoomFor(ms, e) THEN e ELSE e - 1, TakeBatch(ms, e, k),
             NEW n \in IF RoomFor(ms, e) THEN {e - 1} ELSE {0} \cup 0..(e - 2)
      PROVE  /\ k \in 0..Len(ms) /\ n \in 0..Len(ms) /\ inflight' = BatchTracked(ms, k)
             /\ QoS12(ms, k) \subseteq QoS12(ms, n)
  <2>1. k \in 0..Len(ms) /\ n \in 0..Len(ms) /\ inflight' = BatchTracked(ms, k)
    BY <1>1, <1>6 DEF TakeBatch
  <2>2. CASE RoomFor(ms, e)
    <3>1. k = e /\ n = e - 1 /\ ~(OutQoS[ms[e]] > 0) /\ e \in Nat
      BY <1>1, <1>3, <1>6, <2>2
    <3>2. \A i \in 1..e : i \in 1..(e - 1) \/ i = e
      BY <3>1
    <3> QED BY <2>1, <3>1, <3>2 DEF QoS12
  <2>3. CASE ~RoomFor(ms, e)
    BY <1>3, <1>6, <2>1, <2>3
  <2> QED BY <2>2, <2>3
<1> QED BY <1>2, <1>4, <1>5, <1>6

\* The entries a batch makes are of messages it sends, under their identifiers.
LEMMA BatchEntry ==
  ASSUME nextPid \in Nat, NEW ms \in Seq(OutMsgs), NEW k \in 0..Len(ms), NEW n \in 0..Len(ms),
         QoS12(ms, k) \subseteq QoS12(ms, n), NEW p \in BatchPids(ms, k)
  PROVE  \E f \in ToSet(BatchFrames(ms, n)) :
           /\ f.type = "PUBLISH" /\ f.pid = p /\ OutQoS[f.item] \in {1, 2}
           /\ BatchTracked(ms, k)[p] = FirstStatus(OutQoS[f.item])
<1>1. \E j \in QoS12(ms, k) : PidIn(ms, j) = p
  BY DEF BatchPids
<1> DEFINE j == CHOOSE j \in QoS12(ms, k) : PidIn(ms, j) = p
<1>2. j \in QoS12(ms, k) /\ PidIn(ms, j) = p
  BY <1>1
<1>3. BatchTracked(ms, k)[p] = FirstStatus(OutQoS[ms[j]])
  BY DEF BatchTracked
<1> HIDE DEF j
<1>4. j \in 1..n /\ j \in 1..Len(ms) /\ OutQoS[ms[j]] > 0 /\ ms[j] \in OutMsgs
  BY <1>2 DEF QoS12
<1>5. OutQoS[ms[j]] \in {1, 2}
  <2>1. OutQoS[ms[j]] \in 0..2
    BY <1>4, EmbeddedAssumption
  <2> QED BY <1>4, <2>1
<1>6. DOMAIN BatchFrames(ms, n) = 1..n /\ BatchFrames(ms, n)[j] = PublishFrame(ms[j], p)
  BY <1>2, <1>4 DEF BatchFrames
<1>7. PublishFrame(ms[j], p) \in ToSet(BatchFrames(ms, n))
  BY <1>4, <1>6 DEF ToSet
<1>8. LET f == PublishFrame(ms[j], p) IN f.type = "PUBLISH" /\ f.pid = p /\ f.item = ms[j]
  BY <1>5 DEF PublishFrame, Frame
<1> QED BY <1>3, <1>5, <1>7, <1>8

LEMMA PublishAlive ==
  ASSUME TypeInv, AliveInv, NEW m \in OutMsgs, Publish(m), ~SlotLeak PROVE AliveInv'
<1> DEFINE f == PublishFrame(m, nextPid)
<1>1. nextPid \in Nat /\ OutQoS[m] \in 0..2 /\ UNCHANGED <<state, callVars>>
  BY EmbeddedAssumption DEF TypeInv, TypeOK, Publish
<1>2. f \in PacketFrame /\ f.type = "PUBLISH" /\ f.item = m /\ (OutQoS[m] > 0 => f.pid = nextPid)
  BY <1>1 DEF PublishFrame, Frame, PacketFrame, FrameTypes
<1>3. <<f>> \in Seq(PacketFrame)
  BY <1>2, ShortIsSeq
<1>4. \/ inflight' = inflight
      \/ /\ OutQoS[m] > 0 /\ HasSlot(inflight, nextPid)
         /\ inflight' = Put(inflight, nextPid, FirstStatus(OutQoS[m]))
  <2>1. CASE OutQoS[m] = 0
    BY <2>1 DEF Publish
  <2>2. CASE OutQoS[m] > 0 /\ HasSlot(inflight, nextPid)
    <3>1. OutQoS[m] # 0
      BY <2>2
    <3> QED BY <2>2, <3>1 DEF Publish, TrackOutbound
  <2>3. CASE OutQoS[m] # 0 /\ ~HasSlot(inflight, nextPid)
    BY <2>3 DEF Publish
  <2>4. OutQoS[m] = 0 \/ OutQoS[m] > 0
    BY <1>1
  <2> QED BY <2>1, <2>2, <2>3, <2>4
<1>5. m \in Oversize => ~(OutQoS[m] > 0 /\ HasSlot(inflight, nextPid))
  BY DEF SlotLeak
<1>6. \/ /\ UNCHANGED netVars /\ (m \in Oversize \/ (OutQoS[m] > 0 /\ ~HasSlot(inflight, nextPid)))
      \/ SendOk(<<f>>) \/ SendFails(<<f>>)
  BY DEF Publish
<1> HIDE DEF f
<1>7. CASE inflight' = inflight
  <2>1. (UNCHANGED netVars) \/ SendOk(<<f>>) \/ SendFails(<<f>>)
    BY <1>6
  <2> QED BY <1>1, <1>3, <1>7, <2>1, SendKeepsAlive
<1>8. CASE /\ OutQoS[m] > 0 /\ HasSlot(inflight, nextPid)
           /\ inflight' = Put(inflight, nextPid, FirstStatus(OutQoS[m]))
  <2>1. call' \in {"none", "connect"} => rx' = <<>>
    BY <1>1 DEF AliveInv, callVars
  <2>2. SendOk(<<f>>) \/ SendFails(<<f>>)
    BY <1>5, <1>6, <1>8
  <2>3. CASE link' # "up"
    BY <2>1, <2>3, NotLive DEF Live
  <2>4. CASE link' = "up"
    <3>1. SendOk(<<f>>) /\ link = "up"
      BY <2>2, <2>4, SendKeepsLink
    <3>2. ToSet(c2s)' = ToSet(c2s) \cup ToSet(<<f>>) /\ s2c' = s2c
      BY <1>3, <3>1, SendOkAdds
    <3>3. f \in ToSet(c2s)'
      BY <3>2, ShortSet
    <3>4. NoneLost
      BY <1>1, <3>2 DEF NoneLost, callVars, ToSet
    <3>5. ASSUME Live', NEW p \in DOMAIN inflight' PROVE Alive(p, inflight[p])'
      <4>1. Live
        BY <1>1, <3>1, <3>5 DEF Live
      <4>2. CASE p = nextPid
        <5>1. inflight'[p] = FirstStatus(OutQoS[m]) /\ OutQoS[m] \in {1, 2}
          BY <1>1, <1>8, <4>2 DEF Put
        <5>2. PublishOut(p, OutQoS[m])'
          BY <1>2, <1>8, <3>3, <4>2 DEF PublishOut
        <5> QED BY <5>1, <5>2 DEF Alive, FirstStatus
      <4>3. CASE p # nextPid
        <5>1. p \in DOMAIN inflight /\ inflight'[p] = inflight[p]
          BY <1>8, <3>5, <4>3 DEF Put
        <5>2. PICK status : status = inflight[p] /\ status = inflight'[p]
          BY <5>1
        <5>3. Alive(p, status)
          BY <4>1, <5>1, <5>2 DEF AliveInv
        <5>4. Alive(p, status)'
          BY <3>4, <5>3, StaysAlive
        <5> QED BY <5>2, <5>4 DEF Alive
      <4> QED BY <4>2, <4>3
    <3> QED BY <2>1, <3>5 DEF AliveInv
  <2> QED BY <2>3, <2>4
<1> QED BY <1>4, <1>7, <1>8

LEMMA BatchAlive ==
  ASSUME TypeInv, AliveInv, NEW ms \in Batches, PublishBatch(ms), ~SlotLeak PROVE AliveInv'
<1>1. ms \in Seq(OutMsgs) /\ nextPid \in Nat /\ UNCHANGED <<state, callVars>>
  BY BatchEnds, EmbeddedAssumption DEF TypeInv, TypeOK, PublishBatch
<1>2. PICK k \in 0..Len(ms) :
        /\ inflight' = BatchTracked(ms, k)
        /\ \/ \E n \in 0..Len(ms) : SendFails(BatchFrames(ms, n)) /\ sent' = sent
           \/ \E n \in 0..Len(ms) :
                /\ SendOk(BatchFrames(ms, n)) /\ sent' = sent \cup BatchPids(ms, n)
                /\ QoS12(ms, k) \subseteq QoS12(ms, n)
  BY BatchSent
<1>3. call' \in {"none", "connect"} => rx' = <<>>
  BY <1>1 DEF AliveInv, callVars
<1>4. ASSUME NEW n \in 0..Len(ms), SendFails(BatchFrames(ms, n)) PROVE AliveInv'
  BY <1>3, <1>4, NotLive DEF Live, SendFails
<1>5. ASSUME NEW n \in 0..Len(ms), SendOk(BatchFrames(ms, n)), QoS12(ms, k) \subseteq QoS12(ms, n)
      PROVE AliveInv'
  <2>1. CASE link # "up"
    <3>1. link' # "up"
      BY <1>5, <2>1 DEF SendOk
    <3> QED BY <1>3, <3>1, NotLive DEF Live
  <2>2. CASE link = "up"
    <3>1. BatchFrames(ms, n) \in Seq(PacketFrame)
      BY <1>1, BatchFrameTypes
    <3>2. ToSet(c2s)' = ToSet(c2s) \cup ToSet(BatchFrames(ms, n)) /\ s2c' = s2c
      BY <1>5, <2>2, <3>1, SendOkAdds
    <3>3. NoneLost
      BY <1>1, <3>2 DEF NoneLost, callVars, ToSet
    <3>4. ASSUME Live', NEW p \in DOMAIN inflight' PROVE Alive(p, inflight[p])'
      <4>1. Live
        BY <1>1, <2>2, <3>4 DEF Live
      <4>2. CASE p \in BatchPids(ms, k)
        <5>1. PICK f \in ToSet(BatchFrames(ms, n)) :
                /\ f.type = "PUBLISH" /\ f.pid = p /\ OutQoS[f.item] \in {1, 2}
                /\ BatchTracked(ms, k)[p] = FirstStatus(OutQoS[f.item])
          BY <1>1, <1>5, <4>2, BatchEntry
        <5>2. PublishOut(p, OutQoS[f.item])'
          BY <3>2, <5>1 DEF PublishOut
        <5>3. inflight'[p] = FirstStatus(OutQoS[f.item])
          BY <1>2, <5>1
        <5> QED BY <5>1, <5>2, <5>3 DEF Alive, FirstStatus
      <4>3. CASE p \notin BatchPids(ms, k)
        <5>1. p \in DOMAIN inflight /\ inflight'[p] = inflight[p]
          BY <1>2, <3>4, <4>3 DEF BatchTracked
        <5>2. PICK status : status = inflight[p] /\ status = inflight'[p]
          BY <5>1
        <5>3. Alive(p, status)
          BY <4>1, <5>1, <5>2 DEF AliveInv
        <5>4. Alive(p, status)'
          BY <3>3, <5>3, StaysAlive
        <5> QED BY <5>2, <5>4 DEF Alive
      <4> QED BY <4>2, <4>3
    <3> QED BY <1>3, <3>4 DEF AliveInv
  <2> QED BY <2>1, <2>2
<1> QED BY <1>2, <1>4, <1>5

\* poll returns the first frame of a read and loses the others: it must be alone.
LEMMA ReadAlive ==
  ASSUME "poll" \notin PollKinds \/ MaxRead = 1, TypeInv, AliveInv,
         NEW kind \in PollKinds, NEW k \in 1..Len(s2c), Read(kind, k)
  PROVE  AliveInv'
<1>1. /\ call = "none" /\ k <= MaxRead /\ call' = kind
      /\ rx' = IF kind = "poll" THEN SubSeq(s2c, 1, 1) ELSE SubSeq(s2c, 1, k)
      /\ s2c' = SubSeq(s2c, k + 1, Len(s2c))
      /\ UNCHANGED <<state, inflight, link, c2s>>
  BY DEF Read, Ready, Idle, tableVars
<1>2. s2c \in Seq(IncomingFrame) /\ rx = <<>> /\ k \in 0..Len(s2c) /\ k \in Nat \ {0}
  BY <1>1 DEF TypeInv, AliveInv
<1>3. kind = "poll" => k = 1
  BY <1>1, <1>2, EmbeddedAssumption
<1>4. rx' = SubSeq(s2c, 1, k)
  BY <1>1, <1>3
<1>5. ToSet(s2c) \subseteq ToSet(SubSeq(s2c, 1, k)) \cup ToSet(SubSeq(s2c, k + 1, Len(s2c)))
  BY <1>2, SplitSet
<1>6. ToSet(rx) = {}
  BY <1>2, ShortSet
<1>7. ToSet(rx) \cup ToSet(s2c) \subseteq ToSet(rx)' \cup ToSet(s2c)'
  BY <1>1, <1>4, <1>5, <1>6 DEF ToSet
<1>8. NoneLost /\ (Live' => Live)
  BY <1>1, <1>7 DEF NoneLost, Live, ToSet
<1>9. call' \notin {"none", "connect"}
  BY <1>1, EmbeddedAssumption
<1> QED BY <1>1, <1>8, <1>9, AliveKept

LEMMA HandleAlive ==
  ASSUME TypeInv, AliveInv, HandleOk PROVE AliveInv'
<1> DEFINE f == Head(rx)
<1>1. /\ rx # <<>> /\ inflight' = After(f, Before(f, inflight))
      /\ state' \in {state, "Disconnected"} /\ rx' = Tail(rx)
      /\ IF Tail(rx) = <<>> THEN call' = "none" ELSE call' = call
      /\ \/ Answer(f) = <<>> /\ UNCHANGED netVars
         \/ Answer(f) # <<>> /\ SendOk(Answer(f))
  BY DEF HandleOk
<1>2. rx \in Seq(IncomingFrame) /\ f \in IncomingFrame /\ f \in PacketFrame
  <2>1. rx \in Seq(IncomingFrame)
    BY DEF TypeInv
  <2>2. f \in IncomingFrame
    BY <1>1, <2>1
  <2> QED BY <2>1, <2>2 DEF IncomingFrame
<1>3. ToSet(rx) = {f} \cup ToSet(Tail(rx))
  BY <1>1, <1>2, HeadTailSet
<1> HIDE DEF f
<1>4. call' \in {"none", "connect"} => rx' = <<>>
  BY <1>1 DEF AliveInv
<1>5. ASSUME Live' PROVE Live /\ ToSet(c2s)' = ToSet(c2s) \cup ToSet(Answer(f)) /\ s2c' = s2c
  <2>1. state = "Connected"
    BY <1>1, <1>5 DEF Live
  <2>2. CASE Answer(f) = <<>> /\ UNCHANGED netVars
    <3>1. ToSet(Answer(f)) = {}
      BY <2>2, ShortSet
    <3> QED BY <1>5, <2>1, <2>2, <3>1 DEF Live, netVars, ToSet
  <2>3. CASE Answer(f) # <<>> /\ SendOk(Answer(f))
    <3>1. link = "up"
      BY <1>5, <2>3 DEF Live, SendOk
    <3>2. \E g \in PacketFrame : Answer(f) = <<g>>
      BY <1>2, <2>3, Answers
    <3>3. Answer(f) \in Seq(PacketFrame)
      BY <3>2, ShortIsSeq
    <3> QED BY <2>1, <2>3, <3>1, <3>3, SendOkAdds DEF Live
  <2> QED BY <1>1, <2>2, <2>3
<1>6. ASSUME Live', NEW p \in DOMAIN inflight' PROVE Alive(p, inflight[p])'
  <2>1. \A qos : PublishOut(p, qos) => PublishOut(p, qos)'
    BY <1>5, <1>6 DEF PublishOut
  <2>2. \A type : Out(type, p) => Out(type, p)'
    BY <1>5, <1>6 DEF Out
  <2>3. ASSUME NEW type, f.pid = p => f.type # type, Back(type, p) PROVE Back(type, p)'
    <3>1. PICK g \in ToSet(rx) \cup ToSet(s2c) : g.type = type /\ g.pid = p
      BY <2>3 DEF Back
    <3>2. g # f
      BY <2>3, <3>1
    <3>3. g \in ToSet(Tail(rx)) \cup ToSet(s2c)
      BY <1>3, <3>1, <3>2
    <3>4. g \in ToSet(rx)' \cup ToSet(s2c)'
      BY <1>1, <1>5, <1>6, <3>3 DEF ToSet
    <3> QED BY <3>1, <3>4 DEF Back
  <2>4. p \in DOMAIN After(f, Before(f, inflight))
    BY <1>1
  <2>5. LET u == inflight' IN
        \/ /\ p \in DOMAIN inflight /\ u[p] = inflight[p]
           /\ f.pid = p => /\ inflight[p] = "AwaitingPubAck"  => f.type # "PUBACK"
                           /\ inflight[p] = "AwaitingPubRec"  => f.type # "PUBREC"
                           /\ inflight[p] = "AwaitingPubComp" => f.type # "PUBCOMP"
                           /\ inflight[p] = "AwaitingPubRel"  => f.type # "PUBREL"
        \/ /\ f.pid = p /\ f.type = "PUBREC" /\ u[p] = "AwaitingPubComp"
        \/ /\ f.pid = p /\ f.type = "PUBLISH" /\ InQoS[f.item] = 2
           /\ u[p] = "AwaitingPubRel"
    BY <1>1, <1>2, <2>4, TableMoves
  <2>6. CASE /\ p \in DOMAIN inflight /\ inflight'[p] = inflight[p]
             /\ f.pid = p => /\ inflight[p] = "AwaitingPubAck"  => f.type # "PUBACK"
                             /\ inflight[p] = "AwaitingPubRec"  => f.type # "PUBREC"
                             /\ inflight[p] = "AwaitingPubComp" => f.type # "PUBCOMP"
                             /\ inflight[p] = "AwaitingPubRel"  => f.type # "PUBREL"
    <3>1. Alive(p, inflight[p])
      BY <1>5, <1>6, <2>6 DEF AliveInv
    <3> QED BY <2>1, <2>2, <2>3, <2>6, <3>1 DEF Alive
  <2>7. CASE f.pid = p /\ f.type = "PUBREC" /\ inflight'[p] = "AwaitingPubComp"
    <3>1. Answer(f) = <<Plain("PUBREL", p)>>
      BY <2>7 DEF Answer
    <3>2. Plain("PUBREL", p).type = "PUBREL" /\ Plain("PUBREL", p).pid = p
      BY DEF Plain, Frame
    <3>3. Plain("PUBREL", p) \in ToSet(c2s)'
      BY <1>5, <1>6, <3>1, ShortSet
    <3>4. Out("PUBREL", p)'
      BY <3>2, <3>3 DEF Out
    <3> QED BY <2>7, <3>4 DEF Alive
  <2>8. CASE f.pid = p /\ f.type = "PUBLISH" /\ InQoS[f.item] = 2 /\ inflight'[p] = "AwaitingPubRel"
    <3> DEFINE g == Frame("PUBREC", p, f.item)
    <3>1. Answer(f) = <<g>>
      BY <2>8 DEF Answer, AnswerNoPubrel
    <3>2. g.type = "PUBREC" /\ g.pid = p
      BY DEF Frame
    <3> HIDE DEF g
    <3>3. g \in ToSet(c2s)'
      BY <1>5, <1>6, <3>1, ShortSet
    <3>4. Out("PUBREC", p)'
      BY <3>2, <3>3 DEF Out
    <3> QED BY <2>8, <3>4 DEF Alive
  <2> QED BY <2>5, <2>6, <2>7, <2>8
<1> QED BY <1>4, <1>6 DEF AliveInv

\* What the broker sends adds to what is on its way back.
LEMMA SendAdds ==
  ASSUME TypeInv, NEW frames \in Seq(PacketFrame), Send(frames), link = "up"
  PROVE  ToSet(s2c)' = ToSet(s2c) \cup ToSet(frames)
<1>1. s2c \in Seq(PacketFrame)
  <2>1. s2c \in Seq(IncomingFrame) /\ IncomingFrame \subseteq PacketFrame
    BY DEF TypeInv, IncomingFrame
  <2> QED BY <2>1
<1>2. ToSet(s2c \o frames) = ToSet(s2c) \cup ToSet(frames)
  BY <1>1, ConcatSet
<1> DEFINE both == s2c \o frames
<1>3. s2c' = both /\ ToSet(both) = ToSet(s2c) \cup ToSet(frames)
  BY <1>2 DEF Send
<1> HIDE DEF both
<1> QED BY <1>3 DEF ToSet

\* The broker takes a frame, and what it answers keeps the exchange going.
LEMMA AnsweredAlive ==
  ASSUME TypeInv, AliveInv, c2s # <<>>, c2s' = Tail(c2s), NEW f, f = Head(c2s),
         UNCHANGED <<state, callVars, tableVars, link>>,
         NEW frames \in Seq(PacketFrame), Send(frames),
         f.type = "PUBLISH" /\ OutQoS[f.item] = 1 =>
           \E g \in ToSet(frames) : g.type = "PUBACK" /\ g.pid = f.pid,
         f.type = "PUBLISH" /\ OutQoS[f.item] = 2 =>
           \E g \in ToSet(frames) : g.type = "PUBREC" /\ g.pid = f.pid,
         f.type = "PUBREL" => \E g \in ToSet(frames) : g.type = "PUBCOMP" /\ g.pid = f.pid,
         f.type = "PUBREC" => \E g \in ToSet(frames) : g.type = "PUBREL" /\ g.pid = f.pid
  PROVE  AliveInv'
<1>1. call' \in {"none", "connect"} => rx' = <<>>
  BY DEF AliveInv, callVars
<1> SUFFICES ASSUME Live' PROVE \A p \in DOMAIN inflight' : Alive(p, inflight[p])'
  BY <1>1 DEF AliveInv
<1>2. Live /\ link = "up" /\ inflight' = inflight /\ rx' = rx
  BY DEF Live, callVars, tableVars
<1>3. ToSet(s2c)' = ToSet(s2c) \cup ToSet(frames)
  BY <1>2, SendAdds
<1>4. ToSet(c2s) = {f} \cup ToSet(Tail(c2s))
  <2>1. c2s \in Seq(PacketFrame)
    BY DEF TypeInv
  <2> QED BY <2>1, HeadTailSet
<1>5. ToSet(c2s)' = ToSet(Tail(c2s)) /\ ToSet(rx)' = ToSet(rx)
  BY <1>2 DEF ToSet
<1>6. \A type, p : Back(type, p) => Back(type, p)'
  BY <1>3, <1>5 DEF Back
<1>7. ASSUME NEW g \in ToSet(frames) PROVE Back(g.type, g.pid)'
  BY <1>3 DEF Back
<1>8. ASSUME NEW type, NEW p, Out(type, p) PROVE Out(type, p)' \/ (f.type = type /\ f.pid = p)
  BY <1>4, <1>5, <1>8 DEF Out
<1>9. ASSUME NEW qos, NEW p, PublishOut(p, qos)
      PROVE PublishOut(p, qos)' \/ (f.type = "PUBLISH" /\ f.pid = p /\ OutQoS[f.item] = qos)
  BY <1>4, <1>5, <1>9 DEF PublishOut
<1> SUFFICES ASSUME NEW p \in DOMAIN inflight PROVE Alive(p, inflight[p])'
  BY <1>2
<1>10. Alive(p, inflight[p])
  BY <1>2 DEF AliveInv
<1>11. PublishOut(p, 1) => PublishOut(p, 1)' \/ Back("PUBACK", p)'
  BY <1>7, <1>9
<1>12. PublishOut(p, 2) => PublishOut(p, 2)' \/ Back("PUBREC", p)'
  BY <1>7, <1>9
<1>13. Out("PUBREL", p) => Out("PUBREL", p)' \/ Back("PUBCOMP", p)'
  BY <1>7, <1>8
<1>14. Out("PUBREC", p) => Out("PUBREC", p)' \/ Back("PUBREL", p)'
  BY <1>7, <1>8
<1> QED BY <1>2, <1>6, <1>10, <1>11, <1>12, <1>13, <1>14 DEF Alive

LEMMA BrokerAlive ==
  ASSUME TypeInv, AliveInv, BrokerStep \/ BrokerDisconnect \/ Break PROVE AliveInv'
<1>1. CASE BrokerConnect
  <2> DEFINE f == Head(c2s)
             g == Plain("CONNACK", 0)
  <2>1. g \in PacketFrame
    BY PlainFrame DEF FrameTypes
  <2>2. /\ c2s # <<>> /\ f.type = "CONNECT" /\ c2s' = Tail(c2s) /\ Send(<<g>>)
        /\ UNCHANGED <<state, callVars, tableVars, link>>
    BY <1>1 DEF BrokerConnect
  <2> HIDE DEF g
  <2>3. <<g>> \in Seq(PacketFrame)
    BY <2>1, ShortIsSeq
  <2> QED BY <2>2, <2>3, AnsweredAlive
<1>2. CASE BrokerRecv
  <2> DEFINE f == Head(c2s)
  <2>1. /\ c2s # <<>> /\ c2s' = Tail(c2s) /\ Send(Reply(f))
        /\ UNCHANGED <<state, callVars, tableVars, link>>
    BY <1>2 DEF BrokerRecv
  <2>2. f \in PacketFrame
    <3>1. c2s \in Seq(PacketFrame)
      BY DEF TypeInv
    <3> QED BY <2>1, <3>1
  <2>3. f = Head(c2s)
    OBVIOUS
  <2> HIDE DEF f
  <2>4. Reply(f) \in Seq(PacketFrame)
    <3>1. CASE Reply(f) = <<>>
      BY <3>1, ShortIsSeq
    <3>2. CASE Reply(f) # <<>>
      <4>1. \E g \in PacketFrame : Reply(f) = <<g>>
        BY <2>2, <3>2, Replies
      <4> QED BY <4>1, ShortIsSeq
    <3> QED BY <3>1, <3>2
  <2>5. \A g : g \in ToSet(<<g>>)
    BY ShortSet
  <2>6. \A type, pid, item : /\ Frame(type, pid, item).type = type
                             /\ Frame(type, pid, item).pid = pid
    BY DEF Frame
  <2>7. f.type = "PUBLISH" /\ OutQoS[f.item] = 1 =>
          \E g \in ToSet(Reply(f)) : g.type = "PUBACK" /\ g.pid = f.pid
    <3> HAVE f.type = "PUBLISH" /\ OutQoS[f.item] = 1
    <3>1. Reply(f) = <<Frame("PUBACK", f.pid, Nothing)>>
      BY DEF Reply, Plain
    <3> QED BY <2>5, <2>6, <3>1
  <2>8. f.type = "PUBLISH" /\ OutQoS[f.item] = 2 =>
          \E g \in ToSet(Reply(f)) : g.type = "PUBREC" /\ g.pid = f.pid
    <3> HAVE f.type = "PUBLISH" /\ OutQoS[f.item] = 2
    <3>1. Reply(f) = <<Frame("PUBREC", f.pid, Nothing)>>
      BY DEF Reply, Plain
    <3> QED BY <2>5, <2>6, <3>1
  <2>9. f.type = "PUBREL" => \E g \in ToSet(Reply(f)) : g.type = "PUBCOMP" /\ g.pid = f.pid
    <3> HAVE f.type = "PUBREL"
    <3>1. Reply(f) = <<Frame("PUBCOMP", f.pid, Nothing)>>
      BY DEF Reply, Plain
    <3> QED BY <2>5, <2>6, <3>1
  <2>10. f.type = "PUBREC" => \E g \in ToSet(Reply(f)) : g.type = "PUBREL" /\ g.pid = f.pid
    <3> HAVE f.type = "PUBREC"
    <3>1. Reply(f) = <<Frame("PUBREL", f.pid, f.item)>>
      BY DEF Reply
    <3> QED BY <2>5, <2>6, <3>1
  <2> QED BY <2>1, <2>3, <2>4, <2>7, <2>8, <2>9, <2>10, AnsweredAlive
<1>3. ASSUME NEW frames, Send(frames), frames \in Seq(PacketFrame),
             UNCHANGED <<state, callVars, tableVars, link, c2s>>
      PROVE  AliveInv'
  <2>1. call' \in {"none", "connect"} => rx' = <<>>
    BY <1>3 DEF AliveInv, callVars
  <2>2. CASE link # "up"
    BY <1>3, <2>1, <2>2, NotLive DEF Live
  <2>3. CASE link = "up"
    <3>1. ToSet(s2c)' = ToSet(s2c) \cup ToSet(frames)
      BY <1>3, <2>3, SendAdds
    <3>2. NoneLost /\ (Live' => Live) /\ inflight' = inflight
      BY <1>3, <3>1 DEF NoneLost, Live, callVars, tableVars, ToSet
    <3> QED BY <2>1, <3>2, AliveKept
  <2> QED BY <2>2, <2>3
<1>4. ASSUME NEW i \in InMsgs, BrokerPublish(i) PROVE AliveInv'
  <2> DEFINE g == Frame("PUBLISH", IF InQoS[i] = 0 THEN 0 ELSE InPid[i], i)
             r == Frame("PUBREL", InPid[i], i)
  <2>1. InPid[i] \in Nat
    BY EmbeddedAssumption
  <2>2. g \in PacketFrame /\ r \in PacketFrame
    BY <2>1 DEF Frame, PacketFrame, FrameTypes
  <2>3. (Send(<<g>>) \/ Send(<<r>>)) /\ UNCHANGED <<state, callVars, tableVars, link, c2s>>
    BY <1>4 DEF BrokerPublish
  <2> HIDE DEF g, r
  <2>4. <<g>> \in Seq(PacketFrame) /\ <<r>> \in Seq(PacketFrame)
    BY <2>2, ShortIsSeq
  <2> QED BY <1>3, <2>3, <2>4
<1>5. CASE BrokerDisconnect
  <2> DEFINE g == Plain("DISCONNECT", 0)
  <2>1. g \in PacketFrame
    BY PlainFrame DEF FrameTypes
  <2>2. Send(<<g>>) /\ UNCHANGED <<state, callVars, tableVars, link, c2s>>
    BY <1>5 DEF BrokerDisconnect
  <2> HIDE DEF g
  <2>3. <<g>> \in Seq(PacketFrame)
    BY <2>1, ShortIsSeq
  <2> QED BY <1>3, <2>2, <2>3
<1>6. CASE BrokerClose \/ Break
  <2>1. link' = "broken" /\ UNCHANGED callVars
    BY <1>6 DEF BrokerClose, Break
  <2>2. call' \in {"none", "connect"} => rx' = <<>>
    BY <2>1 DEF AliveInv, callVars
  <2> QED BY <2>1, <2>2, NotLive DEF Live
<1> QED BY <1>1, <1>2, <1>4, <1>5, <1>6 DEF BrokerStep

LEMMA AliveStep ==
  ASSUME "poll" \notin PollKinds \/ MaxRead = 1, TypeInv, AliveInv, [Next /\ ~SlotLeak]_vars
  PROVE  AliveInv'
<1>1. ASSUME state' # "Connected" \/ link' # "up", rx' = rx, call' = call \/ rx = <<>>
      PROVE AliveInv'
  BY <1>1, NotLive DEF AliveInv, Live
<1>2. CASE PollStep
  <2>1. CASE HandleFails
    <3>1. link' = "broken" /\ rx' = <<>>
      BY <2>1 DEF HandleFails, SendFails
    <3> QED BY <3>1, NotLive DEF Live
  <2> QED BY <1>2, <2>1, ReadAlive, HandleAlive DEF PollStep
<1>3. CASE Connect \/ ConnectFails
  <2>1. rx = <<>> /\ rx' = rx /\ (state' # "Connected" \/ link' # "up")
    BY <1>3 DEF Connect, ConnectFails, Idle, AliveInv
  <2> QED BY <1>1, <2>1
<1>4. ASSUME NEW k \in 1..Len(s2c), ConnectOk(k) PROVE AliveInv'
  <2>1. inflight' = Empty /\ call = "connect" /\ rx' = rx
    BY <1>4 DEF ConnectOk, InflightAfterConnect
  <2>2. DOMAIN inflight' = {} /\ rx' = <<>>
    BY <2>1 DEF Empty, AliveInv
  <2> QED BY <2>2 DEF AliveInv
<1>5. CASE Subscribe \/ Disconnect \/ Ping
  <2>1. nextPid \in Nat
    BY EmbeddedAssumption DEF TypeInv, TypeOK
  <2>2. ASSUME NEW type \in FrameTypes, NEW pid \in Nat PROVE <<Plain(type, pid)>> \in Seq(PacketFrame)
    BY PlainFrame, ShortIsSeq
  <2>3. \E type \in FrameTypes, pid \in Nat :
          SendOk(<<Plain(type, pid)>>) \/ SendFails(<<Plain(type, pid)>>)
    BY <1>5, <2>1 DEF Subscribe, Disconnect, Ping, FrameTypes
  <2>4. inflight' = inflight /\ UNCHANGED callVars /\ (state' = "Connected" => state = "Connected")
    BY <1>5 DEF Subscribe, Disconnect, Ping, tableVars
  <2> QED BY <2>2, <2>3, <2>4, SendKeepsAlive
<1>6. CASE AppStep
  <2>1. ~SlotLeak \/ UNCHANGED vars
    OBVIOUS
  <2>2. ASSUME NEW m \in OutMsgs, Publish(m), ~SlotLeak PROVE AliveInv'
    BY <2>2, PublishAlive
  <2>3. ASSUME NEW ms \in Batches, PublishBatch(ms), ~SlotLeak PROVE AliveInv'
    BY <2>3, BatchAlive
  <2>4. ASSUME UNCHANGED vars PROVE AliveInv'
    <3>1. /\ NoneLost /\ (Live' => Live) /\ inflight' = inflight
          /\ call' \in {"none", "connect"} => rx' = <<>>
      BY <2>4 DEF vars, netVars, tableVars, callVars, NoneLost, Live, AliveInv, ToSet
    <3> QED BY <3>1, AliveKept
  <2> QED BY <1>3, <1>4, <1>5, <1>6, <2>1, <2>2, <2>3, <2>4 DEF AppStep
<1>7. CASE UNCHANGED vars
  <2>1. /\ NoneLost /\ (Live' => Live) /\ inflight' = inflight
        /\ call' \in {"none", "connect"} => rx' = <<>>
    BY <1>7 DEF vars, netVars, tableVars, callVars, NoneLost, Live, AliveInv, ToSet
  <2> QED BY <2>1, AliveKept
<1> QED BY <1>2, <1>6, <1>7, BrokerAlive DEF Next

LEMMA AliveIsExchangeAlive == TypeInv /\ AliveInv => ExchangeAlive
<1> SUFFICES ASSUME TypeInv, AliveInv, Live, NEW p \in DOMAIN inflight
             PROVE  CASE inflight[p] = "AwaitingPubAck" -> Coming("PUBLISH", "PUBACK", p)
                      [] inflight[p] = "AwaitingPubRec" -> Coming("PUBLISH", "PUBREC", p)
                      [] inflight[p] = "AwaitingPubComp" -> Coming("PUBREL", "PUBCOMP", p)
                      [] inflight[p] = "AwaitingPubRel" -> Coming("PUBREC", "PUBREL", p)
  BY DEF ExchangeAlive, Live
<1>1. \A type : Out(type, p) => HasFrame(c2s, type, p)
  BY DEF Out, HasFrame, ToSet
<1>2. \A qos : PublishOut(p, qos) => HasFrame(c2s, "PUBLISH", p)
  BY DEF PublishOut, HasFrame, ToSet
<1>3. ToSet(rx \o s2c) = ToSet(rx) \cup ToSet(s2c)
  <2>1. rx \in Seq(IncomingFrame) /\ s2c \in Seq(IncomingFrame)
    BY DEF TypeInv
  <2> QED BY <2>1, ConcatSet
<1> DEFINE back == rx \o s2c
<1>4. \A type : Back(type, p) => HasFrame(back, type, p)
  <2>1. ToSet(back) = ToSet(rx) \cup ToSet(s2c)
    BY <1>3
  <2> HIDE DEF back
  <2> QED BY <2>1 DEF Back, HasFrame, ToSet
<1>5. Alive(p, inflight[p]) /\ inflight[p] \in InflightStatus
  BY DEF AliveInv, TypeInv, TypeOK
<1> HIDE DEF back
<1>6. \A packet, answer : HasFrame(c2s, packet, p) \/ HasFrame(back, answer, p) => Coming(packet, answer, p)
  BY DEF back, Coming
<1> QED BY <1>1, <1>2, <1>4, <1>5, <1>6 DEF Alive, InflightStatus

LEMMA AliveInit == Init => AliveInv
BY DEF Init, AliveInv, Live

(* An exchange never stalls: on a live link every entry of the table has   *)
(* the packet that will move it on its way, in one direction or the other, *)
(* even when an inbound and an outbound exchange share an entry            *)
(* (client.rs handles each answer and sends what it calls for in one step, *)
(* and the table of one link is not used on the next).  Two conditions:    *)
(* poll, which returns the first packet of a read and loses the others, is *)
(* not used or is given one packet at a time; and no call leaves an entry  *)
(* for a message it did not send.                                          *)
THEOREM ExchangesAlive ==
  ASSUME "poll" \notin PollKinds \/ MaxRead = 1
  PROVE  Spec /\ [][~SlotLeak]_vars => []ExchangeAlive
<1>1. TypeInv /\ AliveInv /\ [Next]_vars /\ [~SlotLeak]_vars => AliveInv'
  <2> SUFFICES ASSUME TypeInv, AliveInv, [Next]_vars, [~SlotLeak]_vars PROVE AliveInv'
    OBVIOUS
  <2>1. [Next /\ ~SlotLeak]_vars
    OBVIOUS
  <2> QED BY <2>1, AliveStep
<1>2. TypeInv /\ [Next]_vars => TypeInv'
  BY TypeStep
<1> QED BY TypeInit, AliveInit, <1>1, <1>2, AliveIsExchangeAlive, PTL DEF Spec

-------------------------------------------------------------------------------
(* What the table tracks was sent. *)

LEMMA SentKept ==
  ASSUME TrackedWasSent, inflight' = inflight, sent' = sent, Live' => Live PROVE TrackedWasSent'
BY DEF TrackedWasSent, Live

LEMMA SentStep ==
  ASSUME TypeInv, TrackedWasSent, [Next /\ ~SlotLeak]_vars PROVE TrackedWasSent'
<1>1. CASE UNCHANGED vars
  BY <1>1, SentKept DEF vars, netVars, tableVars, Live
<1>2. ASSUME NEW m \in OutMsgs, Publish(m), ~SlotLeak PROVE TrackedWasSent'
  <2>1. /\ state' = state /\ OutQoS[m] \in 0..2
        /\ SendOk(<<PublishFrame(m, nextPid)>>) \/ SendFails(<<PublishFrame(m, nextPid)>>) \/ UNCHANGED netVars
        /\ link' = "up" => link = "up" /\ sent \subseteq sent'
    BY <1>2, EmbeddedAssumption DEF Publish, netVars, SendOk, SendFails
  <2>2. CASE inflight' = inflight
    BY <2>1, <2>2 DEF TrackedWasSent
  <2>3. CASE inflight' # inflight
    <3>1. OutQoS[m] # 0 /\ HasSlot(inflight, nextPid)
          /\ inflight' = TrackOutbound(inflight, nextPid, OutQoS[m])
      BY <1>2, <2>3 DEF Publish
    <3>2. OutQoS[m] > 0
      BY <2>1, <3>1
    <3>3. m \notin Oversize
      BY <1>2, <3>1, <3>2 DEF SlotLeak
    <3>4. link' = "up" => nextPid \in sent'
      BY <1>2, <3>1, <3>2, <3>3 DEF Publish, SendFails
    <3> QED BY <2>1, <3>1, <3>4 DEF TrackedWasSent, TrackOutbound, Put
  <2> QED BY <2>2, <2>3
<1>3. ASSUME NEW ms \in Batches, PublishBatch(ms), ~SlotLeak PROVE TrackedWasSent'
  <2>1. state' = state
    BY <1>3 DEF PublishBatch
  <2>2. PICK k \in 0..Len(ms) :
        /\ inflight' = BatchTracked(ms, k)
        /\ \/ \E n \in 0..Len(ms) : SendFails(BatchFrames(ms, n)) /\ sent' = sent
           \/ \E n \in 0..Len(ms) :
                /\ SendOk(BatchFrames(ms, n)) /\ sent' = sent \cup BatchPids(ms, n)
                /\ QoS12(ms, k) \subseteq QoS12(ms, n)
    BY <1>3, BatchSent
  <2>3. CASE link' = "up"
    <3>1. PICK n \in 0..Len(ms) :
            /\ SendOk(BatchFrames(ms, n)) /\ sent' = sent \cup BatchPids(ms, n)
            /\ QoS12(ms, k) \subseteq QoS12(ms, n)
      BY <2>2, <2>3 DEF SendFails
    <3>2. link = "up" /\ BatchPids(ms, k) \subseteq sent'
      BY <2>3, <3>1 DEF SendOk, BatchPids
    <3> QED BY <2>1, <2>2, <3>1, <3>2 DEF TrackedWasSent, BatchTracked
  <2>4. CASE link' # "up"
    BY <2>4 DEF TrackedWasSent
  <2> QED BY <2>3, <2>4
<1>4. CASE Connect \/ ConnectFails
  BY <1>4 DEF Connect, ConnectFails, TrackedWasSent
<1>5. ASSUME NEW k \in 1..Len(s2c), ConnectOk(k) PROVE TrackedWasSent'
  BY <1>5 DEF ConnectOk, InflightAfterConnect, Empty, TrackedWasSent
<1>6. CASE Subscribe \/ Disconnect \/ Ping
  <2>1. inflight' = inflight /\ sent' = sent /\ (Live' => Live)
    BY <1>6 DEF Subscribe, Disconnect, Ping, tableVars, SendOk, SendFails, Live
  <2> QED BY <2>1, SentKept
<1>7. CASE PollStep
  <2>1. ASSUME NEW kind \in PollKinds, NEW k \in 1..Len(s2c), Read(kind, k) PROVE TrackedWasSent'
    BY <2>1, SentKept DEF Read, tableVars, Live
  <2>2. CASE HandleFails
    BY <2>2 DEF HandleFails, SendFails, TrackedWasSent
  <2>3. CASE HandleOk
    <3> DEFINE f == Head(rx)
    <3>1. /\ rx # <<>> /\ inflight' = After(f, Before(f, inflight)) /\ sent' = sent
          /\ Live' => Live
      BY <2>3 DEF HandleOk, netVars, SendOk, Live
    <3>2. f \in IncomingFrame
      <4>1. rx \in Seq(IncomingFrame)
        BY DEF TypeInv
      <4> QED BY <3>1, <4>1
    <3> HIDE DEF f
    <3>3. ASSUME NEW p \in DOMAIN inflight', inflight'[p] # "AwaitingPubRel"
          PROVE  p \in DOMAIN inflight /\ inflight[p] # "AwaitingPubRel"
      <4>1. p \in DOMAIN After(f, Before(f, inflight))
        BY <3>1
      <4> QED BY <3>1, <3>2, <3>3, <4>1, TableMoves
    <3> QED BY <3>1, <3>3 DEF TrackedWasSent, Live
  <2> QED BY <1>7, <2>1, <2>2, <2>3 DEF PollStep
<1>8. CASE BrokerStep \/ BrokerDisconnect \/ Break
  <2>1. inflight' = inflight /\ sent' = sent /\ (Live' => Live)
    BY <1>8 DEF BrokerStep, BrokerConnect, BrokerRecv, BrokerClose, BrokerPublish, BrokerDisconnect,
                Break, tableVars, Live
  <2> QED BY <2>1, SentKept
<1>9. CASE AppStep /\ ~SlotLeak
  BY <1>2, <1>3, <1>4, <1>5, <1>6, <1>9 DEF AppStep
<1> QED BY <1>1, <1>7, <1>8, <1>9 DEF Next

(* A slot is held only for an exchange of the present connection: what an  *)
(* outbound entry waits for answers a packet that was written on this link *)
(* (client.rs clears the table when it connects, and handles an answer     *)
(* only by an entry it finds), if no call leaves an entry for a message it *)
(* did not send.                                                           *)
THEOREM TrackedAreSent == Spec /\ [][~SlotLeak]_vars => []TrackedWasSent
<1>1. TypeInv /\ TrackedWasSent /\ [Next]_vars /\ [~SlotLeak]_vars => TrackedWasSent'
  <2> SUFFICES ASSUME TypeInv, TrackedWasSent, [Next]_vars, [~SlotLeak]_vars PROVE TrackedWasSent'
    OBVIOUS
  <2>1. [Next /\ ~SlotLeak]_vars
    OBVIOUS
  <2> QED BY <2>1, SentStep
<1>2. TypeInv /\ [Next]_vars => TypeInv'
  BY TypeStep
<1>3. Init => TrackedWasSent
  BY DEF Init, TrackedWasSent
<1> QED BY TypeInit, <1>1, <1>2, <1>3, PTL DEF Spec

===============================================================================
