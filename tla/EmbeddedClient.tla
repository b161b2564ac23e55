---------------------------- MODULE EmbeddedClient ----------------------------
(***************************************************************************)
(* MqttClient of mqtt-embedded: a client driven by one application task,   *)
(* which calls its methods one at a time (they take &mut self), a link it  *)
(* may lose, and the broker.                                               *)
(*                                                                         *)
(* connect, poll and poll_batch suspend between a read and the packets     *)
(* they send in answer, so each is a step that starts the call and steps   *)
(* that end it or handle one frame of what was read; the other methods     *)
(* have one suspension, their send, and are one action.  A send that fails *)
(* has not written all of its bytes (write_all), so the last frame of a    *)
(* failed write never arrives.                                             *)
(***************************************************************************)
EXTENDS Inflight, Sequences, SequencesExt

CONSTANTS
  OutMsgs, OutQoS,   \* messages the application publishes, each at most once
  Oversize,          \* those that do not fit in tx_buffer
  Batches,           \* the publish_batch calls it may make: sequences of messages
  InMsgs, InQoS,     \* messages the broker has for this client
  InPid,             \* the packet identifier the broker gives each of them
  MaxPid,            \* largest packet identifier (65535 in the code)
  MaxRead,           \* most frames one recv returns; 1 if the transport keeps frames apart
  MaxEvents,         \* MAX_EVENTS, the events one poll_batch returns
  PollKinds,         \* which of poll and poll_batch the application calls
  CleanSession,      \* MqttOptions::clean_session
  MaxFaults,         \* bound: broken links, failed sends, refused connections
  MaxRequests        \* bound: subscribe, unsubscribe and disconnect calls, and pings

ASSUME EmbeddedAssumption ==
  /\ OutQoS \in [OutMsgs -> 0..2] /\ Oversize \subseteq OutMsgs
  /\ Batches \subseteq Seq(OutMsgs)
  /\ InQoS \in [InMsgs -> 0..2] /\ MaxPid \in Nat \ {0} /\ InPid \in [InMsgs -> 1..MaxPid]
  /\ MaxRead \in Nat \ {0} /\ MaxEvents \in Nat /\ PollKinds \subseteq {"poll", "poll_batch"}
  /\ CleanSession \in BOOLEAN
  /\ MaxFaults \in Nat /\ MaxRequests \in Nat

VARIABLES
  state,      \* ConnectionState
  call,       \* the method in progress: "none", "connect", "poll" or "poll_batch"
  rx,         \* frames of the current read not yet handled
  events,     \* what those handled have put into its result
  delivered,  \* history: incoming messages the application was given
  nextPid,    \* next_packet_id
  inflight,   \* the InflightQueue
  attempted,  \* messages publish or publish_batch was called for
  sent,       \* history: outbound identifiers written on this connection
  link,       \* the transport: "down", "up" or "broken" (not yet noticed)
  c2s, s2c,   \* frames in flight
  session,    \* the broker accepted CONNECT on this link
  inbox,      \* per incoming message: "new", "sent", "rel" (QoS 2: PUBREC received) or "done"
  pushed,     \* incoming messages already sent on this link
  requests, faults

appVars    == <<attempted, requests>>
tableVars  == <<nextPid, inflight, sent>>
callVars   == <<call, rx, events, delivered>>
netVars    == <<link, c2s, s2c>>
brokerVars == <<session, inbox, pushed>>
vars == <<state, callVars, tableVars, appVars, netVars, brokerVars, faults>>

Frame(type, pid, item) == [type |-> type, pid |-> pid, item |-> item]
Nothing == "nothing"
Plain(type, pid) == Frame(type, pid, Nothing)

Init ==
  /\ state = "Disconnected" /\ call = "none" /\ rx = <<>> /\ events = <<>> /\ delivered = {}
  /\ nextPid = 1 /\ inflight = Empty /\ sent = {}
  /\ attempted = {} /\ requests = 0
  /\ link = "down" /\ c2s = <<>> /\ s2c = <<>>
  /\ session = FALSE /\ inbox = [i \in InMsgs |-> "new"] /\ pushed = {}
  /\ faults = 0

-----------------------------------------------------------------------------
Spend == faults < MaxFaults /\ faults' = faults + 1
SpendUnlessBroken == IF link = "broken" THEN UNCHANGED faults ELSE Spend

SendOk(frames) ==
  /\ c2s' = IF link = "up" THEN c2s \o frames ELSE c2s
  /\ UNCHANGED <<link, s2c, faults>>

\* The link breaks under the send; the state stays as it was.
SendFails(frames) ==
  /\ frames # <<>> /\ SpendUnlessBroken
  /\ link' = "broken" /\ s2c' = <<>>
  /\ \E n \in 0..(Len(frames) - 1) :
       c2s' = IF link = "up" THEN c2s \o SubSeq(frames, 1, n) ELSE c2s

\* get_next_packet_id.
NextPid(p) == IF p = MaxPid THEN 1 ELSE p + 1

Idle == call = "none"
Ready == Idle /\ state = "Connected"   \* otherwise NotConnected is returned

-----------------------------------------------------------------------------
(* connect *)

\* The application gives the client a fresh link, and CONNECT is sent.
Connect ==
  /\ Idle /\ (state # "Connected" \/ link = "broken")
  /\ state' = "Connecting" /\ call' = "connect"
  /\ link' = "up" /\ c2s' = <<Plain("CONNECT", 0)>> /\ s2c' = <<>>
  /\ session' = FALSE /\ pushed' = {} /\ sent' = {}
  /\ UNCHANGED <<rx, events, delivered, nextPid, inflight, appVars, inbox, faults>>

\* The in-flight table after a successful connect: empty, whatever CleanSession says.
\* The variant keeps it.
InflightKept == inflight
InflightAfterConnect == Empty

\* CONNACK is the first frame of the read; the others are dropped.
ConnectOk(k) ==
  /\ call = "connect" /\ k \in 1..Len(s2c) /\ k <= MaxRead /\ s2c[1].type = "CONNACK"
  /\ state' = "Connected" /\ inflight' = InflightAfterConnect
  /\ call' = "none" /\ s2c' = SubSeq(s2c, k + 1, Len(s2c))
  /\ UNCHANGED <<rx, events, delivered, nextPid, sent, appVars, link, c2s, brokerVars, faults>>

\* The send or the recv fails (the state stays Connecting), recv returns 0, or the
\* connection is refused.
ConnectFails ==
  /\ call = "connect" /\ SpendUnlessBroken
  /\ call' = "none" /\ state' \in {"Connecting", "Disconnected"}
  /\ link' = "broken" /\ s2c' = <<>>
  /\ UNCHANGED <<rx, events, delivered, tableVars, appVars, c2s, brokerVars>>

-----------------------------------------------------------------------------
(* publish, publish_batch, subscribe, unsubscribe, disconnect *)

PublishFrame(m, pid) == Frame("PUBLISH", IF OutQoS[m] = 0 THEN 0 ELSE pid, m)

\* A QoS 1/2 message takes an identifier and a slot before it is encoded and sent.
Publish(m) ==
  /\ Ready /\ m \notin attempted
  /\ attempted' = attempted \cup {m}
  /\ IF OutQoS[m] = 0
     THEN UNCHANGED <<nextPid, inflight>>
     ELSE /\ nextPid' = NextPid(nextPid)
          /\ inflight' = IF HasSlot(inflight, nextPid)
                         THEN TrackOutbound(inflight, nextPid, OutQoS[m]) ELSE inflight
  /\ IF m \in Oversize \/ (OutQoS[m] > 0 /\ ~HasSlot(inflight, nextPid))
     THEN UNCHANGED <<netVars, faults, sent>>
     ELSE \/ /\ SendOk(<<PublishFrame(m, nextPid)>>)
             /\ sent' = IF OutQoS[m] > 0 THEN sent \cup {nextPid} ELSE sent
          \/ SendFails(<<PublishFrame(m, nextPid)>>) /\ UNCHANGED sent
  /\ UNCHANGED <<state, callVars, requests, brokerVars>>

\* The messages of a batch before the first one that finds no slot or does not fit.
\* (Identifiers are assumed not to wrap within one batch.)
QoS12(ms, n) == {j \in 1..n : OutQoS[ms[j]] > 0}
PidIn(ms, j) == nextPid + Cardinality(QoS12(ms, j - 1))
RoomFor(ms, j) ==
  OutQoS[ms[j]] = 0 \/ Cardinality(DOMAIN inflight \cup {PidIn(ms, i) : i \in QoS12(ms, j)}) <= MaxInflight
Stops(ms) == {j \in DOMAIN ms : ms[j] \in Oversize \/ ~RoomFor(ms, j)}
BatchEnd(ms) == IF Stops(ms) = {} THEN Len(ms) + 1 ELSE CHOOSE j \in Stops(ms) : \A i \in Stops(ms) : j <= i

BatchFrames(ms, n) == [j \in 1..n |-> PublishFrame(ms[j], PidIn(ms, j))]
BatchPids(ms, n) == {PidIn(ms, j) : j \in QoS12(ms, n)}

\* After j messages are tracked: the j-th too if it found room.
BatchTracked(ms, n) ==
  [p \in DOMAIN inflight \cup BatchPids(ms, n) |->
     IF p \in BatchPids(ms, n)
     THEN FirstStatus(OutQoS[ms[CHOOSE j \in QoS12(ms, n) : PidIn(ms, j) = p]]) ELSE inflight[p]]

\* Up to message n identifiers are taken, and up to message k entries made.
TakeBatch(ms, n, k) ==
  /\ nextPid' = nextPid + Cardinality(QoS12(ms, n))
  /\ inflight' = BatchTracked(ms, k)

\* The batch is complete and sent; a send that makes room in tx_buffer for message
\* j fails; or the batch stops at message e, and of the earlier messages those
\* still in tx_buffer are not sent: message e - 1 at least, if e finds no slot.
PublishBatch(ms) ==
  LET e == BatchEnd(ms) IN
  /\ Ready /\ ToSet(ms) \cap attempted = {}
  /\ nextPid + Cardinality(QoS12(ms, Len(ms))) <= MaxPid
  /\ attempted' = attempted \cup ToSet(ms)
  /\ \/ /\ e > Len(ms) /\ TakeBatch(ms, Len(ms), Len(ms))
        /\ \/ SendOk(BatchFrames(ms, Len(ms))) /\ sent' = sent \cup BatchPids(ms, Len(ms))
           \/ SendFails(BatchFrames(ms, Len(ms))) /\ UNCHANGED sent
     \/ \E j \in 2..Len(ms) :
          /\ j <= e /\ RoomFor(ms, j) /\ TakeBatch(ms, j, j)
          /\ SendFails(BatchFrames(ms, j - 1)) /\ UNCHANGED sent
     \/ /\ e <= Len(ms)
        /\ TakeBatch(ms, e, IF RoomFor(ms, e) THEN e ELSE e - 1)
        /\ \E n \in IF RoomFor(ms, e) THEN {e - 1} ELSE {0} \cup 0..(e - 2) :
             SendOk(BatchFrames(ms, n)) /\ sent' = sent \cup BatchPids(ms, n)
  /\ UNCHANGED <<state, callVars, requests, brokerVars>>

\* subscribe and unsubscribe take an identifier and are not tracked.
Subscribe ==
  /\ Ready /\ requests < MaxRequests
  /\ requests' = requests + 1
  /\ nextPid' = NextPid(nextPid)
  /\ SendOk(<<Plain("SUBSCRIBE", nextPid)>>) \/ SendFails(<<Plain("SUBSCRIBE", nextPid)>>)
  /\ UNCHANGED <<state, callVars, inflight, sent, attempted, brokerVars>>

Disconnect ==
  /\ Ready /\ requests < MaxRequests
  /\ requests' = requests + 1
  /\ \/ SendOk(<<Plain("DISCONNECT", 0)>>) /\ state' = "Disconnected"
     \/ SendFails(<<Plain("DISCONNECT", 0)>>) /\ UNCHANGED state
  /\ UNCHANGED <<callVars, tableVars, attempted, brokerVars>>

-----------------------------------------------------------------------------
(* poll and poll_batch *)

\* poll first sends a PINGREQ if half the keep-alive interval has passed.
Ping ==
  /\ Ready /\ "poll" \in PollKinds /\ requests < MaxRequests
  /\ requests' = requests + 1
  /\ SendOk(<<Plain("PINGREQ", 0)>>) \/ SendFails(<<Plain("PINGREQ", 0)>>)
  /\ UNCHANGED <<state, callVars, tableVars, attempted, brokerVars>>

\* recv returns k frames.  poll keeps only the first: decode looks at one packet
\* and the next recv overwrites rx_buffer.  poll_batch iterates over them.  (A recv
\* that fails or returns 0 changes nothing: the state stays Connected.)
Read(kind, k) ==
  /\ Ready /\ kind \in PollKinds
  /\ k \in 1..Len(s2c) /\ k <= MaxRead
  /\ call' = kind
  /\ rx' = IF kind = "poll" THEN SubSeq(s2c, 1, 1) ELSE SubSeq(s2c, 1, k)
  /\ s2c' = SubSeq(s2c, k + 1, Len(s2c))
  /\ UNCHANGED <<events, delivered, state, tableVars, appVars, link, c2s, brokerVars, faults>>

\* What a frame is answered with, a PUBREC apart; on its own, the variant that does
\* not go on after PUBREC.
AnswerNoPubrel(f) ==
  CASE f.type = "PUBLISH" /\ InQoS[f.item] = 1 -> <<Frame("PUBACK", f.pid, f.item)>>
    [] f.type = "PUBLISH" /\ InQoS[f.item] = 2 -> <<Frame("PUBREC", f.pid, f.item)>>
    [] f.type = "PUBREL" -> <<Frame("PUBCOMP", f.pid, f.item)>>
    [] OTHER -> <<>>
Answer(f) == IF f.type = "PUBREC" THEN <<Plain("PUBREL", f.pid)>> ELSE AnswerNoPubrel(f)

\* What it does to the table before its answer is sent, and after.
Before(f, t) ==
  CASE f.type = "PUBACK"  -> HandlePuback(t, f.pid)
    [] f.type = "PUBREC"  -> HandlePubrec(t, f.pid)
    [] f.type = "PUBREL"  -> HandlePubrel(t, f.pid)
    [] f.type = "PUBCOMP" -> HandlePubcomp(t, f.pid)
    [] OTHER -> t
After(f, t) ==
  IF f.type = "PUBLISH" /\ InQoS[f.item] = 2 THEN TrackInbound(t, f.pid) ELSE t

\* The event a frame becomes; the variant takes a publish on an identifier of the
\* table for one that was delivered before.
EventUntracked(f) == IF f.type = "PUBLISH" /\ f.pid \in DOMAIN inflight THEN <<>> ELSE <<f>>
Event(f) == <<f>>

\* poll returns its one event, poll_batch those that fit.
Collected(f) == IF call = "poll" \/ Len(events) < MaxEvents THEN events \o Event(f) ELSE events

Messages(result) == {f.item : f \in {g \in ToSet(result) : g.type = "PUBLISH"}}

\* One frame is handled; after the last one the call returns its events.
HandleOk ==
  LET f == Head(rx) IN
  /\ rx # <<>>
  /\ inflight' = After(f, Before(f, inflight))
  /\ IF Answer(f) = <<>> THEN UNCHANGED <<netVars, faults>> ELSE SendOk(Answer(f))
  /\ state' = IF f.type = "DISCONNECT" THEN "Disconnected" ELSE state
  /\ rx' = Tail(rx)
  /\ IF Tail(rx) = <<>>
     THEN call' = "none" /\ events' = <<>> /\ delivered' = delivered \cup Messages(Collected(f))
     ELSE events' = Collected(f) /\ UNCHANGED <<call, delivered>>
  /\ UNCHANGED <<nextPid, sent, appVars, brokerVars>>

\* The answer cannot be sent: the call returns the error; the frames after it are
\* lost, and the events of those before it, though they were answered.
HandleFails ==
  LET f == Head(rx) IN
  /\ rx # <<>> /\ Answer(f) # <<>>
  /\ inflight' = Before(f, inflight)
  /\ SendFails(Answer(f))
  /\ call' = "none" /\ rx' = <<>> /\ events' = <<>>
  /\ UNCHANGED <<delivered, state, nextPid, sent, appVars, brokerVars>>

-----------------------------------------------------------------------------
(* The network and the broker (external). *)

Send(frames) == s2c' = IF link = "up" THEN s2c \o frames ELSE s2c

\* A client that starts a clean session loses what was under way.
BrokerConnect ==
  /\ c2s # <<>> /\ Head(c2s).type = "CONNECT"
  /\ c2s' = Tail(c2s) /\ session' = TRUE
  /\ inbox' = IF CleanSession
              THEN [i \in InMsgs |-> IF inbox[i] \in {"sent", "rel"} THEN "done" ELSE inbox[i]]
              ELSE inbox
  /\ Send(<<Plain("CONNACK", 0)>>)
  /\ UNCHANGED <<state, callVars, tableVars, appVars, link, pushed, faults>>

Reply(f) ==
  CASE f.type = "PUBLISH" /\ OutQoS[f.item] = 1 -> <<Plain("PUBACK", f.pid)>>
    [] f.type = "PUBLISH" /\ OutQoS[f.item] = 2 -> <<Plain("PUBREC", f.pid)>>
    [] f.type = "PUBREL"    -> <<Plain("PUBCOMP", f.pid)>>
    [] f.type = "PUBREC"    -> <<Frame("PUBREL", f.pid, f.item)>>
    [] f.type = "SUBSCRIBE" -> <<Plain("SUBACK", f.pid)>>
    [] f.type = "PINGREQ"   -> <<Plain("PINGRESP", 0)>>
    [] OTHER -> <<>>

BrokerRecv ==
  LET f == Head(c2s) IN
  /\ c2s # <<>> /\ f.type \notin {"CONNECT", "DISCONNECT"}
  /\ c2s' = Tail(c2s)
  /\ Send(Reply(f))
  /\ inbox' = CASE f.type \in {"PUBACK", "PUBCOMP"} -> [inbox EXCEPT ![f.item] = "done"]
                [] f.type = "PUBREC" -> [inbox EXCEPT ![f.item] = "rel"]
                [] OTHER -> inbox
  /\ UNCHANGED <<state, callVars, tableVars, appVars, link, session, pushed, faults>>

BrokerClose ==
  /\ c2s # <<>> /\ Head(c2s).type = "DISCONNECT"
  /\ c2s' = <<>> /\ s2c' = <<>> /\ link' = "broken"
  /\ UNCHANGED <<state, callVars, tableVars, appVars, brokerVars, faults>>

\* The broker starts an exchange, or resumes one of a kept session on a new link.
BrokerPublish(i) ==
  /\ session /\ link = "up" /\ i \notin pushed
  /\ \/ /\ inbox[i] \in {"new", "sent"} /\ (inbox[i] = "sent" => InQoS[i] > 0)
        /\ Send(<<Frame("PUBLISH", IF InQoS[i] = 0 THEN 0 ELSE InPid[i], i)>>)
        /\ inbox' = [inbox EXCEPT ![i] = "sent"]
     \/ /\ inbox[i] = "rel"
        /\ Send(<<Frame("PUBREL", InPid[i], i)>>)
        /\ UNCHANGED inbox
  /\ pushed' = pushed \cup {i}
  /\ UNCHANGED <<state, callVars, tableVars, appVars, link, c2s, session, faults>>

BrokerDisconnect ==
  /\ session /\ link = "up" /\ Spend
  /\ Send(<<Plain("DISCONNECT", 0)>>)
  /\ UNCHANGED <<state, callVars, tableVars, appVars, link, c2s, brokerVars>>

Break ==
  /\ link = "up" /\ Spend
  /\ link' = "broken" /\ c2s' = <<>> /\ s2c' = <<>>
  /\ UNCHANGED <<state, callVars, tableVars, appVars, brokerVars>>

-----------------------------------------------------------------------------
PollStep == \/ \E kind \in PollKinds, k \in 1..Len(s2c) : Read(kind, k)
            \/ HandleOk \/ HandleFails

AppStep == \/ Connect \/ (\E k \in 1..Len(s2c) : ConnectOk(k)) \/ ConnectFails
           \/ \E m \in OutMsgs : Publish(m)
           \/ \E ms \in Batches : PublishBatch(ms)
           \/ Subscribe \/ Disconnect \/ Ping

BrokerStep == \/ BrokerConnect \/ BrokerRecv \/ BrokerClose
              \/ \E i \in InMsgs : BrokerPublish(i)

Next == PollStep \/ AppStep \/ BrokerStep \/ BrokerDisconnect \/ Break

Spec == Init /\ [][Next]_vars

\* The application polls for ever and reconnects when it must, and the broker answers.
Fairness == /\ WF_vars(PollStep) /\ WF_vars(BrokerStep)
            /\ WF_vars(Connect) /\ WF_vars(ConnectFails)
            /\ WF_vars(\E k \in 1..Len(s2c) : ConnectOk(k))
FairSpec == Spec /\ Fairness

-----------------------------------------------------------------------------
(* Properties. *)

\* Types, and the bound of the table: MAX_INFLIGHT is never exceeded.
TypeOK ==
  /\ state \in {"Disconnected", "Connecting", "Connected"}
  /\ call \in {"none", "connect"} \cup PollKinds
  /\ nextPid \in 1..MaxPid
  /\ DOMAIN inflight \subseteq 1..MaxPid /\ Cardinality(DOMAIN inflight) <= MaxInflight
  /\ \A p \in DOMAIN inflight : inflight[p] \in InflightStatus
  /\ attempted \subseteq OutMsgs /\ sent \subseteq 1..MaxPid /\ delivered \subseteq InMsgs
  /\ link \in {"down", "up", "broken"} /\ session \in BOOLEAN
  /\ inbox \in [InMsgs -> {"new", "sent", "rel", "done"}] /\ pushed \subseteq InMsgs
  /\ requests \in 0..MaxRequests /\ faults \in 0..MaxFaults

HasFrame(frames, type, pid) == \E i \in DOMAIN frames : frames[i].type = type /\ frames[i].pid = pid

\* The client's packet is on its way to the broker, or the answer to it back.
Coming(packet, answer, pid) == HasFrame(c2s, packet, pid) \/ HasFrame(rx \o s2c, answer, pid)

\* On a live link, every entry of the table has the packet that will move it on
\* its way, in one direction or the other: an exchange never stalls and its slot
\* is never lost, even when an inbound and an outbound exchange share an entry.
ExchangeAlive ==
  state = "Connected" /\ link = "up" =>
    \A p \in DOMAIN inflight :
      CASE inflight[p] = "AwaitingPubAck" -> Coming("PUBLISH", "PUBACK", p)
        [] inflight[p] = "AwaitingPubRec" -> Coming("PUBLISH", "PUBREC", p)
        [] inflight[p] = "AwaitingPubComp" -> Coming("PUBREL", "PUBCOMP", p)
        [] inflight[p] = "AwaitingPubRel" -> Coming("PUBREC", "PUBREL", p)

\* A slot is occupied only by an exchange of the present connection: outbound
\* entries belong to packets that were written on it.
TrackedWasSent ==
  state = "Connected" /\ link = "up" =>
    \A p \in DOMAIN inflight : inflight[p] # "AwaitingPubRel" => p \in sent

\* With poll, what the broker was told is received has been given to the
\* application, on whatever identifier and whichever connection it came.  (With a
\* clean session the broker drops messages itself; poll_batch loses events.)
AckedIsDelivered == \A i \in InMsgs : inbox[i] \in {"rel", "done"} => i \in delivered

\* Every exchange the table tracks ends, or its connection does.
SlotsFreed == \A p \in 1..MaxPid : p \in DOMAIN inflight ~> p \notin DOMAIN inflight

===============================================================================
