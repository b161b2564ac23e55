------------------------------ MODULE EventLoop ------------------------------
(***************************************************************************)
(* The Tokio driver of mqtt-tokio: the EventLoop task, the tasks that call *)
(* it through AsyncClient handles, the connection it owns and the broker   *)
(* at the other end.                                                       *)
(*                                                                         *)
(* Callers hand requests to the loop over a bounded channel and wait on    *)
(* oneshot responders.  The loop alternates between connecting (backoff,   *)
(* dial, CONNECT/CONNACK, session recovery) and driving a connection       *)
(* (select! over the socket, the request channel and the ping timer).  A   *)
(* handler of the loop never runs concurrently with another one, so a      *)
(* handler is one action, except that the frames of one read are handled   *)
(* one a step, because the loop suspends between them.  What interleaves   *)
(* is the callers, the network and the broker.  Payloads are message       *)
(* identities, a topic filter is its name (wildcards are the business of   *)
(* module TopicRouter), and time is left out: a delay is a separate step   *)
(* of unknown length.                                                      *)
(***************************************************************************)
EXTENDS Naturals, Sequences, FiniteSets, SequencesExt

CONSTANTS
  Calls,            \* the AsyncClient calls that may be made, each once
  Request,          \* what each call asks for
  Msgs, QoSOf,      \* outgoing messages and their QoS
  Oversize,         \* messages Publish::encode cannot fit in tx_buf
  Topics,           \* topic filters
  SubTooLong,       \* filters Subscribe::encode cannot fit in tx_buf
  UnsubTooLong,     \* filters Unsubscribe::encode cannot either
  Invalid,          \* filters TopicRouter::insert turns down
  Refused,          \* filters the broker answers with a failure code
  InMsgs,           \* messages the broker has for this client
  InTopic, InQoS,   \* their topic and QoS
  MaxPid,           \* largest packet identifier (65535 in the code)
  ChannelCap,       \* ClientOptions::channel_capacity
  StreamCap,        \* capacity of a subscription stream (128 in the code)
  CleanSession,     \* ClientOptions::clean_session
  ReconnectEnabled, \* ReconnectPolicy::enabled
  LimitRetries,     \* whether ReconnectPolicy::max_retries is Some
  MaxRetries,       \* its value
  ResendUnacked,    \* DataRecoveryPolicy::resend_unacked_inflight
  AutoResubscribe,  \* DataRecoveryPolicy::auto_resubscribe
  MaxFaults,        \* bound: failed dials, handshakes, writes and broken links
  MaxPings,         \* bound: PINGREQs in flight at once
  NoCall            \* the absent responder (Option::None)

Ops == {"publish", "batch", "datagram", "subscribe", "unsubscribe", "disconnect"}

ASSUME EventLoopAssumption ==
  /\ QoSOf \in [Msgs -> 0..2]
  /\ Oversize \subseteq Msgs
  /\ Request \in [Calls -> [op : Ops, msgs : Seq(Msgs), topic : Topics,
                            awaits : BOOLEAN, stream : BOOLEAN]]
  /\ \A c \in Calls : Request[c].op \in {"publish", "datagram"} => Len(Request[c].msgs) = 1
  /\ \A c \in Calls : Request[c].op \notin {"publish", "datagram"} => Request[c].awaits
  /\ UnsubTooLong \subseteq SubTooLong /\ SubTooLong \subseteq Topics
  /\ Invalid \subseteq Refused /\ Refused \subseteq Topics
  /\ InTopic \in [InMsgs -> Topics] /\ InQoS \in [InMsgs -> 0..2]
  /\ MaxPid \in Nat \ {0} /\ ChannelCap \in Nat \ {0} /\ StreamCap \in Nat \ {0}
  /\ {CleanSession, ReconnectEnabled, LimitRetries, ResendUnacked, AutoResubscribe}
       \subseteq BOOLEAN
  /\ MaxRetries \in Nat /\ MaxFaults \in Nat /\ MaxPings \in Nat
  /\ NoCall \notin Calls

VARIABLES
  handles,     \* some AsyncClient clone is alive
  result,      \* per call: where its future stands
  reqs,        \* the request channel
  streamOpen,  \* subscribe calls whose TopicSubscription receiver is alive
  queue,       \* per subscribe call: messages waiting in its stream
  phase,       \* where the EventLoop task stands
  status,      \* the ConnectionStatus it last published
  attempt,     \* reconnect_attempt
  nextPid,     \* next_packet_id
  wrapped,     \* history: next_packet_id went past MaxPid at least once
  inflight,    \* inflight_publishes: packet id -> message and responder
  subWait,     \* inflight_subscribes: packet id -> responder
  unsubWait,   \* inflight_unsubscribes
  active,      \* active_subscriptions
  router,      \* subscribe calls whose stream sender is in the TopicRouter
  accepted,    \* history: QoS 1/2 messages the loop took from the channel
  conn,        \* the client's transport: "none", "up" or "broken"
  c2s, s2c,    \* frames in flight on the connection, each way
  rx,          \* frames of the current read not yet handled (`actions`)
  session,     \* the broker has accepted CONNECT on this connection
  brokerSubs,  \* filters the broker has for this client
  received,    \* outgoing messages the broker has got
  inbox,       \* per incoming message: "new", "sent" or "acked"
  pushed,      \* incoming messages already sent on this connection
  faults       \* faults so far

callVars   == <<handles, result, reqs>>
streamVars == <<streamOpen, queue>>
tableVars  == <<inflight, subWait, unsubWait, active, router, accepted>>
pidVars    == <<nextPid, wrapped>>
loopVars   == <<phase, status, attempt>>
netVars    == <<conn, c2s, s2c, rx>>
brokerVars == <<session, brokerSubs, received, inbox, pushed>>
vars == <<callVars, streamVars, tableVars, pidVars, loopVars, netVars, brokerVars, faults>>

\* "stopped": run has returned; "gone": the EventLoop value has been dropped.
Phases   == {"top", "sleep", "dial", "handshake", "drive", "stopped", "gone"}
Statuses == {"Disconnected", "Connecting", "Connected", "Reconnecting", "Stopped"}
Results  == {"idle", "sent", "waiting", "ok", "err", "cancelled", "closed"}

Nothing == "nothing"
Frame(type, pid, item, dup) == [type |-> type, pid |-> pid, item |-> item, dup |-> dup]
Plain(type) == Frame(type, 0, Nothing, FALSE)

\* The frames that travel each way, by what they carry.
FrameSet(types, pids, items) == [type : types, pid : pids, item : items, dup : BOOLEAN]
Pids == 1..MaxPid
ClientFrames == FrameSet({"PUBLISH"}, 0..MaxPid, Msgs)
                  \cup FrameSet({"PUBACK"}, {0}, InMsgs)
                  \cup FrameSet({"SUBSCRIBE", "UNSUBSCRIBE"}, Pids, Topics)
                  \cup FrameSet({"CONNECT", "PINGREQ", "DISCONNECT"}, {0}, {Nothing})
BrokerFrames == FrameSet({"PUBLISH"}, {0}, InMsgs)
                  \cup FrameSet({"PUBACK", "PUBREC", "SUBACK", "UNSUBACK"}, 0..MaxPid, {Nothing})
                  \cup FrameSet({"CONNACK", "PINGRESP", "DISCONNECT", "UNDECODABLE"}, {0}, {Nothing})

Init ==
  /\ handles = TRUE /\ result = [c \in Calls |-> "idle"] /\ reqs = <<>>
  /\ streamOpen = {} /\ queue = [c \in Calls |-> <<>>]
  /\ phase = "top" /\ status = "Disconnected" /\ attempt = 0
  /\ nextPid = 1 /\ wrapped = FALSE
  /\ inflight = <<>> /\ subWait = <<>> /\ unsubWait = <<>>
  /\ active = {} /\ router = {} /\ accepted = {}
  /\ conn = "none" /\ c2s = <<>> /\ s2c = <<>> /\ rx = <<>>
  /\ session = FALSE /\ brokerSubs = {} /\ received = {}
  /\ inbox = [i \in InMsgs |-> "new"] /\ pushed = {}
  /\ faults = 0

-----------------------------------------------------------------------------
(* Tables keyed by packet identifier, and the identifier counter. *)

Without(table, pids) == [p \in DOMAIN table \ pids |-> table[p]]
With(table, p, v) == [q \in DOMAIN table \cup {p} |-> IF q = p THEN v ELSE table[q]]

\* get_next_packet_id, applied k times to the counter value p; the variant
\* forgets to advance the counter.
PidStuck(p, k) == p
PidAfter(p, k) == ((p - 1 + k) % MaxPid) + 1

TakePids(k) ==
  /\ nextPid' = PidAfter(nextPid, k)
  /\ wrapped' = (wrapped \/ nextPid + k > MaxPid)

Entry(m, c) == [msg |-> m, call |-> c]

\* Responders of calls cs are resolved with r; dropping a responder is "cancelled".
Resolve(cs, r) == [c \in Calls |-> IF c \in cs /\ result[c] = "waiting" THEN r ELSE result[c]]

Spend == faults < MaxFaults /\ faults' = faults + 1
\* A link that is already broken fails for free.
SpendUnlessBroken == IF conn = "broken" THEN UNCHANGED faults ELSE Spend

\* Every responder still held is dropped.
Abandon(res) == [c \in Calls |-> IF res[c] = "waiting" THEN "cancelled" ELSE res[c]]

\* drive_connection returned an error other than ClientClosed, and without a
\* reconnection run returns: the channel, the tables and the router stay with the
\* EventLoop value.  The variant drops the responders with the connection.
DropConnectionAbandons(res, queued, routed) ==
  /\ IF ReconnectEnabled THEN phase' = "top" /\ status' = "Disconnected"
                         ELSE phase' = "stopped" /\ status' = "Stopped"
  /\ conn' = "none" /\ s2c' = <<>> /\ rx' = <<>>
  /\ result' = Abandon(res) /\ reqs' = queued /\ router' = routed
DropConnection(res, queued, routed) ==
  /\ IF ReconnectEnabled THEN phase' = "top" /\ status' = "Disconnected"
                         ELSE phase' = "stopped" /\ status' = "Stopped"
  /\ conn' = "none" /\ s2c' = <<>> /\ rx' = <<>>
  /\ result' = res /\ reqs' = queued /\ router' = routed

\* The loop goes on driving with these effects.
KeepDriving(res, queued, routed) ==
  /\ result' = res /\ reqs' = queued /\ router' = routed
  /\ UNCHANGED <<phase, status, conn, s2c, rx>>

\* write_all and flush succeed; on a link that broke unnoticed the bytes are lost.
WriteOk(frames) ==
  /\ c2s' = IF conn = "up" THEN c2s \o frames ELSE c2s
  /\ UNCHANGED faults

\* write_all or flush fails: any prefix of the frames may have got through.
WriteFails(frames) ==
  /\ SpendUnlessBroken
  /\ \E n \in 0..Len(frames) :
       c2s' = IF conn = "up" THEN c2s \o SubSeq(frames, 1, n) ELSE c2s

-----------------------------------------------------------------------------
(* The callers: AsyncClient methods and subscription streams. *)

\* The bounded mpsc channel has room; the variant is a capacity off by one.
HasRoomOffByOne == Len(reqs) <= ChannelCap
HasRoom == Len(reqs) < ChannelCap

\* Every method sends its request and, unless it is fire-and-forget, awaits the
\* responder.  A full channel makes the caller wait, also when run has returned;
\* one dropped with the EventLoop is ClientClosed.
Call(c) ==
  /\ handles /\ result[c] = "idle"
  /\ IF phase = "gone"
     THEN /\ result' = [result EXCEPT ![c] = "closed"]
          /\ UNCHANGED <<reqs, streamOpen>>
     ELSE /\ HasRoom
          /\ reqs' = Append(reqs, c)
          /\ result' = [result EXCEPT ![c] = IF Request[c].awaits THEN "waiting" ELSE "sent"]
          /\ streamOpen' = IF Request[c].op = "subscribe" /\ Request[c].stream
                           THEN streamOpen \cup {c} ELSE streamOpen
  /\ UNCHANGED <<handles, queue, tableVars, pidVars, loopVars, netVars, brokerVars, faults>>

\* The last AsyncClient clone is dropped; a pending call borrows one.
DropHandles ==
  /\ handles /\ \A c \in Calls : result[c] # "waiting"
  /\ handles' = FALSE
  /\ UNCHANGED <<result, reqs, streamVars, tableVars, pidVars, loopVars, netVars,
                 brokerVars, faults>>

\* TopicSubscription::recv: only the returned stream can be read.
StreamRecv(c) ==
  /\ result[c] = "ok" /\ c \in streamOpen /\ queue[c] # <<>>
  /\ queue' = [queue EXCEPT ![c] = Tail(@)]
  /\ UNCHANGED <<callVars, streamOpen, tableVars, pidVars, loopVars, netVars, brokerVars, faults>>

\* The application drops the TopicSubscription, or a failed call never returns it.
StreamDrop(c) ==
  /\ c \in streamOpen /\ result[c] # "waiting"
  /\ streamOpen' = streamOpen \ {c}
  /\ queue' = [queue EXCEPT ![c] = <<>>]
  /\ UNCHANGED <<callVars, tableVars, pidVars, loopVars, netVars, brokerVars, faults>>

\* The EventLoop value is dropped after run has returned, and with it the request
\* channel, the tables, the router and the transport: by the task Client::connect
\* spawned, or by whoever owns the loop of new_split, if ever.
DropLoop ==
  /\ phase = "stopped"
  /\ phase' = "gone"
  /\ result' = Abandon(result) /\ reqs' = <<>>
  /\ inflight' = <<>> /\ subWait' = <<>> /\ unsubWait' = <<>>
  /\ active' = {} /\ router' = {}
  /\ conn' = "none" /\ s2c' = <<>> /\ rx' = <<>>
  /\ UNCHANGED <<handles, streamVars, accepted, pidVars, status, attempt, c2s, brokerVars, faults>>

-----------------------------------------------------------------------------
(* connect_with_backoff. *)

\* The first attempt has no delay (compute_delay), later ones sleep first.
StartAttempt ==
  /\ phase = "top"
  /\ attempt' = attempt + 1
  /\ phase'  = IF attempt = 0 THEN "dial" ELSE "sleep"
  /\ status' = IF attempt = 0 THEN "Connecting" ELSE "Reconnecting"
  /\ UNCHANGED <<callVars, streamVars, tableVars, pidVars, netVars, brokerVars, faults>>

Wake ==
  /\ phase = "sleep"
  /\ phase' = "dial" /\ status' = "Connecting"
  /\ UNCHANGED <<attempt, callVars, streamVars, tableVars, pidVars, netVars, brokerVars, faults>>

\* The retry limit is consulted only after a failure; `enabled` is not consulted.
AttemptFailed ==
  /\ IF LimitRetries /\ attempt >= MaxRetries
     THEN phase' = "stopped" /\ status' = "Stopped"
     ELSE phase' = "top" /\ UNCHANGED status
  /\ conn' = "none" /\ s2c' = <<>>
  /\ UNCHANGED <<result, reqs, router, rx>>

DialFails ==
  /\ phase = "dial" /\ Spend
  /\ AttemptFailed
  /\ UNCHANGED <<handles, streamVars, inflight, subWait, unsubWait, active, accepted, pidVars,
                 attempt, c2s, brokerVars>>

\* connect_transport succeeds and CONNECT is written.
Dial ==
  /\ phase = "dial"
  /\ phase' = "handshake"
  /\ conn' = "up" /\ c2s' = <<Plain("CONNECT")>> /\ s2c' = <<>>
  /\ session' = FALSE /\ pushed' = {}
  /\ UNCHANGED <<status, attempt, callVars, streamVars, tableVars, pidVars, rx, brokerSubs,
                 received, inbox, faults>>

\* Refused, timed out, closed, or the one read did not hold a whole CONNACK.
HandshakeFails ==
  /\ phase = "handshake" /\ SpendUnlessBroken
  /\ AttemptFailed
  /\ UNCHANGED <<handles, streamVars, inflight, subWait, unsubWait, active, accepted, pidVars,
                 attempt, c2s, brokerVars>>

\* The PUBLISH frames of step 1 of the recovery, in some order of the HashMap, each
\* under its own identifier; the variant takes fresh ones.
ResendsRenumbered(order) ==
  [i \in DOMAIN order |-> Frame("PUBLISH", PidAfter(nextPid, i - 1), inflight[order[i]].msg, TRUE)]
Resends(order) ==
  [i \in DOMAIN order |-> Frame("PUBLISH", order[i], inflight[order[i]].msg, TRUE)]

\* Step 2 takes an identifier for each of its k filters in turn and passes over
\* those it cannot encode: Places(n, k) are the places of the n that it can.
Places(n, k) == {place \in [1..n -> 1..k] : \A i, j \in 1..n : i < j => place[i] < place[j]}
Resubscribes(order, place) ==
  [i \in DOMAIN order |-> Frame("SUBSCRIBE", PidAfter(nextPid, place[i] - 1), order[i], FALSE)]

\* What the recovery resends: an entry that cannot be encoded is passed over.
\* The variants leave out the entries with a waiting caller, and the filters.
ResendableUnawaited ==
  {p \in DOMAIN inflight : inflight[p].msg \notin Oversize /\ inflight[p].call = NoCall}
ResubscribableNone == {}
Resendable == IF ResendUnacked
              THEN {p \in DOMAIN inflight : inflight[p].msg \notin Oversize} ELSE {}
Resubscribable == IF AutoResubscribe THEN active ELSE {}

\* perform_connect_handshake reads once: CONNACK and k-1 frames that came with it,
\* which are never looked at.  Then Connected is published and
\* perform_session_data_recovery writes its frames, ignoring write errors.
HandshakeOk(k) ==
  /\ phase = "handshake" /\ k \in 1..Len(s2c) /\ s2c[1].type = "CONNACK"
  /\ s2c' = SubSeq(s2c, k + 1, Len(s2c))
  /\ phase' = "drive" /\ status' = "Connected" /\ attempt' = 0
  /\ \E pids \in SetToSeqs(Resendable), topics \in SetToSeqs(Resubscribable \ SubTooLong),
        place \in Places(Cardinality(Resubscribable \ SubTooLong), Cardinality(Resubscribable)) :
       LET burst == Resends(pids) \o Resubscribes(topics, place) IN
       \/ /\ WriteOk(burst) /\ UNCHANGED conn
       \/ /\ burst # <<>> /\ conn = "up" /\ Spend /\ conn' = "broken"
          /\ \E n \in 0..(Len(burst) - 1) : c2s' = c2s \o SubSeq(burst, 1, n)
  /\ TakePids(Cardinality(Resubscribable))
  /\ UNCHANGED <<callVars, streamVars, tableVars, rx, brokerVars>>

-----------------------------------------------------------------------------
(* drive_connection, branch 1: bytes read from the socket.                  *)

HasType(frames, type) == \E i \in DOMAIN frames : frames[i].type = type

\* select! waits for its three branches.
Driving == phase = "drive" /\ rx = <<>>

\* One read brings k frames, and all of them decode.
Read(k) ==
  /\ Driving /\ k \in 1..Len(s2c) /\ ~HasType(SubSeq(s2c, 1, k), "UNDECODABLE")
  /\ rx' = SubSeq(s2c, 1, k) /\ s2c' = SubSeq(s2c, k + 1, Len(s2c))
  /\ UNCHANGED <<callVars, streamVars, tableVars, pidVars, loopVars, conn, c2s, brokerVars, faults>>

\* One of them does not: those before it are discarded with it.
ReadUndecodable ==
  /\ Driving /\ HasType(s2c, "UNDECODABLE")
  /\ DropConnection(result, reqs, router)
  /\ UNCHANGED <<handles, streamVars, inflight, subWait, unsubWait, active, accepted, pidVars,
                 attempt, c2s, brokerVars, faults>>

\* read returns 0 or an error.
ReadClosed ==
  /\ Driving /\ conn = "broken"
  /\ DropConnection(result, reqs, router)
  /\ UNCHANGED <<handles, streamVars, inflight, subWait, unsubWait, active, accepted, pidVars,
                 attempt, c2s, brokerVars, faults>>

IsQoS1(f) == InQoS[f.item] = 1
Acks(f) == IF IsQoS1(f) THEN <<Frame("PUBACK", f.pid, f.item, FALSE)>> ELSE <<>>

\* The routed streams of the topic of frame f.
Routes(f) == {c \in router : InTopic[f.item] = Request[c].topic}

\* A publish is acknowledged and then dispatched: TopicRouter::dispatch drops it for
\* a full stream (try_send), and takes the sender of a closed one out of the router.
HandlePublish ==
  LET f == Head(rx) IN
  /\ phase = "drive" /\ rx # <<>> /\ f.type = "PUBLISH"
  /\ WriteOk(Acks(f))
  /\ queue' = [c \in Calls |->
       IF c \in Routes(f) \cap streamOpen /\ Len(queue[c]) < StreamCap
       THEN Append(queue[c], f.item) ELSE queue[c]]
  /\ router' = router \ (Routes(f) \ streamOpen)
  /\ rx' = Tail(rx)
  /\ UNCHANGED <<callVars, streamOpen, inflight, subWait, unsubWait, active, accepted, pidVars,
                 loopVars, conn, s2c, brokerVars>>

\* The entry of a table that frame f answers.
Answered(f, type, table) == {p \in DOMAIN table : f.type = type /\ f.pid = p}

\* The callers an acknowledgement answers; the variant takes a PUBACK to
\* acknowledge every publish.
WaitersCumulative(f) ==
  IF f.type = "PUBACK" THEN {inflight[p].call : p \in DOMAIN inflight} ELSE {}
Waiters(f) ==
  {inflight[p].call : p \in Answered(f, "PUBACK", inflight)}
    \cup {subWait[p] : p \in Answered(f, "SUBACK", subWait)}
    \cup {unsubWait[p] : p \in Answered(f, "UNSUBACK", unsubWait)}

\* PUBACK, SUBACK and UNSUBACK.  Everything else, PUBREC, PUBREL and PUBCOMP
\* included, has no effect.
HandleAnswer ==
  LET f == Head(rx) IN
  /\ phase = "drive" /\ rx # <<>> /\ f.type \notin {"PUBLISH", "DISCONNECT"}
  /\ inflight'  = Without(inflight, Answered(f, "PUBACK", inflight))
  /\ subWait'   = Without(subWait, Answered(f, "SUBACK", subWait))
  /\ unsubWait' = Without(unsubWait, Answered(f, "UNSUBACK", unsubWait))
  /\ result' = Resolve(Waiters(f), "ok")
  /\ rx' = Tail(rx)
  /\ UNCHANGED <<handles, reqs, streamVars, active, router, accepted, pidVars, loopVars,
                 conn, c2s, s2c, brokerVars, faults>>

\* A DISCONNECT of the broker, or a PUBACK that cannot be written (its publish is
\* not dispatched), ends the connection; the rest of the read is lost.
HandleFails ==
  LET f == Head(rx) IN
  /\ phase = "drive" /\ rx # <<>>
  /\ \/ f.type = "DISCONNECT" /\ UNCHANGED <<c2s, faults>>
     \/ f.type = "PUBLISH" /\ IsQoS1(f) /\ WriteFails(Acks(f))
  /\ DropConnection(result, reqs, router)
  /\ UNCHANGED <<handles, streamVars, inflight, subWait, unsubWait, active, accepted, pidVars,
                 attempt, brokerVars>>

-----------------------------------------------------------------------------
(* drive_connection, branch 2: a request from the channel.                  *)

Taking(c) == Driving /\ reqs # <<>> /\ Head(reqs) = c

\* The responder travels with the entry of a QoS 1/2 message.
Responder(c) == IF Request[c].awaits THEN c ELSE NoCall

\* send_publish_direct: a QoS 1/2 message is tracked before it is encoded and
\* written; a QoS 0 publish is acknowledged before it is written.
Publish(c) ==
  LET m   == Request[c].msgs[1]
      qos == QoSOf[m]
      frame == Frame("PUBLISH", IF qos = 0 THEN 0 ELSE nextPid, m, FALSE)
      old == IF nextPid \in DOMAIN inflight /\ qos > 0 THEN {inflight[nextPid].call} ELSE {}
      res == IF qos = 0 THEN Resolve({c}, "ok") ELSE Resolve(old, "cancelled")
  IN
  /\ Taking(c) /\ Request[c].op = "publish"
  /\ IF qos > 0
     THEN /\ inflight' = With(inflight, nextPid, Entry(m, Responder(c)))
          /\ TakePids(1)
          /\ accepted' = accepted \cup {m}
     ELSE UNCHANGED <<inflight, pidVars, accepted>>
  /\ \/ m \notin Oversize /\ WriteOk(<<frame>>) /\ KeepDriving(res, Tail(reqs), router)
     \/ m \notin Oversize /\ WriteFails(<<frame>>) /\ DropConnection(res, Tail(reqs), router)
     \/ m \in Oversize /\ DropConnection(res, Tail(reqs), router) /\ UNCHANGED <<c2s, faults>>
  /\ UNCHANGED <<handles, streamVars, subWait, unsubWait, active, attempt, brokerVars>>

\* In a batch a message that cannot be encoded is passed over while the buffer is
\* empty; once it holds something, the buffer is written out and the second
\* attempt to encode is an error.  BatchEnd is the message that error stops at.
BatchEnd(ms) ==
  LET bad == {j \in DOMAIN ms : ms[j] \in Oversize /\ \E i \in 1..(j - 1) : ms[i] \notin Oversize}
  IN  IF bad = {} THEN Len(ms) + 1 ELSE CHOOSE j \in bad : \A i \in bad : j <= i

\* The number of packet identifiers the first j messages of a batch take.
PidsUpTo(ms, j) == Cardinality({i \in 1..j : QoSOf[ms[i]] > 0})
BatchPid(ms, j) == PidAfter(nextPid, PidsUpTo(ms, j - 1))

\* The frames of the first n messages, n before the batch's end: those before the
\* first that could be encoded are passed over, none after it is.
BatchFrames(ms, n) ==
  LET sendable == {j \in 1..n : ms[j] \notin Oversize}
      skipped  == IF sendable = {} THEN n ELSE (CHOOSE j \in sendable : \A i \in sendable : j <= i) - 1
  IN  [i \in 1..(n - skipped) |->
         LET j == skipped + i
         IN  Frame("PUBLISH", IF QoSOf[ms[j]] = 0 THEN 0 ELSE BatchPid(ms, j), ms[j], FALSE)]

\* The in-flight table after the first n messages: the last taker of an identifier
\* wins.  The variant tracks only messages that could be encoded with the first.
BatchTrackedFirst(ms, n) ==
  IF n > 0 /\ QoSOf[ms[1]] > 0 THEN With(inflight, nextPid, Entry(ms[n], NoCall)) ELSE inflight
BatchTracked(ms, n) ==
  LET js == {j \in 1..n : QoSOf[ms[j]] > 0}
      LastTaker(p) == CHOOSE j \in js : BatchPid(ms, j) = p /\ \A i \in js : BatchPid(ms, i) = p => i <= j
      pids == {BatchPid(ms, j) : j \in js}
  IN  [p \in DOMAIN inflight \cup pids |->
         IF p \in pids THEN Entry(ms[LastTaker(p)], NoCall) ELSE inflight[p]]

\* send_publish_batch_direct, for the first n messages.
TakeBatch(ms, n) ==
  /\ inflight' = BatchTracked(ms, n)
  /\ TakePids(PidsUpTo(ms, n))
  /\ accepted' = accepted \cup {ms[j] : j \in {i \in 1..n : QoSOf[ms[i]] > 0}}

\* Responders of the entries a batch overwrites.
Overwritten(ms, n) ==
  {inflight[p].call : p \in DOMAIN inflight \cap {BatchPid(ms, j) : j \in {i \in 1..n : QoSOf[ms[i]] > 0}}}

PublishBatch(c) ==
  LET ms  == Request[c].msgs
      end == BatchEnd(ms)
      Res(n, r) == [Resolve(Overwritten(ms, n), "cancelled") EXCEPT ![c] = r]
  IN
  /\ Taking(c) /\ Request[c].op = "batch"
  /\ \/ /\ end > Len(ms)
        /\ TakeBatch(ms, Len(ms))
        /\ WriteOk(BatchFrames(ms, Len(ms)))
        /\ KeepDriving(Res(Len(ms), "ok"), Tail(reqs), router)
     \/ /\ end <= Len(ms)
        /\ TakeBatch(ms, end)
        /\ WriteOk(BatchFrames(ms, end - 1))
        /\ DropConnection(Res(end, "cancelled"), Tail(reqs), router)
     \/ \E n \in DOMAIN ms :
          LET frames == BatchFrames(ms, IF n < end THEN n ELSE end - 1) IN
          /\ n <= end /\ frames # <<>>
          /\ TakeBatch(ms, n) /\ WriteFails(frames)
          /\ DropConnection(Res(n, "cancelled"), Tail(reqs), router)
  /\ UNCHANGED <<handles, streamVars, subWait, unsubWait, active, attempt, brokerVars>>

\* An unreliable datagram outside the byte stream: it may be lost, and a
\* transport without datagrams answers with an error.
PublishDatagram(c) ==
  LET m == Request[c].msgs[1] IN
  /\ Taking(c) /\ Request[c].op = "datagram"
  /\ IF m \in Oversize
     THEN DropConnection(Resolve({c}, "cancelled"), Tail(reqs), router) /\ UNCHANGED received
     ELSE \E r \in {"ok", "err"} :
            /\ KeepDriving(Resolve({c}, r), Tail(reqs), router)
            /\ received' \in {received} \cup
                 (IF r = "ok" /\ conn = "up" THEN {received \cup {m}} ELSE {})
  /\ UNCHANGED <<handles, streamVars, inflight, subWait, unsubWait, active, accepted, pidVars,
                 attempt, c2s, session, brokerSubs, inbox, pushed, faults>>

\* The stream is routed, if the router takes the filter, and the filter recorded
\* before SUBSCRIBE is encoded and written; the responder is stored after, so that
\* either error drops it and leaves the filter active.
Subscribe(c) ==
  LET topic  == Request[c].topic
      frame  == Frame("SUBSCRIBE", nextPid, topic, FALSE)
      routed == IF Request[c].stream /\ topic \notin Invalid THEN router \cup {c} ELSE router
      old    == IF nextPid \in DOMAIN subWait THEN {subWait[nextPid]} ELSE {}
  IN
  /\ Taking(c) /\ Request[c].op = "subscribe"
  /\ TakePids(1)
  /\ active' = active \cup {topic}
  /\ \/ /\ topic \notin SubTooLong /\ WriteOk(<<frame>>)
        /\ subWait' = With(subWait, nextPid, c)
        /\ KeepDriving(Resolve(old, "cancelled"), Tail(reqs), routed)
     \/ /\ topic \notin SubTooLong /\ WriteFails(<<frame>>)
        /\ UNCHANGED subWait
        /\ DropConnection(Resolve({c}, "cancelled"), Tail(reqs), routed)
     \/ /\ topic \in SubTooLong /\ UNCHANGED <<c2s, faults, subWait>>
        /\ DropConnection(Resolve({c}, "cancelled"), Tail(reqs), routed)
  /\ UNCHANGED <<handles, streamVars, inflight, unsubWait, accepted, attempt, brokerVars>>

\* router.remove takes out every stream of the filter, before UNSUBSCRIBE is
\* encoded and written; the variant none.
RoutedAll(topic) == router
RoutedWithout(topic) == {s \in router : Request[s].topic # topic}

Unsubscribe(c) ==
  LET topic  == Request[c].topic
      frame  == Frame("UNSUBSCRIBE", nextPid, topic, FALSE)
      routed == RoutedWithout(topic)
      old    == IF nextPid \in DOMAIN unsubWait THEN {unsubWait[nextPid]} ELSE {}
  IN
  /\ Taking(c) /\ Request[c].op = "unsubscribe"
  /\ TakePids(1)
  /\ active' = active \ {topic}
  /\ \/ /\ topic \notin UnsubTooLong /\ WriteOk(<<frame>>)
        /\ unsubWait' = With(unsubWait, nextPid, c)
        /\ KeepDriving(Resolve(old, "cancelled"), Tail(reqs), routed)
     \/ /\ topic \notin UnsubTooLong /\ WriteFails(<<frame>>)
        /\ UNCHANGED unsubWait
        /\ DropConnection(Resolve({c}, "cancelled"), Tail(reqs), routed)
     \/ /\ topic \in UnsubTooLong /\ UNCHANGED <<c2s, faults, unsubWait>>
        /\ DropConnection(Resolve({c}, "cancelled"), Tail(reqs), routed)
  /\ UNCHANGED <<handles, streamVars, inflight, subWait, accepted, attempt, brokerVars>>

\* send_disconnect ignores write errors; run then returns and keeps the transport.
\* The variant treats ClientClosed like any other error and reconnects.
DisconnectReconnects(c) ==
  /\ Taking(c) /\ Request[c].op = "disconnect"
  /\ WriteOk(<<Plain("DISCONNECT")>>)
  /\ DropConnection(Resolve({c}, "ok"), Tail(reqs), router)
  /\ UNCHANGED <<handles, streamVars, inflight, subWait, unsubWait, active, accepted, pidVars,
                 attempt, brokerVars>>
Disconnect(c) ==
  /\ Taking(c) /\ Request[c].op = "disconnect"
  /\ \/ WriteOk(<<Plain("DISCONNECT")>>)
     \/ WriteFails(<<Plain("DISCONNECT")>>)
  /\ phase' = "stopped" /\ status' = "Stopped"
  /\ result' = Resolve({c}, "ok") /\ reqs' = Tail(reqs)
  /\ UNCHANGED <<handles, streamVars, tableVars, pidVars, attempt, conn, s2c, rx, brokerVars>>

\* recv() returns None: DISCONNECT is sent and drive_connection returns Ok, after
\* which run drives the same transport again.
HandlesGone ==
  /\ Driving /\ ~handles /\ reqs = <<>>
  /\ status' = "Stopped"
  /\ \/ c2s' = IF conn = "up" /\ ~HasType(c2s, "DISCONNECT")
               THEN Append(c2s, Plain("DISCONNECT")) ELSE c2s
     \/ c2s' = c2s
  /\ UNCHANGED <<phase, attempt, callVars, streamVars, tableVars, pidVars, conn, s2c, rx,
                 brokerVars, faults>>

\* Branch 3: the timer ticked after an idle interval.
PingTick ==
  /\ Driving
  /\ Cardinality({i \in DOMAIN c2s : c2s[i].type = "PINGREQ"})
       + Cardinality({i \in DOMAIN s2c : s2c[i].type = "PINGRESP"}) < MaxPings
  /\ \/ WriteOk(<<Plain("PINGREQ")>>) /\ KeepDriving(result, reqs, router)
     \/ WriteFails(<<Plain("PINGREQ")>>) /\ DropConnection(result, reqs, router)
  /\ UNCHANGED <<handles, streamVars, inflight, subWait, unsubWait, active, accepted, pidVars,
                 attempt, brokerVars>>

-----------------------------------------------------------------------------
(* The network and the broker (external).                                   *)

\* What the broker sends reaches a client that still reads this connection.
Send(frames) == s2c' = IF conn = "up" THEN s2c \o frames ELSE s2c

BrokerConnect ==
  /\ c2s # <<>> /\ Head(c2s).type = "CONNECT"
  /\ c2s' = Tail(c2s)
  /\ session' = TRUE
  /\ brokerSubs' = IF CleanSession THEN {} ELSE brokerSubs
  /\ Send(<<Plain("CONNACK")>>)
  /\ UNCHANGED <<conn, rx, received, inbox, pushed, callVars, streamVars, tableVars, pidVars,
                 loopVars, faults>>

Reply(f) ==
  CASE f.type = "PUBLISH" /\ QoSOf[f.item] = 1 -> <<Frame("PUBACK", f.pid, Nothing, FALSE)>>
    [] f.type = "PUBLISH" /\ QoSOf[f.item] = 2 -> <<Frame("PUBREC", f.pid, Nothing, FALSE)>>
    [] f.type = "SUBSCRIBE"   -> <<Frame("SUBACK", f.pid, Nothing, FALSE)>>
    [] f.type = "UNSUBSCRIBE" -> <<Frame("UNSUBACK", f.pid, Nothing, FALSE)>>
    [] f.type = "PINGREQ"     -> <<Plain("PINGRESP")>>
    [] OTHER -> <<>>

\* A filter the broker refuses gets its SUBACK too, with a code nobody looks at.
BrokerRecv ==
  LET f == Head(c2s) IN
  /\ c2s # <<>> /\ f.type \notin {"CONNECT", "DISCONNECT"}
  /\ c2s' = Tail(c2s)
  /\ Send(Reply(f))
  /\ received' = IF f.type = "PUBLISH" THEN received \cup {f.item} ELSE received
  /\ inbox' = IF f.type = "PUBACK" THEN [inbox EXCEPT ![f.item] = "acked"] ELSE inbox
  /\ brokerSubs' = CASE f.type = "SUBSCRIBE" -> brokerSubs \cup ({f.item} \ Refused)
                     [] f.type = "UNSUBSCRIBE" -> brokerSubs \ {f.item}
                     [] OTHER -> brokerSubs
  /\ UNCHANGED <<conn, rx, session, pushed, callVars, streamVars, tableVars, pidVars, loopVars, faults>>

\* DISCONNECT from the client: the broker closes its end.
BrokerClose ==
  /\ c2s # <<>> /\ Head(c2s).type = "DISCONNECT"
  /\ c2s' = <<>> /\ s2c' = <<>>
  /\ conn' = IF conn = "up" THEN "broken" ELSE conn
  /\ UNCHANGED <<rx, callVars, streamVars, tableVars, pidVars, loopVars, brokerVars, faults>>

\* The broker publishes to the client, and again on a later connection what a
\* kept session has not seen acknowledged.
BrokerPublish(i) ==
  /\ session /\ conn = "up" /\ InTopic[i] \in brokerSubs /\ i \notin pushed
  /\ \/ inbox[i] = "new"
     \/ inbox[i] = "sent" /\ InQoS[i] > 0 /\ ~CleanSession
  /\ Send(<<Frame("PUBLISH", 0, i, FALSE)>>)
  /\ inbox' = [inbox EXCEPT ![i] = "sent"]
  /\ pushed' = pushed \cup {i}
  /\ UNCHANGED <<conn, rx, c2s, session, brokerSubs, received, callVars, streamVars, tableVars,
                 pidVars, loopVars, faults>>

\* The broker sends DISCONNECT (MQTT 5) or bytes the client cannot decode.
BrokerFault(type) ==
  /\ session /\ conn = "up" /\ Spend
  /\ Send(<<Plain(type)>>)
  /\ UNCHANGED <<conn, rx, c2s, callVars, streamVars, tableVars, pidVars, loopVars, brokerVars>>

\* The connection breaks with everything in flight; the client has yet to notice.
Break ==
  /\ conn = "up" /\ Spend
  /\ conn' = "broken" /\ c2s' = <<>> /\ s2c' = <<>>
  /\ UNCHANGED <<rx, callVars, streamVars, tableVars, pidVars, loopVars, brokerVars>>

-----------------------------------------------------------------------------
CallerStep == \/ \E c \in Calls : Call(c) \/ StreamRecv(c) \/ StreamDrop(c)
              \/ DropHandles \/ DropLoop

ConnectStep == \/ StartAttempt \/ Wake \/ DialFails \/ Dial \/ HandshakeFails
               \/ \E k \in 1..Len(s2c) : HandshakeOk(k)

ReadStep == \/ \E k \in 1..Len(s2c) : Read(k)
            \/ ReadUndecodable \/ ReadClosed \/ HandlePublish \/ HandleAnswer \/ HandleFails

RequestStep == \/ \E c \in Calls : \/ Publish(c) \/ PublishBatch(c) \/ PublishDatagram(c)
                                   \/ Subscribe(c) \/ Unsubscribe(c) \/ Disconnect(c)
               \/ HandlesGone

BrokerStep == BrokerConnect \/ BrokerRecv \/ BrokerClose

NetworkStep == \/ \E i \in InMsgs : BrokerPublish(i)
               \/ \E t \in {"DISCONNECT", "UNDECODABLE"} : BrokerFault(t)
               \/ Break

Next == CallerStep \/ ConnectStep \/ ReadStep \/ RequestStep \/ PingTick \/ BrokerStep \/ NetworkStep

Spec == Init /\ [][Next]_vars

(***************************************************************************)
(* Tokio runs the task whenever one of its futures is ready, select! polls *)
(* its branches in random order, timers fire, and a broker that is         *)
(* connected answers and resends what a kept session has not seen          *)
(* acknowledged.  Callers, faults and new publishes of the broker are not  *)
(* fair; faults are finitely many.                                         *)
(***************************************************************************)
Fairness ==
  /\ WF_vars(StartAttempt) /\ WF_vars(Wake) /\ WF_vars(Dial)
  /\ WF_vars(\E k \in 1..Len(s2c) : HandshakeOk(k))
  /\ WF_vars(HandshakeFails)
  /\ WF_vars(ReadStep)
  /\ WF_vars(RequestStep)
  /\ WF_vars(BrokerStep)
  /\ WF_vars(\E i \in InMsgs : inbox[i] = "sent" /\ BrokerPublish(i))

FairSpec == Spec /\ Fairness

-----------------------------------------------------------------------------
(* Properties. *)

\* The types of the state, and the bounds of the two channels the code creates
\* with a capacity: the request channel and the subscription streams.
CallersOK ==
  /\ handles \in BOOLEAN /\ result \in [Calls -> Results]
  /\ reqs \in Seq(Calls) /\ Len(reqs) <= ChannelCap
  /\ streamOpen \subseteq Calls
  /\ queue \in [Calls -> Seq(InMsgs)] /\ \A c \in Calls : Len(queue[c]) <= StreamCap
LoopOK ==
  /\ phase \in Phases /\ status \in Statuses /\ attempt \in Nat
  /\ nextPid \in Pids /\ wrapped \in BOOLEAN
  /\ DOMAIN inflight \subseteq Pids
  /\ \A p \in DOMAIN inflight : inflight[p] \in [msg : Msgs, call : Calls \cup {NoCall}]
  /\ DOMAIN subWait \subseteq Pids /\ \A p \in DOMAIN subWait : subWait[p] \in Calls
  /\ DOMAIN unsubWait \subseteq Pids /\ \A p \in DOMAIN unsubWait : unsubWait[p] \in Calls
  /\ active \subseteq Topics /\ IsFiniteSet(active)
  /\ router \subseteq Calls /\ accepted \subseteq Msgs
WireOK ==
  /\ conn \in {"none", "up", "broken"}
  /\ c2s \in Seq(ClientFrames) /\ s2c \in Seq(BrokerFrames) /\ rx \in Seq(BrokerFrames)
  /\ session \in BOOLEAN /\ brokerSubs \subseteq Topics /\ received \subseteq Msgs
  /\ inbox \in [InMsgs -> {"new", "sent", "acked"}] /\ pushed \subseteq InMsgs
  /\ faults \in 0..MaxFaults
TypeOK == CallersOK /\ LoopOK /\ WireOK

Tracked == {inflight[p].msg : p \in DOMAIN inflight}

\* Until packet identifiers repeat, a QoS 1/2 message the loop has taken from
\* the channel is either at the broker or still in inflight_publishes, whatever
\* fails and also when run has returned: as long as the EventLoop value lives,
\* nothing accepted is forgotten.
UnackedRecoverable == ~wrapped /\ phase # "gone" => accepted \subseteq received \cup Tracked

\* Until packet identifiers repeat, publish_with_ack of a QoS 1/2 message returns
\* Cancelled only when the EventLoop has been dropped: no failure, reconnection or
\* stop gives a caller up whose message is still tracked and will be resent.
CancelledOnlyByDrop ==
  ~wrapped /\ phase # "gone" => \A c \in Calls :
    Request[c].op = "publish" /\ QoSOf[Request[c].msgs[1]] > 0 => result[c] # "cancelled"

\* Until packet identifiers repeat, publish_with_ack returns Ok for a QoS 1/2
\* message only when the broker has it.
AckedReceived ==
  ~wrapped => \A c \in Calls :
    Request[c].op = "publish" /\ Request[c].awaits /\ result[c] = "ok"
      => \A i \in DOMAIN Request[c].msgs :
           QoSOf[Request[c].msgs[i]] > 0 => Request[c].msgs[i] \in received

\* The strengthening that makes these two inductive (see EventLoopDelivery).  Until
\* identifiers repeat, every identifier in use is one already handed out; a
\* PUBLISH on its way carries the message tracked under its identifier, if there
\* still is one; and a PUBACK on its way back is for a message the broker has.
PublishTracked(f) ==
  f.type = "PUBLISH" =>
    f.pid < nextPid /\ (f.pid \in DOMAIN inflight => inflight[f.pid].msg = f.item)
PubackEarned(f) ==
  f.type = "PUBACK" =>
    f.pid < nextPid /\ (f.pid \in DOMAIN inflight => inflight[f.pid].msg \in received)
IdentifiersUnique ==
  ~wrapped => /\ \A p \in DOMAIN inflight : p < nextPid
              /\ \A f \in ToSet(c2s) : PublishTracked(f)
              /\ \A f \in ToSet(s2c) \cup ToSet(rx) : PubackEarned(f)

\* A table holds the responders of its own kind of call.
RespondersKnown ==
  /\ \A p \in DOMAIN inflight : LET c == inflight[p].call IN
       c # NoCall => Request[c].op = "publish" /\ inflight[p].msg = Request[c].msgs[1]
  /\ \A p \in DOMAIN subWait : Request[subWait[p]].op = "subscribe"
  /\ \A p \in DOMAIN unsubWait : Request[unsubWait[p]].op = "unsubscribe"

HasFrame(frames, type, pid) == \E i \in DOMAIN frames : frames[i].type = type /\ frames[i].pid = pid

\* On a live connection every tracked QoS 1 message has its PUBLISH on the way
\* to the broker or its PUBACK on the way back: after a reconnection too, no
\* entry waits for an acknowledgement nobody will send.
ExchangeAlive ==
  phase = "drive" /\ conn = "up" =>
    \A p \in DOMAIN inflight :
      QoSOf[inflight[p].msg] = 1 /\ inflight[p].msg \notin Oversize
        => HasFrame(c2s, "PUBLISH", p) \/ HasFrame(rx \o s2c, "PUBACK", p)

\* Filters a SUBSCRIBE can be written for and that the broker grants.  The others
\* stay in active_subscriptions all the same, and are never installed.
Installable == Topics \ (SubTooLong \cup Refused)

\* Every installable filter of active_subscriptions that is not on its way to the
\* broker is installed there, on whichever connection; with a clean session the
\* broker has no filter that is not active (with a kept session it may still have
\* one whose UNSUBSCRIBE was lost).
SubscriptionsInstalled ==
  phase = "drive" /\ conn = "up"
    /\ ~HasType(c2s, "SUBSCRIBE") /\ ~HasType(c2s, "UNSUBSCRIBE")
    => /\ active \cap Installable \subseteq brokerSubs
       /\ CleanSession => brokerSubs \subseteq active

\* A stream the router still feeds belongs to a filter that reconnection restores.
RoutedIsActive == {Request[c].topic : c \in router} \subseteq active

\* run has returned.
HasStopped == phase \in {"stopped", "gone"}

IsQoS1Publish(c) == /\ Request[c].op = "publish" /\ Request[c].awaits
                    /\ QoSOf[Request[c].msgs[1]] = 1 /\ Request[c].msgs[1] \notin Oversize

\* A QoS 1 publish_with_ack returns Ok once faults cease, unless the loop is stopped.
PublishResolved ==
  \A c \in Calls : IsQoS1Publish(c) =>
    (result[c] = "waiting" ~> result[c] = "ok" \/ HasStopped)

\* A disconnect request ends the loop, even one made while there is no connection.
DisconnectStops ==
  \A c \in Calls : Request[c].op = "disconnect" => (result[c] = "waiting" ~> HasStopped)

\* Once faults cease, the broker's filters are the installable ones of
\* active_subscriptions for good, as long as some client handle is alive and the
\* loop is not stopped.
SubscriptionsConverge ==
  [](handles /\ ~HasStopped) => <>[](brokerSubs = active \cap Installable)

-----------------------------------------------------------------------------
(* What the repository says of the loop and the code does not do. *)

\* eventloop.rs:98: the loop runs "until explicitly stopped or when all client
\* handles are dropped".
HandlesDroppedStops == ~handles ~> HasStopped

\* A subscribe or unsubscribe call returns once faults cease.
SubscribeResolved ==
  \A c \in Calls : Request[c].op \in {"subscribe", "unsubscribe"}
    => (result[c] = "waiting" ~> result[c] # "waiting")

\* client.rs:152: a subscription stream "receives all incoming publishes matching
\* the filter": with a kept session, a QoS 1 publish the broker has sent is at
\* least acknowledged eventually, across reconnections.
InboundAcked ==
  []handles => \A i \in InMsgs : InQoS[i] = 1 => (inbox[i] = "sent" ~> inbox[i] = "acked")

=============================================================================
