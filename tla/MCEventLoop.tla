----------------------------- MODULE MCEventLoop -----------------------------
(* Instances of EventLoop for TLC: each scenario is a set of calls. *)
EXTENDS EventLoop

CONSTANTS c1, c2, c3, c4, c5, m1, m2, m3, m4, m5, t1, t2, t3, i1

Req(op, msgs, topic, awaits, stream) ==
  [op |-> op, msgs |-> msgs, topic |-> topic, awaits |-> awaits, stream |-> stream]
PublishAck(m)  == Req("publish", <<m>>, t1, TRUE, FALSE)
Batch(ms)      == Req("batch", ms, t1, TRUE, FALSE)
Datagram(m)    == Req("datagram", <<m>>, t1, TRUE, FALSE)
SubscribeTo(t, stream) == Req("subscribe", <<>>, t, TRUE, stream)
UnsubscribeFrom(t)     == Req("unsubscribe", <<>>, t, TRUE, FALSE)
DisconnectNow == Req("disconnect", <<>>, t1, TRUE, FALSE)

\* Two acknowledged publishes, a batch whose second message is too large to encode,
\* a disconnect and a datagram.
SafetyCalls == c1 :> PublishAck(m1) @@ c2 :> Batch(<<m2, m3>>) @@ c3 :> PublishAck(m4)
               @@ c4 :> DisconnectNow @@ c5 :> Datagram(m5)
SafetyQoS   == m1 :> 1 @@ m2 :> 1 @@ m3 :> 2 @@ m4 :> 1 @@ m5 :> 0

\* A filter subscribed to and unsubscribed from, one whose packets are too long, and
\* one that is invalid and refused.
SubscribeCalls == c1 :> SubscribeTo(t1, TRUE) @@ c2 :> UnsubscribeFrom(t1)
                  @@ c3 :> SubscribeTo(t2, FALSE) @@ c4 :> SubscribeTo(t3, TRUE)
InboundTopic == [i \in InMsgs |-> t1]
InboundQoS   == [i \in InMsgs |-> 1]

\* One call of each other kind for the liveness questions.
LiveCalls == c1 :> PublishAck(m1) @@ c2 :> SubscribeTo(t1, TRUE) @@ c3 :> UnsubscribeFrom(t1)
             @@ c4 :> DisconnectNow @@ c5 :> UnsubscribeFrom(t2)
LiveQoS   == m1 :> 1

\* A single call.
PublishCall  == c1 :> PublishAck(m1)
OneSubscribe == c1 :> SubscribeTo(t1, TRUE)
OneQoS2      == m1 :> 2

NoMessage == [m \in {} |-> 0]
NoInbound == [i \in {} |-> 0]

=============================================================================
