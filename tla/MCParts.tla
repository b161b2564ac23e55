------------------------------- MODULE MCParts --------------------------------
(***************************************************************************)
(* The parts that stand alone, side by side: the state machine and the     *)
(* in-flight queue of mqtt-core, the store of mqtt-storage, the framing of *)
(* mqtt-packet's octets, the hub and the bindings of mqtt-bridges, the     *)
(* topic router, keep-alive, dialling and sensor data of mqtt-tokio, and   *)
(* the streamed publish of mqtt-embedded.  They share no state, so one of  *)
(* them at a time is run.                                                  *)
(***************************************************************************)
EXTENDS ConnState, CoreInflight, MemStore, Framing, BroadcastHub, TopicRouter, KeepAlive,
        StreamPublish, Dial, SensorWire, UiBinding, TLC

CONSTANTS k1, k2, k3, k4, k5, v1, v2, v3, w1, w2, s1, s2

\* v3 does not fit in an entry, and v2 only in the larger load buffer.
SomeLengths == v1 :> 1 @@ v2 :> 2 @@ v3 :> 3

-------------------------------------------------------------------------------
(***************************************************************************)
(* The broker's streams: every packet type, with and without properties,   *)
(* a publish with as many as there is room for, before a short packet, and *)
(* publishes whose length takes one octet or two, or that do not fit in    *)
(* the buffer.                                                             *)
(***************************************************************************)
a == <<97>>

SomeProps == << [id |-> 1, data |-> <<0>>], [id |-> 33, data |-> <<0, 9>>],
                [id |-> 2, data |-> <<0, 0, 0, 5>>], [id |-> 3, data |-> Str(a)],
                [id |-> 38, data |-> Str(a) \o Str(<<>>)], [id |-> 11, data |-> VarInt(200)] >>

SomeFlags == [i \in 1..VecSize - Len(SomeProps) |-> [id |-> 1, data |-> <<1>>]]

Ack(type, reason, ps) == [type |-> type, packet_id |-> 513, reason_code |-> reason, properties |-> ps]

Pub(topic, qos, payload, ps) ==
  [type |-> "Publish", dup |-> qos = 1, qos |-> qos, retain |-> qos = 0, topic |-> topic,
   packet_id |-> IF qos = 0 THEN <<>> ELSE <<258>>, properties |-> ps, payload |-> payload]

Zeros(n) == [i \in 1..n |-> 0]

Simple(ps) ==
  { [type |-> "Connect", clean_session |-> TRUE, keep_alive |-> 300, client_id |-> a,
     username |-> <<>>, password |-> <<a>>, will |-> <<>>, properties |-> ps],
    [type |-> "Connect", clean_session |-> FALSE, keep_alive |-> 60, client_id |-> <<>>,
     username |-> <<a>>, password |-> <<>>, properties |-> <<>>,
     will |-> <<[topic |-> a, payload |-> <<1, 0>>, qos |-> 1, retain |-> TRUE, properties |-> ps]>>],
    [type |-> "ConnAck", session_present |-> TRUE, reason_code |-> 0, properties |-> ps],
    Pub(a, 0, <<>>, ps), Pub(<<>>, 2, <<1, 2>>, <<>>), Ack("PubAck", 0, <<>>),
    Ack("PubRec", 0, ps), Ack("PubRel", 0, <<>>), Ack("PubComp", 0, ps),
    [type |-> "Subscribe", packet_id |-> 7, properties |-> ps,
     topics |-> << [topic |-> a, qos |-> 1], [topic |-> <<>>, qos |-> 2] >>],
    [type |-> "Unsubscribe", packet_id |-> 8, properties |-> ps, topics |-> <<a, a>>],
    [type |-> "SubAck", packet_id |-> 7, properties |-> ps, reason_codes |-> <<0, 128>>],
    [type |-> "UnsubAck", packet_id |-> 8, properties |-> <<>>, reason_codes |-> <<17>>],
    [type |-> "PingReq"], [type |-> "PingResp"],
    [type |-> "Disconnect", reason_code |-> 0, properties |-> <<>>] }

Later(ps) == {Ack("PubAck", 0, <<>>), [type |-> "PingResp"], Pub(a, 1, a, ps)}

Large == {<<Pub(a, 1, Zeros(n), <<>>), Ack("PubAck", 0, <<>>)>> : n \in {122, 123, 135}}

SomeTraffic ==
  [v \in {"V3_1_1", "V5"} |->
     IF v = "V5"
       THEN Large \cup {<<p, q>> : p \in Simple(SomeProps)
                          \cup {Ack("PubRel", 146, <<>>), Pub(a, 1, a, SomeProps \o SomeFlags),
                                [type |-> "Disconnect", reason_code |-> 4, properties |-> SomeProps]},
                        q \in Later(SomeProps)}
       ELSE Large \cup {<<p, q>> : p \in Simple(<<>>), q \in Later(<<>>)}]

\* Nothing, a length field that does not end, a packet type that does not exist, and
\* a SUBACK with one code more than there is room for.
NineCodes == [type |-> "SubAck", packet_id |-> 7, properties |-> <<>>, reason_codes |-> Zeros(9)]
SomeTails == {<<>>, <<48, 255, 255, 255, 255>>, <<0, 0>>, Encode(NineCodes, "V5")}

-------------------------------------------------------------------------------
(***************************************************************************)
(* Filters of every form over two names, one of them invalid, and topics   *)
(* of one to three levels.                                                 *)
(***************************************************************************)
SomeFilters == {<<"#">>, <<"+">>, <<"a">>, <<"a", "#">>, <<"a", "b">>, <<"+", "b">>,
                <<"a", "+", "#">>, <<"#", "a">>}
SomeTopics  == {<<"a">>, <<"b">>, <<"a", "b">>, <<"b", "b">>, <<"a", "b", "a">>}

(***************************************************************************)
(* URIs with a port, without one and with a bad one, and of every scheme.  *)
(***************************************************************************)
SomeUris == {[scheme |-> u[1], parts |-> u[2]] : u \in
               {<<"mqtt", <<"host">> >>, <<"mqtt", <<"host", 70000>> >>,
                <<"mqtts", <<"host", 8883>> >>, <<"quic", <<"host", 14567>> >>,
                <<"unix", <<"path">> >>, <<"pipe", <<"path">> >>, <<"http", <<"host">> >>}}
SomeLimits == {{}, {0}, {2}}

(***************************************************************************)
(* Sensor data around the widths of its length fields, and the payloads of *)
(* others: every tag with too little behind it, in a chunk and without.    *)
(***************************************************************************)
Value(width, octet)    == [i \in 1..width |-> octet]
ValuesOf(width, count) == [i \in 1..count |-> Value(width, i % 3)]

SomeSamples ==
  {[type |-> "Raw", data |-> d] : d \in {<<>>, <<1>>, <<2, 0>>, <<7, 7>>}}
  \cup {[type |-> "Json", text |-> t] : t \in {<<>>, <<6>>, <<4, 4>>}}
  \cup {[type |-> "TimeSeries", values |-> ValuesOf(8, n)] : n \in {0, 1, 2, 9, 64, 66}}
  \cup {[type |-> "TimeSeriesF32", values |-> ValuesOf(4, n)] : n \in {0, 1, 3, 8, 63, 65}}
  \cup {[type |-> "AudioPcm", sample_rate |-> n, channels |-> 2, data |-> d] :
          n \in {0, 9, 512}, d \in {<<>>, <<5, 5>>}}
  \cup {[type |-> "ImageFrame", mime |-> Value(n, 3), data |-> d] :
          n \in {0, 1, 7, 8, 10}, d \in {<<>>, <<6, 1>>}}

Cuts == {<<>>} \cup {<<t>> : t \in 0..7} \cup {<<t, n>> : t \in 0..7, n \in {0, 2}}
          \cup {<<t, 0, n>> : t \in 0..7, n \in {0, 2, 7}}
          \cup {<<2, 0, 1>> \o Value(7, 0), <<3, 0, 1>> \o Value(4, 7), <<5>> \o Value(4, 1)}

SomeMessages == Cuts \cup {Value(16, 0) \o c : c \in Cuts} \cup {Value(15, 1)}

-------------------------------------------------------------------------------
VARIABLE part  \* the part that runs

NoStream == /\ version = "V5" /\ packets = <<>> /\ tail = <<>> /\ wire = <<>>
            /\ rx = <<>> /\ received = <<>> /\ link = "open"

NoDial == /\ caller = "loop" /\ enabled = "yes" /\ limit = {} /\ kind = "none"
          /\ net = [tcp |-> "accepts", peer |-> "public"] /\ doing = "begin" /\ tries = 0
          /\ stage = <<>> /\ pauses = <<>> /\ result = "none"

\* protocol is what StreamInit chooses.
NoPublish == StreamInit /\ protocol = "V5"

Init == /\ ConnInit /\ QueueInit /\ StoreInit /\ HubInit /\ RouterInit /\ PingInit
        /\ SensorInit /\ BindingInit
        /\ \/ part = "wire" /\ WireInit /\ NoDial /\ NoPublish
           \/ part = "dial" /\ DialInit /\ NoStream /\ NoPublish
           \/ part = "publish" /\ StreamInit /\ NoStream /\ NoDial
           \/ /\ part \in {"state", "queue", "store", "hub", "router", "ping", "sensor", "binding"}
              /\ NoStream /\ NoDial /\ NoPublish

partVars == <<connVars, queueVars, storeVars, wireVars, hubVars, routerVars, pingVars,
              streamVars, dialVars, sensorVars, bindingVars, part>>

Still(p, v) == IF part = p THEN TRUE ELSE UNCHANGED v

Next == /\ \/ part = "state"   /\ ConnNext
           \/ part = "queue"   /\ QueueNext
           \/ part = "store"   /\ StoreNext
           \/ part = "wire"    /\ WireNext
           \/ part = "hub"     /\ HubNext
           \/ part = "router"  /\ RouterNext
           \/ part = "ping"    /\ PingNext
           \/ part = "publish" /\ StreamNext
           \/ part = "dial"    /\ DialNext
           \/ part = "sensor"  /\ SensorNext
           \/ part = "binding" /\ BindingNext
        /\ Still("state", connVars)     /\ Still("queue", queueVars)
        /\ Still("store", storeVars)    /\ Still("wire", wireVars)
        /\ Still("hub", hubVars)        /\ Still("router", routerVars)
        /\ Still("ping", pingVars)      /\ Still("publish", streamVars)
        /\ Still("dial", dialVars)      /\ Still("sensor", sensorVars)
        /\ Still("binding", bindingVars) /\ UNCHANGED part

Spec == Init /\ [][Next]_partVars /\ HubFairness /\ DialFairness /\ BindingFairness

===============================================================================
