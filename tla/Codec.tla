-------------------------------- MODULE Codec ---------------------------------
(***************************************************************************)
(* The packet codec of mqtt-packet: what EncodePacket::encode writes and   *)
(* what decode makes of the octets, for every packet type and both         *)
(* versions of the protocol.  An octet is a number below 256, a string or  *)
(* a payload a sequence of octets, an Option a sequence of at most one     *)
(* element.  A cursor counts the octets consumed, as in the code.          *)
(*                                                                         *)
(* Left out: buffers too small to encode into (EventLoop has that error),  *)
(* UTF-8, and the bodies no peer that follows the protocol sends.          *)
(***************************************************************************)
EXTENDS Naturals, Sequences, SequencesExt

Bit(b) == IF b THEN 1 ELSE 0
HasBit(n, weight) == (n \div weight) % 2 = 1

\* QoS::from
QoS(n) == IF n > 2 THEN 2 ELSE n

-------------------------------------------------------------------------------
\* Fields and lists of fields.

\* write_variable_byte_integer(_len), for the lengths that four octets hold.
VarInt(n) ==
  LET digits == Min({k \in 1..4 : n < 128 ^ k})
  IN [i \in 1..digits |-> ((n \div 128 ^ (i - 1)) % 128) + 128 * Bit(i < digits)]

\* read_ and peek_variable_byte_integer at cursor c, whose last octet is the k-th
\* of the four there may be; k is 4 if there is none.
VarIntUpTo(buf, c, k) ==
  LET Part(j) == IF j <= k THEN (buf[c + j + 1] % 128) * 128 ^ j ELSE 0
  IN IF k < 4
    THEN [err |-> "none", next |-> c + k + 1, val |-> Part(0) + Part(1) + Part(2) + Part(3)]
    ELSE [err |-> IF c + 4 <= Len(buf) THEN "malformed" ELSE "incomplete", next |-> c, val |-> 0]

VarIntAt(buf, c) ==
  VarIntUpTo(buf, c, Min({4} \cup {i \in 0..3 : c + i < Len(buf) /\ buf[c + i + 1] < 128}))

U16(n) == <<n \div 256, n % 256>>
U16At(buf, c) == 256 * buf[c + 1] + buf[c + 2]

\* n octets, and the cursor after them.
OctetsAt(buf, c, n) == [val |-> SubSeq(buf, c + 1, c + n), next |-> c + n]

\* write_utf8_string, write_binary_data
Str(s) == U16(Len(s)) \o s

\* read_utf8_string, read_binary_data
StrAt(buf, c) == OctetsAt(buf, c + 2, U16At(buf, c))

\* A loop that reads items while its cursor is before the end; item[k] is the one
\* at cursor k.
ListAt(c, end, item) ==
  LET Onward(k) == IF item[k].next \in k + 1..end THEN item[k].next ELSE end
      list[k \in c..end] == IF k = end THEN <<>> ELSE <<item[k].val>> \o list[Onward(k)]
  IN list[c]

\* write_properties: all of them preceded by their length; version 5 only.
PropOctets(ps) == FlattenSeq([i \in DOMAIN ps |-> <<ps[i].id>> \o ps[i].data])
Props(v, ps) ==
  IF v = "V5" THEN VarInt(Len(PropOctets(ps))) \o PropOctets(ps) ELSE <<>>

\* The length of a property's data, by its identifier.
StringIds == {3, 8, 9, 18, 21, 22, 26, 28, 31}

PropLen(id, buf, c) ==
  CASE id \in {19, 33, 34} -> 2
    [] id \in {2, 17, 24, 35, 39} -> 4
    [] id \in StringIds -> 2 + U16At(buf, c)
    [] id = 38 -> LET key == 2 + U16At(buf, c) IN key + 2 + U16At(buf, c + key)
    [] id = 11 -> VarIntAt(buf, c).next - c
    [] OTHER -> 1

PropAt(buf, c) ==
  LET data == OctetsAt(buf, c + 1, PropLen(buf[c + 1], buf, c + 1))
  IN [val |-> [id |-> buf[c + 1], data |-> data.val], next |-> data.next]

\* read_properties
PropsAt(buf, c) ==
  LET len == VarIntAt(buf, c)
  IN [val |-> ListAt(len.next, len.next + len.val, [k \in len.next..(len.next + len.val - 1) |-> PropAt(buf, k)]),
      next |-> len.next + len.val]

\* The reason code of a packet that ends at end, which may be missing there.  The
\* variant goes by the end of the buffer.
ReasonAtBuffer(buf, c, end) ==
  IF c < Len(buf) THEN [val |-> buf[c + 1], next |-> c + 1] ELSE [val |-> 0, next |-> c]

ReasonAt(buf, c, end) ==
  IF c < end THEN [val |-> buf[c + 1], next |-> c + 1] ELSE [val |-> 0, next |-> c]

\* A topic filter and its QoS.
FilterAt(buf, c) ==
  LET topic == StrAt(buf, c)
  IN [val |-> [topic |-> topic.val, qos |-> QoS(buf[topic.next + 1])], next |-> topic.next + 1]

\* A field of one kind; properties may be missing at the end, too.
FieldAt(kind, buf, c, end) ==
  CASE kind = "u8" -> [val |-> buf[c + 1], next |-> c + 1]
    [] kind = "u16" -> [val |-> U16At(buf, c), next |-> c + 2]
    [] kind = "str" -> StrAt(buf, c)
    [] kind \in {"rest", "codes"} -> OctetsAt(buf, c, end - c)
    [] kind = "reason" -> ReasonAt(buf, c, end)
    [] kind = "zero" -> [val |-> 0, next |-> c]
    [] kind = "props" /\ c < end -> PropsAt(buf, c)
    [] kind = "topics" -> [val |-> ListAt(c, end, [k \in c..(end - 1) |-> StrAt(buf, k)]), next |-> end]
    [] kind = "filters" -> [val |-> ListAt(c, end, [k \in c..(end - 1) |-> FilterAt(buf, k)]), next |-> end]
    [] OTHER -> [val |-> <<>>, next |-> c]

\* The values of fields of these kinds, read one after another.
FieldsAt(kinds, buf, c, end) ==
  LET field[i \in 0..Len(kinds)] ==
        IF i = 0 THEN [val |-> 0, next |-> c] ELSE FieldAt(kinds[i], buf, field[i - 1].next, end)
  IN [i \in DOMAIN kinds |-> field[i].val]

OnlyV5(v, kind) == IF v = "V5" THEN kind ELSE "absent"

\* The heapless vectors of the packets have room for eight items: TooManyProperties,
\* BatchCapacityExceeded.
VecSize == 8
Vec(S)  == {s \in Seq(S) : Len(s) <= VecSize}

TooMany(kinds, fields) ==
  \E i \in DOMAIN kinds :
    kinds[i] \in {"props", "topics", "filters", "codes"} /\ Len(fields[i]) > VecSize

-------------------------------------------------------------------------------
\* Each packet: the octets of its body, the kinds of field decode reads, and the
\* packet it makes of their values.

ConnectFlags(p) ==
    2 * Bit(p.clean_session)
  + (IF p.will = <<>> THEN 0 ELSE 4 + 8 * p.will[1].qos + 32 * Bit(p.will[1].retain))
  + 64 * Bit(p.password # <<>>) + 128 * Bit(p.username # <<>>)

MQTT == <<77, 81, 84, 84>>

ConnectBody(p, v) ==
  LET Will(w) == Props(v, w.properties) \o Str(w.topic) \o Str(w.payload)
      Each(opt, Written(_)) == FlattenSeq([i \in DOMAIN opt |-> Written(opt[i])])
  IN Str(MQTT) \o <<IF v = "V5" THEN 5 ELSE 4, ConnectFlags(p)>> \o U16(p.keep_alive)
     \o Props(v, p.properties) \o Str(p.client_id)
     \o Each(p.will, Will) \o Each(p.username, Str) \o Each(p.password, Str)

\* Of a CONNECT with this protocol level and these flags.
ConnectKinds(level, flags, v) ==
  LET props == IF level = 5 THEN "props" ELSE OnlyV5(v, "props")
      If(bit, kind) == IF HasBit(flags, bit) THEN kind ELSE "absent"
  IN <<"str", "u8", "u8", "u16", props, "str", If(4, props), If(4, "str"), If(4, "str"),
       If(128, "str"), If(64, "str")>>

ConnectOf(f, flags) ==
  LET Opt(bit, val) == IF HasBit(flags, bit) THEN <<val>> ELSE <<>>
  IN [type |-> "Connect", clean_session |-> HasBit(flags, 2), keep_alive |-> f[4],
      properties |-> f[5], client_id |-> f[6],
      will |-> Opt(4, [topic |-> f[8], payload |-> f[9], qos |-> QoS((flags \div 8) % 4),
                       retain |-> HasBit(flags, 32), properties |-> f[7]]),
      username |-> Opt(128, f[10]), password |-> Opt(64, f[11])]

ConnAckBody(p, v) == <<Bit(p.session_present), p.reason_code>> \o Props(v, p.properties)
ConnAckKinds(v) == <<"u8", "u8", OnlyV5(v, "props")>>
ConnAckOf(f) == [type |-> "ConnAck", session_present |-> HasBit(f[1], 1), reason_code |-> f[2],
                 properties |-> f[3]]

PublishBody(p, v) ==
  Str(p.topic)
  \o (IF p.qos = 0 THEN <<>> ELSE U16(IF p.packet_id = <<>> THEN 1 ELSE p.packet_id[1]))
  \o Props(v, p.properties) \o p.payload
PublishKinds(v, qos) ==
  <<"str", IF qos = 0 THEN "absent" ELSE "u16", OnlyV5(v, "props"), "rest">>
PublishOf(f, first, qos) ==
  [type |-> "Publish", dup |-> HasBit(first, 8), qos |-> qos, retain |-> HasBit(first, 1),
   topic |-> f[1], packet_id |-> IF qos = 0 THEN <<>> ELSE <<f[2]>>, properties |-> f[3],
   payload |-> f[4]]

\* PUBACK, PUBREC, PUBREL, PUBCOMP and, without an identifier, DISCONNECT: the
\* reason and the properties may be left out.
ReasonPart(p, v) ==
  IF v = "V5" /\ (p.properties # <<>> \/ p.reason_code # 0)
    THEN <<p.reason_code>> \o Props(v, p.properties)
    ELSE <<>>
ReasonKinds(v) == <<IF v = "V5" THEN "reason" ELSE "zero", OnlyV5(v, "props")>>

AckBody(p, v) == U16(p.packet_id) \o ReasonPart(p, v)
AckKinds(v) == <<"u16">> \o ReasonKinds(v)
AckOf(f, type) == [type |-> type, packet_id |-> f[1], reason_code |-> f[2], properties |-> f[3]]

DisconnectOf(f) == [type |-> "Disconnect", reason_code |-> f[1], properties |-> f[2]]

\* SUBSCRIBE, UNSUBSCRIBE and their acknowledgements: an identifier, the
\* properties, and items up to the packet's end.
SubscribeBody(p, v) ==
  U16(p.packet_id) \o Props(v, p.properties)
  \o FlattenSeq([i \in DOMAIN p.topics |-> Str(p.topics[i].topic) \o <<p.topics[i].qos>>])
SubscribeKinds(v) == <<"u16", OnlyV5(v, "props"), "filters">>

UnsubscribeBody(p, v) ==
  U16(p.packet_id) \o Props(v, p.properties)
  \o FlattenSeq([i \in DOMAIN p.topics |-> Str(p.topics[i])])
UnsubscribeKinds(v) == <<"u16", OnlyV5(v, "props"), "topics">>

CodesBody(p, v) == U16(p.packet_id) \o Props(v, p.properties) \o p.reason_codes
CodesKinds(v) == <<"u16", OnlyV5(v, "props"), "codes">>

TopicsOf(f, type) == [type |-> type, packet_id |-> f[1], properties |-> f[2], topics |-> f[3]]
CodesOf(f, type) == [type |-> type, packet_id |-> f[1], properties |-> f[2], reason_codes |-> f[3]]

-------------------------------------------------------------------------------
\* The packets there are, short of UTF-8.

Octet   == 0..255
Word    == 0..65535
Lengths == 0..(128 ^ 4 - 1)
Text    == {s \in Seq(Octet) : Len(s) \in Word}
AtMostOne(S) == {s \in Seq(S) : Len(s) <= 1}

\* Data of a property that is one string, two, or a variable byte integer.
IsStr(d)    == Len(d) >= 2 /\ d = Str(SubSeq(d, 3, Len(d)))
IsPair(d)   == \E k \in 2..Len(d) : IsStr(SubSeq(d, 1, k)) /\ IsStr(SubSeq(d, k + 1, Len(d)))
IsVarInt(d) == VarIntAt(d, 0).err = "none" /\ VarIntAt(d, 0).next = Len(d)

IsProperty(p) ==
  CASE p.id \in StringIds -> IsStr(p.data)
    [] p.id = 38 -> IsPair(p.data)
    [] p.id = 11 -> IsVarInt(p.data)
    [] OTHER -> Len(p.data) = PropLen(p.id, p.data, 0)

Property == {p \in [id : Octet, data : Seq(Octet)] : IsProperty(p)}

\* Version 5 has properties, and reason codes in acknowledgements.
PropertyLists(v) ==
  IF v = "V5" THEN {ps \in Vec(Property) : Len(PropOctets(ps)) \in Lengths} ELSE {<<>>}
Reasons(v) == IF v = "V5" THEN Octet ELSE {0}

Wills(v) == [topic : Text, payload : Text, qos : 0..2, retain : BOOLEAN,
             properties : PropertyLists(v)]

ConnectPackets(v) ==
  [type : {"Connect"}, clean_session : BOOLEAN, keep_alive : Word, properties : PropertyLists(v),
   client_id : Text, will : AtMostOne(Wills(v)), username : AtMostOne(Text),
   password : AtMostOne(Text)]

PublishPackets(v) ==
  {p \in [type : {"Publish"}, dup : BOOLEAN, qos : 0..2, retain : BOOLEAN, topic : Text,
          packet_id : AtMostOne(Word), properties : PropertyLists(v), payload : Seq(Octet)] :
     p.packet_id = <<>> <=> p.qos = 0}

AckPackets(v) == [type : {"PubAck", "PubRec", "PubRel", "PubComp"}, packet_id : Word,
                  reason_code : Reasons(v), properties : PropertyLists(v)]

OtherPackets(v) ==
  LET properties == PropertyLists(v)
  IN [type : {"ConnAck"}, session_present : BOOLEAN, reason_code : Octet, properties : properties]
     \cup [type : {"Subscribe"}, packet_id : Word, properties : properties,
           topics : Vec([topic : Text, qos : 0..2])]
     \cup [type : {"Unsubscribe"}, packet_id : Word, properties : properties, topics : Vec(Text)]
     \cup [type : {"SubAck", "UnsubAck"}, packet_id : Word, properties : properties,
           reason_codes : Vec(Octet)]
     \cup [type : {"PingReq", "PingResp"}]
     \cup [type : {"Disconnect"}, reason_code : Reasons(v), properties : properties]

Packets(v) == ConnectPackets(v) \cup PublishPackets(v) \cup AckPackets(v) \cup OtherPackets(v)

-------------------------------------------------------------------------------
\* Whole packets.

Types == <<"Connect", "ConnAck", "Publish", "PubAck", "PubRec", "PubRel", "PubComp",
           "Subscribe", "SubAck", "Unsubscribe", "UnsubAck", "PingReq", "PingResp",
           "Disconnect">>

FirstOctet(p) ==
  LET type == CHOOSE i \in DOMAIN Types : Types[i] = p.type
      flags == CASE p.type = "Publish" -> 8 * Bit(p.dup) + 2 * p.qos + Bit(p.retain)
                 [] p.type \in {"PubRel", "Subscribe", "Unsubscribe"} -> 2
                 [] OTHER -> 0
  IN 16 * type + flags

Body(p, v) ==
  CASE p.type = "Connect" -> ConnectBody(p, v)
    [] p.type = "ConnAck" -> ConnAckBody(p, v)
    [] p.type = "Publish" -> PublishBody(p, v)
    [] p.type \in {"PubAck", "PubRec", "PubRel", "PubComp"} -> AckBody(p, v)
    [] p.type = "Subscribe" -> SubscribeBody(p, v)
    [] p.type = "Unsubscribe" -> UnsubscribeBody(p, v)
    [] p.type \in {"SubAck", "UnsubAck"} -> CodesBody(p, v)
    [] p.type = "Disconnect" -> ReasonPart(p, v)
    [] OTHER -> <<>>

\* encode writes the body behind four spare octets and moves it up to the length.
Framed(first, body) == <<first>> \o VarInt(Len(body)) \o body
Encode(p, v) == Framed(FirstOctet(p), Body(p, v))

\* The kinds of field of a packet whose body starts at cursor c.
Kinds(type, buf, v, c) ==
  CASE type = "Connect" -> LET name == c + 2 + U16At(buf, c)
                           IN ConnectKinds(buf[name + 1], buf[name + 2], v)
    [] type = "ConnAck" -> ConnAckKinds(v)
    [] type = "Publish" -> PublishKinds(v, QoS((buf[1] \div 2) % 4))
    [] type \in {"PubAck", "PubRec", "PubRel", "PubComp"} -> AckKinds(v)
    [] type = "Subscribe" -> SubscribeKinds(v)
    [] type = "Unsubscribe" -> UnsubscribeKinds(v)
    [] type \in {"SubAck", "UnsubAck"} -> CodesKinds(v)
    [] type = "Disconnect" -> ReasonKinds(v)

\* The packet with first octet and these values of its fields.
PacketOf(type, first, f) ==
  CASE type = "Connect" -> ConnectOf(f, f[3])
    [] type = "ConnAck" -> ConnAckOf(f)
    [] type = "Publish" -> PublishOf(f, first, QoS((first \div 2) % 4))
    [] type \in {"PubAck", "PubRec", "PubRel", "PubComp"} -> AckOf(f, type)
    [] type \in {"Subscribe", "Unsubscribe"} -> TopicsOf(f, type)
    [] type \in {"SubAck", "UnsubAck"} -> CodesOf(f, type)
    [] type = "Disconnect" -> DisconnectOf(f)

Decoded(p) == [err |-> "none", packet |-> p]
Failed(e) == [err |-> e, packet |-> [type |-> "None"]]

\* A packet whose body is what len says; two octets of it are asked for at least,
\* except for the types that check what they read.
DecodeBody(type, buf, v, len) ==
  IF len.err # "none" THEN Failed(len.err)
  ELSE IF \/ Len(buf) < len.next + len.val
          \/ len.val < 2 /\ type \notin {"Connect", "Publish", "Disconnect"}
         THEN Failed("incomplete")
         ELSE LET kinds  == Kinds(type, buf, v, len.next)
                  fields == FieldsAt(kinds, buf, len.next, len.next + len.val)
              IN IF TooMany(kinds, fields) THEN Failed("capacity")
                                           ELSE Decoded(PacketOf(type, buf[1], fields))

\* decode, for a buffer that is not empty.  The two pings are known by their
\* first octet alone, and so is a DISCONNECT of which nothing more has come.
DecodeAs(type, buf, v) ==
  CASE type \in {"PingReq", "PingResp"} -> Decoded([type |-> type])
    [] type = "Disconnect" /\ Len(buf) = 1 -> Decoded(DisconnectOf(<<0, <<>>>>))
    [] OTHER -> DecodeBody(type, buf, v, VarIntAt(buf, 1))
Decode(buf, v) ==
  LET kind == buf[1] \div 16
  IN IF kind \in DOMAIN Types THEN DecodeAs(Types[kind], buf, v) ELSE Failed("type")

===============================================================================
