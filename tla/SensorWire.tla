------------------------------- MODULE SensorWire -------------------------------
(***************************************************************************)
(* What a data stream of mqtt-tokio carries: sensor data of six types,     *)
(* encoded behind a tag, in a chunk behind its number and time, and what   *)
(* the consumer decodes of a message, its own producer's or another's.     *)
(*                                                                         *)
(* An octet is a number below Base, so that the widths at which lengths    *)
(* wrap, a u8 for a MIME type and a u16 for a count of values, are those   *)
(* of the code and small.                                                  *)
(***************************************************************************)
EXTENDS Naturals, Sequences, SequencesExt

CONSTANTS Base,      \* values of an octet, 256 in the code
          Samples,   \* sensor data sent
          Numbers,   \* sequence numbers they are sent with
          Messages   \* payloads of other publishers

ASSUME SensorWireAssumption == Base \in Nat /\ Base > 6

VARIABLES sampled,  \* the number and data sent, or nothing
          onTopic,  \* the payload of the message on the topic, or nothing
          decoded   \* what recv_sensor_data returned for it, or nothing

sensorVars == <<sampled, onTopic, decoded>>

-------------------------------------------------------------------------------
(* bytes::Buf and BufMut *)

\* put_u8, put_u16, put_u32 and put_u64 of a number cast to the width; the get_s.
PutBE(n, width) ==
  LET rest[k \in 0..width] == IF k = 0 THEN n ELSE rest[k - 1] \div Base
  IN [i \in 1..width |-> rest[width - i] % Base]
GetBE(octets) ==
  LET get[k \in 0..Len(octets)] == IF k = 0 THEN 0 ELSE get[k - 1] * Base + octets[k]
  IN get[Len(octets)]

\* How many numbers octets of a width hold.
Capacity[width \in 0..8] == IF width = 0 THEN 1 ELSE Capacity[width - 1] * Base

\* n octets from place a, all of which must be there, and what follows them.
Slice(octets, a, n) == [i \in 1..n |-> octets[a + i - 1]]
After(octets, a) == Slice(octets, a, Len(octets) + 1 - a)

\* from_utf8_lossy; the largest octet stands for those that are not UTF-8.
Lossy(octets) == [i \in DOMAIN octets |-> IF octets[i] = Base - 1 THEN 0 ELSE octets[i]]

-------------------------------------------------------------------------------
(* SensorDataType *)

Raw(octets) == [type |-> "Raw", data |-> octets]

\* The data there are.  A value is its octets, and a String has only octets that
\* are UTF-8.
Byte == 0..(Base - 1)
Char == Byte \ {Base - 1}

SensorData ==
  [type : {"Raw"}, data : Seq(Byte)]
    \cup [type : {"TimeSeries"}, values : Seq([1..8 -> Byte])]
    \cup [type : {"TimeSeriesF32"}, values : Seq([1..4 -> Byte])]
    \cup [type : {"Json"}, text : Seq(Char)]
    \cup [type : {"AudioPcm"}, sample_rate : 0..(Capacity[4] - 1), channels : Byte, data : Seq(Byte)]
    \cup [type : {"ImageFrame"}, mime : Seq(Char), data : Seq(Byte)]

\* Numbers are a u64.
ASSUME SamplesAssumption == Samples \subseteq SensorData /\ Numbers \subseteq 0..(Capacity[8] - 1)

\* f64 or f32; the variant takes every value for an f64.
ValueWidthF64(type) == 8
ValueWidth(type) == IF type = "TimeSeries" THEN 8 ELSE 4

EncodeSample(s) ==
  CASE s.type = "Raw"           -> <<1>> \o s.data
    [] s.type = "TimeSeries"    -> <<2>> \o PutBE(Len(s.values), 2) \o FlattenSeq(s.values)
    [] s.type = "TimeSeriesF32" -> <<3>> \o PutBE(Len(s.values), 2) \o FlattenSeq(s.values)
    [] s.type = "Json"          -> <<4>> \o s.text
    [] s.type = "AudioPcm"      -> <<5>> \o PutBE(s.sample_rate, 4) \o PutBE(s.channels, 1)
                                     \o s.data
    [] s.type = "ImageFrame"    -> <<6>> \o PutBE(Len(s.mime), 1) \o s.mime \o s.data

\* A count that the payload is too short for makes all of it raw data.
DecodeValues(type, payload) ==
  LET width == ValueWidth(type)
      count == GetBE(Slice(payload, 2, 2))
  IN IF Len(payload) >= 3 /\ Len(payload) - 3 >= count * width
     THEN [type |-> type,
           values |-> [i \in 1..count |-> Slice(payload, 4 + (i - 1) * width, width)]]
     ELSE Raw(payload)

DecodeAudio(payload) ==
  IF Len(payload) >= 6
  THEN [type |-> "AudioPcm", sample_rate |-> GetBE(Slice(payload, 2, 4)),
        channels |-> payload[6], data |-> After(payload, 7)]
  ELSE Raw(payload)

MimeFits(payload) == Len(payload) >= 2 /\ Len(payload) - 2 >= payload[2]

DecodeImage(payload) ==
  IF MimeFits(payload)
  THEN [type |-> "ImageFrame", mime |-> Lossy(Slice(payload, 3, payload[2])),
        data |-> After(payload, 3 + payload[2])]
  ELSE Raw(payload)

DecodeSample(payload) ==
  IF payload = <<>> THEN Raw(payload)
  ELSE CASE payload[1] = 1 -> Raw(Tail(payload))
         [] payload[1] = 2 -> DecodeValues("TimeSeries", payload)
         [] payload[1] = 3 -> DecodeValues("TimeSeriesF32", payload)
         [] payload[1] = 4 -> [type |-> "Json", text |-> Lossy(Tail(payload))]
         [] payload[1] = 5 -> DecodeAudio(payload)
         [] payload[1] = 6 -> DecodeImage(payload)
         [] OTHER          -> Raw(payload)

-------------------------------------------------------------------------------
(* StreamChunk *)

\* The number, the time, which nothing reads, and the payload.
EncodeWire(seq, payload) == PutBE(seq, 8) \o PutBE(0, 8) \o payload

\* A payload without room for the header counts as number 0.
DecodeWire(octets) ==
  IF Len(octets) < 16 THEN [seq_id |-> 0, payload |-> octets]
  ELSE [seq_id |-> GetBE(Slice(octets, 1, 8)), payload |-> After(octets, 17)]

-------------------------------------------------------------------------------
SensorInit == sampled = <<>> /\ onTopic = <<>> /\ decoded = <<>>

\* send_raw, send_timeseries and the others.
SendSample(s, seq) == /\ onTopic = <<>>
                      /\ onTopic' = <<EncodeWire(seq, EncodeSample(s))>>
                      /\ sampled' = <<[seq_id |-> seq, data |-> s]>>
                      /\ UNCHANGED decoded

PublishOther(octets) == /\ onTopic = <<>> /\ onTopic' = <<octets>>
                        /\ UNCHANGED <<sampled, decoded>>

\* recv_sensor_data, where recv_ordered returns the chunk.
RecvSample == /\ onTopic # <<>> /\ decoded = <<>>
              /\ LET chunk == DecodeWire(onTopic[1])
                 IN decoded' = <<[seq_id |-> chunk.seq_id,
                                  data |-> DecodeSample(chunk.payload)]>>
              /\ UNCHANGED <<sampled, onTopic>>

SensorNext == \/ \E s \in Samples, seq \in Numbers : SendSample(s, seq)
              \/ \E octets \in Messages : PublishOther(octets)
              \/ RecvSample

SensorSpec == SensorInit /\ [][SensorNext]_sensorVars

-------------------------------------------------------------------------------
\* Values beyond a count that wraps are lost, and the end of a MIME type beyond a
\* length that wraps ends up in front of the image; nothing else is.
Cut(d, s) ==
  IF s.type = "ImageFrame"
  THEN d.type = s.type /\ d.mime \o d.data = s.mime \o s.data
  ELSE d = [s EXCEPT !.values = SubSeq(@, 1, Len(@) % Capacity[2])]

Wraps(s) == \/ s.type \in {"TimeSeries", "TimeSeriesF32"} /\ Len(s.values) >= Capacity[2]
            \/ s.type = "ImageFrame" /\ Len(s.mime) >= Capacity[1]

\* The consumer gets the number, the type and the data that were sent, whatever
\* they look like, except what the widths of the two length fields cut off.
TypedAsSent ==
  sampled # <<>> /\ decoded # <<>> =>
    LET d == decoded[1]
        s == sampled[1]
    IN d.seq_id = s.seq_id /\ (IF Wraps(s.data) THEN Cut(d.data, s.data) ELSE d.data = s.data)

===============================================================================
