------------------------------- MODULE Framing --------------------------------
(***************************************************************************)
(* How the event loop of mqtt-tokio cuts the octets it reads back into     *)
(* packets: RawPacketFrameIter over a receive buffer of RxCap octets, the  *)
(* rest of which is kept for the next read.  The broker's stream is a      *)
(* sequence of encoded packets and, at most once and last, octets that are *)
(* no packet the client can decode.  The network cuts it anywhere.         *)
(***************************************************************************)
EXTENDS Codec

CONSTANTS Traffic,    \* by version, the sequences of packets the broker may send
          Tails,      \* octets the stream may end with, <<>> for none
          ReadSizes,  \* how many octets one read may return
          RxCap       \* max_packet_size: octets of the receive buffer

ASSUME FramingAssumption == RxCap \in Nat \ {0} /\ ReadSizes \subseteq Nat \ {0}

\* What a length field of four octets has room for.
ASSUME TrafficAssumption ==
  \A v \in DOMAIN Traffic :
    /\ Traffic[v] \subseteq Seq(Packets(v))
    /\ \A ps \in Traffic[v] : \A i \in 1..Len(ps) : Len(Body(ps[i], v)) \in Lengths

VARIABLES version, packets, tail,  \* what the broker sends
          wire,      \* octets not read yet
          rx,        \* the receive buffer up to rx_cursor
          received,  \* packets decoded from complete reads
          link       \* "open", "closed", or "stuck": in a loop without an await

wireVars == <<version, packets, tail, wire, rx, received, link>>

Octets(ps, v) == FlattenSeq([i \in DOMAIN ps |-> Encode(ps[i], v)])

WireInit == /\ version \in DOMAIN Traffic /\ packets \in Traffic[version] /\ tail \in Tails
            /\ wire = Octets(packets, version) \o tail
            /\ rx = <<>> /\ received = <<>> /\ link = "open"

\* RawPacketFrameIter::next at an offset: the length of the whole frame there, 0
\* if it has none to give: None, or an Err for the length field, see IsStuck.  The
\* variant takes every length field for one octet.
FrameLengthShort(buf, offset) ==
  LET len == VarIntAt(buf, offset + 1)
      total == 2 + len.val
  IN IF Len(buf) - offset < 2 \/ len.err # "none" \/ Len(buf) - offset < total
       THEN 0 ELSE total

FrameLength(buf, offset) ==
  LET len == VarIntAt(buf, offset + 1)
      total == len.next - offset + len.val
  IN IF Len(buf) - offset < 2 \/ len.err # "none" \/ Len(buf) - offset < total
       THEN 0 ELSE total

\* The offsets at which the iterator, flattened, stops.
FrameStarts(buf) ==
  LET starts[k \in 0..Len(buf)] ==
        IF FrameLength(buf, k) = 0 THEN <<k>> ELSE <<k>> \o starts[k + FrameLength(buf, k)]
  IN starts[0]

\* The octets that are no packet, or one with more properties, topics or codes
\* than the client has room for: what there is of them is no whole frame, or one
\* that decode refuses.
ASSUME TailsAssumption ==
  /\ Tails \subseteq Seq(Octet)
  /\ \A v \in DOMAIN Traffic, t \in Tails : \A n \in 0..Len(t) :
       LET come == SubSeq(t, 1, n)
           len  == FrameLength(come, 0)
       IN len = 0 \/ Decode(SubSeq(come, 1, len), v).err # "none"

\* What is moved out of the buffer after a read.  The variant leaves it.
ConsumedNone(buf) == 0

Consumed(buf) == Last(FrameStarts(buf))

\* The length field at the iterator's offset has not ended, for want of octets or
\* because all four have the continuation bit: next returns the same Err each time,
\* and flatten, which drops it, asks for ever.
IsStuck(buf) == /\ Len(buf) - Consumed(buf) >= 2
                /\ VarIntAt(buf, Consumed(buf) + 1).err # "none"

Frames(buf) ==
  LET starts == FrameStarts(buf)
  IN [i \in 1..Len(starts) - 1 |-> SubSeq(buf, starts[i] + 1, starts[i + 1])]

\* The branch of drive_connection that reads, for n octets.  An undecodable
\* frame ends the connection, with what was decoded before it dropped.
ReadOctets(n) ==
  LET buf == rx \o SubSeq(wire, 1, n)
      results == [i \in DOMAIN Frames(buf) |-> Decode(Frames(buf)[i], version)]
      fails == \E i \in DOMAIN results : results[i].err # "none"
  IN /\ link = "open"
     /\ n <= Len(wire) /\ Len(rx) + n <= RxCap
     /\ wire' = SubSeq(wire, n + 1, Len(wire))
     /\ \/ /\ ~fails /\ ~IsStuck(buf)
           /\ received' = received \o [i \in DOMAIN results |-> results[i].packet]
           /\ rx' = SubSeq(buf, Consumed(buf) + 1, Len(buf))
           /\ UNCHANGED link
        \/ /\ fails
           /\ link' = "closed"
           /\ UNCHANGED <<rx, received>>
        \/ /\ ~fails /\ IsStuck(buf)
           /\ link' = "stuck"
           /\ UNCHANGED <<rx, received>>
     /\ UNCHANGED <<version, packets, tail>>

\* A full buffer makes the read return 0, which is taken for the broker's close.
ReadNothing == /\ link = "open" /\ Len(rx) = RxCap
               /\ link' = "closed"
               /\ UNCHANGED <<version, packets, tail, wire, rx, received>>

WireNext == (\E n \in ReadSizes : ReadOctets(n)) \/ ReadNothing

WireSpec == WireInit /\ [][WireNext]_wireVars

-------------------------------------------------------------------------------
\* However the network cuts the stream, the packets decoded are those the broker
\* sent, in their order: no cut makes, changes, repeats or skips one.  When all
\* octets are read, no packet is left behind in the buffer to wait for octets that
\* need not come, unless a read before closed the connection or hung the loop
\* (ClosedForCause says when).
ReceivedAsSent == /\ IsPrefix(received, packets)
                  /\ link = "open" /\ wire = <<>> /\ tail = <<>> => received = packets

\* What has been read ends between the second octet of a packet and the end of
\* its length field.
EndsInLength ==
  LET come == Len(Octets(packets, version) \o tail) - Len(wire)
      Before(j) == Len(Octets(SubSeq(packets, 1, j), version))
  IN \E j \in 0..Len(packets) - 1 :
       come - Before(j) \in 2..Len(VarInt(Len(Body(packets[j + 1], version))))

\* The loop gives a connection up only for a packet larger than its buffer
\* (max_packet_size) or for octets it cannot decode.  Of a broker that sends only
\* what it can decode, it hangs at a read that ends inside a length field of several
\* octets, at each such read and at no other.
ClosedForCause ==
  /\ link = "closed" => \/ tail # <<>>
                        \/ Len(Encode(packets[Len(received) + 1], version)) > RxCap
  /\ tail = <<>> => (link = "stuck" <=> EndsInLength)

\* The first packet of what has come is decoded alike whatever follows it in
\* the same read, and is incomplete until all of it has come: what
\* perform_connect_handshake and the embedded client's poll rely on.  (Of a
\* single octet this is not so: the pings and DISCONNECT are taken for whole.)
FirstOfRead ==
  LET stream == Octets(packets, version) \o tail
      come == SubSeq(stream, 1, Len(stream) - Len(wire))
  IN packets # <<>> /\ Len(come) >= 2 =>
       Decode(come, version) = IF Len(come) < Len(Encode(packets[1], version))
                                 THEN Failed("incomplete") ELSE Decoded(packets[1])

===============================================================================
