----------------------------- MODULE StreamPublish -----------------------------
(***************************************************************************)
(* Streamed publishes of mqtt-embedded: begin_stream_publish announces the *)
(* length of a message and sends its headers, and an MqttStreamWriter, to  *)
(* which the client is lent meanwhile, sends the payload piece by piece.   *)
(*                                                                         *)
(* Octets are counted, not modelled.  The broker is its parser: how many   *)
(* octets of the packet it is in are still to come.                        *)
(***************************************************************************)
EXTENDS Inflight

CONSTANTS TopicLengths,  \* lengths of the topics streamed to
          Totals,        \* lengths announced for a payload
          Pieces,        \* lengths of the chunks written
          HeaderBuffer   \* octets of var_buf, 256 in the code

ASSUME StreamPublishAssumption ==
  /\ TopicLengths \subseteq Nat /\ Totals \subseteq Nat /\ Pieces \subseteq Nat
  /\ HeaderBuffer \in Nat

VARIABLES protocol,   \* "V3_1_1" or "V5"
          client,     \* "connected", "disconnected" or "panicked"
          transport,  \* "up", or "down" once it has failed
          writer,     \* "open" while a stream writer exists
          remaining,  \* its bytes_remaining
          table,      \* the in-flight table
          streamed,   \* identifiers of the messages whose headers were sent
          expects,    \* octets the broker takes for the rest of its present packet
          reading,    \* history: "astray" once it took a packet for payload, or payload for one
          told,       \* history: "unfinished" after an error, or a drop, in mid-message
          finished    \* what the last finish returned

streamVars == <<protocol, client, transport, writer, remaining, table, streamed,
                expects, reading, told, finished>>

NewLink == /\ transport' = "up" /\ writer' = "none" /\ remaining' = 0
           /\ expects' = 0 /\ reading' = "right" /\ told' = "nothing" /\ finished' = "none"

StreamInit == /\ protocol \in {"V3_1_1", "V5"} /\ client = "disconnected"
              /\ transport = "up" /\ writer = "none" /\ remaining = 0
              /\ table = Empty /\ streamed = {}
              /\ expects = 0 /\ reading = "right" /\ told = "nothing" /\ finished = "none"

\* connect, on a transport that works again.
StreamConnect == /\ client # "panicked" /\ writer = "none"
                 /\ client' = "connected" /\ NewLink
                 /\ table' = Empty /\ streamed' = {}
                 /\ UNCHANGED protocol

ClientFree == client = "connected" /\ writer = "none"

-------------------------------------------------------------------------------
(* begin_stream_publish *)

Identifier(qos) == IF qos > 0 THEN 2 ELSE 0

\* What the fixed header announces for the others: topic, identifier and, for V5, an
\* empty property length.
HeaderLength(topic, qos) == 2 + topic + Identifier(qos) + (IF protocol = "V5" THEN 1 ELSE 0)

\* What is written of them into var_buf, where the topic is checked to fit, and
\* the identifier and the property length are not.
Written(topic, qos) == 2 + topic + Identifier(qos) + (IF protocol = "V5" THEN 1 ELSE 0)
TopicFits(topic) == 2 + topic <= HeaderBuffer
HeaderFits(topic, qos) == Written(topic, qos) <= HeaderBuffer

\* get_next_packet_id; of the identifiers only those in the table matter.
FreshPid == CHOOSE p \in 1..(MaxInflight + 1) : p \notin DOMAIN table

\* The slot is taken first, and kept whatever happens next.
TakeSlot(qos) ==
  \/ qos = 0 /\ UNCHANGED table
  \/ /\ qos > 0 /\ HasSlot(table, FreshPid)
     /\ table' = TrackOutbound(table, FreshPid, qos)

\* A packet begins, of which some octets are still to come.  A broker that is in
\* the middle of another takes it for that one's payload; its reading is not
\* followed from there on.
PacketArrives(rest) ==
  \/ expects = 0 /\ expects' = rest /\ UNCHANGED reading
  \/ expects > 0 /\ reading' = "astray" /\ UNCHANGED expects

\* The table is full: nothing was sent.
BeginRefused(qos) ==
  /\ ClientFree /\ qos > 0 /\ ~HasSlot(table, FreshPid)
  /\ finished' = "none"
  /\ UNCHANGED <<protocol, client, transport, writer, remaining, table, streamed,
                 expects, reading, told>>

\* The fixed header, then the others.
BeginOk(topic, total, qos) ==
  /\ ClientFree /\ transport = "up" /\ TakeSlot(qos) /\ HeaderFits(topic, qos)
  /\ PacketArrives(HeaderLength(topic, qos) + total - Written(topic, qos))
  /\ writer' = "open" /\ remaining' = total /\ finished' = "none"
  /\ streamed' = IF qos > 0 THEN streamed \cup {FreshPid} ELSE streamed
  /\ UNCHANGED <<protocol, client, transport, told>>

\* A topic that does not fit in var_buf is found out after the fixed header.
BeginFails(topic, total, qos) ==
  /\ ClientFree /\ transport = "up" /\ TakeSlot(qos) /\ ~TopicFits(topic)
  /\ PacketArrives(HeaderLength(topic, qos) + total)
  /\ told' = "unfinished" /\ finished' = "none"
  /\ UNCHANGED <<protocol, client, transport, writer, remaining, streamed>>

\* The topic fits, but not the rest: an index out of bounds.
BeginPanics(topic, total, qos) ==
  /\ ClientFree /\ transport = "up" /\ TakeSlot(qos)
  /\ TopicFits(topic) /\ ~HeaderFits(topic, qos)
  /\ PacketArrives(HeaderLength(topic, qos) + total)
  /\ client' = "panicked" /\ finished' = "none"
  /\ UNCHANGED <<protocol, transport, writer, remaining, streamed, told>>

\* A send fails: the client stays connected, as after every failed send.
BeginUnsent(topic, total, qos) ==
  /\ ClientFree /\ TakeSlot(qos) /\ transport' = "down"
  /\ \/ transport = "up" /\ PacketArrives(HeaderLength(topic, qos) + total)
     \/ UNCHANGED <<expects, reading>>
  /\ told' = "unfinished" /\ finished' = "none"
  /\ UNCHANGED <<protocol, client, writer, remaining, streamed>>

-------------------------------------------------------------------------------
(* The writer. *)

\* The broker counts n more octets of payload; those beyond the end of the
\* packet it takes for a packet.
Arrives(n) == /\ expects' = IF n <= expects THEN expects - n ELSE 0
              /\ reading' = IF n > expects THEN "astray" ELSE reading

\* write_chunk, write_dma_slice, and write_dma_vectored for the slices' sum: a
\* piece larger than what remains is refused.  The variant takes any.
FitsAny(n) == TRUE
Fits(n) == n <= remaining

WriteOk(n) == /\ writer = "open" /\ transport = "up" /\ Fits(n)
              /\ Arrives(n) /\ remaining' = remaining - n
              /\ UNCHANGED <<protocol, client, transport, writer, table, streamed, told,
                             finished>>

\* What a failed write leaves to be sent; the variant counts it as sent.
LeftUnsentCounted(n) == remaining - n
LeftUnsent(n) == remaining

\* The transport fails in it, for several slices maybe after the first: what
\* reached the broker is not known, and not counted.
WriteFails(n) == /\ writer = "open" /\ Fits(n) /\ transport' = "down"
                 /\ \E k \in 0..n : k < n /\ Arrives(IF transport = "up" THEN k ELSE 0)
                 /\ remaining' = LeftUnsent(n)
                 /\ UNCHANGED <<protocol, client, writer, table, streamed, told, finished>>

Finish == /\ writer = "open" /\ writer' = "none" /\ remaining' = 0
          /\ finished' = IF remaining = 0 THEN "ok" ELSE "error"
          /\ told' = IF remaining > 0 THEN "unfinished" ELSE told
          /\ UNCHANGED <<protocol, client, transport, table, streamed, expects, reading>>

\* The writer goes out of scope, or the future that uses it is dropped.
DropWriter == /\ writer = "open" /\ writer' = "none" /\ remaining' = 0
              /\ told' = IF remaining > 0 THEN "unfinished" ELSE told
              /\ UNCHANGED <<protocol, client, transport, table, streamed, expects, reading,
                             finished>>

-------------------------------------------------------------------------------
(* Between streams. *)

\* publish, subscribe, a ping, an acknowledgement: one packet in one send.
SendPacket == /\ ClientFree /\ transport = "up" /\ PacketArrives(0)
              /\ UNCHANGED <<protocol, client, transport, writer, remaining, table, streamed,
                             told, finished>>

\* poll takes the PUBACK, or the PUBREC and PUBCOMP, of a message that is whole.
Acknowledged(p) == /\ ClientFree /\ transport = "up"
                   /\ p \in streamed /\ expects = 0 /\ reading = "right"
                   /\ table' = HandlePubcomp(HandlePubrec(HandlePuback(table, p), p), p)
                   /\ streamed' = streamed \ {p}
                   /\ UNCHANGED <<protocol, client, transport, writer, remaining,
                                  expects, reading, told, finished>>

\* disconnect, or a DISCONNECT of the broker; a link that breaks unnoticed.
StreamDisconnect == /\ ClientFree /\ client' = "disconnected"
                    /\ UNCHANGED <<protocol, transport, writer, remaining, table, streamed,
                                   expects, reading, told, finished>>

LinkBreaks == /\ transport = "up" /\ transport' = "down"
              /\ UNCHANGED <<protocol, client, writer, remaining, table, streamed,
                             expects, reading, told, finished>>

StreamNext ==
  \/ StreamConnect \/ Finish \/ DropWriter \/ SendPacket \/ StreamDisconnect \/ LinkBreaks
  \/ \E topic \in TopicLengths, total \in Totals, qos \in 0..2 :
       \/ BeginOk(topic, total, qos) \/ BeginFails(topic, total, qos)
       \/ BeginPanics(topic, total, qos) \/ BeginUnsent(topic, total, qos)
  \/ \E qos \in 1..2 : BeginRefused(qos)
  \/ \E n \in Pieces : WriteOk(n) \/ WriteFails(n)
  \/ \E p \in streamed : Acknowledged(p)

StreamSpec == StreamInit /\ [][StreamNext]_streamVars

-------------------------------------------------------------------------------
\* The broker never takes one packet for a part of another, unless the program
\* was told: begin_stream_publish or finish returned an error, or it dropped a
\* writer before the announced end.  (The client itself stays connected then.)
InStep == reading = "astray" => told = "unfinished"

\* finish returns Ok only when the broker has everything that was announced, whatever
\* write failed on the way - or when the broker was out of step already: after a
\* message that was left unfinished (see InStep) the client stays connected, a second
\* one's octets are taken for the rest of the first, and its finish returns Ok as well.
FinishedIsWhole == finished = "ok" /\ reading = "right" => expects = 0

===============================================================================
