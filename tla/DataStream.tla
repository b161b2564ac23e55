------------------------------ MODULE DataStream ------------------------------
(***************************************************************************)
(* Sequenced data streams of mqtt-tokio: tasks that send through clones of *)
(* one DataStreamProducer, its recovery journal behind a read/write lock,  *)
(* the path to the consumer (request channel, connection, broker and       *)
(* subscription stream) and the DataStreamConsumer that puts the chunks    *)
(* back in order.                                                          *)
(*                                                                         *)
(* A chunk is its sequence number; 0 is a payload too short to carry one.  *)
(* A send is three steps, because it suspends on the journal's lock and on *)
(* the request channel; a replay publishes one chunk a step, and holds the *)
(* lock from its first step to its last.                                   *)
(***************************************************************************)
EXTENDS Naturals, Sequences, FiniteSets

CONSTANTS
  Producers,        \* the tasks that call send
  Replayers,        \* the tasks that call replay_recovery_journal, each once
  JournalCapacity,  \* journal_capacity
  Window,           \* max_reorder_window
  MaxSeq,           \* bound: sends
  MaxFaults         \* bound: chunks lost or duplicated, and publishes of others

ASSUME DataStreamAssumption ==
  /\ JournalCapacity \in Nat /\ Window \in Nat
  /\ MaxSeq \in Nat /\ MaxFaults \in Nat

VARIABLES
  sequence,  \* the producer's atomic counter: the next number
  pc, num,   \* per task: where its send stands, and the number it took
  journal,   \* recovery_journal
  pos,       \* per replay: position of the chunk to publish next, 0 without the lock
  replayed,  \* replays begun
  open,      \* the client is alive
  wire,      \* chunks on their way
  reader,    \* recv_ordered: "out" (not called), "in" (in its loop) or "ended"
  expected,  \* expected_seq
  buffer,    \* the numbers in reorder_buffer
  output,    \* history: the sequenced chunks recv_ordered returned
  arrived,   \* history: the numbers the consumer has read from its stream
  faults

producerVars == <<sequence, pc, num, journal>>
replayVars   == <<pos, replayed>>
consumerVars == <<reader, expected, buffer, output, arrived>>
vars == <<producerVars, replayVars, open, wire, consumerVars, faults>>

Init ==
  /\ sequence = 1 /\ pc = [p \in Producers |-> "idle"] /\ num = [p \in Producers |-> 0]
  /\ journal = <<>> /\ pos = [r \in Replayers |-> 0] /\ replayed = {}
  /\ open = TRUE /\ wire = <<>>
  /\ reader = "out" /\ expected = 1 /\ buffer = {} /\ output = <<>> /\ arrived = {}
  /\ faults = 0

-----------------------------------------------------------------------------
(* DataStreamProducer::send. *)

TakeNumber(p) ==
  /\ pc[p] = "idle" /\ sequence <= MaxSeq
  /\ num' = [num EXCEPT ![p] = sequence] /\ sequence' = sequence + 1
  /\ pc' = [pc EXCEPT ![p] = "numbered"]
  /\ UNCHANGED <<journal, replayVars, open, wire, consumerVars, faults>>

\* A writer waits for the readers of the lock; the variant does not.
CanWriteAlways == TRUE
CanWrite == \A r \in Replayers : pos[r] = 0

\* The oldest entry makes room for the new one; the variant evicts one too late.
PushedLate(j, s) == Append(IF Len(j) > JournalCapacity THEN Tail(j) ELSE j, s)
Pushed(j, s) == Append(IF j # <<>> /\ Len(j) >= JournalCapacity THEN Tail(j) ELSE j, s)

Record(p) ==
  /\ pc[p] = "numbered" /\ CanWrite
  /\ journal' = Pushed(journal, num[p])
  /\ pc' = [pc EXCEPT ![p] = "recorded"]
  /\ UNCHANGED <<sequence, num, replayVars, open, wire, consumerVars, faults>>

\* publish fails when the event loop is gone.
Publish(p) ==
  /\ pc[p] = "recorded"
  /\ wire' = IF open THEN Append(wire, num[p]) ELSE wire
  /\ pc' = [pc EXCEPT ![p] = "idle"]
  /\ UNCHANGED <<sequence, num, journal, replayVars, open, consumerVars, faults>>

-----------------------------------------------------------------------------
(* DataStreamProducer::replay_recovery_journal. *)

ReplayStart(r) ==
  /\ r \notin replayed
  /\ replayed' = replayed \cup {r}
  /\ pos' = [pos EXCEPT ![r] = IF journal = <<>> THEN 0 ELSE 1]
  /\ UNCHANGED <<producerVars, open, wire, consumerVars, faults>>

\* The lock is released after the last chunk, and when a publish fails.  The
\* variant keeps the lock when a publish fails.
NextPosKept(i) == IF ~open THEN i ELSE IF i = Len(journal) THEN 0 ELSE i + 1
NextPos(i) == IF ~open \/ i = Len(journal) THEN 0 ELSE i + 1

Replay(r) ==
  /\ pos[r] > 0
  /\ wire' = IF open THEN Append(wire, journal[pos[r]]) ELSE wire
  /\ pos' = [pos EXCEPT ![r] = NextPos(pos[r])]
  /\ UNCHANGED <<producerVars, replayed, open, consumerVars, faults>>

-----------------------------------------------------------------------------
(* The path from publish to the subscription stream (external to this file). *)

\* Lost by the network, or dropped because the stream is full.
Lose(i) ==
  /\ faults < MaxFaults /\ faults' = faults + 1
  /\ wire' = SubSeq(wire, 1, i - 1) \o SubSeq(wire, i + 1, Len(wire))
  /\ UNCHANGED <<producerVars, replayVars, open, consumerVars>>

\* Retransmitted by the client or the broker after a reconnection.
Duplicate(i) ==
  /\ faults < MaxFaults /\ faults' = faults + 1
  /\ wire' = Append(wire, wire[i])
  /\ UNCHANGED <<producerVars, replayVars, open, consumerVars>>

\* Somebody else publishes a short payload on the topic.
Foreign ==
  /\ open /\ faults < MaxFaults /\ faults' = faults + 1
  /\ wire' = Append(wire, 0)
  /\ UNCHANGED <<producerVars, replayVars, open, consumerVars>>

\* The client is dropped: the stream keeps what it already holds.
Close ==
  /\ open /\ open' = FALSE
  /\ \E n \in 0..Len(wire) : wire' = SubSeq(wire, 1, n)
  /\ UNCHANGED <<producerVars, replayVars, consumerVars, faults>>

-----------------------------------------------------------------------------
(* DataStreamConsumer::recv_ordered. *)

\* After the call returned chunk s; the variant only counts it.
ExpectedAfterCount(s) == expected + 1
ExpectedAfter(s) == s + 1

\* What stays buffered when it is returned from b; the variant starts afresh.
RestNone(b, s) == {}
Rest(b, s) == b \ {s}

Return(s, b) ==
  /\ output' = Append(output, s) /\ expected' = ExpectedAfter(s)
  /\ buffer' = Rest(b, s) /\ reader' = "out"

\* A call first looks for the expected chunk in the buffer, and only then reads.
Recv ==
  /\ reader = "out"
  /\ IF expected \in buffer THEN Return(expected, buffer)
     ELSE reader' = "in" /\ UNCHANGED <<expected, buffer, output>>
  /\ UNCHANGED <<producerVars, replayVars, open, wire, arrived, faults>>

\* The buffer is over its window; the variant is off by one.
OverflowsEarly(b) == Cardinality(b) >= Window
Overflows(b) == Cardinality(b) > Window

Smallest(b) == CHOOSE s \in b : \A t \in b : s <= t

\* The loop reads one chunk: it returns it if it has no number or the expected
\* one, drops it if it is old, and otherwise buffers it, returning the smallest
\* one buffered when they are too many.
Read ==
  LET s == Head(wire) IN
  /\ reader = "in" /\ wire # <<>>
  /\ wire' = Tail(wire) /\ arrived' = arrived \cup {s}
  /\ \/ s = 0 /\ reader' = "out" /\ UNCHANGED <<expected, buffer, output>>
     \/ s = expected /\ Return(s, buffer)
     \/ s > expected /\ LET b == buffer \cup {s} IN
          IF Overflows(b) THEN Return(Smallest(b), b)
          ELSE buffer' = b /\ UNCHANGED <<reader, expected, output>>
     \/ 0 < s /\ s < expected /\ UNCHANGED <<reader, expected, buffer, output>>
  /\ UNCHANGED <<producerVars, replayVars, open, faults>>

\* The stream has ended: None is returned, whatever the buffer holds.
ReadEnd ==
  /\ reader = "in" /\ ~open /\ wire = <<>>
  /\ reader' = "ended"
  /\ UNCHANGED <<producerVars, replayVars, open, wire, expected, buffer, output, arrived, faults>>

-----------------------------------------------------------------------------
SendStep(p) == Record(p) \/ Publish(p)
ConsumerStep == Recv \/ Read \/ ReadEnd
PathStep == (\E i \in DOMAIN wire : Lose(i) \/ Duplicate(i)) \/ Foreign \/ Close

Next == \/ \E p \in Producers : TakeNumber(p) \/ SendStep(p)
        \/ \E r \in Replayers : ReplayStart(r) \/ Replay(r)
        \/ ConsumerStep \/ PathStep

Spec == Init /\ [][Next]_vars

\* Tasks that have begun are scheduled (the lock is a fair queue) and the
\* application keeps calling recv_ordered.  Nobody has to send, replay or close.
Fairness == /\ \A p \in Producers : WF_vars(SendStep(p))
            /\ \A r \in Replayers : WF_vars(Replay(r))
            /\ WF_vars(ConsumerStep)
FairSpec == Spec /\ Fairness

-----------------------------------------------------------------------------
(* Properties. *)

Numbers == 1..MaxSeq
Elems(s) == {s[i] : i \in DOMAIN s}

\* Types, and the bounds of the journal and of the reorder buffer: neither
\* journal_capacity (0 keeps one entry) nor max_reorder_window is ever exceeded.
TypeOK ==
  /\ sequence \in 1..(MaxSeq + 1)
  /\ pc \in [Producers -> {"idle", "numbered", "recorded"}] /\ num \in [Producers -> 0..MaxSeq]
  /\ \A p \in Producers : pc[p] # "idle" => num[p] \in Numbers
  /\ journal \in Seq(Numbers) /\ (Len(journal) <= JournalCapacity \/ Len(journal) <= 1)
  /\ pos \in [Replayers -> Nat] /\ \A r \in Replayers : pos[r] <= Len(journal)
  /\ replayed \subseteq Replayers /\ open \in BOOLEAN /\ wire \in Seq(0..MaxSeq)
  /\ reader \in {"out", "in", "ended"} /\ expected \in 1..(MaxSeq + 1)
  /\ buffer \subseteq Numbers /\ Cardinality(buffer) <= Window
  /\ output \in Seq(Numbers) /\ arrived \subseteq 0..MaxSeq
  /\ faults \in 0..MaxFaults

\* recv_ordered returns sequence numbers in strictly increasing order: whatever
\* is lost, duplicated, replayed or overtaken, never twice and never backwards.
OutputOrdered == \A i, j \in DOMAIN output : i < j => output[i] < output[j]

\* A chunk is given up only when more than Window later ones have reached the
\* consumer.
SkippedOnlyByWindow ==
  \A s \in 1..(expected - 1) :
    s \in Elems(output) \/ Cardinality({t \in Elems(output) \cup buffer : t > s}) > Window

\* The consumer has every number it read, delivered or buffered, except those that
\* came after it gave them up.
ReadIsKept == \A s \in arrived \ {0} : s < expected \/ s \in buffer

\* A replay that begins when the path has become reliable brings every chunk of
\* the journal to the consumer, as long as the client stays alive.
ReplayReaches ==
  []open => \A r \in Replayers, s \in Numbers :
    (pos[r] = 1 /\ s \in Elems(journal) /\ faults = MaxFaults) ~> (s \in arrived)

\* A send is not held up for ever by replays, failed ones included.
SendCompletes == \A p \in Producers : pc[p] = "numbered" ~> pc[p] = "idle"

===============================================================================
