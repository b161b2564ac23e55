------------------------------- MODULE Inflight -------------------------------
(***************************************************************************)
(* InflightQueue of mqtt-embedded: the bounded table in which the client   *)
(* tracks its unfinished QoS 1 and QoS 2 exchanges.  Every operation looks *)
(* an entry up by packet identifier first, so the table is a function from *)
(* identifiers to statuses; both directions share it.                      *)
(***************************************************************************)
EXTENDS Naturals, FiniteSets

CONSTANT MaxInflight  \* the const generic MAX_INFLIGHT

ASSUME InflightAssumption == MaxInflight \in Nat

InflightStatus == {"AwaitingPubAck", "AwaitingPubRec", "AwaitingPubComp", "AwaitingPubRel"}

Empty == [p \in {} |-> "AwaitingPubAck"]

\* A new entry needs room; an existing one, of either direction, is overwritten.
\* The variant is a capacity off by one.
HasSlotOffByOne(t, pid) == pid \in DOMAIN t \/ Cardinality(DOMAIN t) <= MaxInflight
HasSlot(t, pid) == pid \in DOMAIN t \/ Cardinality(DOMAIN t) < MaxInflight

Put(t, pid, status) ==
  [p \in DOMAIN t \cup {pid} |-> IF p = pid THEN status ELSE t[p]]

Drop(t, pid) == [p \in DOMAIN t \ {pid} |-> t[p]]

Is(t, pid, status) == pid \in DOMAIN t /\ t[pid] = status

FirstStatus(qos) == IF qos = 1 THEN "AwaitingPubAck" ELSE "AwaitingPubRec"

\* track_outbound, for QoS 1 and 2, when HasSlot.
TrackOutbound(t, pid, qos) == Put(t, pid, FirstStatus(qos))

\* track_inbound_qos2, whose error when the table is full the client ignores.
TrackInbound(t, pid) == IF HasSlot(t, pid) THEN Put(t, pid, "AwaitingPubRel") ELSE t

HandlePuback(t, pid)  == IF Is(t, pid, "AwaitingPubAck") THEN Drop(t, pid) ELSE t

HandlePubrec(t, pid)  == IF Is(t, pid, "AwaitingPubRec") THEN Put(t, pid, "AwaitingPubComp") ELSE t

HandlePubrel(t, pid)  == IF Is(t, pid, "AwaitingPubRel") THEN Drop(t, pid) ELSE t

\* The variant leaves the finished entry in the table.
HandlePubcompKept(t, pid) == t
HandlePubcomp(t, pid) == IF Is(t, pid, "AwaitingPubComp") THEN Drop(t, pid) ELSE t

===============================================================================
