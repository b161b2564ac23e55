----------------------------- MODULE CoreInflight -----------------------------
(***************************************************************************)
(* InflightQueue of mqtt-core: a bounded vector of unacknowledged packets  *)
(* that refuses an identifier still in use.  It is a library type; its     *)
(* user may make any call at any time.                                     *)
(***************************************************************************)
EXTENDS Naturals, Sequences, FiniteSets

CONSTANTS Pids, QueueSize  \* packet identifiers used, and the const generic N

ASSUME CoreInflightAssumption == Pids \subseteq Nat /\ QueueSize \in Nat

VARIABLES
  entries,    \* [pid, status] records; a removed entry is replaced by the last one
  lastAcked   \* last_acked_id; 0 is None

queueVars == <<entries, lastAcked>>

QueueInit == entries = <<>> /\ lastAcked = 0

\* has_collision; nothing ever sets the status Acknowledged it looks for.  The
\* variant forgets the second half of a QoS 2 exchange.
CollidesSent(p) == \E i \in DOMAIN entries : entries[i].pid = p /\ entries[i].status = "Sent"
Collides(p) == \E i \in DOMAIN entries : entries[i].pid = p

\* On a collision or a full vector nothing changes.
Push(p) ==
  /\ ~Collides(p) /\ Len(entries) < QueueSize
  /\ entries' = Append(entries, [pid |-> p, status |-> "Sent"])
  /\ UNCHANGED lastAcked

\* swap_remove.
EntriesWithout(i) ==
  [j \in 1..(Len(entries) - 1) |-> IF j = i THEN entries[Len(entries)] ELSE entries[j]]

FirstOf(p) == CHOOSE i \in DOMAIN entries :
  entries[i].pid = p /\ \A j \in 1..(i - 1) : entries[j].pid # p

Acknowledge(p) ==
  /\ Collides(p)
  /\ entries' = EntriesWithout(FirstOf(p)) /\ lastAcked' = p

MarkPubrelSent(p) ==
  /\ Collides(p)
  /\ entries' = [entries EXCEPT ![FirstOf(p)].status = "PubRelSent"]
  /\ UNCHANGED lastAcked

ClearQueue == entries' = <<>> /\ lastAcked' = 0

QueueNext == (\E p \in Pids : Push(p) \/ Acknowledge(p) \/ MarkPubrelSent(p)) \/ ClearQueue

QueueSpec == QueueInit /\ [][QueueNext]_queueVars

-----------------------------------------------------------------------------
(* Properties. *)

TrackedPids == {entries[i].pid : i \in DOMAIN entries}

\* A packet leaves the queue only by its own acknowledgement or a clear, though
\* removing one moves another, and an acknowledgement leaves no trace of it that
\* a later packet on its identifier would collide with.
TrackedUntilAcked ==
  [][/\ \A p \in TrackedPids \ TrackedPids' : lastAcked' \in {p, 0}
     /\ Len(entries') < Len(entries) => lastAcked' \notin TrackedPids']_queueVars

===============================================================================
