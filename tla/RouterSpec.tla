------------------------------ MODULE RouterSpec ------------------------------
(***************************************************************************)
(* What a topic router promises: a message goes to every live stream whose *)
(* filter matches its topic and that has room for it, and to no other.     *)
(* A topic or filter is the sequence of its levels.  As in the code, a     *)
(* wildcard also matches topics whose first level begins with a dollar     *)
(* sign, which the MQTT standard excludes.                                 *)
(***************************************************************************)
EXTENDS Naturals, Sequences

CONSTANTS Streams, Filters, Topics, QueueCap  \* as in TopicRouter

VARIABLES
  subs,    \* registered [filter, stream] pairs
  used,    \* streams registered so far
  closed,  \* streams whose receiver is gone
  queue    \* per stream: topics of the messages that wait in it

specVars == <<subs, used, closed, queue>>

\* "#" stands for any number of further levels, "+" for exactly one.
LevelMatches(f, l) == f = "+" \/ f = l
Matches(filter, topic) ==
  LET n == Len(filter) IN
  IF filter[n] = "#"
  THEN n - 1 <= Len(topic) /\ \A i \in 1..(n - 1) : LevelMatches(filter[i], topic[i])
  ELSE n = Len(topic) /\ \A i \in 1..n : LevelMatches(filter[i], topic[i])

\* "#" may only be the last level (levels with an embedded wildcard are left out).
IsValid(filter) == \A i \in 1..(Len(filter) - 1) : filter[i] # "#"

SpecInit == subs = {} /\ used = {} /\ closed = {} /\ queue = [s \in Streams |-> <<>>]

SpecInsert(f, s) ==
  /\ s \notin used /\ used' = used \cup {s}
  /\ subs' = IF IsValid(f) THEN subs \cup {[filter |-> f, stream |-> s]} ELSE subs
  /\ UNCHANGED <<closed, queue>>

\* Every registration of the filter goes.
SpecRemove(f) ==
  /\ subs' = {r \in subs : r.filter # f}
  /\ UNCHANGED <<used, closed, queue>>

SpecDispatch(t) ==
  LET hit == {r \in subs : Matches(r.filter, t)} IN
  /\ queue' = [s \in Streams |->
       IF (\E r \in hit : r.stream = s) /\ s \notin closed /\ Len(queue[s]) < QueueCap
       THEN Append(queue[s], t) ELSE queue[s]]
  /\ subs' = subs \ {r \in hit : r.stream \in closed}
  /\ UNCHANGED <<used, closed>>

SpecRecv(s) ==
  /\ s \notin closed /\ queue[s] # <<>>
  /\ queue' = [queue EXCEPT ![s] = Tail(@)]
  /\ UNCHANGED <<subs, used, closed>>

SpecClose(s) ==
  /\ s \in used \ closed
  /\ closed' = closed \cup {s} /\ queue' = [queue EXCEPT ![s] = <<>>]
  /\ UNCHANGED <<subs, used>>

SpecNext == \/ \E f \in Filters : SpecRemove(f) \/ \E s \in Streams : SpecInsert(f, s)
            \/ \E t \in Topics : SpecDispatch(t)
            \/ \E s \in Streams : SpecRecv(s) \/ SpecClose(s)

RouterSpecification == SpecInit /\ [][SpecNext]_specVars

===============================================================================
