----------------------------- MODULE TopicRouter ------------------------------
(***************************************************************************)
(* The trie of mqtt-tokio's TopicRouter.  A node is the path of levels     *)
(* that leads to it from the root; "+" is a level like any other on that   *)
(* path.  The subscribers of a filter that ends in "#" are kept in the     *)
(* hash list of the node before it, those of another filter in the exact   *)
(* list of its own node.  The EventLoop task alone touches the trie; the   *)
(* receivers of the streams are read and dropped by other tasks.           *)
(***************************************************************************)
EXTENDS Naturals, Sequences

CONSTANTS
  Streams,   \* streams that may be registered, each once
  Filters,   \* the filters asked for, invalid ones included
  Topics,    \* the topics messages are published on
  QueueCap   \* capacity of a stream (128 in the code)

ASSUME RouterAssumption ==
  /\ Filters \subseteq Seq(STRING) \ {<<>>} /\ Topics \subseteq Seq(STRING) \ {<<>>}
  /\ QueueCap \in Nat

VARIABLES
  nodes,   \* the nodes of the trie
  exact,   \* exact_subscribers: [path, stream] pairs
  hash,    \* hash_subscribers
  used, closed, queue

routerVars == <<nodes, exact, hash, used, closed, queue>>

TrieRoot == <<>>

\* The node a valid filter is kept at, and whether in its hash list.
IsHash(f) == f[Len(f)] = "#"
NodePath(f) == IF IsHash(f) THEN SubSeq(f, 1, Len(f) - 1) ELSE f

\* validate_topic_filter (see RouterSpec for what is left out).
ValidFilter(f) == \A i \in 1..(Len(f) - 1) : f[i] # "#"

PathPrefixes(p) == {SubSeq(p, 1, n) : n \in 0..Len(p)}

RouterInit ==
  /\ nodes = {TrieRoot} /\ exact = {} /\ hash = {}
  /\ used = {} /\ closed = {} /\ queue = [s \in Streams |-> <<>>]

\* An invalid filter is refused, and the stream made for it is useless.
InsertStream(f, s) ==
  /\ s \notin used /\ used' = used \cup {s}
  /\ IF ValidFilter(f)
     THEN LET sub == [path |-> NodePath(f), stream |-> s] IN
          /\ nodes' = nodes \cup PathPrefixes(NodePath(f))
          /\ exact' = IF IsHash(f) THEN exact ELSE exact \cup {sub}
          /\ hash'  = IF IsHash(f) THEN hash \cup {sub} ELSE hash
     ELSE UNCHANGED <<nodes, exact, hash>>
  /\ UNCHANGED <<closed, queue>>

SubscribersAt(subs, n) == {r \in subs : r.path = n}

\* The nodes remove_recursive deletes on its way back up path p, when ex and ha
\* are left: those with nothing but empty nodes of p below them.  The variant
\* looks only at the node's own subscribers.
DeadShallow(p, ex, ha) ==
  {n \in nodes \cap PathPrefixes(p) :
     n # TrieRoot /\ SubscribersAt(ex, n) = {} /\ SubscribersAt(ha, n) = {}}
Dead(p, ex, ha) ==
  {n \in nodes \cap PathPrefixes(p) :
     n # TrieRoot /\ \A m \in nodes : n \in PathPrefixes(m) =>
       /\ m \in PathPrefixes(p)
       /\ SubscribersAt(ex, m) = {} /\ SubscribersAt(ha, m) = {}}

RemoveFilter(f) ==
  /\ ValidFilter(f)
  /\ exact' = IF IsHash(f) THEN exact ELSE exact \ SubscribersAt(exact, NodePath(f))
  /\ hash'  = IF IsHash(f) THEN hash \ SubscribersAt(hash, NodePath(f)) ELSE hash
  /\ nodes' = nodes \ Dead(NodePath(f), exact', hash')
  /\ UNCHANGED <<used, closed, queue>>

\* The nodes match_and_dispatch visits for a topic.
Visited(t) ==
  {n \in nodes : Len(n) <= Len(t) /\ \A i \in 1..Len(n) : n[i] = t[i] \/ n[i] = "+"}

\* The hash lists that take the topic; the variant leaves out the parent level.
HashHitBelow(t) == {r \in hash : r.path \in Visited(t) /\ Len(r.path) < Len(t)}
HashHit(t)  == {r \in hash : r.path \in Visited(t)}
ExactHit(t) == {r \in exact : r.path \in Visited(t) /\ Len(r.path) = Len(t)}

\* A closed stream is forgotten and a full one skipped; empty nodes are kept.
Dispatch(t) ==
  LET hit == HashHit(t) \cup ExactHit(t) IN
  /\ queue' = [s \in Streams |->
       IF (\E r \in hit : r.stream = s) /\ s \notin closed /\ Len(queue[s]) < QueueCap
       THEN Append(queue[s], t) ELSE queue[s]]
  /\ exact' = exact \ {r \in ExactHit(t) : r.stream \in closed}
  /\ hash'  = hash \ {r \in HashHit(t) : r.stream \in closed}
  /\ UNCHANGED <<nodes, used, closed>>

\* TopicSubscription::recv, and the drop of the subscription.
StreamRecv(s) ==
  /\ s \notin closed /\ queue[s] # <<>>
  /\ queue' = [queue EXCEPT ![s] = Tail(@)]
  /\ UNCHANGED <<nodes, exact, hash, used, closed>>

StreamClose(s) ==
  /\ s \in used \ closed
  /\ closed' = closed \cup {s} /\ queue' = [queue EXCEPT ![s] = <<>>]
  /\ UNCHANGED <<nodes, exact, hash, used>>

RouterNext == \/ \E f \in Filters : RemoveFilter(f) \/ \E s \in Streams : InsertStream(f, s)
              \/ \E t \in Topics : Dispatch(t)
              \/ \E s \in Streams : StreamRecv(s) \/ StreamClose(s)

TrieSpec == RouterInit /\ [][RouterNext]_routerVars

-----------------------------------------------------------------------------
(* Properties. *)

Registered ==
  {[filter |-> r.path, stream |-> r.stream] : r \in exact}
    \cup {[filter |-> Append(r.path, "#"), stream |-> r.stream] : r \in hash}

Abstract == INSTANCE RouterSpec WITH subs <- Registered

\* The trie does what a router promises: its dispatch reaches exactly the live
\* streams whose filter matches by definition, whatever was inserted, removed,
\* pruned or closed before.
Implements == Abstract!RouterSpecification

\* The trie hangs together and unsubscribing leaves nothing behind: while no
\* stream has been dropped, its nodes are exactly those on the way to the
\* subscribers, so that dispatch can reach every one.
NoDeadBranch ==
  closed = {} => nodes = {TrieRoot} \cup UNION {PathPrefixes(r.path) : r \in exact \cup hash}

===============================================================================
