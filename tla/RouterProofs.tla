------------------------------- MODULE RouterProofs -----------------------------
(***************************************************************************)
(* That the trie of the topic router does what a router promises, whatever *)
(* the filters, topics, streams and capacity, and that its branches are    *)
(* those its subscribers need.                                             *)
(*                                                                         *)
(* The step from the trie to the promise rests on every subscriber being   *)
(* at a node of the trie: dispatch walks the nodes, and pruning them must  *)
(* not cut off a subscriber it leaves.                                     *)
(***************************************************************************)
EXTENDS TopicRouter, TLAPS

\* The levels are strings; that the wildcard is one the provers have to be told.
Path == Seq(STRING \cup {"#"})

\* A subscriber is kept at a node, and in the list its filter says.
RouterInv ==
  /\ nodes \subseteq Path
  /\ exact \subseteq [path : Path, stream : Streams]
  /\ hash \subseteq [path : Path, stream : Streams]
  /\ \A r \in exact : r.path # <<>> /\ r.path[Len(r.path)] # "#"
  /\ \A r \in exact \cup hash : r.path \in nodes

-------------------------------------------------------------------------------
(* Paths. *)

LEMMA FrontAndLast ==
  ASSUME NEW S, NEW s \in Seq(S), s # <<>>
  PROVE  /\ SubSeq(s, 1, Len(s) - 1) \in Seq(S)
         /\ Append(SubSeq(s, 1, Len(s) - 1), s[Len(s)]) = s
OBVIOUS

LEMMA Appends ==
  ASSUME NEW S, NEW s \in Seq(S), NEW t \in Seq(S), NEW x \in S
  PROVE  /\ Append(s, x) \in Seq(S) /\ Append(s, x) # <<>> /\ Append(s, x)[Len(Append(s, x))] = x
         /\ Append(s, x) = Append(t, x) => s = t
<1>1. Append(s, x) \in Seq(S) /\ Append(s, x) # <<>> /\ Append(s, x)[Len(Append(s, x))] = x
  OBVIOUS
<1>2. ASSUME Append(s, x) = Append(t, x) PROVE s = t
  <2>1. Len(s) = Len(t)
    BY <1>2
  <2>2. \A i \in 1..Len(s) : s[i] = Append(s, x)[i] /\ t[i] = Append(t, x)[i]
    BY <2>1
  <2>3. \A i \in 1..Len(s) : s[i] = t[i]
    BY <1>2, <2>2
  <2> QED BY <2>1, <2>3
<1> QED BY <1>1, <1>2

LEMMA SelfPrefix ==
  ASSUME NEW S, NEW p \in Seq(S)
  PROVE  /\ SubSeq(p, 1, Len(p)) = p /\ SubSeq(p, 1, 0) = <<>> /\ Len(p) \in Nat
         /\ \A n \in 0..Len(p) : SubSeq(p, 1, n) \in Seq(S) /\ Len(SubSeq(p, 1, n)) = n
OBVIOUS

LEMMA PrefixOfPrefix ==
  ASSUME NEW S, NEW p \in Seq(S), NEW k \in 0..Len(p), NEW n \in 0..k
  PROVE  SubSeq(SubSeq(p, 1, k), 1, n) = SubSeq(p, 1, n)
OBVIOUS

LEMMA PrefixPaths ==
  ASSUME NEW p \in Path
  PROVE  PathPrefixes(p) \subseteq Path /\ p \in PathPrefixes(p) /\ <<>> \in PathPrefixes(p)
<1>1. /\ p = SubSeq(p, 1, Len(p)) /\ <<>> = SubSeq(p, 1, 0) /\ Len(p) \in Nat
      /\ \A n \in 0..Len(p) : SubSeq(p, 1, n) \in Path
  BY SelfPrefix DEF Path
<1>2. 0 \in 0..Len(p) /\ Len(p) \in 0..Len(p)
  BY <1>1
<1> QED BY <1>1, <1>2 DEF PathPrefixes

LEMMA PrefixTransitive ==
  ASSUME NEW p \in Path, NEW m \in PathPrefixes(p), NEW n \in PathPrefixes(m)
  PROVE  n \in PathPrefixes(p)
<1>1. PICK k \in 0..Len(p) : m = SubSeq(p, 1, k)
  BY DEF PathPrefixes
<1>2. Len(m) = k /\ Len(p) \in Nat
  BY <1>1, SelfPrefix DEF Path
<1>3. PICK l \in 0..k : n = SubSeq(m, 1, l)
  BY <1>2 DEF PathPrefixes
<1>4. n = SubSeq(p, 1, l)
  BY <1>1, <1>3, PrefixOfPrefix DEF Path
<1>5. l \in 0..Len(p)
  BY <1>2
<1> QED BY <1>4, <1>5 DEF PathPrefixes

\* Where a filter is kept says which filter it is.
LEMMA KeptAt ==
  ASSUME NEW f \in Path, f # <<>>
  PROVE  /\ NodePath(f) \in Path
         /\ IsHash(f) => Append(NodePath(f), "#") = f
         /\ ~IsHash(f) => NodePath(f) = f /\ f[Len(f)] # "#"
BY FrontAndLast DEF Path, NodePath, IsHash

LEMMA FilterPath ==
  ASSUME NEW f \in Filters PROVE f \in Path /\ f # <<>>
BY RouterAssumption DEF Path

-------------------------------------------------------------------------------
(* The lists. *)

\* The subscribers of the two lists as a router's.
OfExact(r) == [filter |-> r.path, stream |-> r.stream]
OfHash(r)  == [filter |-> Append(r.path, "#"), stream |-> r.stream]

LEMMA RegisteredIs ==
  Registered = {OfExact(r) : r \in exact} \cup {OfHash(r) : r \in hash}
BY DEF Registered, OfExact, OfHash

\* What insertion adds.
LEMMA Inserted ==
  ASSUME RouterInv, NEW f \in Filters, NEW s \in Streams, ValidFilter(f), InsertStream(f, s)
  PROVE  RouterInv' /\ Registered' = Registered \cup {[filter |-> f, stream |-> s]}
<1> DEFINE sub == [path |-> NodePath(f), stream |-> s]
<1>1. /\ f \in Path /\ f # <<>> /\ NodePath(f) \in Path
      /\ IsHash(f) => Append(NodePath(f), "#") = f
      /\ ~IsHash(f) => NodePath(f) = f /\ f[Len(f)] # "#"
  BY FilterPath, KeptAt
<1>2. /\ nodes' = nodes \cup PathPrefixes(NodePath(f))
      /\ exact' = IF IsHash(f) THEN exact ELSE exact \cup {sub}
      /\ hash'  = IF IsHash(f) THEN hash \cup {sub} ELSE hash
  BY DEF InsertStream
<1>3. PathPrefixes(NodePath(f)) \subseteq Path /\ NodePath(f) \in PathPrefixes(NodePath(f))
  BY <1>1, PrefixPaths
<1>4. sub \in [path : Path, stream : Streams] /\ sub.path = NodePath(f) /\ sub.stream = s
  BY <1>1
<1> HIDE DEF sub
<1>5. RouterInv'
  BY <1>1, <1>2, <1>3, <1>4 DEF RouterInv
<1>6. Registered' = Registered \cup {[filter |-> f, stream |-> s]}
  <2>1. CASE IsHash(f)
    <3>1. OfHash(sub) = [filter |-> f, stream |-> s]
      BY <1>1, <1>4, <2>1 DEF OfHash
    <3>2. exact' = exact /\ hash' = hash \cup {sub}
      BY <1>2, <2>1
    <3>3. Registered' = {OfExact(r) : r \in exact'} \cup {OfHash(r) : r \in hash'}
      BY DEF Registered, OfExact, OfHash
    <3> QED BY <3>1, <3>2, <3>3, RegisteredIs
  <2>2. CASE ~IsHash(f)
    <3>1. OfExact(sub) = [filter |-> f, stream |-> s]
      BY <1>1, <1>4, <2>2 DEF OfExact
    <3>2. hash' = hash /\ exact' = exact \cup {sub}
      BY <1>2, <2>2
    <3>3. Registered' = {OfExact(r) : r \in exact'} \cup {OfHash(r) : r \in hash'}
      BY DEF Registered, OfExact, OfHash
    <3> QED BY <3>1, <3>2, <3>3, RegisteredIs
  <2> QED BY <2>1, <2>2
<1> QED BY <1>5, <1>6

\* Two lists of different kinds never hold the same filter, and a list holds one
\* filter at one node.
LEMMA DistinctFilters ==
  ASSUME RouterInv, NEW f \in Path, f # <<>>
  PROVE  /\ \A r \in exact : OfExact(r).filter = f <=> ~IsHash(f) /\ r.path = NodePath(f)
         /\ \A r \in hash : OfHash(r).filter = f <=> IsHash(f) /\ r.path = NodePath(f)
<1>1. /\ NodePath(f) \in Path
      /\ IsHash(f) => Append(NodePath(f), "#") = f
      /\ ~IsHash(f) => NodePath(f) = f /\ f[Len(f)] # "#"
  BY KeptAt
<1>2. ASSUME NEW r \in exact
      PROVE  OfExact(r).filter = f <=> ~IsHash(f) /\ r.path = NodePath(f)
  <2>1. r.path[Len(r.path)] # "#" /\ OfExact(r).filter = r.path
    BY DEF RouterInv, OfExact
  <2>2. IsHash(f) => r.path # f
    BY <2>1 DEF IsHash
  <2> QED BY <1>1, <2>1, <2>2
<1>3. ASSUME NEW r \in hash
      PROVE  OfHash(r).filter = f <=> IsHash(f) /\ r.path = NodePath(f)
  <2>0. "#" \in STRING \cup {"#"}
    OBVIOUS
  <2>1. r.path \in Path /\ OfHash(r).filter = Append(r.path, "#")
    BY DEF RouterInv, OfHash
  <2> DEFINE g == Append(r.path, "#")
  <2>2. g[Len(g)] = "#"
    BY <2>0, <2>1, Appends DEF Path
  <2>3. IsHash(f) => (g = f <=> r.path = NodePath(f))
    <3>1. \A a, b \in Path : Append(a, "#") = Append(b, "#") => a = b
      BY <2>0, Appends DEF Path
    <3> QED BY <1>1, <2>1, <3>1
  <2>4. OfHash(r).filter = g
    BY <2>1
  <2> HIDE DEF g
  <2>5. ~IsHash(f) => g # f
    BY <2>2 DEF IsHash
  <2> QED BY <2>3, <2>4, <2>5
<1> QED BY <1>2, <1>3

\* A node with a subscriber is never pruned.
LEMMA SubscribersKept ==
  ASSUME RouterInv, NEW p, NEW ex, NEW ha, ex \subseteq exact, ha \subseteq hash,
         NEW r \in ex \cup ha
  PROVE  r.path \in nodes \ Dead(p, ex, ha)
<1>1. r.path \in nodes /\ r.path \in PathPrefixes(r.path)
  BY PrefixPaths DEF RouterInv
<1>2. r \in SubscribersAt(ex, r.path) \/ r \in SubscribersAt(ha, r.path)
  BY DEF SubscribersAt
<1> QED BY <1>1, <1>2 DEF Dead

\* What removal leaves.
LEMMA Removed ==
  ASSUME RouterInv, NEW f \in Filters, RemoveFilter(f)
  PROVE  RouterInv' /\ Registered' = {r \in Registered : r.filter # f}
<1>1. f \in Path /\ f # <<>>
  BY FilterPath
<1>2. /\ exact' = {r \in exact : ~(~IsHash(f) /\ r.path = NodePath(f))}
      /\ hash' = {r \in hash : ~(IsHash(f) /\ r.path = NodePath(f))}
      /\ nodes' = nodes \ Dead(NodePath(f), exact', hash')
  BY DEF RemoveFilter, SubscribersAt
<1>3. RouterInv'
  <2>1. exact' \subseteq exact /\ hash' \subseteq hash /\ nodes' \subseteq nodes
    BY <1>2
  <2>2. \A r \in exact' \cup hash' : r.path \in nodes'
    BY <1>2, <2>1, SubscribersKept
  <2> QED BY <2>1, <2>2 DEF RouterInv
<1>4. Registered' = {OfExact(r) : r \in exact'} \cup {OfHash(r) : r \in hash'}
  BY DEF Registered, OfExact, OfHash
<1>5. /\ exact' = {r \in exact : OfExact(r).filter # f}
      /\ hash' = {r \in hash : OfHash(r).filter # f}
  BY <1>1, <1>2, DistinctFilters
<1>6. {OfExact(r) : r \in exact'} = {x \in {OfExact(r) : r \in exact} : x.filter # f}
  BY <1>5
<1>7. {OfHash(r) : r \in hash'} = {x \in {OfHash(r) : r \in hash} : x.filter # f}
  BY <1>5
<1> QED BY <1>3, <1>4, <1>6, <1>7, RegisteredIs

\* The lists dispatch finds are those of the filters that match.
LEMMA HitsMatch ==
  ASSUME RouterInv, NEW t \in Topics
  PROVE  /\ \A r \in exact : r \in ExactHit(t) <=> Abstract!Matches(OfExact(r).filter, t)
         /\ \A r \in hash : r \in HashHit(t) <=> Abstract!Matches(OfHash(r).filter, t)
<1>1. ASSUME NEW r \in exact
      PROVE  r \in ExactHit(t) <=> Abstract!Matches(OfExact(r).filter, t)
  <2>1. r.path \in Path /\ r.path # <<>> /\ r.path[Len(r.path)] # "#" /\ r.path \in nodes
    BY DEF RouterInv
  <2>2. r \in ExactHit(t) <=> Len(r.path) <= Len(t) /\ Len(r.path) = Len(t)
                              /\ \A i \in 1..Len(r.path) : r.path[i] = t[i] \/ r.path[i] = "+"
    BY <2>1 DEF ExactHit, Visited
  <2>3. Len(r.path) = Len(t) => Len(r.path) <= Len(t)
    BY <2>1 DEF Path
  <2> QED BY <2>1, <2>2, <2>3 DEF OfExact, Abstract!Matches, Abstract!LevelMatches
<1>2. ASSUME NEW r \in hash
      PROVE  r \in HashHit(t) <=> Abstract!Matches(OfHash(r).filter, t)
  <2>1. r.path \in Path /\ r.path \in nodes
    BY DEF RouterInv
  <2>2. r \in HashHit(t) <=> Len(r.path) <= Len(t)
                             /\ \A i \in 1..Len(r.path) : r.path[i] = t[i] \/ r.path[i] = "+"
    BY <2>1 DEF HashHit, Visited
  <2> DEFINE g == Append(r.path, "#")
  <2>3. /\ Len(g) = Len(r.path) + 1 /\ g[Len(g)] = "#" /\ Len(g) - 1 = Len(r.path)
        /\ \A i \in 1..Len(r.path) : g[i] = r.path[i]
    BY <2>1 DEF Path
  <2>4. OfHash(r).filter = g
    BY DEF OfHash
  <2> HIDE DEF g
  <2> QED BY <2>2, <2>3, <2>4 DEF Abstract!Matches, Abstract!LevelMatches
<1> QED BY <1>1, <1>2

\* A dispatch reaches the streams that match and forgets the closed ones.
LEMMA Dispatched ==
  ASSUME RouterInv, NEW t \in Topics, Dispatch(t)
  PROVE  RouterInv' /\ Abstract!SpecDispatch(t)
<1> DEFINE aHit == {r \in Registered : Abstract!Matches(r.filter, t)}
<1>1. /\ exact' = exact \ {r \in ExactHit(t) : r.stream \in closed}
      /\ hash' = hash \ {r \in HashHit(t) : r.stream \in closed}
      /\ UNCHANGED <<nodes, used, closed>>
  BY DEF Dispatch
<1>2. RouterInv'
  BY <1>1 DEF RouterInv
<1>3. ExactHit(t) \subseteq exact /\ HashHit(t) \subseteq hash
  BY DEF ExactHit, HashHit
<1>4. \A s : (\E r \in HashHit(t) \cup ExactHit(t) : r.stream = s) <=> (\E r \in aHit : r.stream = s)
  <2>1. \A r : OfExact(r).stream = r.stream /\ OfHash(r).stream = r.stream
    BY DEF OfExact, OfHash
  <2>2. ASSUME NEW r \in HashHit(t) \cup ExactHit(t) PROVE \E x \in aHit : x.stream = r.stream
    <3>1. CASE r \in ExactHit(t)
      BY <1>3, <2>1, <3>1, HitsMatch, RegisteredIs
    <3>2. CASE r \in HashHit(t)
      BY <1>3, <2>1, <3>2, HitsMatch, RegisteredIs
    <3> QED BY <3>1, <3>2
  <2>3. ASSUME NEW x \in aHit PROVE \E r \in HashHit(t) \cup ExactHit(t) : r.stream = x.stream
    <3>1. CASE \E r \in exact : x = OfExact(r)
      BY <2>1, <2>3, <3>1, HitsMatch
    <3>2. CASE \E r \in hash : x = OfHash(r)
      BY <2>1, <2>3, <3>2, HitsMatch
    <3> QED BY <2>3, <3>1, <3>2, RegisteredIs
  <2> QED BY <2>2, <2>3
<1>5. Registered' = Registered \ {r \in aHit : r.stream \in closed}
  <2>1. \A r : OfExact(r).stream = r.stream /\ OfHash(r).stream = r.stream
    BY DEF OfExact, OfHash
  <2>2. Registered' = {OfExact(r) : r \in exact'} \cup {OfHash(r) : r \in hash'}
    BY DEF Registered, OfExact, OfHash
  <2>3. /\ exact' = {r \in exact : ~(Abstract!Matches(OfExact(r).filter, t) /\ OfExact(r).stream \in closed)}
        /\ hash' = {r \in hash : ~(Abstract!Matches(OfHash(r).filter, t) /\ OfHash(r).stream \in closed)}
    BY <1>1, <2>1, HitsMatch
  <2>4. {OfExact(r) : r \in exact'} = {x \in {OfExact(r) : r \in exact} :
                                         ~(Abstract!Matches(x.filter, t) /\ x.stream \in closed)}
    BY <2>3
  <2>5. {OfHash(r) : r \in hash'} = {x \in {OfHash(r) : r \in hash} :
                                       ~(Abstract!Matches(x.filter, t) /\ x.stream \in closed)}
    BY <2>3
  <2> QED BY <2>2, <2>4, <2>5, RegisteredIs
<1>6. queue' = [s \in Streams |->
         IF (\E r \in aHit : r.stream = s) /\ s \notin closed /\ Len(queue[s]) < QueueCap
         THEN Append(queue[s], t) ELSE queue[s]]
  <2> HIDE DEF aHit
  <2>1. queue' = [s \in Streams |->
         IF (\E r \in HashHit(t) \cup ExactHit(t) : r.stream = s) /\ s \notin closed
            /\ Len(queue[s]) < QueueCap
         THEN Append(queue[s], t) ELSE queue[s]]
    BY DEF Dispatch
  <2> QED BY <1>4, <2>1
<1> QED BY <1>1, <1>2, <1>5, <1>6 DEF Abstract!SpecDispatch

LEMMA StepInv ==
  ASSUME RouterInv, [RouterNext]_routerVars PROVE RouterInv'
<1>1. ASSUME NEW f \in Filters, NEW s \in Streams, InsertStream(f, s) PROVE RouterInv'
  <2>1. CASE ValidFilter(f)
    BY <1>1, <2>1, Inserted
  <2>2. CASE ~ValidFilter(f)
    BY <1>1, <2>2 DEF InsertStream, RouterInv
  <2> QED BY <2>1, <2>2
<1>2. ASSUME UNCHANGED <<nodes, exact, hash>> PROVE RouterInv'
  BY <1>2 DEF RouterInv
<1>3. CASE \E s \in Streams : StreamRecv(s) \/ StreamClose(s)
  BY <1>2, <1>3 DEF StreamRecv, StreamClose
<1>4. CASE UNCHANGED routerVars
  BY <1>2, <1>4 DEF routerVars
<1> QED BY <1>1, <1>3, <1>4, Removed, Dispatched DEF RouterNext

LEMMA InitInv == RouterInit => RouterInv
<1>1. TrieRoot \in Path
  BY DEF TrieRoot, Path
<1> QED BY <1>1 DEF RouterInit, RouterInv

\* Every step of the trie is a step of the router, or none.
LEMMA StepImplements ==
  ASSUME RouterInv, [RouterNext]_routerVars
  PROVE  [Abstract!SpecNext]_<<Registered, used, closed, queue>>
<1>1. ASSUME NEW f \in Filters, NEW s \in Streams, InsertStream(f, s)
      PROVE  Abstract!SpecInsert(f, s)
  <2>1. s \notin used /\ used' = used \cup {s} /\ UNCHANGED <<closed, queue>>
    BY <1>1 DEF InsertStream
  <2>2. ValidFilter(f) <=> Abstract!IsValid(f)
    BY DEF ValidFilter, Abstract!IsValid
  <2>3. CASE ValidFilter(f)
    BY <1>1, <2>1, <2>2, <2>3, Inserted DEF Abstract!SpecInsert
  <2>4. CASE ~ValidFilter(f)
    <3>1. UNCHANGED <<exact, hash>>
      BY <1>1, <2>4 DEF InsertStream
    <3>2. Registered' = Registered
      BY <3>1 DEF Registered
    <3> QED BY <2>1, <2>2, <2>4, <3>2 DEF Abstract!SpecInsert
  <2> QED BY <2>3, <2>4
<1>2. ASSUME NEW f \in Filters, RemoveFilter(f) PROVE Abstract!SpecRemove(f)
  <2>1. UNCHANGED <<used, closed, queue>>
    BY <1>2 DEF RemoveFilter
  <2> QED BY <1>2, <2>1, Removed DEF Abstract!SpecRemove
<1>3. ASSUME NEW t \in Topics, Dispatch(t) PROVE Abstract!SpecDispatch(t)
  BY <1>3, Dispatched
<1>4. ASSUME NEW s \in Streams, StreamRecv(s) PROVE Abstract!SpecRecv(s)
  BY <1>4 DEF StreamRecv, Abstract!SpecRecv, Registered
<1>5. ASSUME NEW s \in Streams, StreamClose(s) PROVE Abstract!SpecClose(s)
  BY <1>5 DEF StreamClose, Abstract!SpecClose, Registered
<1>6. CASE UNCHANGED routerVars
  BY <1>6 DEF routerVars, Registered
<1> QED BY <1>1, <1>2, <1>3, <1>4, <1>5, <1>6 DEF RouterNext, Abstract!SpecNext

(* The trie implements the router's promise: whatever is inserted, removed *)
(* and pruned, published, closed or left unread, a message goes to every   *)
(* live stream whose filter matches its topic, and to no other.            *)
THEOREM TrieIsRouter == TrieSpec => Implements
<1>1. RouterInit => Abstract!SpecInit
  BY DEF RouterInit, Abstract!SpecInit, Registered
<1> QED BY InitInv, StepInv, StepImplements, <1>1, PTL
        DEF TrieSpec, Implements, Abstract!RouterSpecification, Abstract!specVars

-------------------------------------------------------------------------------
(* Branches. *)

\* The nodes on the way to the subscribers of two lists.
Needed(ex, ha) == {TrieRoot} \cup UNION {PathPrefixes(r.path) : r \in ex \cup ha}

\* Pruning leaves the nodes that are needed, if those before the removal were.
LEMMA PrunedRight ==
  ASSUME RouterInv, nodes = Needed(exact, hash), NEW p \in Path,
         NEW ex, NEW ha, ex \subseteq exact, ha \subseteq hash,
         \A r \in (exact \ ex) \cup (hash \ ha) : r.path = p
  PROVE  nodes \ Dead(p, ex, ha) = Needed(ex, ha)
<1>1. ASSUME NEW n \in Needed(ex, ha) PROVE n \in nodes \ Dead(p, ex, ha)
  <2>1. CASE n = TrieRoot
    BY <2>1 DEF Needed, Dead
  <2>2. CASE \E r \in ex \cup ha : n \in PathPrefixes(r.path)
    <3>1. PICK r \in ex \cup ha : n \in PathPrefixes(r.path)
      BY <2>2
    <3>2. n \in nodes
      BY <3>1 DEF Needed
    <3>3. r.path \in nodes
      BY DEF RouterInv
    <3>4. r \in SubscribersAt(ex, r.path) \/ r \in SubscribersAt(ha, r.path)
      BY DEF SubscribersAt
    <3> QED BY <3>1, <3>2, <3>3, <3>4 DEF Dead
  <2> QED BY <1>1, <2>1, <2>2 DEF Needed
<1>2. ASSUME NEW n \in nodes, n \notin Needed(ex, ha) PROVE n \in Dead(p, ex, ha)
  <2>1. n # TrieRoot /\ \A r \in ex \cup ha : n \notin PathPrefixes(r.path)
    BY <1>2 DEF Needed
  <2>2. PICK r \in exact \cup hash : n \in PathPrefixes(r.path)
    BY <1>2, <2>1 DEF Needed
  <2>3. n \in PathPrefixes(p)
    BY <2>1, <2>2
  <2>4. ASSUME NEW m \in nodes, n \in PathPrefixes(m)
        PROVE  /\ m \in PathPrefixes(p)
               /\ SubscribersAt(ex, m) = {} /\ SubscribersAt(ha, m) = {}
    <3>1. m \in Path
      BY DEF RouterInv
    <3>2. ASSUME NEW r_1 \in exact \cup hash, m \in PathPrefixes(r_1.path)
          PROVE  n \in PathPrefixes(r_1.path)
      <4>1. r_1.path \in Path
        BY DEF RouterInv
      <4> QED BY <2>4, <3>2, <4>1, PrefixTransitive
    <3>3. m # TrieRoot
      <4>1. PathPrefixes(TrieRoot) = {TrieRoot}
        <5>1. Len(<<>>) = 0 /\ 0..0 = {0} /\ SubSeq(<<>>, 1, 0) = <<>>
          OBVIOUS
        <5> QED BY <5>1 DEF PathPrefixes, TrieRoot
      <4> QED BY <2>1, <2>4, <4>1
    <3>4. PICK q \in exact \cup hash : m \in PathPrefixes(q.path)
      BY <3>3 DEF Needed
    <3>5. m \in PathPrefixes(p)
      BY <2>1, <3>2, <3>4
    <3>6. ASSUME NEW r_1 \in ex \cup ha PROVE r_1.path # m
      <4>1. r_1.path \in PathPrefixes(r_1.path)
        BY PrefixPaths DEF RouterInv
      <4> QED BY <2>1, <3>2, <4>1
    <3> QED BY <3>5, <3>6 DEF SubscribersAt
  <2> QED BY <2>1, <2>3, <2>4 DEF Dead
<1> QED BY <1>1, <1>2

LEMMA BranchStep ==
  ASSUME RouterInv, NoDeadBranch, [RouterNext]_routerVars PROVE NoDeadBranch'
<1> SUFFICES ASSUME closed' = {} PROVE nodes' = Needed(exact', hash')
  BY DEF NoDeadBranch, Needed
<1>1. closed = {}
  BY DEF RouterNext, routerVars, InsertStream, RemoveFilter, Dispatch, StreamRecv, StreamClose
<1>2. nodes = Needed(exact, hash)
  BY <1>1 DEF NoDeadBranch, Needed
<1>3. ASSUME UNCHANGED <<nodes, exact, hash>> PROVE nodes' = Needed(exact', hash')
  BY <1>2, <1>3
<1>4. ASSUME NEW f \in Filters, NEW s \in Streams, InsertStream(f, s)
      PROVE  nodes' = Needed(exact', hash')
  <2> DEFINE sub == [path |-> NodePath(f), stream |-> s]
  <2>1. CASE ValidFilter(f)
    <3>1. /\ nodes' = nodes \cup PathPrefixes(sub.path)
          /\ exact' \cup hash' = exact \cup hash \cup {sub}
      BY <1>4, <2>1 DEF InsertStream
    <3> HIDE DEF sub
    <3> QED BY <1>2, <3>1 DEF Needed
  <2>2. CASE ~ValidFilter(f)
    BY <1>3, <1>4, <2>2 DEF InsertStream
  <2> QED BY <2>1, <2>2
<1>5. ASSUME NEW f \in Filters, RemoveFilter(f) PROVE nodes' = Needed(exact', hash')
  <2>1. NodePath(f) \in Path
    BY FilterPath, KeptAt
  <2>2. /\ exact' \subseteq exact /\ hash' \subseteq hash
        /\ \A r \in (exact \ exact') \cup (hash \ hash') : r.path = NodePath(f)
        /\ nodes' = nodes \ Dead(NodePath(f), exact', hash')
    BY <1>5 DEF RemoveFilter, SubscribersAt
  <2> QED BY <1>2, <2>1, <2>2, PrunedRight
<1>6. ASSUME NEW t \in Topics, Dispatch(t) PROVE nodes' = Needed(exact', hash')
  BY <1>1, <1>3, <1>6 DEF Dispatch
<1>7. CASE \E s \in Streams : StreamRecv(s) \/ StreamClose(s)
  BY <1>3, <1>7 DEF StreamRecv, StreamClose
<1>8. CASE UNCHANGED routerVars
  BY <1>3, <1>8 DEF routerVars
<1> QED BY <1>4, <1>5, <1>6, <1>7, <1>8 DEF RouterNext

(* While no stream is dropped, the trie has the branches its subscribers   *)
(* need and no other: remove_recursive prunes what an unsubscription       *)
(* leaves empty, all of it and nothing that leads to another subscriber.   *)
THEOREM NoBranchIsDead == TrieSpec => []NoDeadBranch
<1>1. RouterInit => NoDeadBranch
  BY DEF RouterInit, NoDeadBranch
<1> QED BY InitInv, StepInv, BranchStep, <1>1, PTL DEF TrieSpec

===============================================================================
