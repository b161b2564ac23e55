----------------------------- MODULE PartsProofs ------------------------------
(***************************************************************************)
(* The connection state machine and the bounded containers of the library  *)
(* crates, the web hub, the streamed publish, and the clock and the dials  *)
(* of the event loop, for every capacity, length and delay and whatever    *)
(* keys, values, identifiers and clients.                                  *)
(*                                                                         *)
(* Both containers remove an entry by moving the last one into its place.  *)
(* That this neither loses nor changes another entry rests on no two       *)
(* entries having the same key, which is the inductive part.               *)
(*                                                                         *)
(* That a streamed publish keeps the broker in step and that a finished    *)
(* one is whole rest on the writer's count: what it believes to remain is  *)
(* what the broker still expects, or more once the transport has failed.   *)
(*                                                                         *)
(* The event loop's connection: its silence is bounded for every           *)
(* keep_alive, and it is dialled again with a backoff for every delay and  *)
(* multiplier.  The bound of the silence is not inductive.  While the      *)
(* connection is driven it rests on last_tx not being younger than the     *)
(* last transmission (besides the time the loop was held up), and on a     *)
(* pending tick not being further away than the bound allows; before, on   *)
(* the loop being held up all the time.  The backoff rests on              *)
(* reconnect_attempt counting the dials of the outage.                     *)
(***************************************************************************)
EXTENDS ConnState, CoreInflight, MemStore, BroadcastHub, StreamPublish, KeepAlive, Dial,
        FiniteSetTheorems, TLAPS

-------------------------------------------------------------------------------
(* ConnState. *)

ConnInv == farewell => state \in {"Disconnecting", "Disconnected"}

\* mqtt-core's machine never goes to Reconnecting by itself after DISCONNECT.
THEOREM NoReconnection == ConnSpec => []NoReconnectAfterDisconnect
<1>1. ConnInit => ConnInv
  BY DEF ConnInit, ConnInv
<1>2. ConnInv /\ [ConnNext]_connVars => ConnInv'
  BY DEF ConnInv, ConnNext, connVars, Move, ConnectRequested, TransportConnected, ConnAckReceived,
         ConnAckRejected, KeepAliveExpired, DisconnectRequested, TransportClosed, LostStates
<1>3. ConnInv => NoReconnectAfterDisconnect
  BY DEF ConnInv, NoReconnectAfterDisconnect
<1> QED BY <1>1, <1>2, <1>3, PTL DEF ConnSpec

-------------------------------------------------------------------------------
(* CoreInflight. *)

Entry == [pid : Pids, status : {"Sent", "PubRelSent"}]

\* Every identifier is in the queue at most once.
QueueInv ==
  /\ entries \in Seq(Entry)
  /\ \A i, j \in DOMAIN entries : entries[i].pid = entries[j].pid => i = j

\* The entry that acknowledge and mark_pubrel_sent find.
LEMMA FirstOfIs ==
  ASSUME QueueInv, NEW p, Collides(p)
  PROVE FirstOf(p) \in 1..Len(entries) /\ entries[FirstOf(p)].pid = p
<1>1. PICK i \in DOMAIN entries : entries[i].pid = p
  BY DEF Collides
<1>2. \A j \in 1..(i - 1) : entries[j].pid # p
  BY <1>1 DEF QueueInv
<1> QED BY <1>1, <1>2 DEF FirstOf, QueueInv

\* What swap_remove leaves: every entry but the removed one.
LEMMA SwapLeaves ==
  ASSUME QueueInv, NEW n \in 1..Len(entries)
  PROVE /\ EntriesWithout(n) \in Seq(Entry) /\ Len(EntriesWithout(n)) = Len(entries) - 1
        /\ \A i \in DOMAIN EntriesWithout(n) :
             EntriesWithout(n)[i] = IF i = n THEN entries[Len(entries)] ELSE entries[i]
BY DEF QueueInv, EntriesWithout

\* What mark_pubrel_sent changes: one entry's status.
LEMMA MarkLeaves ==
  ASSUME QueueInv, NEW p \in Pids, MarkPubrelSent(p)
  PROVE /\ entries' \in Seq(Entry) /\ Len(entries') = Len(entries)
        /\ \A i \in DOMAIN entries : entries'[i].pid = entries[i].pid
<1> DEFINE n == FirstOf(p)
           e == [entries[n] EXCEPT !.status = "PubRelSent"]
<1>1. n \in 1..Len(entries)
  BY FirstOfIs DEF MarkPubrelSent
<1>2. entries[n] \in Entry
  BY <1>1 DEF QueueInv
<1>3. e \in Entry /\ e.pid = entries[n].pid
  BY <1>2 DEF Entry
<1>4. entries' = [entries EXCEPT ![n] = e]
  BY DEF MarkPubrelSent
<1> HIDE DEF e, n
<1> QED BY <1>1, <1>3, <1>4 DEF QueueInv

LEMMA QueueInit_ == QueueInit => QueueInv
BY DEF QueueInit, QueueInv

LEMMA QueueStep == QueueInv /\ [QueueNext]_queueVars => QueueInv'
<1> SUFFICES ASSUME QueueInv, [QueueNext]_queueVars PROVE QueueInv'
  OBVIOUS
<1>1. ASSUME NEW p \in Pids, Push(p) PROVE QueueInv'
  BY <1>1 DEF Push, Collides, QueueInv, Entry
<1>2. ASSUME NEW p \in Pids, Acknowledge(p) PROVE QueueInv'
  <2> DEFINE n == FirstOf(p)
  <2>1. n \in 1..Len(entries) /\ entries' = EntriesWithout(n)
    BY <1>2, FirstOfIs DEF Acknowledge
  <2> HIDE DEF n
  <2>2. entries' \in Seq(Entry) /\ DOMAIN entries' = 1..(Len(entries) - 1)
    BY <2>1, SwapLeaves
  <2>3. \A i \in DOMAIN entries' :
          entries'[i] = IF i = n THEN entries[Len(entries)] ELSE entries[i]
    BY <2>1, SwapLeaves
  <2> QED BY <2>1, <2>2, <2>3 DEF QueueInv
<1>3. ASSUME NEW p \in Pids, MarkPubrelSent(p) PROVE QueueInv'
  BY <1>3, MarkLeaves DEF QueueInv
<1>4. CASE ClearQueue
  BY <1>4 DEF ClearQueue, QueueInv
<1>5. CASE UNCHANGED queueVars
  BY <1>5 DEF queueVars, QueueInv
<1> QED BY <1>1, <1>2, <1>3, <1>4, <1>5 DEF QueueNext

Tracked == /\ \A p \in TrackedPids \ TrackedPids' : lastAcked' \in {p, 0}
           /\ Len(entries') < Len(entries) => lastAcked' \notin TrackedPids'

LEMMA QueueTracks == QueueInv /\ QueueNext => Tracked
<1> SUFFICES ASSUME QueueInv, QueueNext PROVE Tracked
  OBVIOUS
<1>1. ASSUME NEW p \in Pids, Push(p) PROVE Tracked
  <2>1. entries' = Append(entries, [pid |-> p, status |-> "Sent"])
    BY <1>1 DEF Push
  <2>2. Len(entries') = Len(entries) + 1
    BY <2>1 DEF QueueInv
  <2>3. \A i \in DOMAIN entries : i \in DOMAIN entries' /\ entries'[i] = entries[i]
    BY <2>1 DEF QueueInv
  <2>4. TrackedPids \subseteq TrackedPids'
    BY <2>3 DEF TrackedPids
  <2>5. Len(entries) \in Nat
    BY DEF QueueInv
  <2> QED BY <2>2, <2>4, <2>5 DEF Tracked
<1>2. ASSUME NEW p \in Pids, Acknowledge(p) PROVE Tracked
  <2> DEFINE n == FirstOf(p)
  <2>1. n \in 1..Len(entries) /\ entries[n].pid = p
        /\ entries' = EntriesWithout(n) /\ lastAcked' = p
    BY <1>2, FirstOfIs DEF Acknowledge
  <2> HIDE DEF n
  <2>5. /\ DOMAIN entries' = 1..(Len(entries) - 1)
        /\ \A i \in DOMAIN entries' :
             entries'[i] = IF i = n THEN entries[Len(entries)] ELSE entries[i]
    BY <2>1, SwapLeaves
  <2>2. p \notin TrackedPids'
    <3> SUFFICES ASSUME NEW i \in DOMAIN entries', entries'[i].pid = p PROVE FALSE
      BY DEF TrackedPids
    <3> QED BY <2>1, <2>5 DEF QueueInv
  <2>3. ASSUME NEW i \in DOMAIN entries, i # n PROVE entries[i].pid \in TrackedPids'
    <3>1. CASE i = Len(entries)
      <4>1. n \in DOMAIN entries' /\ entries'[n] = entries[i]
        BY <2>1, <2>3, <3>1, SwapLeaves DEF QueueInv
      <4> QED BY <4>1 DEF TrackedPids
    <3>2. CASE i # Len(entries)
      <4>1. i \in DOMAIN entries' /\ entries'[i] = entries[i]
        BY <2>1, <2>3, <3>2, SwapLeaves DEF QueueInv
      <4> QED BY <4>1 DEF TrackedPids
    <3> QED BY <3>1, <3>2
  <2>4. \A q \in TrackedPids \ TrackedPids' : q = p
    BY <2>1, <2>3 DEF TrackedPids
  <2> QED BY <2>1, <2>2, <2>4 DEF Tracked
<1>3. ASSUME NEW p \in Pids, MarkPubrelSent(p) PROVE Tracked
  <2>2. Len(entries') = Len(entries) /\ Len(entries) \in Nat
    BY <1>3, MarkLeaves DEF QueueInv
  <2>3. \A i \in DOMAIN entries : i \in DOMAIN entries' /\ entries'[i].pid = entries[i].pid
    BY <1>3, MarkLeaves DEF QueueInv
  <2>4. TrackedPids \subseteq TrackedPids'
    BY <2>3 DEF TrackedPids
  <2> QED BY <2>2, <2>4 DEF Tracked
<1>4. CASE ClearQueue
  BY <1>4 DEF ClearQueue, Tracked, TrackedPids
<1> QED BY <1>1, <1>2, <1>3, <1>4 DEF QueueNext

\* For every capacity, a packet leaves mqtt-core's queue only by its own
\* acknowledgement or a clear, and then leaves no trace of itself.
THEOREM PacketsStayTracked == QueueSpec => TrackedUntilAcked
<1>1. QueueInv /\ [QueueNext]_queueVars => [Tracked]_queueVars
  BY QueueTracks
<1> QED BY <1>1, QueueInit_, QueueStep, PTL DEF QueueSpec, TrackedUntilAcked, Tracked

-------------------------------------------------------------------------------
(* MemStore. *)

\* The two vectors are parallel, and no key is in them twice.
StoreInv ==
  /\ keys \in Seq(Keys) /\ values \in Seq(Values) /\ Len(keys) = Len(values)
  /\ \A i, j \in DOMAIN keys : keys[i] = keys[j] => i = j

\* The map the two vectors stand for.
Pairs == [k \in Stored |-> values[Index(k)]]

LEMMA StoredAt ==
  ASSUME StoreInv, NEW i \in DOMAIN keys
  PROVE Index(keys[i]) = i /\ At(keys[i]) = {i}
<1>1. At(keys[i]) = {i}
  BY DEF At, StoreInv
<1> QED BY <1>1 DEF Index, StoreInv

LEMMA IndexOf ==
  ASSUME StoreInv, NEW k, At(k) # {}
  PROVE Index(k) \in 1..Len(keys) /\ keys[Index(k)] = k /\ k \in Stored
<1>1. PICK i \in DOMAIN keys : keys[i] = k
  BY DEF At
<1> QED BY <1>1, StoredAt DEF StoreInv, Stored

LEMMA NotStored ==
  ASSUME NEW k PROVE At(k) = {} <=> k \notin Stored
BY DEF At, Stored

\* The map has an entry for every position, so it is full when the vectors are.
LEMMA StoredCount ==
  ASSUME StoreInv PROVE Cardinality(Stored) = Len(keys)
<1> DEFINE f == [i \in 1..Len(keys) |-> keys[i]]
<1>1. f \in Bijection(1..Len(keys), Stored)
  <2>1. Stored = {keys[i] : i \in 1..Len(keys)}
    BY DEF StoreInv, Stored
  <2>2. f \in [1..Len(keys) -> Stored] /\ \A i \in 1..Len(keys) : f[i] = keys[i]
    BY <2>1
  <2>3. \A i, j \in 1..Len(keys) : f[i] = f[j] => i = j
    BY <2>2 DEF StoreInv
  <2>4. \A k \in Stored : \E i \in 1..Len(keys) : f[i] = k
    BY <2>1, <2>2
  <2> HIDE DEF f
  <2> QED BY <2>2, <2>3, <2>4 DEF Bijection, Injection, Surjection, IsInjective
<1>2. IsFiniteSet(1..Len(keys)) /\ Cardinality(1..Len(keys)) = Len(keys)
  <2>1. \A m \in Nat : IsFiniteSet(1..m) /\ Cardinality(1..m) = m
    BY FS_Interval
  <2>2. Len(keys) \in Nat
    BY DEF StoreInv
  <2> QED BY <2>1, <2>2
<1> QED BY <1>1, <1>2, FS_Bijection DEF ExistsBijection

\* The map is what the positions say, now and after a step.
PairsOK == StoreInv => \A i \in DOMAIN keys : Pairs[keys[i]] = values[i]

LEMMA PairsAt == PairsOK
<1> SUFFICES ASSUME StoreInv, NEW i \in DOMAIN keys PROVE Pairs[keys[i]] = values[i]
  BY DEF PairsOK
<1>1. keys[i] \in Stored
  BY DEF Stored
<1> QED BY <1>1, StoredAt DEF Pairs

LEMMA PairsAtNext == PairsOK'
BY PairsAt, PTL

LEMMA SwapRemoved ==
  ASSUME NEW S, NEW s \in Seq(S), NEW n \in 1..Len(s)
  PROVE /\ SwapRemove(s, n) \in Seq(S) /\ Len(SwapRemove(s, n)) = Len(s) - 1
        /\ \A i \in 1..(Len(s) - 1) : SwapRemove(s, n)[i] = IF i = n THEN s[Len(s)] ELSE s[i]
BY DEF SwapRemove

\* What a call does to the vectors: it leaves them, overwrites the value of a key,
\* adds a key, removes one, or removes all.
Overwrites(k, v) == /\ At(k) # {} /\ values' = [values EXCEPT ![Index(k)] = v] /\ keys' = keys
Adds(k, v) == At(k) = {} /\ keys' = Append(keys, k) /\ values' = Append(values, v)
Removes(k) == /\ At(k) # {} /\ keys' = SwapRemove(keys, Index(k))
              /\ values' = SwapRemove(values, Index(k))

LEMMA OverwriteMaps ==
  ASSUME StoreInv, NEW k \in Keys, NEW v \in Values, Overwrites(k, v)
  PROVE /\ StoreInv' /\ k \in Stored
        /\ Pairs' = [j \in Stored \cup {k} |-> IF j = k THEN v ELSE Pairs[j]]
<1>1. Index(k) \in 1..Len(keys) /\ keys[Index(k)] = k /\ k \in Stored
  BY IndexOf DEF Overwrites
<1> DEFINE n == Index(k)
<1>2. StoreInv'
  BY <1>1 DEF Overwrites, StoreInv
<1>3. Stored' = Stored
  BY DEF Overwrites, Stored
<1>4. ASSUME NEW i \in DOMAIN keys
      PROVE Pairs'[keys[i]] = IF keys[i] = k THEN v ELSE Pairs[keys[i]]
  <2>1. Pairs'[keys[i]] = values'[i] /\ Pairs[keys[i]] = values[i]
    BY <1>2, <1>4, PairsAt, PairsAtNext DEF PairsOK, Overwrites
  <2>4. n \in DOMAIN keys /\ keys[n] = k
    BY <1>1 DEF StoreInv
  <2> HIDE DEF n
  <2>2. keys[i] = k <=> i = n
    BY <2>4, <1>4 DEF StoreInv
  <2>3. values' = [values EXCEPT ![n] = v]
    BY DEF Overwrites, n
  <2> QED BY <1>1, <1>4, <2>1, <2>2, <2>3 DEF StoreInv
<1>5. \A j \in Stored : Pairs'[j] = IF j = k THEN v ELSE Pairs[j]
  BY <1>4 DEF Stored
<1> QED BY <1>1, <1>2, <1>3, <1>5 DEF Pairs

LEMMA AddMaps ==
  ASSUME StoreInv, NEW k \in Keys, NEW v \in Values, Adds(k, v)
  PROVE /\ StoreInv' /\ k \notin Stored
        /\ Pairs' = [j \in Stored \cup {k} |-> IF j = k THEN v ELSE Pairs[j]]
<1>1. k \notin Stored
  BY NotStored DEF Adds
<1>2. /\ DOMAIN keys' = 1..(Len(keys) + 1) /\ keys'[Len(keys) + 1] = k
      /\ values'[Len(keys) + 1] = v
      /\ \A i \in DOMAIN keys : i # Len(keys) + 1 /\ keys'[i] = keys[i] /\ values'[i] = values[i]
  BY DEF Adds, StoreInv
<1>3. StoreInv'
  <2>1. keys' \in Seq(Keys) /\ values' \in Seq(Values) /\ Len(keys') = Len(values')
    BY DEF Adds, StoreInv
  <2>2. \A i \in DOMAIN keys : keys[i] # k
    BY <1>1 DEF Stored
  <2> QED BY <1>2, <2>1, <2>2 DEF StoreInv
<1>4. Stored' = Stored \cup {k}
  <2>1. DOMAIN keys' = DOMAIN keys \cup {Len(keys) + 1}
    BY <1>2 DEF StoreInv
  <2>2. \A i \in DOMAIN keys' : keys'[i] \in Stored \cup {k}
    BY <1>2, <2>1 DEF Stored
  <2>3. \A i \in DOMAIN keys : keys[i] \in Stored'
    BY <1>2, <2>1 DEF Stored
  <2>4. k \in Stored'
    BY <1>2, <2>1 DEF Stored
  <2> QED BY <2>2, <2>3, <2>4 DEF Stored
<1>5. Pairs'[k] = v
  BY <1>2, <1>3, PairsAtNext DEF PairsOK, StoreInv
<1>6. \A j \in Stored : j # k /\ Pairs'[j] = Pairs[j]
  <2>1. \A i \in DOMAIN keys : i \in DOMAIN keys'
    BY <1>2 DEF StoreInv
  <2>2. \A i \in DOMAIN keys : Pairs'[keys[i]] = Pairs[keys[i]]
    BY <1>2, <1>3, <2>1, PairsAt, PairsAtNext DEF PairsOK
  <2> QED BY <1>1, <2>2 DEF Stored
<1> QED BY <1>1, <1>3, <1>4, <1>5, <1>6 DEF Pairs

LEMMA RemoveMaps ==
  ASSUME StoreInv, NEW k \in Keys, Removes(k)
  PROVE StoreInv' /\ k \in Stored /\ Pairs' = [j \in Stored \ {k} |-> Pairs[j]]
<1> DEFINE n == Index(k)
           last == Len(keys)
<1>1. n \in 1..last /\ keys[n] = k /\ k \in Stored
  BY IndexOf DEF Removes
<1>2. /\ keys' \in Seq(Keys) /\ values' \in Seq(Values)
      /\ Len(keys') = last - 1 /\ Len(values') = last - 1
      /\ \A i \in 1..(last - 1) : /\ keys'[i] = IF i = n THEN keys[last] ELSE keys[i]
                                  /\ values'[i] = IF i = n THEN values[last] ELSE values[i]
  <2> HIDE DEF n
  <2>1. n \in 1..Len(keys) /\ n \in 1..Len(values) /\ keys \in Seq(Keys) /\ values \in Seq(Values)
    BY <1>1 DEF StoreInv
  <2>2. keys' = SwapRemove(keys, n) /\ values' = SwapRemove(values, n)
    BY DEF Removes, n
  <2>3. Len(keys) = Len(values)
    BY DEF StoreInv
  <2>4. /\ keys' \in Seq(Keys) /\ Len(keys') = last - 1
        /\ \A i \in 1..(last - 1) : keys'[i] = IF i = n THEN keys[last] ELSE keys[i]
    BY <2>1, <2>2, SwapRemoved
  <2>5. /\ values' \in Seq(Values) /\ Len(values') = last - 1
        /\ \A i \in 1..(last - 1) : values'[i] = IF i = n THEN values[last] ELSE values[i]
    <3>1. values' = SwapRemove(values, n) /\ Len(values) = last /\ n \in 1..Len(values)
      BY <2>1, <2>2, <2>3
    <3> HIDE DEF last
    <3> QED BY <2>1, <3>1, SwapRemoved
  <2> QED BY <2>4, <2>5
<1> HIDE DEF n
<1>3. StoreInv'
  BY <1>1, <1>2 DEF StoreInv
<1>4. Stored' = Stored \ {k}
  <2>1. ASSUME NEW i \in DOMAIN keys' PROVE keys'[i] \in Stored \ {k}
    BY <1>1, <1>2, <2>1 DEF StoreInv, Stored
  <2>2. ASSUME NEW i \in DOMAIN keys, keys[i] # k PROVE keys[i] \in Stored'
    <3>1. CASE i = last
      <4>1. n \in DOMAIN keys' /\ keys'[n] = keys[i]
        BY <1>1, <1>2, <2>2, <3>1 DEF StoreInv
      <4> QED BY <4>1 DEF Stored
    <3>2. CASE i # last
      <4>1. i \in DOMAIN keys' /\ keys'[i] = keys[i]
        BY <1>1, <1>2, <2>2, <3>2 DEF StoreInv
      <4> QED BY <4>1 DEF Stored
    <3> QED BY <3>1, <3>2
  <2> QED BY <2>1, <2>2 DEF Stored
<1>5. ASSUME NEW i \in DOMAIN keys' PROVE Pairs'[keys'[i]] = Pairs[keys'[i]]
  <2>1. Pairs'[keys'[i]] = values'[i]
    BY <1>3, <1>5, PairsAtNext DEF PairsOK
  <2>2. CASE i = n
    <3>1. last \in DOMAIN keys /\ keys'[i] = keys[last] /\ values'[i] = values[last]
      BY <1>1, <1>2, <1>5, <2>2 DEF StoreInv
    <3> QED BY <2>1, <3>1, PairsAt DEF PairsOK
  <2>3. CASE i # n
    <3>1. i \in DOMAIN keys /\ keys'[i] = keys[i] /\ values'[i] = values[i]
      BY <1>1, <1>2, <1>5, <2>3 DEF StoreInv
    <3> QED BY <2>1, <3>1, PairsAt DEF PairsOK
  <2> QED BY <2>2, <2>3
<1>6. \A j \in Stored' : Pairs'[j] = Pairs[j]
  BY <1>5 DEF Stored
<1> QED BY <1>1, <1>3, <1>4, <1>6 DEF Pairs

\* The cardinality in the map's module is the same operator.
LEMMA SameCardinality == KV!Cardinality(Stored) = Cardinality(Stored)
BY DEF KV!Cardinality, Cardinality

LEMMA EmptyMaps ==
  ASSUME keys' = <<>>, values' = <<>>
  PROVE StoreInv' /\ Pairs' = [k \in {} |-> 0]
BY DEF StoreInv, Pairs, Stored

\* Every call is one of the map's calls.
LEMMA CallMaps ==
  ASSUME StoreInv, StoreNext PROVE StoreInv' /\ KV!KVNext
<1> USE DEF KV!KVNext
<1>1. ASSUME NEW k \in Keys, NEW v \in Values, Persist(k, v) PROVE StoreInv' /\ KV!KVPersist(k, v)
  <2>1. CASE (k \in LongKeys \/ Length[v] > MaxValLen) /\ answer' = "BufferTooSmall"
             /\ UNCHANGED <<keys, values>>
    <3>1. StoreInv' /\ Pairs' = Pairs
      BY <2>1 DEF StoreInv, Pairs, Stored, Index, At
    <3> QED BY <2>1, <3>1 DEF KV!KVPersist, Pairs
  <2>2. CASE k \notin LongKeys /\ Length[v] <= MaxValLen /\ Overwrites(k, v) /\ answer' = "Ok"
    <3>1. /\ StoreInv' /\ k \in Stored
          /\ Pairs' = [j \in Stored \cup {k} |-> IF j = k THEN v ELSE Pairs[j]]
      BY <2>2, OverwriteMaps
    <3> QED BY <2>2, <3>1 DEF KV!KVPersist, Pairs
  <2>3. CASE k \notin LongKeys /\ Length[v] <= MaxValLen /\ At(k) = {} /\ ~HasCapacity
             /\ answer' = "CapacityFull" /\ UNCHANGED <<keys, values>>
    <3>1. StoreInv' /\ Pairs' = Pairs
      BY <2>3 DEF StoreInv, Pairs, Stored, Index, At
    <3>2. k \notin Stored /\ Cardinality(Stored) >= MaxEntries
      BY <2>3, NotStored, StoredCount, MemStoreAssumption DEF HasCapacity, StoreInv
    <3> QED BY <2>3, <3>1, <3>2, SameCardinality DEF KV!KVPersist, Pairs
  <2>4. CASE k \notin LongKeys /\ Length[v] <= MaxValLen /\ HasCapacity /\ Adds(k, v)
             /\ answer' = "Ok"
    <3>1. /\ StoreInv' /\ k \notin Stored
          /\ Pairs' = [j \in Stored \cup {k} |-> IF j = k THEN v ELSE Pairs[j]]
      BY <2>4, AddMaps
    <3>2. Cardinality(Stored) < MaxEntries
      BY <2>4, StoredCount DEF HasCapacity
    <3> QED BY <2>4, <3>1, <3>2, SameCardinality DEF KV!KVPersist, Pairs
  <2> QED BY <1>1, <2>1, <2>2, <2>3, <2>4 DEF Persist, Overwrites, Adds
<1>2. ASSUME NEW k \in Keys, NEW n \in BufLens, Load(k, n) PROVE StoreInv' /\ KV!KVLoad(k, n)
  <2>1. StoreInv' /\ Pairs' = Pairs
    BY <1>2 DEF Load, StoreInv, Pairs, Stored, Index, At
  <2>2. At(k) = {} <=> k \notin Stored
    BY NotStored
  <2>3. k \in Stored => Pairs[k] = values[Index(k)]
    BY DEF Pairs
  <2>4. answer' = IF k \notin Stored THEN "None"
                  ELSE IF Length[Pairs[k]] > n THEN "BufferTooSmall" ELSE Pairs[k]
    BY <1>2, <2>2, <2>3 DEF Load
  <2> QED BY <2>1, <2>4 DEF KV!KVLoad, Pairs
<1>3. ASSUME NEW k \in Keys, RemoveKey(k) PROVE StoreInv' /\ KV!KVRemove(k)
  <2>1. CASE At(k) = {}
    <3>1. StoreInv' /\ Pairs' = Pairs
      BY <1>3, <2>1 DEF RemoveKey, StoreInv, Pairs, Stored, Index, At
    <3>2. k \notin Stored /\ answer' = "KeyNotFound"
      BY <1>3, <2>1, NotStored DEF RemoveKey
    <3>3. Pairs' = [j \in Stored \ {k} |-> Pairs[j]]
      BY <3>1, <3>2 DEF Pairs
    <3> QED BY <3>1, <3>2, <3>3 DEF KV!KVRemove, Pairs
  <2>2. CASE At(k) # {}
    <3>1. Removes(k) /\ answer' = "Ok"
      BY <1>3, <2>2 DEF RemoveKey, Removes, ValuesWithout
    <3>2. StoreInv' /\ k \in Stored /\ Pairs' = [j \in Stored \ {k} |-> Pairs[j]]
      BY <3>1, RemoveMaps
    <3> QED BY <3>1, <3>2 DEF KV!KVRemove, Pairs
  <2> QED BY <2>1, <2>2
<1>4. CASE Clear
  <2>1. StoreInv' /\ Pairs' = [k \in {} |-> 0] /\ answer' = "Ok"
    BY <1>4, EmptyMaps DEF Clear
  <2> QED BY <2>1 DEF KV!KVClear, Pairs
<1> QED BY <1>1, <1>2, <1>3, <1>4 DEF StoreNext

\* For every capacity, StaticMemStore's vectors implement a bounded map from keys
\* to values.
THEOREM StoreIsMap == StoreSpec => StoreImplementsKV
<1>1. StoreInit => StoreInv /\ KV!KVInit
  BY DEF StoreInit, StoreInv, KV!KVInit, Stored
<1>2. StoreInv /\ [StoreNext]_storeVars => StoreInv' /\ [KV!KVNext]_(KV!kvVars)
  <2> SUFFICES ASSUME StoreInv, [StoreNext]_storeVars
               PROVE StoreInv' /\ [KV!KVNext]_(KV!kvVars)
    OBVIOUS
  <2>1. CASE StoreNext
    BY <2>1, CallMaps
  <2>2. CASE UNCHANGED storeVars
    BY <2>2 DEF storeVars, StoreInv, KV!kvVars, Stored, Index, At
  <2> QED BY <2>1, <2>2
<1> QED BY <1>1, <1>2, PTL DEF StoreSpec, StoreImplementsKV, KV!KVSpec

-------------------------------------------------------------------------------
(* BroadcastHub. *)

Rising(s) == \A i, j \in DOMAIN s : i < j => s[i] < s[j]

\* What web client w was given, or is about to be.
Fed(w) == seen[w] \o out[w] \o held[w]

\* It comes from what was broadcast before the receiver's next position.
FedOK(w) ==
  /\ Rising(Fed(w))
  /\ \A i \in DOMAIN Fed(w) : \E k \in 1..(next[w] - 1) : Fed(w)[i] = sent[k]
  /\ ~lagged[w] => Fed(w) = SubSeq(sent, from[w], next[w] - 1)

ClientOK(w) ==
  /\ 1 <= from[w] /\ from[w] <= next[w] /\ next[w] <= Len(sent) + 1
  /\ task[w] = "none" => Fed(w) = <<>>
  /\ open[w] => FedOK(w)

HubTypes ==
  /\ arrived \in Nat /\ sent \in Seq(Nat) /\ stream \in Seq(Nat)
  /\ from \in [Clients -> Nat] /\ next \in [Clients -> Nat]
  /\ seen \in [Clients -> Seq(Nat)] /\ out \in [Clients -> Seq(Nat)]
  /\ held \in [Clients -> Seq(Nat)] /\ lagged \in [Clients -> BOOLEAN]
  /\ DOMAIN open = Clients /\ DOMAIN task = Clients

\* Messages are broadcast in the order of their numbers.
SentOK ==
  /\ Rising(sent) /\ Rising(stream)
  /\ \A i \in DOMAIN sent, j \in DOMAIN stream : sent[i] < stream[j]
  /\ \A i \in DOMAIN sent : sent[i] <= arrived
  /\ \A j \in DOMAIN stream : stream[j] <= arrived

HubInv == HubTypes /\ SentOK /\ \A w \in Clients : ClientOK(w)

\* What passing on and reading do to the three parts of Fed: nothing.
LEMMA PassedOn ==
  \A a, b, c \in Seq(Nat) : a \o (b \o c) \o <<>> = a \o b \o c
OBVIOUS

LEMMA HeadRead ==
  \A a, b, c \in Seq(Nat) : b # <<>> => Append(a, Head(b)) \o Tail(b) \o c = a \o b \o c
OBVIOUS

\* One more message is held.
LEMMA OneMore ==
  \A a, b \in Seq(Nat), e \in Nat : a \o b \o <<e>> = Append(a \o b \o <<>>, e)
OBVIOUS

LEMMA DomainNat == ASSUME NEW S, NEW s \in Seq(S) PROVE \A i \in DOMAIN s : i \in Nat \ {0}
OBVIOUS

LEMMA SubSeqMore ==
  ASSUME NEW S, NEW s \in Seq(S), NEW m \in Nat \ {0}, NEW n \in Nat \ {0}, m <= n, n <= Len(s)
  PROVE SubSeq(s, m, n) = Append(SubSeq(s, m, n - 1), s[n])
OBVIOUS

LEMMA SubSeqKept ==
  ASSUME NEW S, NEW s \in Seq(S), NEW e \in S, NEW m \in Nat \ {0}, NEW n \in Nat, n <= Len(s)
  PROVE SubSeq(Append(s, e), m, n) = SubSeq(s, m, n)
OBVIOUS

\* A client stays in order when its own part is left alone, or it leaves, whatever
\* is broadcast.
LEMMA ClientKept ==
  ASSUME HubInv, NEW v \in Clients,
         from'[v] = from[v], next'[v] = next[v], lagged'[v] = lagged[v],
         task'[v] = "none" => task[v] = "none",
         Fed(v)' = Fed(v) \/ (~open'[v] /\ task'[v] # "none"), open'[v] => open[v],
         sent' = sent \/ \E e \in Nat : sent' = Append(sent, e)
  PROVE ClientOK(v)'
<1> DEFINE n == next[v] - 1
<1>1. /\ from[v] \in Nat /\ next[v] \in Nat /\ 1 <= from[v] /\ from[v] <= next[v]
      /\ n <= Len(sent) /\ n \in Nat /\ sent \in Seq(Nat) /\ Len(sent) \in Nat
  BY DEF HubInv, HubTypes, ClientOK
<1>2. /\ Len(sent') \in Nat /\ Len(sent) <= Len(sent')
      /\ \A k \in 1..n : sent'[k] = sent[k]
      /\ SubSeq(sent', from[v], n) = SubSeq(sent, from[v], n)
  <2>1. CASE sent' = sent
    BY <1>1, <2>1
  <2>2. CASE \E e \in Nat : sent' = Append(sent, e)
    <3> PICK e \in Nat : sent' = Append(sent, e)
      BY <2>2
    <3> HIDE DEF n
    <3>1. Len(sent') = Len(sent) + 1 /\ \A k \in 1..n : sent'[k] = sent[k]
      BY <1>1
    <3>3. from[v] \in Nat \ {0}
      BY <1>1
    <3>4. \A x \in Nat \ {0}, y \in Nat :
            y <= Len(sent) => SubSeq(Append(sent, e), x, y) = SubSeq(sent, x, y)
      BY <1>1, SubSeqKept
    <3>2. SubSeq(sent', from[v], n) = SubSeq(sent, from[v], n)
      BY <1>1, <3>3, <3>4
    <3> QED BY <1>1, <3>1, <3>2
  <2> QED BY <2>1, <2>2
<1>3. open'[v] => FedOK(v)'
  <2> SUFFICES ASSUME open'[v] PROVE FedOK(v)'
    OBVIOUS
  <2>1. FedOK(v) /\ Fed(v)' = Fed(v)
    BY DEF HubInv, ClientOK
  <2>2. Rising(Fed(v))'
    BY <2>1 DEF FedOK, Rising
  <2>3. \A i \in DOMAIN Fed(v) : \E k \in 1..n : Fed(v)[i] = sent[k]
    BY <2>1 DEF FedOK
  <2>4. \A i \in DOMAIN Fed(v) : \E k \in 1..n : Fed(v)[i] = sent'[k]
    BY <1>2, <2>3
  <2>5. ~lagged[v] => Fed(v) = SubSeq(sent, from[v], n)
    BY <2>1 DEF FedOK
  <2>6. ~lagged[v] => Fed(v) = SubSeq(sent', from[v], n)
    BY <1>2, <2>5
  <2> QED BY <2>1, <2>2, <2>4, <2>6 DEF FedOK
<1>4. 1 <= from'[v] /\ from'[v] <= next'[v] /\ next'[v] <= Len(sent') + 1
  BY <1>1, <1>2
<1>5. task'[v] = "none" => Fed(v)' = <<>>
  BY DEF HubInv, ClientOK
<1> QED BY <1>3, <1>4, <1>5 DEF ClientOK

\* What is appended comes last, or nothing is.
LEMMA Appended ==
  ASSUME NEW s \in Seq(Nat), NEW e \in Nat, NEW t, t = s \/ t = Append(s, e)
  PROVE /\ t \in Seq(Nat)
        /\ \A j \in DOMAIN t :
             \/ j \in DOMAIN s /\ t[j] = s[j]
             \/ t[j] = e /\ \A i \in DOMAIN t : i <= j
<1>1. CASE t = s
  BY <1>1
<1>2. CASE t = Append(s, e)
  <2>1. Len(s) \in Nat /\ DOMAIN t = 1..(Len(s) + 1) /\ t[Len(s) + 1] = e
        /\ \A j \in 1..Len(s) : t[j] = s[j]
    BY <1>2
  <2> QED BY <1>2, <2>1
<1> QED BY <1>1, <1>2

\* The worker, the subscription and the hub.
LEMMA SourceKeeps ==
  ASSUME HubInv, Arrive \/ SourceEnds \/ WorkerSends \/ WorkerEnds \/ DropHub \/ UNCHANGED hubVars
  PROVE HubInv'
<1> DEFINE Moves == /\ arrived' \in Nat /\ sent' \in Seq(Nat) /\ stream' \in Seq(Nat) /\ SentOK'
                    /\ sent' = sent \/ \E e \in Nat : sent' = Append(sent, e)
<1>1. UNCHANGED clientVars
  BY DEF Arrive, SourceEnds, WorkerSends, WorkerEnds, DropHub, hubVars
<1>2. ASSUME Arrive PROVE Moves
  <2>1. /\ arrived' = arrived + 1 /\ sent' = sent
        /\ stream' = stream \/ stream' = Append(stream, arrived')
        /\ arrived \in Nat /\ sent \in Seq(Nat) /\ stream \in Seq(Nat)
    BY <1>2 DEF Arrive, HubInv, HubTypes
  <2>2. arrived' \in Nat /\ arrived' > arrived /\ stream' \in Seq(Nat) /\ sent' \in Seq(Nat)
    BY <2>1, Appended
  <2>3. \A j \in DOMAIN stream' :
          \/ j \in DOMAIN stream /\ stream'[j] = stream[j]
          \/ stream'[j] = arrived' /\ \A i \in DOMAIN stream' : i <= j
    BY <2>1, <2>2, Appended
  <2>4. \A j \in DOMAIN stream : stream[j] \in Nat /\ stream[j] < arrived'
    BY <2>1, <2>2 DEF HubInv, HubTypes, SentOK
  <2>5. \A i \in DOMAIN sent : sent[i] \in Nat /\ sent[i] < arrived'
    BY <2>1, <2>2 DEF HubInv, HubTypes, SentOK
  <2>6. Rising(stream')
    <3> SUFFICES ASSUME NEW i \in DOMAIN stream', NEW j \in DOMAIN stream', i < j
                 PROVE stream'[i] < stream'[j]
      BY DEF Rising
    <3>1. i \in Nat /\ j \in Nat
      BY <2>2
    <3>2. i \in DOMAIN stream /\ stream'[i] = stream[i]
      BY <2>3, <3>1
    <3> QED BY <2>3, <2>4, <3>2 DEF HubInv, SentOK, Rising
  <2>7. Rising(sent')
    BY <2>1 DEF HubInv, SentOK
  <2>8. \A j \in DOMAIN stream' : stream'[j] <= arrived'
    BY <2>2, <2>3, <2>4
  <2>9. \A i \in DOMAIN sent' : sent'[i] <= arrived'
    BY <2>1, <2>2, <2>5
  <2>10. \A i \in DOMAIN sent', j \in DOMAIN stream' : sent'[i] < stream'[j]
    <3> SUFFICES ASSUME NEW i \in DOMAIN sent', NEW j \in DOMAIN stream' PROVE sent'[i] < stream'[j]
      OBVIOUS
    <3>1. CASE j \in DOMAIN stream /\ stream'[j] = stream[j]
      BY <2>1, <3>1 DEF HubInv, SentOK
    <3>2. CASE stream'[j] = arrived'
      BY <2>1, <2>5, <3>2
    <3> QED BY <2>3, <3>1, <3>2
  <2>11. SentOK'
    BY <2>6, <2>7, <2>8, <2>9, <2>10 DEF SentOK
  <2> QED BY <2>1, <2>2, <2>11
<1>3. ASSUME WorkerSends PROVE Moves
  <2> DEFINE h == Head(stream)
  <2>1. /\ arrived' = arrived /\ stream # <<>> /\ stream' = Tail(stream)
        /\ sent' = sent \/ sent' = Append(sent, h)
        /\ arrived \in Nat /\ sent \in Seq(Nat) /\ stream \in Seq(Nat)
    BY <1>3 DEF WorkerSends, HubInv, HubTypes
  <2>2. /\ h \in Nat /\ 1 \in DOMAIN stream /\ h = stream[1] /\ stream' \in Seq(Nat)
        /\ \A j \in DOMAIN stream' :
             j + 1 \in DOMAIN stream /\ 1 < j + 1 /\ stream'[j] = stream[j + 1]
    BY <2>1 DEF HubInv, HubTypes
  <2> HIDE DEF h
  <2>3. arrived' \in Nat /\ sent' \in Seq(Nat)
    BY <2>1, <2>2, Appended
  <2>4. Rising(stream')
    <3> SUFFICES ASSUME NEW i \in DOMAIN stream', NEW j \in DOMAIN stream', i < j
                 PROVE stream'[i] < stream'[j]
      BY DEF Rising
    <3>1. i + 1 < j + 1
      BY <2>2
    <3> QED BY <2>2, <3>1 DEF HubInv, SentOK, Rising
  <2>5. \A j \in DOMAIN stream' : h < stream'[j] /\ stream'[j] <= arrived'
    BY <2>1, <2>2 DEF HubInv, SentOK, Rising
  <2>6. \A i \in DOMAIN sent : sent[i] < h /\ sent[i] <= arrived'
    BY <2>1, <2>2 DEF HubInv, SentOK
  <2>7. h <= arrived'
    BY <2>1, <2>2 DEF HubInv, SentOK
  <2>8. \A i \in DOMAIN sent' :
          \/ i \in DOMAIN sent /\ sent'[i] = sent[i]
          \/ sent'[i] = h /\ \A j \in DOMAIN sent' : j <= i
    BY <2>1, <2>2, Appended
  <2>9. Rising(sent')
    <3> SUFFICES ASSUME NEW i \in DOMAIN sent', NEW j \in DOMAIN sent', i < j
                 PROVE sent'[i] < sent'[j]
      BY DEF Rising
    <3>1. i \in Nat /\ j \in Nat
      BY <2>3
    <3>2. i \in DOMAIN sent /\ sent'[i] = sent[i]
      BY <2>8, <3>1
    <3> QED BY <2>6, <2>8, <3>2 DEF HubInv, SentOK, Rising
  <2>10. \A i \in DOMAIN sent', j \in DOMAIN stream' : sent'[i] < stream'[j]
    BY <2>2, <2>5, <2>8 DEF HubInv, SentOK
  <2>11. SentOK'
    BY <2>4, <2>5, <2>6, <2>7, <2>8, <2>9, <2>10 DEF SentOK
  <2> QED BY <2>1, <2>2, <2>3, <2>11
<1>4. ASSUME UNCHANGED <<arrived, sent, stream>> PROVE Moves
  BY <1>4 DEF HubInv, HubTypes, SentOK
<1>5. Moves
  BY <1>2, <1>3, <1>4 DEF SourceEnds, WorkerEnds, DropHub, hubVars
<1>6. HubTypes'
  BY <1>1, <1>5 DEF HubInv, HubTypes, clientVars
<1>7. ASSUME NEW v \in Clients PROVE ClientOK(v)'
  <2>1. Fed(v)' = Fed(v)
    BY <1>1 DEF Fed, clientVars
  <2> QED BY <1>1, <1>5, <2>1, ClientKept DEF clientVars
<1> QED BY <1>5, <1>6, <1>7 DEF HubInv

\* A step of client w: the channel and the other clients are left alone.
LEMMA ClientSteps ==
  ASSUME HubInv, NEW w \in Clients, UNCHANGED <<arrived, sent, stream>>, HubTypes', ClientOK(w)',
         \A v \in Clients \ {w} :
           /\ from'[v] = from[v] /\ next'[v] = next[v] /\ lagged'[v] = lagged[v]
           /\ task'[v] = task[v] /\ open'[v] = open[v]
           /\ seen'[v] = seen[v] /\ out'[v] = out[v] /\ held'[v] = held[v]
  PROVE HubInv'
<1>1. SentOK'
  BY DEF HubInv, SentOK
<1>2. ASSUME NEW v \in Clients \ {w} PROVE ClientOK(v)'
  <2>1. Fed(v)' = Fed(v)
    BY <1>2 DEF Fed
  <2> QED BY <1>2, <2>1, ClientKept
<1> QED BY <1>1, <1>2 DEF HubInv

LEMMA SubscribeKeeps ==
  ASSUME HubInv, NEW w \in Clients, Subscribe(w) PROVE HubInv'
<1>1. HubTypes'
  BY DEF HubInv, HubTypes, Subscribe
<1>2. Fed(w)' = <<>> /\ from'[w] = Len(sent) + 1 /\ next'[w] = Len(sent) + 1 /\ sent' = sent
  BY DEF HubInv, HubTypes, ClientOK, Subscribe, Fed
<1>3. Len(sent) \in Nat
  BY DEF HubInv, HubTypes
<1>4. SubSeq(sent, Len(sent) + 1, Len(sent)) = <<>>
  BY <1>3
<1>5. ClientOK(w)'
  BY <1>2, <1>3, <1>4 DEF ClientOK, FedOK, Rising
<1>6. \A v \in Clients \ {w} :
           /\ from'[v] = from[v] /\ next'[v] = next[v] /\ lagged'[v] = lagged[v]
           /\ task'[v] = task[v] /\ open'[v] = open[v]
           /\ seen'[v] = seen[v] /\ out'[v] = out[v] /\ held'[v] = held[v]
  BY DEF Subscribe, HubInv, HubTypes
<1> QED BY <1>1, <1>5, <1>6, ClientSteps DEF Subscribe

LEMMA LagKeeps ==
  ASSUME HubInv, NEW w \in Clients, Lag(w) PROVE HubInv'
<1>1. Oldest \in Nat /\ next[w] < Oldest /\ Oldest <= Len(sent) + 1 /\ Len(sent) \in Nat
  <2>1. next[w] < Oldest /\ next[w] \in Nat /\ Len(sent) \in Nat
    BY DEF Lag, HubInv, HubTypes
  <2> QED BY <2>1, HubAssumption DEF Oldest
<1>2. HubTypes'
  BY <1>1 DEF HubInv, HubTypes, Lag
<1>3. /\ Fed(w)' = Fed(w) /\ from'[w] = from[w] /\ next'[w] = Oldest /\ lagged'[w]
      /\ UNCHANGED <<sent, open, task>>
  BY DEF HubInv, HubTypes, Lag, Fed
<1>4. from[w] \in Nat /\ next[w] \in Nat /\ ClientOK(w)
  BY DEF HubInv, HubTypes
<1>5. ClientOK(w)'
  <2>1. open[w] => FedOK(w)'
    <3> SUFFICES ASSUME open[w] PROVE FedOK(w)'
      OBVIOUS
    <3>1. FedOK(w)
      BY <1>4 DEF ClientOK
    <3>2. Rising(Fed(w)')
      BY <1>3, <3>1 DEF FedOK
    <3>3. \A k \in 1..(next[w] - 1) : k \in 1..(Oldest - 1)
      BY <1>1, <1>4
    <3>4. \A i \in DOMAIN Fed(w) : \E k \in 1..(next[w] - 1) : Fed(w)[i] = sent[k]
      BY <3>1 DEF FedOK
    <3>5. \A i \in DOMAIN Fed(w)' : \E k \in 1..(next'[w] - 1) : Fed(w)'[i] = sent'[k]
      BY <1>3, <3>3, <3>4
    <3>6. Rising(Fed(w))'
      BY <3>2 DEF Rising
    <3> QED BY <1>3, <3>5, <3>6 DEF FedOK
  <2> QED BY <1>1, <1>3, <1>4, <2>1 DEF ClientOK
<1>6. \A v \in Clients \ {w} :
           /\ from'[v] = from[v] /\ next'[v] = next[v] /\ lagged'[v] = lagged[v]
           /\ task'[v] = task[v] /\ open'[v] = open[v]
           /\ seen'[v] = seen[v] /\ out'[v] = out[v] /\ held'[v] = held[v]
  BY DEF Lag, HubInv, HubTypes
<1> QED BY <1>2, <1>5, <1>6, ClientSteps DEF Lag

LEMMA TakeKeeps ==
  ASSUME HubInv, NEW w \in Clients, Take(w) PROVE HubInv'
<1> DEFINE n == next[w]
           e == sent[n]
<1>1. /\ from[w] \in Nat \ {0} /\ n \in Nat \ {0} /\ from[w] <= n /\ n <= Len(sent)
      /\ Len(sent) \in Nat /\ sent \in Seq(Nat) /\ e \in Nat
      /\ seen[w] \in Seq(Nat) /\ out[w] \in Seq(Nat) /\ held[w] = <<>>
  BY DEF HubInv, HubTypes, ClientOK, Take, Idle
<1>2. HubTypes'
  <2>1. n + 1 \in Nat
    BY <1>1
  <2> HIDE DEF n, e
  <2>2. <<e>> \in Seq(Nat)
    BY <1>1
  <2>3. next' = [next EXCEPT ![w] = n + 1] /\ held' = [held EXCEPT ![w] = <<e>>]
    BY DEF Take, n, e
  <2>4. next' \in [Clients -> Nat] /\ held' \in [Clients -> Seq(Nat)]
    BY <2>1, <2>2, <2>3 DEF HubInv, HubTypes
  <2> QED BY <2>4 DEF HubInv, HubTypes, Take
<1>3. /\ from'[w] = from[w] /\ next'[w] = n + 1 /\ lagged'[w] = lagged[w]
      /\ task[w] = "running" /\ task'[w] = task[w] /\ open'[w] = open[w] /\ sent' = sent
      /\ seen'[w] = seen[w] /\ out'[w] = out[w] /\ held'[w] = <<e>>
  BY DEF HubInv, HubTypes, Take, Idle
<1>4. Fed(w) \in Seq(Nat) /\ Fed(w)' = Append(Fed(w), e)
  <2>1. Fed(w) = seen[w] \o out[w] \o <<>> /\ Fed(w)' = seen[w] \o out[w] \o <<e>>
    BY <1>1, <1>3 DEF Fed
  <2> HIDE DEF e
  <2>2. seen[w] \o out[w] \o <<>> \in Seq(Nat)
    BY <1>1
  <2>3. seen[w] \o out[w] \o <<e>> = Append(seen[w] \o out[w] \o <<>>, e)
    BY <1>1, OneMore
  <2> QED BY <2>1, <2>2, <2>3
<1> HIDE DEF n, e
<1>5. open[w] => FedOK(w)'
  <2> SUFFICES ASSUME open[w] PROVE FedOK(w)'
    OBVIOUS
  <2>1. FedOK(w)
    BY DEF HubInv, ClientOK
  <2>2. e = sent[n] /\ n = next[w]
    BY DEF e, n
  <2>3. \A i \in DOMAIN Fed(w) : Fed(w)[i] \in Nat /\ Fed(w)[i] < e
    <3> SUFFICES ASSUME NEW i \in DOMAIN Fed(w) PROVE Fed(w)[i] \in Nat /\ Fed(w)[i] < e
      OBVIOUS
    <3>1. PICK k \in 1..(n - 1) : Fed(w)[i] = sent[k]
      BY <2>1, <2>2 DEF FedOK
    <3>2. k \in DOMAIN sent /\ n \in DOMAIN sent /\ k < n
      BY <1>1
    <3> QED BY <1>1, <2>2, <3>1, <3>2 DEF HubInv, SentOK, Rising
  <2>4. \A j \in DOMAIN Fed(w)' :
          \/ j \in DOMAIN Fed(w) /\ Fed(w)'[j] = Fed(w)[j]
          \/ Fed(w)'[j] = e /\ \A i \in DOMAIN Fed(w)' : i <= j
    <3>1. \A s \in Seq(Nat) : \A j \in DOMAIN Append(s, e) :
            \/ j \in DOMAIN s /\ Append(s, e)[j] = s[j]
            \/ Append(s, e)[j] = e /\ \A i \in DOMAIN Append(s, e) : i <= j
      BY <1>1, Appended
    <3> QED BY <1>4, <3>1
  <2>5. Rising(Fed(w)')
    <3> SUFFICES ASSUME NEW i \in DOMAIN Fed(w)', NEW j \in DOMAIN Fed(w)', i < j
                 PROVE Fed(w)'[i] < Fed(w)'[j]
      BY DEF Rising
    <3>1. i \in Nat /\ j \in Nat
      <4>1. Append(Fed(w), e) \in Seq(Nat)
        BY <1>1, <1>4
      <4> QED BY <1>4, <4>1, DomainNat
    <3>2. i \in DOMAIN Fed(w) /\ Fed(w)'[i] = Fed(w)[i]
      BY <2>4, <3>1
    <3> QED BY <2>1, <2>3, <2>4, <3>2 DEF FedOK, Rising
  <2>6. \A i \in DOMAIN Fed(w)' : \E k \in 1..n : Fed(w)'[i] = sent[k]
    <3> SUFFICES ASSUME NEW i \in DOMAIN Fed(w)' PROVE \E k \in 1..n : Fed(w)'[i] = sent[k]
      OBVIOUS
    <3>1. CASE Fed(w)'[i] = e
      BY <1>1, <2>2, <3>1
    <3>2. CASE i \in DOMAIN Fed(w) /\ Fed(w)'[i] = Fed(w)[i]
      <4>1. PICK k \in 1..(n - 1) : Fed(w)[i] = sent[k]
        BY <2>1, <2>2, <3>2 DEF FedOK
      <4> QED BY <1>1, <3>2, <4>1
    <3> QED BY <2>4, <3>1, <3>2
  <2>7. ~lagged[w] => Fed(w)' = SubSeq(sent, from[w], n)
    <3>1. SubSeq(sent, from[w], n) = Append(SubSeq(sent, from[w], n - 1), sent[n])
      BY <1>1, SubSeqMore
    <3>2. ~lagged[w] => Fed(w) = SubSeq(sent, from[w], n - 1)
      BY <2>1, <2>2 DEF FedOK
    <3> QED BY <1>4, <2>2, <3>1, <3>2
  <2>8. next'[w] - 1 = n
    BY <1>1, <1>3
  <2> QED BY <1>3, <2>5, <2>6, <2>7, <2>8 DEF FedOK, Rising
<1>6. ClientOK(w)'
  BY <1>1, <1>3, <1>5 DEF ClientOK
<1>7. \A v \in Clients \ {w} :
           /\ from'[v] = from[v] /\ next'[v] = next[v] /\ lagged'[v] = lagged[v]
           /\ task'[v] = task[v] /\ open'[v] = open[v]
           /\ seen'[v] = seen[v] /\ out'[v] = out[v] /\ held'[v] = held[v]
  BY DEF Take, HubInv, HubTypes
<1> QED BY <1>2, <1>6, <1>7, ClientSteps DEF Take

\* The rest of a client's steps change neither what it was given nor its place.
LEMMA OthersKeep ==
  ASSUME HubInv, NEW w \in Clients, Closed(w) \/ Pass(w) \/ Read(w) \/ Leave(w) PROVE HubInv'
<1>1. /\ seen[w] \in Seq(Nat) /\ out[w] \in Seq(Nat) /\ held[w] \in Seq(Nat)
  BY DEF HubInv, HubTypes
<1>2. HubTypes'
  <2>1. /\ UNCHANGED <<arrived, sent, stream, from, next, lagged>>
        /\ DOMAIN open' = Clients /\ DOMAIN task' = Clients
    BY DEF Closed, Pass, Read, Leave, HubInv, HubTypes
  <2>2. CASE Closed(w)
    BY <2>1, <2>2 DEF Closed, HubInv, HubTypes
  <2>3. CASE Pass(w)
    <3>1. out[w] \o held[w] \in Seq(Nat) /\ <<>> \in Seq(Nat)
      BY <1>1
    <3> QED BY <1>1, <2>1, <2>3, <3>1 DEF Pass, HubInv, HubTypes
  <2>4. CASE Read(w)
    <3>1. Head(out[w]) \in Nat /\ Tail(out[w]) \in Seq(Nat)
      BY <1>1, <2>4 DEF Read
    <3>2. Append(seen[w], Head(out[w])) \in Seq(Nat)
      BY <1>1, <3>1
    <3> QED BY <2>1, <2>4, <3>1, <3>2 DEF Read, HubInv, HubTypes
  <2>5. CASE Leave(w)
    BY <2>1, <2>5 DEF Leave, HubInv, HubTypes
  <2> QED BY <2>2, <2>3, <2>4, <2>5
<1>3. Fed(w)' = Fed(w) \/ (~open'[w] /\ task'[w] # "none")
  <2>1. CASE Closed(w)
    BY <2>1 DEF Closed, Fed
  <2>2. CASE Pass(w)
    <3>1. held'[w] = <<>> /\ seen'[w] = seen[w]
      BY <2>2 DEF Pass, HubInv, HubTypes
    <3>2. CASE ~open[w]
      BY <2>2, <3>2 DEF Pass, HubInv, HubTypes
    <3>3. CASE open[w]
      <4>1. out'[w] = out[w] \o held[w]
        BY <2>2, <3>3 DEF Pass, HubInv, HubTypes
      <4>2. Fed(w)' = seen[w] \o (out[w] \o held[w]) \o <<>>
        BY <3>1, <4>1 DEF Fed
      <4>3. seen[w] \o (out[w] \o held[w]) \o <<>> = Fed(w)
        BY <1>1, PassedOn DEF Fed
      <4> QED BY <4>2, <4>3
    <3> QED BY <3>2, <3>3
  <2>3. CASE Read(w)
    <3>1. /\ out[w] # <<>> /\ seen'[w] = Append(seen[w], Head(out[w]))
          /\ out'[w] = Tail(out[w]) /\ held'[w] = held[w]
      BY <2>3 DEF Read, HubInv, HubTypes
    <3>2. Fed(w)' = Append(seen[w], Head(out[w])) \o Tail(out[w]) \o held[w]
      BY <3>1 DEF Fed
    <3>3. Append(seen[w], Head(out[w])) \o Tail(out[w]) \o held[w] = Fed(w)
      BY <1>1, <3>1, HeadRead DEF Fed
    <3> QED BY <3>2, <3>3
  <2>4. CASE Leave(w)
    BY <2>4 DEF Leave, HubInv, HubTypes
  <2> QED BY <2>1, <2>2, <2>3, <2>4
<1>4. /\ from'[w] = from[w] /\ next'[w] = next[w] /\ lagged'[w] = lagged[w] /\ sent' = sent
      /\ open'[w] => open[w]
  BY DEF Closed, Pass, Read, Leave, HubInv, HubTypes
<1>5. task'[w] = "none" => task[w] = "none"
  BY DEF Closed, Pass, Read, Leave, HubInv, HubTypes
<1>6. ClientOK(w)'
  BY <1>3, <1>4, <1>5, ClientKept
<1>7. \A v \in Clients \ {w} :
           /\ from'[v] = from[v] /\ next'[v] = next[v] /\ lagged'[v] = lagged[v]
           /\ task'[v] = task[v] /\ open'[v] = open[v]
           /\ seen'[v] = seen[v] /\ out'[v] = out[v] /\ held'[v] = held[v]
  BY DEF Closed, Pass, Read, Leave, HubInv, HubTypes
<1> QED BY <1>2, <1>6, <1>7, ClientSteps DEF Closed, Pass, Read, Leave

\* For every number of clients and messages and every capacity: a web client is
\* given what was broadcast in order, nothing twice, and nothing left out unless
\* its receiver was told that it lags.
THEOREM ClientsFedInOrder == HubSpec => []FedInOrder
<1>1. HubInit => HubInv
  BY DEF HubInit, HubInv, HubTypes, SentOK, Rising, ClientOK, FedOK, Fed
<1>2. HubInv /\ [HubNext]_hubVars => HubInv'
  BY SourceKeeps, SubscribeKeeps, LagKeeps, TakeKeeps, OthersKeep DEF HubNext, TaskStep
<1>3. HubInv => FedInOrder
  BY DEF HubInv, ClientOK, FedOK, Fed, Rising, FedInOrder
<1> QED BY <1>1, <1>2, <1>3, PTL DEF HubSpec

-------------------------------------------------------------------------------
(* StreamPublish. *)

StreamTypeOK == /\ protocol \in {"V3_1_1", "V5"}
                /\ transport \in {"up", "down"} /\ writer \in {"none", "open"}
                /\ reading \in {"right", "astray"} /\ told \in {"nothing", "unfinished"}
                /\ client \in {"connected", "disconnected", "panicked"}
                /\ finished \in {"none", "ok", "error"}
                /\ remaining \in Nat /\ expects \in Nat

\* The writer counts what the broker expects.
Counted == writer = "open" /\ reading = "right" =>
             /\ expects <= remaining
             /\ (transport = "up" => expects = remaining)

\* Between messages the broker waits for nothing, unless the program was told
\* so or has panicked.
Between == writer = "none" /\ client # "panicked" /\ expects > 0 => told = "unfinished"

\* The result of finish is the last writer's.
ResultOfLast == writer = "open" => finished = "none" /\ client # "panicked"

StreamInv == StreamTypeOK /\ Counted /\ Between /\ ResultOfLast /\ InStep /\ FinishedIsWhole

\* Exactly the header that was announced is written.
LEMMA HeaderIsAnnounced ==
  ASSUME NEW topic \in TopicLengths, NEW qos \in 0..2, StreamTypeOK
  PROVE  /\ HeaderLength(topic, qos) \in Nat
         /\ Written(topic, qos) = HeaderLength(topic, qos)
BY StreamPublishAssumption DEF HeaderLength, Written, Identifier, StreamTypeOK

LEMMA InitStreamInv == StreamInit => StreamInv
BY DEF StreamInit, StreamInv, StreamTypeOK, Counted, Between, ResultOfLast, InStep,
       FinishedIsWhole

LEMMA StepStreamInv == StreamInv /\ [StreamNext]_streamVars => StreamInv'
<1> SUFFICES ASSUME StreamInv, [StreamNext]_streamVars PROVE StreamInv'
  OBVIOUS
<1> USE StreamPublishAssumption
    DEF StreamInv, StreamTypeOK, Counted, Between, ResultOfLast, InStep, FinishedIsWhole
<1>1. CASE StreamConnect
  BY <1>1 DEF StreamConnect, NewLink
<1>2. CASE Finish
  BY <1>2 DEF Finish
<1>3. CASE DropWriter
  BY <1>3 DEF DropWriter
<1>4. CASE SendPacket
  BY <1>4 DEF SendPacket, PacketArrives, ClientFree
<1>5. CASE StreamDisconnect
  BY <1>5 DEF StreamDisconnect, ClientFree
<1>6. CASE LinkBreaks
  BY <1>6 DEF LinkBreaks
<1>7. ASSUME NEW topic \in TopicLengths, NEW total \in Totals, NEW qos \in 0..2,
             \/ BeginOk(topic, total, qos) \/ BeginFails(topic, total, qos)
             \/ BeginPanics(topic, total, qos) \/ BeginUnsent(topic, total, qos)
      PROVE  StreamInv'
  <2>1. /\ HeaderLength(topic, qos) \in Nat /\ total \in Nat
        /\ Written(topic, qos) = HeaderLength(topic, qos)
    BY HeaderIsAnnounced
  <2>2. CASE BeginOk(topic, total, qos)
    BY <2>1, <2>2 DEF BeginOk, PacketArrives, ClientFree
  <2>3. CASE BeginFails(topic, total, qos)
    BY <2>1, <2>3 DEF BeginFails, PacketArrives, ClientFree
  <2>4. CASE BeginPanics(topic, total, qos)
    BY <2>1, <2>4 DEF BeginPanics, PacketArrives, ClientFree
  <2>5. CASE BeginUnsent(topic, total, qos)
    BY <2>1, <2>5 DEF BeginUnsent, PacketArrives, ClientFree
  <2> QED BY <1>7, <2>2, <2>3, <2>4, <2>5
<1>8. ASSUME NEW qos \in 1..2, BeginRefused(qos) PROVE StreamInv'
  BY <1>8 DEF BeginRefused, ClientFree
<1>9. ASSUME NEW n \in Pieces, WriteOk(n) PROVE StreamInv'
  <2>1. n \in Nat /\ n <= remaining
    BY <1>9 DEF WriteOk, Fits
  <2>2. \/ reading = "astray" /\ reading' = "astray"
        \/ /\ reading = "right" /\ reading' = "right"
           /\ expects = remaining /\ expects' = remaining - n
    BY <1>9, <2>1 DEF WriteOk, Arrives
  <2>3. expects' \in Nat /\ remaining' \in Nat
    BY <1>9, <2>1 DEF WriteOk, Arrives
  <2> QED BY <1>9, <2>1, <2>2, <2>3 DEF WriteOk
<1>10. ASSUME NEW n \in Pieces, WriteFails(n) PROVE StreamInv'
  <2>1. n \in Nat /\ n <= remaining
    BY <1>10 DEF WriteFails, Fits
  <2>2. PICK k \in 0..n : k < n /\ Arrives(IF transport = "up" THEN k ELSE 0)
    BY <1>10 DEF WriteFails
  <2>3. expects' \in Nat /\ remaining' = remaining
    BY <1>10, <2>2 DEF WriteFails, Arrives, LeftUnsent
  <2>4. \/ reading = "astray" /\ reading' = "astray"
        \/ reading = "right" /\ reading' = "right" /\ expects' <= remaining
    <3>1. CASE transport = "up"
      BY <1>10, <2>1, <2>2, <3>1 DEF WriteFails, Arrives
    <3>2. CASE transport = "down"
      BY <1>10, <2>1, <2>2, <3>2 DEF WriteFails, Arrives
    <3> QED BY <3>1, <3>2
  <2> QED BY <1>10, <2>3, <2>4 DEF WriteFails
<1>11. ASSUME NEW p \in streamed, Acknowledged(p) PROVE StreamInv'
  BY <1>11 DEF Acknowledged, ClientFree
<1>12. CASE UNCHANGED streamVars
  BY <1>12 DEF streamVars
<1> QED
  BY <1>1, <1>2, <1>3, <1>4, <1>5, <1>6, <1>7, <1>8, <1>9, <1>10, <1>11, <1>12
  DEF StreamNext

\* Whatever is streamed, refused, abandoned or lost, the broker takes a packet
\* for a part of another only after the program was told of an unfinished one.
THEOREM StreamsStayInStep == StreamSpec => []InStep
<1>1. StreamInv => InStep
  BY DEF StreamInv
<1> QED
  BY InitStreamInv, StepStreamInv, <1>1, PTL DEF StreamSpec

\* A finish that returns Ok means that the broker has the whole message, unless an
\* earlier one, left unfinished, had put it out of step.
THEOREM FinishMeansWhole == StreamSpec => []FinishedIsWhole
<1>1. StreamInv => FinishedIsWhole
  BY DEF StreamInv
<1> QED
  BY InitStreamInv, StepStreamInv, <1>1, PTL DEF StreamSpec

-------------------------------------------------------------------------------
(* KeepAlive. *)

PingTypeOK == /\ phase \in Connecting \cup Recovering \cup Driving
              /\ sinceTx \in Nat /\ toTick \in 0..KeepAlive
              /\ silence \in Nat /\ heldUp \in Nat
              /\ broker \in {"up", "hung"}

\* last_tx is at least as old as the last transmission.
TxNotYounger == phase \in Driving => silence <= sinceTx + heldUp

\* A tick that still has to come finds the interval elapsed, or leaves the ping
\* to a tick before the bound; a write resets the interval.
TickInTime == phase \in {"select", "read"} /\ toTick > 0 => sinceTx + toTick < 2 * KeepAlive

\* From CONNECT to the driven connection the loop does nothing but wait.
OnlyHeldUp == phase \in {"handshake"} \cup Recovering => silence <= heldUp

PingInv == PingTypeOK /\ TxNotYounger /\ TickInTime /\ OnlyHeldUp /\ SilenceBounded

LEMMA InitPingInv == PingInit => PingInv
BY KeepAliveAssumption
DEF PingInit, PingInv, PingTypeOK, TxNotYounger, TickInTime, OnlyHeldUp, SilenceBounded,
    Connecting, Recovering, Driving

LEMMA StepPingInv == PingInv /\ [PingNext]_pingVars => PingInv'
<1> SUFFICES ASSUME PingInv, [PingNext]_pingVars PROVE PingInv'
  OBVIOUS
<1> USE KeepAliveAssumption
    DEF PingInv, PingTypeOK, TxNotYounger, TickInTime, OnlyHeldUp, SilenceBounded,
        Connecting, Recovering, Driving
<1>1. CASE SendConnect
  BY <1>1 DEF SendConnect
<1>2. CASE ConnAck
  BY <1>2 DEF ConnAck
<1>3. CASE HandshakeFails
  BY <1>3 DEF HandshakeFails
<1>4. CASE Resend
  BY <1>4 DEF Resend
<1>5. CASE Drive
  BY <1>5 DEF Drive
<1>6. CASE BeginWrite
  BY <1>6 DEF BeginWrite
<1>7. CASE EndWrite
  BY <1>7 DEF EndWrite
<1>8. CASE BeginRead
  BY <1>8 DEF BeginRead
<1>9. CASE EndRead
  BY <1>9 DEF EndRead
<1>10. CASE Tick
  <2>1. CASE PingDue
    \* The ping is written next, and before that nothing else is.
    BY <1>10, <2>1 DEF Tick, PingDue
  <2>2. CASE ~PingDue
    BY <1>10, <2>2 DEF Tick, PingDue
  <2> QED BY <2>1, <2>2
<1>11. CASE PingDrop
  BY <1>11 DEF PingDrop
<1>12. CASE BrokerHangs
  BY <1>12 DEF BrokerHangs
<1>13. CASE Wait
  BY <1>13 DEF Wait, TimePasses
<1>14. CASE HeldUp
  BY <1>14 DEF HeldUp, TimePasses
<1>15. CASE UNCHANGED pingVars
  BY <1>15 DEF pingVars
<1> QED
  BY <1>1, <1>2, <1>3, <1>4, <1>5, <1>6, <1>7, <1>8, <1>9, <1>10, <1>11, <1>12,
     <1>13, <1>14, <1>15 DEF PingNext

\* However requests, reads, ticks and lost connections interleave, the broker
\* hears from the loop in less than twice keep_alive, besides the time the loop
\* is held up in its own awaits.
THEOREM SilenceIsBounded == PingSpec => []SilenceBounded
<1>1. PingInv => SilenceBounded
  BY DEF PingInv
<1> QED
  BY InitPingInv, StepPingInv, <1>1, PTL DEF PingSpec

-------------------------------------------------------------------------------
(* Dial. *)

\* A fixed point of a recursive function is the function.
LEMMA FactorIs ==
  /\ Factor[0] = <<1, 1>>
  /\ \A exp \in 1..10 : Factor[exp] = Multiplied(Factor[exp - 1])
<1> DEFINE p0 == <<1, 1>>
           p1 == Multiplied(p0)
           p2 == Multiplied(p1)
           p3 == Multiplied(p2)
           p4 == Multiplied(p3)
           p5 == Multiplied(p4)
           p6 == Multiplied(p5)
           p7 == Multiplied(p6)
           p8 == Multiplied(p7)
           p9 == Multiplied(p8)
           p10 == Multiplied(p9)
           body(g) == [exp \in 0..10 |-> IF exp = 0 THEN <<1, 1>> ELSE Multiplied(g[exp - 1])]
           f == [exp \in 0..10 |-> CASE exp = 0 -> p0 [] exp = 1 -> p1 [] exp = 2 -> p2
                   [] exp = 3 -> p3 [] exp = 4 -> p4 [] exp = 5 -> p5 [] exp = 6 -> p6
                   [] exp = 7 -> p7 [] exp = 8 -> p8 [] exp = 9 -> p9 [] OTHER -> p10]
<1>1. /\ p0 = <<1, 1>> /\ p1 = Multiplied(p0) /\ p2 = Multiplied(p1) /\ p3 = Multiplied(p2)
      /\ p4 = Multiplied(p3) /\ p5 = Multiplied(p4) /\ p6 = Multiplied(p5)
      /\ p7 = Multiplied(p6) /\ p8 = Multiplied(p7) /\ p9 = Multiplied(p8)
      /\ p10 = Multiplied(p9)
  OBVIOUS
<1> HIDE DEF p0, p1, p2, p3, p4, p5, p6, p7, p8, p9, p10
<1>2. f = body(f)
  <2>1. ASSUME NEW exp \in 0..10 PROVE f[exp] = body(f)[exp]
    <3>1. \A x, y \in 0..10 : x # y => (x = y + 1 => y = x - 1)
      OBVIOUS
    <3>2. \/ exp = 0 \/ exp = 1 \/ exp = 2 \/ exp = 3 \/ exp = 4 \/ exp = 5
          \/ exp = 6 \/ exp = 7 \/ exp = 8 \/ exp = 9 \/ exp = 10
      OBVIOUS
    <3> QED BY <1>1, <3>2
  <2> QED BY <2>1
<1>3. Factor = CHOOSE g : g = body(g)
  BY DEF Factor
<1> HIDE DEF f
<1>4. Factor = body(Factor)
  <2>1. \E g : g = body(g)
    BY <1>2
  <2> HIDE DEF body
  <2> QED BY <1>3, <2>1
<1> QED BY <1>4

\* A fraction: its denominator is not zero.
IsFraction(f) == f = <<f[1], f[2]>> /\ f[1] \in Nat /\ f[2] \in Nat \ {0}

LEMMA MultipliedIs ==
  ASSUME NEW f, IsFraction(f) PROVE IsFraction(Multiplied(f))
<1>1. \A x, y \in Nat : x * y \in Nat
  OBVIOUS
<1>2. \A x, y \in Nat \ {0} : x * y \in Nat \ {0}
  OBVIOUS
<1> QED BY <1>1, <1>2, DialAssumption DEF IsFraction, Multiplied

LEMMA FactorType == \A exp \in 0..10 : IsFraction(Factor[exp])
<1>1. IsFraction(Factor[0])
  BY FactorIs DEF IsFraction
<1>2. ASSUME NEW exp \in 1..10, IsFraction(Factor[exp - 1]) PROVE IsFraction(Factor[exp])
  BY <1>2, FactorIs, MultipliedIs
<1>3. IsFraction(Factor[1])
  <2>1. 1 \in 1..10 /\ 1 - 1 = 0
    OBVIOUS
  <2> QED BY <1>2, <1>1, <2>1
<1>4. IsFraction(Factor[2])
  <2>1. 2 \in 1..10 /\ 2 - 1 = 1
    OBVIOUS
  <2> QED BY <1>2, <1>3, <2>1
<1>5. IsFraction(Factor[3])
  <2>1. 3 \in 1..10 /\ 3 - 1 = 2
    OBVIOUS
  <2> QED BY <1>2, <1>4, <2>1
<1>6. IsFraction(Factor[4])
  <2>1. 4 \in 1..10 /\ 4 - 1 = 3
    OBVIOUS
  <2> QED BY <1>2, <1>5, <2>1
<1>7. IsFraction(Factor[5])
  <2>1. 5 \in 1..10 /\ 5 - 1 = 4
    OBVIOUS
  <2> QED BY <1>2, <1>6, <2>1
<1>8. IsFraction(Factor[6])
  <2>1. 6 \in 1..10 /\ 6 - 1 = 5
    OBVIOUS
  <2> QED BY <1>2, <1>7, <2>1
<1>9. IsFraction(Factor[7])
  <2>1. 7 \in 1..10 /\ 7 - 1 = 6
    OBVIOUS
  <2> QED BY <1>2, <1>8, <2>1
<1>10. IsFraction(Factor[8])
  <2>1. 8 \in 1..10 /\ 8 - 1 = 7
    OBVIOUS
  <2> QED BY <1>2, <1>9, <2>1
<1>11. IsFraction(Factor[9])
  <2>1. 9 \in 1..10 /\ 9 - 1 = 8
    OBVIOUS
  <2> QED BY <1>2, <1>10, <2>1
<1>12. IsFraction(Factor[10])
  <2>1. 10 \in 1..10 /\ 10 - 1 = 9
    OBVIOUS
  <2> QED BY <1>2, <1>11, <2>1
<1>13. ASSUME NEW exp \in 0..10 PROVE IsFraction(Factor[exp])
  <2>1. \/ exp = 0 \/ exp = 1 \/ exp = 2 \/ exp = 3 \/ exp = 4 \/ exp = 5
        \/ exp = 6 \/ exp = 7 \/ exp = 8 \/ exp = 9 \/ exp = 10
    OBVIOUS
  <2> QED BY <1>1, <1>3, <1>4, <1>5, <1>6, <1>7, <1>8, <1>9, <1>10, <1>11, <1>12, <2>1
<1> QED BY <1>13

\* A quotient is the largest number that fits.
LEMMA QuotientFits ==
  ASSUME NEW x \in Nat, NEW d \in Nat \ {0}
  PROVE  /\ x \div d \in Nat /\ (x \div d) * d <= x
         /\ \A q \in Nat : q * d <= x => q <= x \div d
<1>1. x \div d \in Nat
  OBVIOUS
<1> DEFINE y == x \div d
<1>2. y \in Nat /\ y * d <= x /\ x < (y + 1) * d
  BY <1>1
<1> HIDE DEF y
<1>3. ASSUME NEW q \in Nat, q * d <= x PROVE q <= y
  <2>1. SUFFICES ASSUME q >= y + 1 PROVE FALSE
    BY <1>2
  <2>2. q * d >= (y + 1) * d
    BY <1>2, <2>1
  <2> QED BY <1>2, <1>3, <2>2
<1> QED BY <1>2, <1>3 DEF y

\* One more factor makes a delay no shorter if it is at least one, and no longer if
\* it is at most one: rounding keeps the order.
LEMMA ScaledPaced ==
  ASSUME NEW f, IsFraction(f)
  PROVE  Scaled(f) \in Nat /\ Paced(Scaled(f), Scaled(Multiplied(f)))
<1> DEFINE n == InitialDelay * f[1]
           d == f[2]
           N == MultiplierNum
           D == MultiplierDen
           a == Scaled(f)
           b == Scaled(Multiplied(f))
<1>1. n \in Nat /\ d \in Nat \ {0} /\ N \in Nat /\ D \in Nat \ {0}
  <2>1. \A x, y \in Nat : x * y \in Nat
    OBVIOUS
  <2> QED BY <2>1, DialAssumption DEF IsFraction
<1>2. InitialDelay * (N * f[1]) = N * n
  BY DialAssumption DEF IsFraction
<1>3. a = (2 * n + d) \div (2 * d) /\ b = (2 * (N * n) + D * d) \div (2 * (D * d))
  BY <1>2 DEF Scaled, Multiplied
<1> HIDE DEF n, d, N, D, a, b
<1>4. N * n \in Nat /\ D * d \in Nat \ {0} /\ 2 * (D * d) = (2 * d) * D
  BY <1>1
<1>5. /\ a \in Nat /\ a * (2 * d) <= 2 * n + d
      /\ \A q \in Nat : q * (2 * d) <= 2 * n + d => q <= a
  <2>1. 2 * n + d \in Nat /\ 2 * d \in Nat \ {0}
    BY <1>1
  <2> QED BY <1>3, <2>1, QuotientFits
<1>6. /\ b \in Nat /\ b * (2 * (D * d)) <= 2 * (N * n) + D * d
      /\ \A q \in Nat : q * (2 * (D * d)) <= 2 * (N * n) + D * d => q <= b
  <2>1. 2 * (N * n) + D * d \in Nat /\ 2 * (D * d) \in Nat \ {0}
    BY <1>4
  <2> QED BY <1>3, <2>1, QuotientFits
<1>7. ASSUME N >= D PROVE a <= b
  <2>1. (a * (2 * d)) * D <= (2 * n + d) * D
    BY <1>1, <1>5
  <2>2. D * n <= N * n
    BY <1>1, <1>7
  <2>3. a * (2 * (D * d)) = (a * (2 * d)) * D /\ (2 * n + d) * D = 2 * (D * n) + D * d
    BY <1>1, <1>5
  <2>4. a * (2 * (D * d)) <= 2 * (N * n) + D * d
    <3> DEFINE x == (a * (2 * d)) * D
               y == D * n
               z == N * n
               w == D * d
    <3>1. x \in Int /\ y \in Nat /\ z \in Nat /\ w \in Nat
      BY <1>1, <1>4, <1>5
    <3>2. x <= 2 * y + w /\ y <= z
      BY <2>1, <2>2, <2>3
    <3> HIDE DEF x, y, z, w
    <3>3. x <= 2 * z + w
      BY <3>1, <3>2
    <3> QED BY <2>3, <3>3 DEF x, z, w
  <2> QED BY <1>5, <1>6, <2>4
<1>8. ASSUME N <= D PROVE b <= a
  <2>1. N * n <= D * n
    BY <1>1, <1>8
  <2>2. b * (2 * (D * d)) = (b * (2 * d)) * D /\ (2 * n + d) * D = 2 * (D * n) + D * d
    BY <1>1, <1>6
  <2>3. (b * (2 * d)) * D <= (2 * n + d) * D
    <3> DEFINE x == (b * (2 * d)) * D
               y == D * n
               z == N * n
               w == D * d
    <3>1. x \in Int /\ y \in Nat /\ z \in Nat /\ w \in Nat
      BY <1>1, <1>4, <1>6
    <3>2. x <= 2 * z + w /\ z <= y
      BY <1>6, <2>1, <2>2
    <3> HIDE DEF x, y, z, w
    <3>3. x <= 2 * y + w
      BY <3>1, <3>2
    <3> QED BY <2>2, <3>3 DEF x, y, w
  <2>4. b * (2 * d) <= 2 * n + d
    <3> DEFINE x == b * (2 * d)
               y == 2 * n + d
    <3>1. x \in Nat /\ y \in Nat /\ x * D <= y * D
      BY <1>1, <1>6, <2>3
    <3> HIDE DEF x, y
    <3>2. x <= y
      BY <1>1, <3>1
    <3> QED BY <3>2 DEF x, y
  <2> QED BY <1>5, <1>6, <2>4
<1>9. Paced(a, b)
  BY <1>7, <1>8 DEF Paced, N, D
<1> QED BY <1>5, <1>9 DEF a, b

\* compute_delay: no pause for the first attempt, the initial one or the maximum for
\* the second, and from then on the multiplier decides in which direction they go.
LEMMA DelayPaced ==
  /\ ComputeDelay(1) = 0
  /\ ComputeDelay(2) = Least(InitialDelay, MaxDelay)
  /\ \A n \in Nat : n >= 2 => ComputeDelay(n) \in 0..MaxDelay
  /\ \A n \in Nat : n >= 2 => Paced(ComputeDelay(n), ComputeDelay(n + 1))
<1>1. \A x \in Nat : Least(x, MaxDelay) \in 0..MaxDelay
  BY DialAssumption DEF Least
<1>2. \A x, y \in Nat : Paced(x, y) => Paced(Least(x, MaxDelay), Least(y, MaxDelay))
  BY DialAssumption DEF Least, Paced
<1>3. ASSUME NEW n \in Nat, n >= 2
      PROVE  /\ ComputeDelay(n) \in 0..MaxDelay
             /\ Paced(ComputeDelay(n), ComputeDelay(n + 1))
  <2> DEFINE k == Least(n - 2, 10)
             l == Least(n + 1 - 2, 10)
  <2>1. k \in 0..10 /\ l \in 0..10 /\ (l = k \/ (l \in 1..10 /\ k = l - 1))
    BY <1>3 DEF Least
  <2>2. /\ ComputeDelay(n) = Least(Scaled(Factor[k]), MaxDelay)
        /\ ComputeDelay(n + 1) = Least(Scaled(Factor[l]), MaxDelay)
    BY <1>3 DEF ComputeDelay
  <2> HIDE DEF k, l
  <2> DEFINE a == Scaled(Factor[k])
             b == Scaled(Factor[l])
  <2>3. a \in Nat /\ b \in Nat
    BY <2>1, FactorType, ScaledPaced
  <2>4. Paced(a, b)
    <3>1. CASE l = k
      BY <2>3, <3>1 DEF Paced
    <3>2. CASE l \in 1..10 /\ k = l - 1
      <4>1. Factor[l] = Multiplied(Factor[k])
        BY <3>2, FactorIs
      <4> QED BY <2>1, <4>1, FactorType, ScaledPaced
    <3> QED BY <2>1, <3>1, <3>2
  <2> HIDE DEF a, b
  <2>5. Least(a, MaxDelay) \in 0..MaxDelay /\ Paced(Least(a, MaxDelay), Least(b, MaxDelay))
    BY <1>1, <1>2, <2>3, <2>4
  <2> QED BY <2>2, <2>5 DEF a, b
<1>4. ComputeDelay(1) = 0
  BY DEF ComputeDelay
<1>5. ComputeDelay(2) = Least(InitialDelay, MaxDelay)
  <2>1. Least(2 - 2, 10) = 0
    BY DEF Least
  <2>2. Scaled(Factor[0]) = (2 * InitialDelay + 1) \div 2
    BY FactorIs, DialAssumption DEF Scaled
  <2>3. (2 * InitialDelay + 1) \div 2 = InitialDelay
    BY DialAssumption
  <2> QED BY <2>1, <2>2, <2>3 DEF ComputeDelay
<1> QED BY <1>3, <1>4, <1>5

\* The outage's attempts are counted, and each pause is that of its attempt.
BackoffInv ==
  /\ limit \in RetryLimits /\ tries \in Nat /\ pauses \in Seq(Nat)
  /\ \A i \in DOMAIN pauses : pauses[i] = ComputeDelay(i)
  /\ doing \in {"begin", "pause", "dial", "fallback", "handshake"} => Len(pauses) = tries
  /\ doing \in {"begin", "online"} => tries = 0
  /\ doing = "pause" /\ tries > 0 => ~LastAttempt
  /\ \A max \in limit : Len(pauses) <= (IF max > 1 THEN max ELSE 1)

LEMMA BackoffInit == DialInit => BackoffInv
<1> SUFFICES ASSUME DialInit PROVE BackoffInv
  OBVIOUS
<1>1. /\ limit \in RetryLimits /\ limit \subseteq Nat /\ tries = 0 /\ pauses = <<>>
      /\ doing = "begin"
  BY DialAssumption DEF DialInit
<1>2. pauses \in Seq(Nat) /\ Len(pauses) = 0 /\ DOMAIN pauses = {}
  BY <1>1
<1> QED BY <1>1, <1>2 DEF BackoffInv

LEMMA LimitType == ASSUME BackoffInv PROVE limit \subseteq Nat
BY DialAssumption DEF BackoffInv

LEMMA NextAttemptBacksOff ==
  ASSUME BackoffInv, NextAttempt PROVE BackoffInv'
<1>1. /\ tries \in Nat /\ pauses \in Seq(Nat) /\ Len(pauses) = tries /\ doing' = "dial"
      /\ tries' = tries + 1 /\ limit' = limit /\ limit \in RetryLimits
      /\ pauses' = Append(pauses, ComputeDelay(tries + 1))
  BY DEF BackoffInv, NextAttempt, options
<1> DEFINE d == ComputeDelay(tries + 1)
<1>2. d \in Nat
  <2>1. CASE tries + 1 >= 2
    <3>1. d \in 0..MaxDelay
      BY <1>1, <2>1, DelayPaced
    <3> QED BY <3>1, DialAssumption
  <2>2. CASE tries = 0
    BY <2>2, DelayPaced
  <2> QED BY <1>1, <2>1, <2>2
<1>3. d = ComputeDelay(tries + 1)
  OBVIOUS
<1> HIDE DEF d
<1>4. /\ pauses' \in Seq(Nat) /\ Len(pauses') = tries + 1 /\ pauses'[tries + 1] = d
      /\ \A i \in 1..tries : pauses'[i] = pauses[i]
  BY <1>1, <1>2, <1>3
<1>5. \A i \in DOMAIN pauses' : pauses'[i] = ComputeDelay(i)
  <2> SUFFICES ASSUME NEW i \in DOMAIN pauses' PROVE pauses'[i] = ComputeDelay(i)
    OBVIOUS
  <2>1. CASE i \in 1..tries
    <3>1. i \in DOMAIN pauses
      BY <1>1, <2>1
    <3> QED BY <1>4, <2>1, <3>1 DEF BackoffInv
  <2>2. CASE i = tries + 1
    BY <1>3, <1>4, <2>2
  <2> QED BY <1>1, <1>4, <2>1, <2>2
<1>6. \A max \in limit : tries + 1 <= (IF max > 1 THEN max ELSE 1)
  <2> SUFFICES ASSUME NEW max \in limit PROVE tries + 1 <= (IF max > 1 THEN max ELSE 1)
    OBVIOUS
  <2>1. max \in Nat
    BY LimitType
  <2>2. tries = 0 \/ tries < max
    BY <1>1, <2>1 DEF BackoffInv, LastAttempt, NextAttempt
  <2> QED BY <1>1, <2>1, <2>2
<1> QED BY <1>1, <1>4, <1>5, <1>6 DEF BackoffInv

LEMMA DialBacksOff ==
  ASSUME BackoffInv, [DialNext]_dialVars PROVE BackoffInv'
<1>1. CASE NextAttempt
  BY <1>1, NextAttemptBacksOff
<1>2. CASE UNCHANGED <<limit, tries, pauses, doing>>
  BY <1>2 DEF BackoffInv, LastAttempt
<1>3. CASE UNCHANGED <<limit, tries, pauses>> /\ doing = "begin" /\ doing' \in {"pause", "stopped"}
  BY <1>3 DEF BackoffInv, LastAttempt
<1>4. CASE UNCHANGED <<limit, tries, pauses>> /\ doing \in {"pause", "dial", "fallback"}
           /\ doing' \in {"dial", "fallback", "handshake", "stopped"}
  BY <1>4 DEF BackoffInv, LastAttempt
<1>5. CASE AttemptFails
  <2>1. /\ UNCHANGED <<limit, tries, pauses>> /\ doing \in {"dial", "fallback", "handshake"}
        /\ (LastAttempt /\ doing' = "stopped") \/ (~LastAttempt /\ doing' = "pause")
    BY <1>5 DEF AttemptFails, DialFails, Dialling, options
  <2> QED BY <2>1 DEF BackoffInv, LastAttempt
<1>6. CASE Accepted
  BY <1>6 DEF Accepted, options, BackoffInv, LastAttempt
<1>7. CASE ConnectionDrops
  <2>1. /\ UNCHANGED <<limit, tries>> /\ doing = "online" /\ doing' \in {"pause", "stopped"}
        /\ pauses' = <<>>
    BY <1>7 DEF ConnectionDrops, options
  <2>2. tries' = 0 /\ pauses' \in Seq(Nat) /\ Len(pauses') = 0 /\ limit' \subseteq Nat
    BY <2>1, LimitType DEF BackoffInv
  <2> QED BY <2>1, <2>2 DEF BackoffInv, LastAttempt
<1>8. CASE \E uri \in Uris : UseUri(uri)
  BY <1>3, <1>8 DEF UseUri
<1>9. CASE \E k \in TargetKinds : UseTarget(k)
  BY <1>3, <1>9 DEF UseTarget
<1>10. CASE StagePasses
  BY <1>2, <1>10 DEF StagePasses, options
<1>11. CASE TransportUp \/ SmartConnect \/ SmartOk \/ FallbackFails
  BY <1>4, <1>11 DEF TransportUp, SmartConnect, SmartOk, FallbackFails, DialOk, options
<1>12. CASE \E reason \in {"error", "timeout"} : PrimaryFails(reason)
  BY <1>4, <1>12 DEF PrimaryFails, options
<1>13. CASE UNCHANGED dialVars
  BY <1>2, <1>13 DEF dialVars, options
<1> QED BY <1>1, <1>5, <1>6, <1>7, <1>8, <1>9, <1>10, <1>11, <1>12, <1>13 DEF DialNext

(* connect_with_backoff dials an outage as its policy says: at once, then  *)
(* after initial_delay, then after pauses that follow the multiplier, none *)
(* above max_delay, and no more often than max_retries; whichever of       *)
(* transport and handshake refuses, however often the connection is lost,  *)
(* and for delays of zero and multipliers below one as well.               *)
THEOREM OutagesBackedOff == DialSpec => []BackedOff
<1>1. BackoffInv => BackedOff
  <2> SUFFICES ASSUME BackoffInv PROVE BackedOff
    OBVIOUS
  <2>1. ASSUME NEW i \in DOMAIN pauses
        PROVE  /\ i = 1 => pauses[i] = 0
               /\ i = 2 => pauses[i] = Least(InitialDelay, MaxDelay)
               /\ i > 2 => Paced(pauses[i - 1], pauses[i]) /\ pauses[i] <= MaxDelay
    <3>1. i \in Nat \ {0} /\ pauses[i] = ComputeDelay(i) /\ pauses \in Seq(Nat)
      BY DEF BackoffInv
    <3>2. CASE i = 1
      BY <3>1, <3>2, DelayPaced
    <3>3. CASE i = 2
      BY <3>1, <3>3, DelayPaced
    <3>4. CASE i > 2
      <4>1. i - 1 \in DOMAIN pauses
        BY <3>1, <3>4
      <4>2. pauses[i - 1] = ComputeDelay(i - 1)
        BY <4>1 DEF BackoffInv
      <4>3. i - 1 \in Nat /\ i - 1 >= 2 /\ (i - 1) + 1 = i
        BY <3>1, <3>4
      <4>4. ComputeDelay(i) \in 0..MaxDelay
        BY <3>1, <3>4, DelayPaced
      <4>5. Paced(ComputeDelay(i - 1), ComputeDelay((i - 1) + 1))
        BY <4>3, DelayPaced
      <4> QED BY <3>1, <3>4, <4>2, <4>3, <4>4, <4>5, DialAssumption
    <3> QED BY <3>1, <3>2, <3>3, <3>4
  <2> QED BY <2>1 DEF BackoffInv, BackedOff
<1> QED BY BackoffInit, DialBacksOff, <1>1, PTL DEF DialSpec

===============================================================================
