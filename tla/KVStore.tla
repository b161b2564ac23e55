------------------------------- MODULE KVStore --------------------------------
(***************************************************************************)
(* What the Storage trait promises of a bounded store: a map from keys to  *)
(* values, in which a key has the value it was last given until it is      *)
(* removed.                                                                *)
(***************************************************************************)
EXTENDS Naturals, FiniteSets

CONSTANTS Keys, Values, Length, LongKeys, MaxEntries, MaxValLen, BufLens  \* as in MemStore

VARIABLES
  map,    \* the stored pairs
  answer  \* what the last call returned

kvVars == <<map, answer>>

KVInit == map = [k \in {} |-> 0] /\ answer = "none"

KVPersist(k, v) ==
  \/ /\ k \in LongKeys \/ Length[v] > MaxValLen
     /\ answer' = "BufferTooSmall" /\ UNCHANGED map
  \/ /\ k \notin LongKeys /\ Length[v] <= MaxValLen
     /\ k \notin DOMAIN map /\ Cardinality(DOMAIN map) >= MaxEntries
     /\ answer' = "CapacityFull" /\ UNCHANGED map
  \/ /\ k \notin LongKeys /\ Length[v] <= MaxValLen
     /\ k \in DOMAIN map \/ Cardinality(DOMAIN map) < MaxEntries
     /\ map' = [j \in DOMAIN map \cup {k} |-> IF j = k THEN v ELSE map[j]]
     /\ answer' = "Ok"

KVLoad(k, n) ==
  /\ answer' = IF k \notin DOMAIN map THEN "None"
               ELSE IF Length[map[k]] > n THEN "BufferTooSmall" ELSE map[k]
  /\ UNCHANGED map

KVRemove(k) ==
  /\ answer' = IF k \in DOMAIN map THEN "Ok" ELSE "KeyNotFound"
  /\ map' = [j \in DOMAIN map \ {k} |-> map[j]]

KVClear == map' = [k \in {} |-> 0] /\ answer' = "Ok"

KVNext == \/ \E k \in Keys : \/ KVRemove(k)
                             \/ \E v \in Values : KVPersist(k, v)
                             \/ \E n \in BufLens : KVLoad(k, n)
          \/ KVClear

KVSpec == KVInit /\ [][KVNext]_kvVars

===============================================================================
