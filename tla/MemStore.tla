------------------------------- MODULE MemStore -------------------------------
(***************************************************************************)
(* StaticMemStore of mqtt-storage: two parallel bounded vectors, in which  *)
(* a key is found by a linear search and removed by swapping the last      *)
(* entry into its place.                                                   *)
(***************************************************************************)
EXTENDS Naturals, Sequences, FiniteSets

CONSTANTS
  Keys, Values,  \* keys and values the application uses
  Length,        \* the length of each value
  LongKeys,      \* keys longer than MAX_KEY_LEN
  MaxEntries,    \* the const generic MAX_ENTRIES
  MaxValLen,     \* the const generic MAX_VAL_LEN
  BufLens        \* lengths of the buffers load is given

ASSUME MemStoreAssumption ==
  /\ Length \in [Values -> Nat] /\ LongKeys \subseteq Keys /\ BufLens \subseteq Nat
  /\ MaxEntries \in Nat /\ MaxValLen \in Nat

VARIABLES keys, values, answer

storeVars == <<keys, values, answer>>

StoreInit == keys = <<>> /\ values = <<>> /\ answer = "none"

\* The positions of key k; position() returns the first.
At(k) == {i \in DOMAIN keys : keys[i] = k}
Index(k) == CHOOSE i \in At(k) : \A j \in At(k) : i <= j

HasCapacity == Len(keys) < MaxEntries

Persist(k, v) ==
  \/ /\ k \in LongKeys \/ Length[v] > MaxValLen
     /\ answer' = "BufferTooSmall" /\ UNCHANGED <<keys, values>>
  \/ /\ k \notin LongKeys /\ Length[v] <= MaxValLen
     /\ \/ /\ At(k) # {}
           /\ values' = [values EXCEPT ![Index(k)] = v] /\ UNCHANGED keys /\ answer' = "Ok"
        \/ /\ At(k) = {} /\ ~HasCapacity
           /\ answer' = "CapacityFull" /\ UNCHANGED <<keys, values>>
        \/ /\ At(k) = {} /\ HasCapacity
           /\ keys' = Append(keys, k) /\ values' = Append(values, v) /\ answer' = "Ok"

Load(k, n) ==
  /\ answer' = IF At(k) = {} THEN "None"
               ELSE IF Length[values[Index(k)]] > n THEN "BufferTooSmall" ELSE values[Index(k)]
  /\ UNCHANGED <<keys, values>>

\* swap_remove: the last element takes the place of the removed one.
SwapRemove(s, i) ==
  [j \in 1..(Len(s) - 1) |-> IF j = i THEN s[Len(s)] ELSE s[j]]

\* The variant keeps the order of the values.
ValuesShifted(i) == SubSeq(values, 1, i - 1) \o SubSeq(values, i + 1, Len(values))
ValuesWithout(i) == SwapRemove(values, i)

RemoveKey(k) ==
  /\ IF At(k) = {} THEN answer' = "KeyNotFound" /\ UNCHANGED <<keys, values>>
     ELSE /\ keys' = SwapRemove(keys, Index(k)) /\ values' = ValuesWithout(Index(k))
          /\ answer' = "Ok"

Clear == keys' = <<>> /\ values' = <<>> /\ answer' = "Ok"

StoreNext == \/ \E k \in Keys : \/ RemoveKey(k)
                                \/ \E v \in Values : Persist(k, v)
                                \/ \E n \in BufLens : Load(k, n)
             \/ Clear

StoreSpec == StoreInit /\ [][StoreNext]_storeVars

-----------------------------------------------------------------------------
(* Properties. *)

Stored == {keys[i] : i \in DOMAIN keys}
KV == INSTANCE KVStore WITH map <- [k \in Stored |-> values[Index(k)]]

\* The vectors are a map: whatever is overwritten, removed and swapped, load
\* returns what was last persisted under its key.
StoreImplementsKV == KV!KVSpec

===============================================================================
