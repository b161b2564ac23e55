--------------------------- MODULE MCEmbeddedClient ---------------------------
(* Instances of EmbeddedClient for TLC. *)
EXTENDS EmbeddedClient

CONSTANTS m1, m2, m3, i1

\* One outgoing message of each QoS.
EachQoS == m1 :> 1 @@ m2 :> 2 @@ m3 :> 0
TwoOut  == m1 :> 1 @@ m2 :> 2

\* An incoming QoS 2 message on an identifier the client uses too.
OneIn    == i1 :> 2
OneInPid == i1 :> 1

NoMessage == [m \in {} |-> 0]
NoBatch   == {}
\* The first batch can find the table full, the others only if it is below three.
OneBatch   == {<<m3, m1>>}
TwoBatches == {<<m1, m2>>, <<m3, m1>>}

===============================================================================
