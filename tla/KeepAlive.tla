------------------------------- MODULE KeepAlive -------------------------------
(***************************************************************************)
(* The keep-alive of mqtt-tokio's event loop over the life of its          *)
(* connections: a timer that ticks every keep_alive while the connection   *)
(* is driven, and the time of the last transmission, with which a tick is  *)
(* compared before it sends a PINGREQ.                                     *)
(*                                                                         *)
(* Time is discrete.  It passes while the loop waits in its select! for a  *)
(* tick that is not due, and while one of its own awaits holds it up: the  *)
(* wait for CONNACK, a write, a subscription's full stream.  When several  *)
(* branches of the select! are ready any of them is taken, so that a due   *)
(* tick may be passed over.                                                *)
(***************************************************************************)
EXTENDS Naturals

CONSTANTS KeepAlive,       \* the option keep_alive
          HandshakeLimit,  \* how long CONNACK is waited for (10 s in the code)
          MaxHeldUp        \* bound: time the loop is held up between two transmissions

\* tokio's interval panics on a period of zero.
ASSUME KeepAliveAssumption == /\ KeepAlive \in Nat \ {0}
                              /\ HandshakeLimit \in Nat /\ MaxHeldUp \in Nat

VARIABLES
  phase,    \* what the loop does
  sinceTx,  \* last_tx.elapsed(), once connected
  toTick,   \* time to the ping timer's deadline, 0 from then on
  silence,  \* history: time since the broker was last sent anything
  heldUp,   \* history: how much of it the loop spent in awaits other than its select!
  broker    \* "up", or "hung": it takes octets and neither answers nor closes

pingVars == <<phase, sinceTx, toTick, silence, heldUp, broker>>

Connecting == {"dial", "handshake"}
Recovering == {"recover", "flush"}
Driving    == {"select", "write", "read"}

PingInit == /\ phase = "dial" /\ broker = "up"
            /\ sinceTx = 0 /\ toTick = 0 /\ silence = 0 /\ heldUp = 0

-------------------------------------------------------------------------------
\* connect_with_backoff: CONNECT is written.
SendConnect == /\ phase = "dial" /\ phase' = "handshake"
               /\ silence' = 0 /\ heldUp' = 0
               /\ UNCHANGED <<sinceTx, toTick, broker>>

\* The accepting CONNACK, which last_tx is set on.
ConnAck == /\ phase = "handshake" /\ broker = "up"
           /\ phase' = "recover" /\ sinceTx' = 0
           /\ UNCHANGED <<toTick, silence, heldUp, broker>>

\* No CONNACK in time, a refusal or an error: the next attempt.
HandshakeFails == /\ phase = "handshake" /\ phase' = "dial"
                  /\ UNCHANGED <<sinceTx, toTick, silence, heldUp, broker>>

\* perform_session_data_recovery, the last packet it sends: it does not count
\* for last_tx, and is flushed.
Resend == /\ phase = "recover" /\ phase' = "flush"
          /\ silence' = 0 /\ heldUp' = 0
          /\ UNCHANGED <<sinceTx, toTick, broker>>

\* drive_connection: the first tick of its timer is due at once.
Drive == /\ phase \in Recovering /\ phase' = "select" /\ toTick' = 0
         /\ UNCHANGED <<sinceTx, silence, heldUp, broker>>

\* A request that transmits, or a message read that is answered with a PUBACK.
BeginWrite == /\ phase = "select" /\ phase' = "write"
              /\ UNCHANGED <<sinceTx, toTick, silence, heldUp, broker>>

\* The end of a write, after which last_tx is set.
EndWrite == /\ phase = "write" /\ phase' = "select"
            /\ sinceTx' = 0 /\ silence' = 0 /\ heldUp' = 0
            /\ UNCHANGED <<toTick, broker>>

\* Packets that call for no answer, PINGRESP among them, which nothing is done with.
BeginRead == /\ phase = "select" /\ broker = "up" /\ phase' = "read"
             /\ UNCHANGED <<sinceTx, toTick, silence, heldUp, broker>>

EndRead == /\ phase = "read" /\ phase' = "select"
           /\ UNCHANGED <<sinceTx, toTick, silence, heldUp, broker>>

\* The variant does not ping when the interval has just elapsed.
PingDueLate == sinceTx > KeepAlive
PingDue == sinceTx >= KeepAlive

\* A tick; MissedTickBehavior::Delay counts the next one from now.
Tick == /\ phase = "select" /\ toTick = 0
        /\ toTick' = KeepAlive
        /\ \/ PingDue /\ phase' = "write"
           \/ ~PingDue /\ UNCHANGED phase
        /\ UNCHANGED <<sinceTx, silence, heldUp, broker>>

\* The socket's error or end, in any await on it.
PingDrop == /\ phase \in Driving /\ broker = "up"
        /\ phase' = "dial" /\ sinceTx' = 0 /\ toTick' = 0
        /\ UNCHANGED <<silence, heldUp, broker>>

BrokerHangs == /\ broker = "up" /\ broker' = "hung"
               /\ UNCHANGED <<phase, sinceTx, toTick, silence, heldUp>>

-------------------------------------------------------------------------------
\* last_tx matters from the CONNACK on, the timer while it exists.
TimePasses == /\ silence' = silence + 1
              /\ sinceTx' = IF phase \in Connecting THEN sinceTx ELSE sinceTx + 1
              /\ toTick' = IF toTick > 0 THEN toTick - 1 ELSE 0
              /\ UNCHANGED <<phase, broker>>

Wait == /\ phase = "select" /\ toTick > 0
        /\ TimePasses /\ UNCHANGED heldUp

HeldUp == /\ \/ phase \in Recovering \cup {"write", "read"}
             \/ phase = "handshake" /\ heldUp < HandshakeLimit
          /\ heldUp < MaxHeldUp /\ heldUp' = heldUp + 1
          /\ TimePasses

PingNext == \/ SendConnect \/ ConnAck \/ HandshakeFails \/ Resend \/ Drive
            \/ BeginWrite \/ EndWrite \/ BeginRead \/ EndRead \/ Tick
            \/ PingDrop \/ BrokerHangs \/ Wait \/ HeldUp

PingSpec == PingInit /\ [][PingNext]_pingVars

\* Time passes, the timer is polled, awaits on a socket that takes octets end,
\* and a broker that is up answers CONNECT.
PingFairness == /\ WF_pingVars(Wait) /\ WF_pingVars(Tick) /\ WF_pingVars(EndWrite)
                /\ WF_pingVars(EndRead) /\ WF_pingVars(Drive) /\ WF_pingVars(SendConnect)
                /\ WF_pingVars(ConnAck) /\ WF_pingVars(HandshakeFails)

FairPingSpec == PingSpec /\ PingFairness

-------------------------------------------------------------------------------
\* Besides the time the loop itself is held up, the broker hears something in
\* less than twice keep_alive: a tick may find the last transmission too recent
\* by little and leave the ping to the next one, though never to the one after
\* that, and recovery and handshake, which last_tx does not follow, add nothing.
SilenceBounded == phase # "dial" => silence < 2 * KeepAlive + heldUp

\* docs/appflow.md: "Socket error or heartbeat timeout triggers
\* ConnectionStatus::Disconnected".  So a broker that hangs while it is connected
\* is given up.
HeartbeatTimesOut == (broker = "hung" /\ phase = "select") ~> phase = "dial"

===============================================================================
