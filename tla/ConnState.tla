------------------------------- MODULE ConnState ------------------------------
(***************************************************************************)
(* The pure connection state machine of mqtt-core, fed by a driver that    *)
(* may report any event at any time; an event that does not fit the state  *)
(* is refused and changes nothing.                                         *)
(***************************************************************************)
EXTENDS Naturals

CONSTANT MaxAttempt  \* where the attempt counter saturates (2^32 - 1 in the code)

ASSUME ConnStateAssumption == MaxAttempt \in Nat \ {0}

VARIABLES
  state,        \* ConnState without its payload
  attempt,      \* the payload of Reconnecting, 0 in the other states
  action,       \* the StateAction of the last accepted event
  farewell      \* history: DISCONNECT was sent and no connect requested since

connVars == <<state, attempt, action, farewell>>

ConnStates == {"Disconnected", "Connecting", "WaitingForConnAck", "Connected",
               "Disconnecting", "Reconnecting"}

ConnInit ==
  /\ state = "Disconnected" /\ attempt = 0 /\ action = "None" /\ farewell = FALSE

\* The state moves from one of a set, to the next, and the driver performs the action.
Move(from, to, act) ==
  /\ state \in from /\ state' = to /\ action' = act /\ attempt' = 0
  /\ farewell' = (act = "SendDisconnect" \/ (farewell /\ to = "Disconnected"))

ConnectRequested   == Move({"Disconnected", "Reconnecting"}, "Connecting", "None")
TransportConnected == Move({"Connecting"}, "WaitingForConnAck", "SendConnect")
ConnAckReceived    == Move({"WaitingForConnAck"}, "Connected", "NotifyConnected")
ConnAckRejected    == Move({"WaitingForConnAck"}, "Disconnected", "NotifyDisconnected")
KeepAliveExpired   == Move({"Connected"}, "Connected", "SendPing")
DisconnectRequested == Move({"Connected"}, "Disconnecting", "SendDisconnect")

\* A connection the user is closing is not reconnected; the variant reconnects it.
LostStatesAll == {"Connected", "WaitingForConnAck", "Disconnecting"}
LostStates == {"Connected", "WaitingForConnAck"}

TransportClosed ==
  \/ /\ state \notin LostStates
     /\ Move({"Disconnecting"}, "Disconnected", "NotifyDisconnected")
  \/ /\ state \in LostStates \cup {"Reconnecting"}
     /\ attempt' = IF attempt = MaxAttempt THEN attempt ELSE attempt + 1
     /\ state' = "Reconnecting" /\ action' = "ScheduleReconnect"
     /\ UNCHANGED farewell

ConnNext == \/ ConnectRequested \/ TransportConnected \/ ConnAckReceived \/ ConnAckRejected
            \/ KeepAliveExpired \/ DisconnectRequested \/ TransportClosed

ConnSpec == ConnInit /\ [][ConnNext]_connVars

-----------------------------------------------------------------------------
(* Properties. *)

\* Once DISCONNECT is sent the machine never schedules a reconnection by itself.
NoReconnectAfterDisconnect == farewell => state # "Reconnecting"

===============================================================================
