----------------------------- MODULE BroadcastHub -----------------------------
(***************************************************************************)
(* MqttBroadcastHub of mqtt-bridges: one subscription of the MQTT client   *)
(* fans out to web clients.  A worker task moves messages from the         *)
(* subscription's stream to a tokio broadcast channel; every web client    *)
(* has a task that moves them on to a bounded channel, which its HTTP      *)
(* response reads.                                                         *)
(*                                                                         *)
(* A message is its number.  tokio's channels are modelled by what they    *)
(* promise: a broadcast channel keeps the last BroadcastCap messages, has  *)
(* none for nobody, and ends when all its senders are gone.                *)
(***************************************************************************)
EXTENDS Naturals, Sequences

CONSTANTS Clients,       \* web clients
          Readers,       \* those whose connection is read
          MaxMessages,   \* bound: messages that arrive
          StreamCap,     \* capacity of the subscription's stream
          BroadcastCap,  \* broadcast_capacity, a power of two
          ClientCap      \* capacity of a web client's channel

ASSUME HubAssumption == /\ Readers \subseteq Clients
                        /\ MaxMessages \in Nat
                        /\ {StreamCap, BroadcastCap, ClientCap} \subseteq Nat \ {0}

VARIABLES arrived,  \* number of messages the MQTT client has routed
          stream,   \* the subscription's stream
          source,   \* whether the stream has a sender
          worker,   \* whether the worker task runs
          hub,      \* whether a clone of the hub is left
          sent,     \* all messages broadcast; the channel keeps the last ones
          task,     \* of each web client: "none", "running" or "ended"
          from,     \* the first position of sent it is to see
          next,     \* the next position its receiver takes
          held,     \* what its task waits to pass on
          out,      \* its channel
          open,     \* whether its WebClientStream is left
          seen,     \* what it has read
          lagged    \* whether its receiver was ever told that it lags

clientVars == <<task, from, next, held, out, open, seen, lagged>>
hubVars == <<arrived, stream, source, worker, hub, sent, clientVars>>

\* MqttBroadcastHub::new
HubInit == /\ arrived = 0 /\ stream = <<>> /\ source = TRUE
           /\ worker = TRUE /\ hub = TRUE /\ sent = <<>>
           /\ task = [w \in Clients |-> "none"]
           /\ from = [w \in Clients |-> 1] /\ next = [w \in Clients |-> 1]
           /\ held = [w \in Clients |-> <<>>] /\ out = [w \in Clients |-> <<>>]
           /\ open = [w \in Clients |-> TRUE] /\ seen = [w \in Clients |-> <<>>]
           /\ lagged = [w \in Clients |-> FALSE]

-------------------------------------------------------------------------------
\* The MQTT client: the router drops a message for a full stream.
Arrive == /\ source /\ arrived < MaxMessages
          /\ arrived' = arrived + 1
          /\ stream' = IF Len(stream) < StreamCap THEN Append(stream, arrived') ELSE stream
          /\ UNCHANGED <<source, worker, hub, sent, clientVars>>

SourceEnds == /\ source /\ source' = FALSE
              /\ UNCHANGED <<arrived, stream, worker, hub, sent, clientVars>>

\* The worker sends without waiting; the error of a channel without receivers
\* is ignored, and the message lost.  The variant waits for slow clients.
CanSendSlow == \A w \in Clients : task[w] = "running" => Len(out[w]) < ClientCap

CanSend == TRUE

WorkerSends == /\ worker /\ stream # <<>> /\ CanSend
               /\ stream' = Tail(stream)
               /\ sent' = IF \E w \in Clients : task[w] = "running"
                            THEN Append(sent, Head(stream)) ELSE sent
               /\ UNCHANGED <<arrived, source, worker, hub, clientVars>>

WorkerEnds == /\ worker /\ stream = <<>> /\ ~source
              /\ worker' = FALSE
              /\ UNCHANGED <<arrived, stream, source, hub, sent, clientVars>>

DropHub == /\ hub /\ hub' = FALSE
           /\ UNCHANGED <<arrived, stream, source, worker, sent, clientVars>>

-------------------------------------------------------------------------------
\* subscribe: a receiver starts behind what was sent before.
Subscribe(w) == /\ hub /\ task[w] = "none"
                /\ task' = [task EXCEPT ![w] = "running"]
                /\ from' = [from EXCEPT ![w] = Len(sent) + 1]
                /\ next' = [next EXCEPT ![w] = Len(sent) + 1]
                /\ UNCHANGED <<arrived, stream, source, worker, hub, sent,
                               held, out, open, seen, lagged>>

\* The oldest message that the channel still has.
Oldest == IF Len(sent) > BroadcastCap THEN Len(sent) - BroadcastCap + 1 ELSE 1

Idle(w) == task[w] = "running" /\ held[w] = <<>>

\* Lagged(_): the task goes on with what is left.
Lag(w) == /\ Idle(w) /\ next[w] < Oldest
          /\ next' = [next EXCEPT ![w] = Oldest]
          /\ lagged' = [lagged EXCEPT ![w] = TRUE]
          /\ UNCHANGED <<arrived, stream, source, worker, hub, sent,
                         task, from, held, out, open, seen>>

Take(w) == /\ Idle(w) /\ next[w] >= Oldest /\ next[w] <= Len(sent)
           /\ held' = [held EXCEPT ![w] = <<sent[next[w]]>>]
           /\ next' = [next EXCEPT ![w] = @ + 1]
           /\ UNCHANGED <<arrived, stream, source, worker, hub, sent,
                          task, from, out, open, seen, lagged>>

\* Closed: the hub and the worker held the senders.  The variant gives every
\* task one too.
SendersLeftOwn == TRUE

SendersLeft == hub \/ worker

Closed(w) == /\ Idle(w) /\ next[w] > Len(sent) /\ ~SendersLeft
             /\ task' = [task EXCEPT ![w] = "ended"]
             /\ UNCHANGED <<arrived, stream, source, worker, hub, sent,
                            from, next, held, out, open, seen, lagged>>

\* mpsc_tx.send waits for room, and fails when the web client has gone.  The
\* variant uses try_send and ignores its error.
PassTry(w) == /\ held[w] # <<>>
              /\ out' = IF open[w] /\ Len(out[w]) < ClientCap
                          THEN [out EXCEPT ![w] = @ \o held[w]] ELSE out
              /\ held' = [held EXCEPT ![w] = <<>>]
              /\ UNCHANGED <<arrived, stream, source, worker, hub, sent,
                             task, from, next, open, seen, lagged>>

Pass(w) == /\ held[w] # <<>>
           /\ \/ /\ open[w] /\ Len(out[w]) < ClientCap
                 /\ out' = [out EXCEPT ![w] = @ \o held[w]]
                 /\ UNCHANGED task
              \/ /\ ~open[w]
                 /\ task' = [task EXCEPT ![w] = "ended"]
                 /\ UNCHANGED out
           /\ held' = [held EXCEPT ![w] = <<>>]
           /\ UNCHANGED <<arrived, stream, source, worker, hub, sent,
                          from, next, open, seen, lagged>>

\* WebClientStream::poll_next, and its drop.
Read(w) == /\ open[w] /\ out[w] # <<>>
           /\ seen' = [seen EXCEPT ![w] = Append(@, Head(out[w]))]
           /\ out' = [out EXCEPT ![w] = Tail(@)]
           /\ UNCHANGED <<arrived, stream, source, worker, hub, sent,
                          task, from, next, held, open, lagged>>

Leave(w) == /\ open[w] /\ task[w] # "none"
            /\ open' = [open EXCEPT ![w] = FALSE]
            /\ out' = [out EXCEPT ![w] = <<>>]
            /\ UNCHANGED <<arrived, stream, source, worker, hub, sent,
                           task, from, next, held, seen, lagged>>

TaskStep(w) == Lag(w) \/ Take(w) \/ Closed(w) \/ Pass(w)

HubNext == \/ Arrive \/ SourceEnds \/ WorkerSends \/ WorkerEnds \/ DropHub
           \/ \E w \in Clients : Subscribe(w) \/ TaskStep(w) \/ Read(w) \/ Leave(w)

HubSpec == HubInit /\ [][HubNext]_hubVars

\* tokio runs a task that can go on; nobody makes web clients read or leave, or
\* messages arrive.
HubFairness == /\ WF_hubVars(WorkerSends \/ WorkerEnds)
               /\ \A w \in Clients : WF_hubVars(TaskStep(w))
               /\ \A w \in Readers : WF_hubVars(Read(w))

-------------------------------------------------------------------------------
\* What a web client is given is, in order, everything broadcast since it
\* subscribed, unless its receiver was told that it lags; then it is still in
\* order, and nothing twice.
FedInOrder ==
  \A w \in Clients : open[w] =>
    LET fed == seen[w] \o out[w] \o held[w]
    IN /\ ~lagged[w] => fed = SubSeq(sent, from[w], next[w] - 1)
       /\ \A i, j \in DOMAIN fed : i < j => fed[i] < fed[j]

\* A web client that is read gets every message that waits in the subscription's
\* stream while it listens, or a later one, whatever the other clients do: slow
\* ones do not hold it up.
ReaderGetsLatest ==
  \A w \in Readers, n \in 1..MaxMessages :
    (open[w] /\ task[w] = "running" /\ \E i \in DOMAIN stream : stream[i] = n)
      ~> (~open[w] \/ \E i \in DOMAIN seen[w] : seen[w][i] >= n)

\* Once the hub is dropped and its subscription over, the response of a web
\* client that is read comes to its end.  (While a hub is left it does not: the
\* hub itself holds a sender.)
ResponsesEnd ==
  \A w \in Readers :
    (~hub /\ ~source /\ task[w] # "none") ~> (~open[w] \/ (task[w] = "ended" /\ out[w] = <<>>))

===============================================================================
