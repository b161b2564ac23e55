------------------------------- MODULE UiBinding --------------------------------
(***************************************************************************)
(* The bindings of mqtt-bridges to a user interface: a task that hands the *)
(* messages of a subscription to a callback, and the handle with which the *)
(* program stops it.                                                       *)
(*                                                                         *)
(* A message that is there is received without a pause, so that one poll   *)
(* of the task calls back for one message after the other, until there is  *)
(* none or tokio's budget for a poll is spent.  Only there does a task see *)
(* that it was aborted.                                                    *)
(***************************************************************************)
EXTENDS Naturals

CONSTANTS InboxCap,  \* messages a subscription's stream holds
          Budget     \* receives in one poll, 128 in tokio

ASSUME BindingAssumption == InboxCap \in Nat \ {0} /\ Budget \in Nat \ {0}

VARIABLES binding,    \* "none", or which of the three bind_ functions made it
          listener,   \* its task: "none", "idle", "polled" or "ended"
          budget,     \* what is left of this poll's
          inbox,      \* messages in the stream
          events,     \* "open", or "closed": the event loop has ended
          handle,     \* "held" or "dropped" by the program
          cancelled,  \* "yes" once the task is to be dropped at its next pause
          abort       \* history: "asked" once the program called abort

bindingVars == <<binding, listener, budget, inbox, events, handle, cancelled, abort>>

BindingInit == /\ binding = "none" /\ listener = "none" /\ budget = 0 /\ inbox = 0
               /\ events = "open" /\ handle = "held" /\ cancelled = "no" /\ abort = "no"

-------------------------------------------------------------------------------
(* The task. *)

\* bind_string_property, bind_camera_frame and bind_ordered_datastream; where the
\* subscription fails there is no task.
Bind(function) == /\ binding = "none" /\ events = "open"
                  /\ binding' = function /\ listener' = "idle"
                  /\ UNCHANGED <<budget, inbox, events, handle, cancelled, abort>>

\* The task ends, and its stream with it.
WorkerEnded == listener' = "ended" /\ inbox' = 0 /\ budget' = 0

\* The runtime polls a task that was woken, or drops one that was cancelled.
PollWorker == /\ listener = "idle"
              /\ \/ cancelled = "yes" /\ WorkerEnded
                 \/ /\ cancelled = "no" /\ (inbox > 0 \/ events = "closed")
                    /\ listener' = "polled" /\ budget' = Budget /\ UNCHANGED inbox
              /\ UNCHANGED <<binding, events, handle, cancelled, abort>>

\* A message: the callback, unless the reordering of bind_ordered_datastream
\* keeps it.  A callback that panics takes the task with it.
HandOver == /\ listener = "polled" /\ inbox > 0 /\ budget > 0
            /\ \/ inbox' = inbox - 1 /\ budget' = budget - 1 /\ UNCHANGED listener
               \/ WorkerEnded
            /\ UNCHANGED <<binding, events, handle, cancelled, abort>>

\* recv returns nothing more.
NoMoreMessages == /\ listener = "polled" /\ inbox = 0 /\ budget > 0 /\ events = "closed"
                  /\ WorkerEnded
                  /\ UNCHANGED <<binding, events, handle, cancelled, abort>>

\* recv waits, or leaves the rest of the messages to the next poll.
Pauses == /\ listener = "polled" /\ (budget = 0 \/ (inbox = 0 /\ events = "open"))
          /\ listener' = "idle" /\ budget' = 0
          /\ UNCHANGED <<binding, inbox, events, handle, cancelled, abort>>

-------------------------------------------------------------------------------
(* The program and the event loop. *)

\* What abort leaves of the task's cancellation; the variant drops the JoinHandle
\* alone, which detaches the task.
Detached  == "no"
Cancelled == "yes"

Abort == /\ binding # "none" /\ handle = "held"
         /\ abort' = "asked" /\ cancelled' = Cancelled
         /\ UNCHANGED <<binding, listener, budget, inbox, events, handle>>

\* The task outlives its handle.
DropHandle == /\ binding # "none" /\ handle = "held" /\ handle' = "dropped"
              /\ UNCHANGED <<binding, listener, budget, inbox, events, cancelled, abort>>

\* The event loop's try_send; what does not fit in the stream is lost.
MessageArrives == /\ listener \in {"idle", "polled"} /\ events = "open" /\ inbox < InboxCap
                  /\ inbox' = inbox + 1
                  /\ UNCHANGED <<binding, listener, budget, events, handle, cancelled, abort>>

SourceCloses == /\ events = "open" /\ events' = "closed"
                /\ UNCHANGED <<binding, listener, budget, inbox, handle, cancelled, abort>>

BindingNext ==
  \/ \E function \in {"string_property", "camera_frame", "ordered_datastream"} : Bind(function)
  \/ PollWorker \/ HandOver \/ NoMoreMessages \/ Pauses
  \/ Abort \/ DropHandle \/ MessageArrives \/ SourceCloses

\* The runtime polls its tasks, and callbacks return.
BindingFairness == /\ WF_bindingVars(PollWorker) /\ WF_bindingVars(HandOver)
                   /\ WF_bindingVars(NoMoreMessages) /\ WF_bindingVars(Pauses)

-------------------------------------------------------------------------------
\* slint_support.rs: abort "Stops the UI binding background listener task", though
\* it may have called back for the rest of a poll's messages by then, and however
\* fast messages arrive; the end of the event loop stops it too.
BindingEnds ==
  (listener # "none" /\ (abort = "asked" \/ events = "closed")) ~> listener = "ended"

===============================================================================
