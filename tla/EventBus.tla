------------------------------ MODULE EventBus ------------------------------
(***************************************************************************)
(* The event bus (event_bus.c): publishers put copies of events in a queue *)
(* without waiting; one task takes them out, copies the listeners and      *)
(* calls them in the order of their slots.  Nobody unsubscribes.           *)
(***************************************************************************)
EXTENDS Naturals, Sequences, SequencesExt, FiniteSets

CONSTANTS
  Events,         \* zg_event_t
  Callbacks,      \* event_bus_listener_t with its context
  QueueLen,       \* EVENT_BUS_QUEUE_LEN
  MaxListeners,   \* EVENT_BUS_MAX_LISTENERS
  MaxAccepted     \* bound on the number of events accepted

BusAssumption == {QueueLen, MaxListeners, MaxAccepted} \subseteq Nat \ {0}

VARIABLES
  initialized,   \* s_initialized
  queue,         \* s_queue
  listeners,     \* s_listeners
  dispatcher,    \* dispatch_task: the event in hand, its copy of the listeners, the next one
  accepted,      \* history: the events that event_bus_publish took
  heard          \* history: for each listener what it was called with, and from when

busvars == <<initialized, queue, listeners, dispatcher, accepted, heard>>

Idle == [pc |-> "receive", local |-> <<>>, next |-> 1]

BusInit ==
  /\ initialized = FALSE /\ queue = <<>> /\ listeners = <<>> /\ dispatcher = Idle
  /\ accepted = <<>> /\ heard = <<>>

\* With no memory for the queue or the task everything is as before.
event_bus_init ==
  /\ ~initialized
  /\ initialized' = TRUE /\ listeners' = <<>> /\ queue' = <<>>
  /\ UNCHANGED <<dispatcher, accepted, heard>>

Room == initialized /\ Len(queue) < QueueLen

\* A publication before the start or into a full queue is dropped.
event_bus_publish(e) ==
  /\ IF Room THEN queue' = Append(queue, e) /\ accepted' = Append(accepted, e)
     ELSE UNCHANGED <<queue, accepted>>
  /\ UNCHANGED <<initialized, listeners, dispatcher, heard>>

event_bus_subscribe(cb) ==
  /\ initialized /\ Len(listeners) < MaxListeners
  /\ listeners' = Append(listeners, cb)
  /\ heard' = Append(heard, [log |-> <<>>, from |-> Len(accepted) - Len(queue)
                               - (IF dispatcher.pc = "copy" THEN 1 ELSE 0)])
  /\ UNCHANGED <<initialized, queue, dispatcher, accepted>>

\* Faulty variant: the task waits for a full queue.
dispatch_receive_full ==
  /\ dispatcher.pc = "receive" /\ Len(queue) = QueueLen
  /\ dispatcher' = [pc |-> "copy", event |-> Head(queue)]
  /\ queue' = Tail(queue)
  /\ UNCHANGED <<initialized, listeners, accepted, heard>>

dispatch_receive ==
  /\ dispatcher.pc = "receive" /\ queue # <<>>
  /\ dispatcher' = [pc |-> "copy", event |-> Head(queue)]
  /\ queue' = Tail(queue)
  /\ UNCHANGED <<initialized, listeners, accepted, heard>>

dispatch_copy ==
  /\ dispatcher.pc = "copy"
  /\ dispatcher' = [pc |-> "call", event |-> dispatcher.event, local |-> listeners, next |-> 1]
  /\ UNCHANGED <<initialized, queue, listeners, accepted, heard>>

\* Faulty variant: the last listener of the copy is left out.
dispatch_call_short ==
  /\ dispatcher.pc = "call"
  /\ IF dispatcher.next < Len(dispatcher.local)
     THEN /\ heard' = [heard EXCEPT ![dispatcher.next].log = Append(@, dispatcher.event)]
          /\ dispatcher' = [dispatcher EXCEPT !.next = @ + 1]
     ELSE dispatcher' = Idle /\ UNCHANGED heard
  /\ UNCHANGED <<initialized, queue, listeners, accepted>>

\* Slot i of the copy is the listener that subscribed as number i.
dispatch_call ==
  /\ dispatcher.pc = "call"
  /\ IF dispatcher.next <= Len(dispatcher.local)
     THEN /\ heard' = [heard EXCEPT ![dispatcher.next].log = Append(@, dispatcher.event)]
          /\ dispatcher' = [dispatcher EXCEPT !.next = @ + 1]
     ELSE dispatcher' = Idle /\ UNCHANGED heard
  /\ UNCHANGED <<initialized, queue, listeners, accepted>>

dispatch_task == dispatch_receive \/ dispatch_copy \/ dispatch_call

Next ==
  \/ event_bus_init \/ dispatch_task
  \/ \E e \in Events : Len(accepted) < MaxAccepted /\ event_bus_publish(e)
  \/ \E cb \in Callbacks : event_bus_subscribe(cb)

Spec == BusInit /\ [][Next]_busvars

\* The dispatch task runs at priority 5 and waits for nothing but the queue.
FairSpec == Spec /\ WF_busvars(dispatch_task)

-----------------------------------------------------------------------------
BusTypeOK ==
  /\ initialized \in BOOLEAN
  /\ Len(queue) <= QueueLen /\ Range(queue) \subseteq Events
  /\ Len(listeners) <= MaxListeners /\ Len(heard) = Len(listeners)
  /\ dispatcher.pc \in {"receive", "copy", "call"}

\* Whether listener i still has to be called with the event in hand.
Due(i) ==
  \/ dispatcher.pc = "copy"
  \/ dispatcher.pc = "call" /\ i \in dispatcher.next .. Len(dispatcher.local)

(***************************************************************************)
(* What a listener was called with, the event in hand, and the queue are   *)
(* together the events accepted since it subscribed: every one once, in    *)
(* the order of the publications, whatever subscriptions fell between the  *)
(* receipt and the copy of the listeners (dispatch_task).                  *)
(***************************************************************************)
HeardInOrder ==
  \A i \in DOMAIN heard :
    LET hand == IF Due(i) THEN <<dispatcher.event>> ELSE <<>>
    IN heard[i].log \o hand \o queue = SubSeq(accepted, heard[i].from + 1, Len(accepted))

(***************************************************************************)
(* Every accepted event reaches every listener that was there before: the  *)
(* publications, which are bounded, are caught up with (dispatch_task).    *)
(***************************************************************************)
AcceptedIsHeard ==
  []<>(\A i \in DOMAIN heard : Len(heard[i].log) = Len(accepted) - heard[i].from)
=============================================================================
