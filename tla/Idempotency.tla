----------------------------- MODULE Idempotency -----------------------------
(***************************************************************************)
(* Threads that deliver events through process_idempotently and one         *)
(* InMemoryIdempotencyStore (floodguard/contracts/events.py).  A handler    *)
(* may return, raise an Exception or raise a BaseException such as          *)
(* SystemExit; a KeyboardInterrupt may stop the main thread anywhere, also  *)
(* between the two updates of complete().                                   *)
(***************************************************************************)
EXTENDS Naturals

CONSTANTS
    Threads,        \* threads that deliver events
    Main,           \* those that an interrupt may stop: the main thread, or none
    Events,
    NoEvent, NoThread,
    MaxDeliveries,  \* bound: deliveries
    MaxExits        \* bound: BaseExceptions, interrupts included

ASSUME IdempotencyAssumption ==
    /\ Main \subseteq Threads
    /\ NoEvent \notin Events /\ NoThread \notin Threads
    /\ MaxDeliveries \in Nat /\ MaxExits \in Nat

VARIABLES
    completed,      \* _completed
    inProgress,     \* _in_progress
    lock,           \* who holds _lock from one step to the next
    pc,             \* pc[t]: where thread t stands in process_idempotently
    event,          \* event[t]: the event it delivers
    effects,        \* effects[e]: how often the handler of e has returned
    duplicates,     \* events a delivery of which was answered DUPLICATE
    raised,         \* events a delivery of which raised to its sender
    exited,         \* events a BaseException of which left the store as it was
    interrupted,    \* events whose delivery was interrupted
    deliveries, exits   \* how much of the bounds is used

store == <<completed, inProgress, lock>>
answers == <<duplicates, raised, exited, interrupted>>
vars == <<store, pc, event, effects, answers, deliveries, exits>>

Init ==
    /\ completed = {} /\ inProgress = {} /\ lock = NoThread
    /\ pc = [t \in Threads |-> "idle"]
    /\ event = [t \in Threads |-> NoEvent]
    /\ effects = [e \in Events |-> 0]
    /\ duplicates = {} /\ raised = {} /\ exited = {} /\ interrupted = {}
    /\ deliveries = 0 /\ exits = 0

GoTo(t, label) == pc' = [pc EXCEPT ![t] = label]

(* The delivery is over. *)
Leave(t) ==
    /\ GoTo(t, "idle")
    /\ event' = [event EXCEPT ![t] = NoEvent]

-----------------------------------------------------------------------------
(* InMemoryIdempotencyStore.begin: True where the event is not *)

(* Mutant: an event in progress is not looked for. *)
KnownCompleted(e) == e \in completed

Known(e) == e \in completed \cup inProgress

Begin(t, e) ==
    /\ pc[t] = "idle" /\ lock = NoThread /\ deliveries < MaxDeliveries
    /\ ~Known(e)
    /\ inProgress' = inProgress \cup {e}
    /\ deliveries' = deliveries + 1
    /\ event' = [event EXCEPT ![t] = e]
    /\ GoTo(t, "handling")
    /\ UNCHANGED <<completed, lock, effects, answers, exits>>

(* and False where it is. *)
Duplicate(t, e) ==
    /\ pc[t] = "idle" /\ lock = NoThread /\ deliveries < MaxDeliveries
    /\ Known(e)
    /\ deliveries' = deliveries + 1
    /\ duplicates' = duplicates \cup {e}
    /\ UNCHANGED <<store, pc, event, effects, raised, exited, interrupted, exits>>

HandlerReturns(t) ==
    /\ pc[t] = "handling"
    /\ effects' = [effects EXCEPT ![event[t]] = @ + 1]
    /\ GoTo(t, "complete")
    /\ UNCHANGED <<store, event, answers, deliveries, exits>>

HandlerRaises(t) ==
    /\ pc[t] = "handling"
    /\ GoTo(t, "abandon")
    /\ UNCHANGED <<store, event, effects, answers, deliveries, exits>>

(* "except Exception" does not see it: the store is left as it is. *)
HandlerExits(t) ==
    /\ pc[t] = "handling" /\ exits < MaxExits
    /\ exits' = exits + 1
    /\ raised' = raised \cup {event[t]}
    /\ exited' = exited \cup {event[t]}
    /\ Leave(t)
    /\ UNCHANGED <<store, effects, duplicates, interrupted, deliveries>>

(* Mutant: the lock is released between the two. *)
DiscardUnlocked(t) ==
    /\ pc[t] = "complete" /\ lock = NoThread
    /\ inProgress' = inProgress \ {event[t]}
    /\ GoTo(t, "add")
    /\ UNCHANGED <<completed, lock, event, effects, answers, deliveries, exits>>

(* complete: discard, then add, under the lock. *)
Discard(t) ==
    /\ pc[t] = "complete" /\ lock = NoThread
    /\ lock' = t
    /\ inProgress' = inProgress \ {event[t]}
    /\ GoTo(t, "add")
    /\ UNCHANGED <<completed, event, effects, answers, deliveries, exits>>

AddCompleted(t) ==
    /\ pc[t] = "add"
    /\ lock' = NoThread
    /\ completed' = completed \cup {event[t]}
    /\ Leave(t)
    /\ UNCHANGED <<inProgress, effects, answers, deliveries, exits>>

(* Mutant: a failed event is not taken out of those in progress. *)
RaiseOnly(t) ==
    /\ pc[t] = "abandon" /\ lock = NoThread
    /\ raised' = raised \cup {event[t]}
    /\ Leave(t)
    /\ UNCHANGED <<store, effects, duplicates, exited, interrupted, deliveries, exits>>

(* Mutant: the exception is not raised again. *)
AbandonSilently(t) ==
    /\ pc[t] = "abandon" /\ lock = NoThread
    /\ inProgress' = inProgress \ {event[t]}
    /\ Leave(t)
    /\ UNCHANGED <<completed, lock, effects, answers, deliveries, exits>>

(* abandon, and the exception goes on to the sender. *)
Abandon(t) ==
    /\ pc[t] = "abandon" /\ lock = NoThread
    /\ inProgress' = inProgress \ {event[t]}
    /\ raised' = raised \cup {event[t]}
    /\ Leave(t)
    /\ UNCHANGED <<completed, lock, effects, duplicates, exited, interrupted, deliveries,
                   exits>>

(* A KeyboardInterrupt: "with self._lock" releases the lock, nothing else   *)
(* is undone.                                                               *)
Interrupt(t) ==
    /\ t \in Main /\ pc[t] # "idle" /\ exits < MaxExits
    /\ exits' = exits + 1
    /\ lock' = IF lock = t THEN NoThread ELSE lock
    /\ raised' = raised \cup {event[t]}
    /\ exited' = exited \cup {event[t]}
    /\ interrupted' = interrupted \cup {event[t]}
    /\ Leave(t)
    /\ UNCHANGED <<completed, inProgress, effects, duplicates, deliveries>>

-----------------------------------------------------------------------------
Deliver(t) ==
    \/ \E e \in Events : Begin(t, e) \/ Duplicate(t, e)
    \/ HandlerReturns(t) \/ HandlerRaises(t) \/ HandlerExits(t)
    \/ Discard(t) \/ AddCompleted(t) \/ Abandon(t) \/ Interrupt(t)

Rest ==
    /\ deliveries = MaxDeliveries /\ \A t \in Threads : pc[t] = "idle"
    /\ UNCHANGED vars

Next == (\E t \in Threads : Deliver(t)) \/ Rest

Spec == Init /\ [][Next]_vars

-----------------------------------------------------------------------------
Working == {"handling", "complete", "add", "abandon"}

(* Every variable has the shape the code gives it. *)
TypeOK ==
    /\ completed \subseteq Events /\ inProgress \subseteq Events
    /\ lock \in Threads \cup {NoThread}
    /\ pc \in [Threads -> Working \cup {"idle"}]
    /\ event \in [Threads -> Events \cup {NoEvent}]
    /\ effects \in [Events -> Nat]
    /\ duplicates \subseteq Events /\ raised \subseteq Events
    /\ exited \subseteq Events /\ interrupted \subseteq Events
    /\ deliveries \in Nat /\ exits \in Nat

(* No two threads are ever at work on the same event, also after a failure, *)
(* an exit or an interrupt of one of them (events.py:40-55).                *)
OneAtWork ==
    \A t, u \in Threads :
        t # u /\ pc[t] # "idle" /\ pc[u] # "idle" => event[t] # event[u]

(* The handler of an event returns once at most, however often the event is *)
(* delivered and retried; only an interrupt can make it return again        *)
(* (events.py:57-62).                                                        *)
HandledOnce == \A e \in Events : effects[e] > 1 => e \in interrupted

(* An event that is answered DUPLICATE is not lost: its handler has         *)
(* returned, a thread is at work on it, or the sender of another delivery   *)
(* of it has been told of the failure (events.py:57-71).                    *)
DuplicatesAreAccounted ==
    \A e \in duplicates :
        \/ effects[e] > 0
        \/ \E t \in Threads : pc[t] # "idle" /\ event[t] = e
        \/ e \in raised

(* An event whose handler raised can be retried: what stays in progress has *)
(* a thread at work on it, or was left there by a BaseException             *)
(* (tests/test_events.py:36-50).                                            *)
InProgressIsHeld ==
    \A e \in inProgress :
        e \in exited \/ \E t \in Threads : pc[t] # "idle" /\ event[t] = e
=============================================================================
