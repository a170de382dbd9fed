----------------------------- MODULE BoundedQueue -----------------------------
(***************************************************************************)
(* The bounded inbox between the callers of ingest_batch and the workers   *)
(* (include/loss_observatory/core/bounded.hpp): one mutex, two condition   *)
(* variables and a stop token.                                             *)
(*                                                                         *)
(* An action is one critical section of the mutex.  A thread that waits    *)
(* on a condition variable is a member of its wait set and takes no step   *)
(* until it is woken, by a notification, by the stop callback, or for no   *)
(* reason at all; it then evaluates its predicate again.  Push notifies    *)
(* not_empty, and pop not_full, after unlocking: those are steps of their  *)
(* own.                                                                    *)
(***************************************************************************)
EXTENDS Naturals, Sequences

CONSTANTS Capacity

ASSUME QueueAssumption == Capacity \in Nat \ {0}

VARIABLES
    queue,          \* queue_
    closed,         \* closed_
    stopRequested,  \* the stop_source every token comes from
    notFull,        \* the producers waiting on not_full_
    notEmpty        \* the consumers waiting on not_empty_

queueVars == <<queue, closed, stopRequested, notFull, notEmpty>>

QueueInit ==
    /\ queue = << >>
    /\ closed = FALSE
    /\ stopRequested = FALSE
    /\ notFull = {}
    /\ notEmpty = {}

(* A plausible bug: one item more than the bound.                          *)
HasSpaceAtBound == Len(queue) <= Capacity

HasSpace == Len(queue) < Capacity

(* A plausible bug: the waiters are not told.                              *)
WakesNobody(waiting) == waiting

(* notify_all, and the stop callback.                                      *)
AllWoken(waiting) == {}

(* notify_one: any one of those waiting, if there is one.                  *)
OneWoken(waiting) == IF waiting = {} THEN {waiting} ELSE {waiting \ {p} : p \in waiting}

-----------------------------------------------------------------------------
(* push(value, token).                                                     *)

PushAccepted(x) ==
    /\ ~closed
    /\ HasSpace
    /\ queue' = Append(queue, x)
    /\ UNCHANGED <<closed, stopRequested, notFull, notEmpty>>

PushRefused ==
    /\ closed \/ (~HasSpace /\ stopRequested)
    /\ UNCHANGED queueVars

PushWaits(p) ==
    /\ ~closed /\ ~HasSpace /\ ~stopRequested
    /\ notFull' = notFull \cup {p}
    /\ UNCHANGED <<queue, closed, stopRequested, notEmpty>>

NotifyConsumer ==
    /\ notEmpty' \in OneWoken(notEmpty)
    /\ UNCHANGED <<queue, closed, stopRequested, notFull>>

(* pop(out, token): what is queued is taken even after a stop.             *)
PopTakes ==
    /\ queue # << >>
    /\ queue' = Tail(queue)
    /\ UNCHANGED <<closed, stopRequested, notFull, notEmpty>>

(* A plausible bug: a closed queue is left before it is looked into.       *)
PopEndsWhenClosed ==
    /\ closed \/ stopRequested
    /\ UNCHANGED queueVars

PopEnds ==
    /\ queue = << >>
    /\ closed \/ stopRequested
    /\ UNCHANGED queueVars

PopWaits(p) ==
    /\ queue = << >> /\ ~closed /\ ~stopRequested
    /\ notEmpty' = notEmpty \cup {p}
    /\ UNCHANGED <<queue, closed, stopRequested, notFull>>

NotifyProducer ==
    /\ notFull' \in OneWoken(notFull)
    /\ UNCHANGED <<queue, closed, stopRequested, notEmpty>>

-----------------------------------------------------------------------------
(* close: drops what is queued.                                            *)
Close ==
    /\ closed' = TRUE
    /\ queue' = << >>
    /\ notFull' = AllWoken(notFull)
    /\ notEmpty' = AllWoken(notEmpty)
    /\ UNCHANGED stopRequested

(* A plausible bug: a drain that drops what is queued.                     *)
CloseDropping ==
    /\ closed' = TRUE
    /\ queue' = << >>
    /\ notFull' = AllWoken(notFull)
    /\ notEmpty' = AllWoken(notEmpty)
    /\ UNCHANGED stopRequested

(* A plausible bug: the waiters sleep on.                                  *)
CloseSilently ==
    /\ closed' = TRUE
    /\ UNCHANGED <<queue, stopRequested, notFull, notEmpty>>

CloseAfterDrain ==
    /\ closed' = TRUE
    /\ notFull' = AllWoken(notFull)
    /\ notEmpty' = AllWoken(notEmpty)
    /\ UNCHANGED <<queue, stopRequested>>

(* stop_source::request_stop, as far as the queue's waiters see it.        *)
StopQueue ==
    /\ stopRequested' = TRUE
    /\ notFull' = AllWoken(notFull)
    /\ notEmpty' = AllWoken(notEmpty)
    /\ UNCHANGED <<queue, closed>>

(* A wait may return without any of these.                                 *)
WakeSpuriously ==
    /\ \/ \E p \in notFull : notFull' = notFull \ {p} /\ UNCHANGED notEmpty
       \/ \E p \in notEmpty : notEmpty' = notEmpty \ {p} /\ UNCHANGED notFull
    /\ UNCHANGED <<queue, closed, stopRequested>>

==============================================================================
