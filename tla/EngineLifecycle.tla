---------------------------- MODULE EngineLifecycle ----------------------------
(***************************************************************************)
(* The engine's threads (src/src/engine.cpp): callers of ingest_batch, the *)
(* workers, the controller that starts and stops the engine, and whoever   *)
(* calls request_stop.                                                     *)
(*                                                                         *)
(* A submission is a slot <<caller, index>> of a batch.  What submit_sync  *)
(* decides about the evidence is the business of IngestDoor; here it is    *)
(* two steps: the store accepts or rejects, and what it accepted goes to   *)
(* the journal, which may fail without changing the outcome.  done[i] is   *)
(* result # "none": the code writes the two together.  Weak pointers of    *)
(* inbox_waiters_ that have expired belong to batches whose every slot is  *)
(* done, so stop's loop does nothing for them whether or not they are      *)
(* skipped.                                                                *)
(*                                                                         *)
(* The engine is the one with workers.  ingest, and ingest_batch without   *)
(* workers, submit on the caller's own thread and meet neither queue nor   *)
(* batch: IngestDoor has what they do.                                     *)
(***************************************************************************)
EXTENDS BoundedQueue, FiniteSets

CONSTANTS
    Callers,        \* threads that call ingest_batch, once each
    Workers,        \* worker_count threads
    Cancellers,     \* threads that call request_stop, once each
    BatchSize,      \* items per batch
    MaxCalls,       \* bound of a run: calls of start and stop
    MaxSetbacks,    \* bound of a run: setbacks after which nothing more is
                    \* rejected, nor fails to be journaled in an open session
    NoSlot

ASSUME LifecycleAssumption ==
    /\ BatchSize \in Nat \ {0}
    /\ MaxCalls \in Nat
    /\ MaxSetbacks \in Nat
    /\ IsFiniteSet(Callers)
    /\ Workers # {}

Slots == Callers \X (1..BatchSize)

ASSUME NoSlotAssumption == NoSlot \notin Slots

VARIABLES
    state,         \* state_
    session,       \* whether the journal has an open session
    calls,         \* start and stop calls so far (bounds the run)
    control,       \* where the controller is
    worker,        \* where each worker is
    holding,       \* the slot a worker has popped
    caller,        \* where each caller of ingest_batch is
    next,          \* the slot it pushes next
    result,        \* BatchState::results and done
    outstanding,   \* BatchState::outstanding
    batchWaiters,  \* callers waiting on their BatchState::cv
    waiters,       \* inbox_waiters_
    canceller,     \* where each caller of request_stop is
    stateRead,     \* the state it read
    stored,        \* evidence the store has accepted
    journaled,     \* of that, what the journal has taken
    failures,      \* and what it has not: persistence_failures_ counts them
    cancelled,     \* cancelled_
    abrupt         \* history: request_stop has been called

controlVars == <<state, session, calls, control>>
workerVars  == <<worker, holding>>
batchVars   == <<caller, next, result, outstanding, batchWaiters, waiters, cancelled>>
cancelVars  == <<canceller, stateRead, abrupt>>
dataVars    == <<stored, journaled, failures>>
vars == <<queueVars, controlVars, workerVars, batchVars, cancelVars, dataVars>>

Outcomes == {"none", "accepted", "rejected", "cancelled"}

States == {"Created", "Running", "Draining", "Stopped", "Failed"}

TypeOK ==
    /\ queue \in Seq(Slots) /\ Len(queue) <= Capacity
    /\ closed \in BOOLEAN /\ stopRequested \in BOOLEAN
    /\ notFull \subseteq Callers /\ notEmpty \subseteq Workers
    /\ state \in States
    /\ session \in BOOLEAN
    /\ calls \in 0..MaxCalls
    /\ control \in {"idle", "starting", "draining", "joining", "filling", "closing"}
    /\ worker \in [Workers -> {"absent", "popping", "notifying", "submitting",
                               "appending", "reporting", "exited"}]
    /\ holding \in [Workers -> Slots \cup {NoSlot}]
    /\ caller \in [Callers -> {"idle", "registering", "pushing", "notifying", "refusing",
                               "awaiting", "returned", "refused"}]
    /\ next \in [Callers -> 1..(BatchSize + 1)]
    /\ result \in [Callers -> [1..BatchSize -> Outcomes]]
    /\ outstanding \in [Callers -> 0..BatchSize]
    /\ batchWaiters \subseteq Callers
    /\ waiters \subseteq Callers
    /\ canceller \in [Cancellers -> {"idle", "closing", "reading", "marking", "returned"}]
    /\ stateRead \in [Cancellers -> States]
    /\ stored \subseteq Slots
    /\ journaled \subseteq Slots
    /\ failures \subseteq Slots
    /\ cancelled \in Nat
    /\ abrupt \in BOOLEAN

Init ==
    /\ QueueInit
    /\ state = "Created"
    /\ session = FALSE
    /\ calls = 0
    /\ control = "idle"
    /\ worker = [w \in Workers |-> "absent"]
    /\ holding = [w \in Workers |-> NoSlot]
    /\ caller = [c \in Callers |-> "idle"]
    /\ next = [c \in Callers |-> 1]
    /\ result = [c \in Callers |-> [i \in 1..BatchSize |-> "none"]]
    /\ outstanding = [c \in Callers |-> BatchSize]
    /\ batchWaiters = {}
    /\ waiters = {}
    /\ canceller = [k \in Cancellers |-> "idle"]
    /\ stateRead = [k \in Cancellers |-> "Created"]
    /\ stored = {}
    /\ journaled = {}
    /\ failures = {}
    /\ cancelled = 0
    /\ abrupt = FALSE

-----------------------------------------------------------------------------
(* Outcomes.                                                               *)

Undone(c) == {i \in 1..BatchSize : result[c][i] = "none"}

(* Every slot without an outcome is reported as cancelled.                 *)
Filled(c) == [i \in 1..BatchSize |-> IF i \in Undone(c) THEN "cancelled" ELSE result[c][i]]

(* A plausible bug: a refused or processed slot still counts.              *)
NotLess(n) == n

LessOne(n) == IF n > 0 THEN n - 1 ELSE 0

-----------------------------------------------------------------------------
(* start.                                                                  *)

Start ==
    /\ control = "idle" /\ calls < MaxCalls
    /\ state \in {"Created", "Stopped"}
    /\ calls' = calls + 1
    /\ \/ /\ session' = TRUE
          /\ worker' = [w \in Workers |-> "popping"]
          /\ control' = "starting"
          /\ UNCHANGED state
       \/ /\ state' = "Failed"
          /\ UNCHANGED <<session, worker, control>>
    /\ UNCHANGED <<queueVars, holding, batchVars, cancelVars, dataVars>>

StartEnds ==
    /\ control = "starting"
    /\ state' = "Running"
    /\ control' = "idle"
    /\ UNCHANGED <<queueVars, session, calls, workerVars, batchVars,
                   cancelVars, dataVars>>

-----------------------------------------------------------------------------
(* stop.                                                                   *)

Stop ==
    /\ control = "idle" /\ calls < MaxCalls
    /\ state # "Stopped"
    /\ calls' = calls + 1
    /\ IF state = "Created"
       THEN state' = "Stopped" /\ UNCHANGED control
       ELSE state' = "Draining" /\ control' = "draining"
    /\ UNCHANGED <<queueVars, session, workerVars, batchVars, cancelVars, dataVars>>

(* A plausible bug: the stop is requested before the workers are joined.   *)
StopCancelsFirst ==
    /\ control = "draining"
    /\ closed' = TRUE /\ stopRequested' = TRUE
    /\ notFull' = {} /\ notEmpty' = {} /\ batchWaiters' = {}
    /\ control' = "joining"
    /\ UNCHANGED <<queue, state, session, calls, workerVars, caller, next, result,
                   outstanding, waiters, cancelled, cancelVars, dataVars>>

StopDrains ==
    /\ control = "draining"
    /\ IF stopRequested THEN UNCHANGED queueVars ELSE CloseAfterDrain
    /\ control' = "joining"
    /\ UNCHANGED <<state, session, calls, workerVars, batchVars, cancelVars, dataVars>>

(* The join, then request_stop and close.  Those two are one step: when    *)
(* the stop was not requested before, the queue is closed already, and     *)
(* when it was, requesting it again does nothing.                          *)
StopJoins ==
    /\ control = "joining"
    /\ \A w \in Workers : worker[w] \in {"absent", "exited"}
    /\ worker' = [w \in Workers |-> "absent"]
    /\ stopRequested' = TRUE
    /\ closed' = TRUE
    /\ queue' = << >>
    /\ notFull' = AllWoken(notFull)
    /\ notEmpty' = AllWoken(notEmpty)
    /\ batchWaiters' = AllWoken(batchWaiters)
    /\ control' = "filling"
    /\ UNCHANGED <<state, session, calls, holding, caller, next, result, outstanding,
                   waiters, cancelled, cancelVars, dataVars>>

(* The registered batches get their outcomes, all under the waiters' mutex.*)
StopFills ==
    /\ control = "filling"
    /\ result' = [c \in Callers |-> IF c \in waiters THEN Filled(c) ELSE result[c]]
    /\ cancelled' = cancelled
         + Cardinality({slot \in Slots : slot[1] \in waiters /\ slot[2] \in Undone(slot[1])})
    /\ outstanding' = [c \in Callers |-> IF c \in waiters THEN 0 ELSE outstanding[c]]
    /\ batchWaiters' = batchWaiters \ waiters
    /\ waiters' = {}
    /\ control' = "closing"
    /\ UNCHANGED <<queueVars, state, session, calls, workerVars, caller, next,
                   cancelVars, dataVars>>

StopEnds ==
    /\ control = "closing"
    /\ session' = FALSE
    /\ state' \in {"Stopped", "Failed"}
    /\ control' = "idle"
    /\ UNCHANGED <<queueVars, calls, workerVars, batchVars, cancelVars, dataVars>>

-----------------------------------------------------------------------------
(* request_stop.                                                           *)

RequestStop(k) ==
    /\ canceller[k] = "idle"
    /\ StopQueue
    /\ batchWaiters' = AllWoken(batchWaiters)
    /\ abrupt' = TRUE
    /\ canceller' = [canceller EXCEPT ![k] = "closing"]
    /\ UNCHANGED <<controlVars, workerVars, caller, next, result, outstanding, waiters,
                   cancelled, stateRead, dataVars>>

CancellerCloses(k) ==
    /\ canceller[k] = "closing"
    /\ Close
    /\ canceller' = [canceller EXCEPT ![k] = "reading"]
    /\ UNCHANGED <<controlVars, workerVars, batchVars, stateRead, abrupt, dataVars>>

CancellerReads(k) ==
    /\ canceller[k] = "reading"
    /\ stateRead' = [stateRead EXCEPT ![k] = state]
    /\ canceller' = [canceller EXCEPT ![k] = "marking"]
    /\ UNCHANGED <<queueVars, controlVars, workerVars, batchVars, abrupt, dataVars>>

CancellerMarks(k) ==
    /\ canceller[k] = "marking"
    /\ state' = IF stateRead[k] = "Running" THEN "Draining" ELSE state
    /\ canceller' = [canceller EXCEPT ![k] = "returned"]
    /\ UNCHANGED <<queueVars, session, calls, control, workerVars, batchVars,
                   stateRead, abrupt, dataVars>>

-----------------------------------------------------------------------------
(* worker_main.                                                            *)

Pop(w) ==
    /\ worker[w] = "popping" /\ w \notin notEmpty
    /\ \/ /\ PopTakes
          /\ holding' = [holding EXCEPT ![w] = Head(queue)]
          /\ worker' = [worker EXCEPT ![w] = "notifying"]
       \/ /\ PopEnds
          /\ worker' = [worker EXCEPT ![w] = "exited"]
          /\ UNCHANGED holding
       \/ /\ PopWaits(w)
          /\ UNCHANGED workerVars
    /\ UNCHANGED <<controlVars, batchVars, cancelVars, dataVars>>

PopNotifies(w) ==
    /\ worker[w] = "notifying"
    /\ NotifyProducer
    /\ worker' = [worker EXCEPT ![w] = "submitting"]
    /\ UNCHANGED <<controlVars, holding, batchVars, cancelVars, dataVars>>

Rejections == {slot \in Slots : result[slot[1]][slot[2]] = "rejected"}

MoreSetbacks == Cardinality(failures \cup Rejections) < MaxSetbacks

(* submit_sync: the store, which may reject what it is given, ...          *)
Accept(x) == stored' = stored \cup {x} /\ UNCHANGED <<journaled, failures>>

Submit(w) ==
    /\ worker[w] = "submitting"
    /\ \/ /\ Accept(holding[w])
          /\ worker' = [worker EXCEPT ![w] = "appending"]
       \/ /\ MoreSetbacks
          /\ worker' = [worker EXCEPT ![w] = "reporting"]
          /\ UNCHANGED dataVars
    /\ UNCHANGED <<queueVars, controlVars, holding, batchVars, cancelVars>>

(* ... and the journal, for what was accepted.  It takes no record without *)
(* an open session, and with one the append may fail all the same (the     *)
(* payload too long, the stream bad): that is counted and changes nothing  *)
(* else.                                                                   *)
Journal(x) ==
    /\ \/ session /\ journaled' = journaled \cup {x} /\ UNCHANGED failures
       \/ /\ ~session \/ MoreSetbacks
          /\ failures' = failures \cup {x} /\ UNCHANGED journaled
    /\ UNCHANGED stored

AppendEvidence(w) ==
    /\ worker[w] = "appending"
    /\ Journal(holding[w])
    /\ worker' = [worker EXCEPT ![w] = "reporting"]
    /\ UNCHANGED <<queueVars, controlVars, holding, batchVars, cancelVars>>

(* The outcome submit_sync returned: the store's, whatever the journal did.*)
Verdict(x) == IF x \in stored THEN "accepted" ELSE "rejected"

Reported(c, i) ==
    IF result[c][i] = "none"
    THEN /\ result' = [result EXCEPT ![c][i] = Verdict(<<c, i>>)]
         /\ outstanding' = [outstanding EXCEPT ![c] = LessOne(@)]
    ELSE UNCHANGED <<result, outstanding>>

Report(w) ==
    /\ worker[w] = "reporting"
    /\ LET c == holding[w][1] IN
       /\ Reported(c, holding[w][2])
       /\ batchWaiters' = batchWaiters \ {c}
    /\ worker' = [worker EXCEPT ![w] = "popping"]
    /\ holding' = [holding EXCEPT ![w] = NoSlot]
    /\ UNCHANGED <<queueVars, controlVars, caller, next, waiters, cancelled,
                   cancelVars, dataVars>>

-----------------------------------------------------------------------------
(* ingest_batch.                                                           *)

IngestBatch(c) ==
    /\ caller[c] = "idle"
    /\ caller' = [caller EXCEPT ![c] = IF state = "Running" THEN "registering" ELSE "refused"]
    /\ UNCHANGED <<queueVars, controlVars, workerVars, next, result, outstanding, batchWaiters,
                   waiters, cancelled, cancelVars, dataVars>>

Register(c) ==
    /\ caller[c] = "registering"
    /\ waiters' = waiters \cup {c}
    /\ caller' = [caller EXCEPT ![c] = "pushing"]
    /\ UNCHANGED <<queueVars, controlVars, workerVars, next, result, outstanding, batchWaiters,
                   cancelled, cancelVars, dataVars>>

Push(c) ==
    /\ caller[c] = "pushing" /\ c \notin notFull
    /\ \/ /\ PushAccepted(<<c, next[c]>>)
          /\ caller' = [caller EXCEPT ![c] = "notifying"]
       \/ /\ PushRefused
          /\ caller' = [caller EXCEPT ![c] = "refusing"]
       \/ /\ PushWaits(c)
          /\ UNCHANGED caller
    /\ UNCHANGED <<controlVars, workerVars, next, result, outstanding, batchWaiters, waiters,
                   cancelled, cancelVars, dataVars>>

(* On to the next slot, or to the wait for all of them.                    *)
Advance(c) ==
    /\ next' = [next EXCEPT ![c] = @ + 1]
    /\ caller' = [caller EXCEPT ![c] = IF next[c] = BatchSize THEN "awaiting" ELSE "pushing"]

PushNotifies(c) ==
    /\ caller[c] = "notifying"
    /\ NotifyConsumer
    /\ Advance(c)
    /\ UNCHANGED <<controlVars, workerVars, result, outstanding, batchWaiters, waiters,
                   cancelled, cancelVars, dataVars>>

Refuse(c) ==
    /\ caller[c] = "refusing"
    /\ result' = [result EXCEPT ![c][next[c]] = "cancelled"]
    /\ outstanding' = [outstanding EXCEPT ![c] = LessOne(@)]
    /\ cancelled' = cancelled + 1
    /\ Advance(c)
    /\ UNCHANGED <<queueVars, controlVars, workerVars, batchWaiters, waiters,
                   cancelVars, dataVars>>

Await(c) ==
    /\ caller[c] = "awaiting" /\ c \notin batchWaiters
    /\ IF outstanding[c] = 0 \/ stopRequested
       THEN /\ result' = [result EXCEPT ![c] = Filled(c)]
            /\ cancelled' = cancelled + Cardinality(Undone(c))
            /\ outstanding' = [outstanding EXCEPT ![c] = 0]
            /\ caller' = [caller EXCEPT ![c] = "returned"]
            /\ UNCHANGED batchWaiters
       ELSE /\ batchWaiters' = batchWaiters \cup {c}
            /\ UNCHANGED <<result, cancelled, outstanding, caller>>
    /\ UNCHANGED <<queueVars, controlVars, workerVars, next, waiters, cancelVars,
                   dataVars>>

-----------------------------------------------------------------------------
(* A wait that returns for no reason.                                      *)
Spurious ==
    /\ \/ WakeSpuriously /\ UNCHANGED batchWaiters
       \/ \E c \in batchWaiters : batchWaiters' = batchWaiters \ {c} /\ UNCHANGED queueVars
    /\ UNCHANGED <<controlVars, workerVars, caller, next, result, outstanding, waiters,
                   cancelled, cancelVars, dataVars>>

(* Every caller has its answer and nobody will call again.                 *)
Quiescent ==
    /\ control = "idle"
    /\ \A c \in Callers : caller[c] \in {"returned", "refused"}
    /\ \A k \in Cancellers : canceller[k] = "returned"

Terminated == Quiescent /\ UNCHANGED vars

ControlStep == StartEnds \/ StopDrains \/ StopJoins \/ StopFills \/ StopEnds
WorkerStep(w) == Pop(w) \/ PopNotifies(w) \/ Submit(w) \/ AppendEvidence(w) \/ Report(w)
BatchStep(c) == Register(c) \/ Push(c) \/ PushNotifies(c) \/ Refuse(c) \/ Await(c)
CancelStep(k) == CancellerCloses(k) \/ CancellerReads(k) \/ CancellerMarks(k)

Next ==
    \/ Start \/ Stop \/ ControlStep
    \/ \E w \in Workers : WorkerStep(w)
    \/ \E c \in Callers : IngestBatch(c) \/ BatchStep(c)
    \/ \E k \in Cancellers : RequestStop(k) \/ CancelStep(k)
    \/ Spurious
    \/ Terminated

(* A thread that is not waiting eventually takes its next step.  Nobody is *)
(* obliged to call anything.                                               *)
Fairness ==
    /\ WF_vars(ControlStep)
    /\ \A w \in Workers : WF_vars(WorkerStep(w))
    /\ \A c \in Callers : WF_vars(BatchStep(c))
    /\ \A k \in Cancellers : WF_vars(CancelStep(k))

Spec == Init /\ [][Next]_vars /\ Fairness

-----------------------------------------------------------------------------
(* Safety.                                                                 *)

(* "Every slot is given a definite outcome so a caller can never mistake   *)
(* 'not processed' for 'processed'" (engine.cpp:364): threads, queue and   *)
(* stop together do nothing that the contract of ingest_batch does not     *)
(* allow.                                                                  *)
Contract ==
    INSTANCE IngestContract WITH
        accepted  <- {c \in Callers : caller[c] \notin {"idle", "refused"}},
        returned  <- {c \in Callers : caller[c] = "returned"},
        outcome   <- result,
        effective <- stored,
        recorded  <- journaled,
        failed    <- failures,
        abrupt    <- abrupt

IngestContractHolds == Contract!Spec

Held == {holding[w] : w \in Workers} \ {NoSlot}

InQueue == {queue[k] : k \in 1..Len(queue)}

(* The slots a caller has handed over, the one it is about to notify for   *)
(* included.                                                               *)
Pushed(c) ==
    {i \in 1..BatchSize : i < next[c] \/ (i = next[c] /\ caller[c] = "notifying")}

(* The counter a caller waits on is the number of slots that have no       *)
(* outcome yet, although callers, workers and stop all write both.         *)
OutstandingIsUndone == \A c \in Callers : outstanding[c] = Cardinality(Undone(c))

(* The queue "never drops silently" (CONCURRENCY.md): as long as nobody    *)
(* called request_stop, a slot that was handed over is queued, with a      *)
(* worker, in the store, or its caller is told that it was not taken.      *)
NeverDroppedSilently ==
    ~abrupt => \A c \in Callers : \A i \in Pushed(c) :
        \/ <<c, i>> \in InQueue \cup Held \cup stored
        \/ result[c][i] \in {"rejected", "cancelled"}

-----------------------------------------------------------------------------
(* Liveness.                                                               *)

(* Whoever hands over a batch gets an answer: no wake-up is lost between   *)
(* the queue's two condition variables, the batch's own, and the stop      *)
(* callbacks.                                                              *)
BatchesReturn == \A c \in Callers : caller[c] = "registering" ~> caller[c] = "returned"

(* stop returns, whatever is queued, waiting or requested meanwhile.       *)
StopReturns == control = "draining" ~> control = "idle"

(* What is queued is processed, also when stop is called, unless somebody  *)
(* calls request_stop: it is rejected, or it is in the store and then in   *)
(* the journal or among the failures that are counted.                     *)
QueuedIsProcessed ==
    \A slot \in Slots :
        (slot \in InQueue) ~>
            \/ slot \in stored \cap (journaled \cup failures)
            \/ result[slot[1]][slot[2]] = "rejected"
            \/ abrupt

================================================================================
