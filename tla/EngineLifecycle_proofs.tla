------------------------ MODULE EngineLifecycle_proofs ------------------------
(***************************************************************************)
(* The engine's threads keep the contract of ingest_batch: for any number  *)
(* of callers, workers and threads that call request_stop, any batch size  *)
(* and queue capacity, and any number of starts and stops.                 *)
(***************************************************************************)
EXTENDS EngineLifecycle, FiniteSetTheorems, SequenceTheorems, TLAPS

-----------------------------------------------------------------------------
(* The assumptions on the constants, expanded.                             *)
LEMMA Constants ==
    /\ Capacity \in Nat /\ Capacity > 0
    /\ BatchSize \in Nat /\ BatchSize > 0
    /\ MaxCalls \in Nat
    /\ MaxSetbacks \in Nat
    /\ IsFiniteSet(Callers)
    /\ Workers # {}
    /\ NoSlot \notin Slots
  BY QueueAssumption, LifecycleAssumption, NoSlotAssumption
     DEF QueueAssumption, LifecycleAssumption, NoSlotAssumption

USE DEF Outcomes

-----------------------------------------------------------------------------
(* Who writes what: every step of the engine either leaves a group of      *)
(* variables alone or is one of a few actions.                             *)

(* A worker that finds a slot, and a caller that finds space.              *)
Takes(w) ==
    /\ worker[w] = "popping" /\ queue # << >>
    /\ queue' = Tail(queue)
    /\ holding' = [holding EXCEPT ![w] = Head(queue)]
    /\ worker' = [worker EXCEPT ![w] = "notifying"]
    /\ UNCHANGED <<controlVars, batchVars, cancelVars, dataVars>>

Enqueues(c) ==
    /\ caller[c] = "pushing" /\ ~closed /\ Len(queue) < Capacity
    /\ queue' = Append(queue, <<c, next[c]>>)
    /\ caller' = [caller EXCEPT ![c] = "notifying"]
    /\ UNCHANGED <<controlVars, workerVars, next, result, outstanding, batchWaiters, waiters,
                   cancelled, cancelVars, dataVars>>

LEMMA QueueWriters ==
    ASSUME [Next]_vars
    PROVE  \/ queue' = queue
           \/ queue' = << >> /\ (StopJoins \/ \E k \in Cancellers : CancellerCloses(k))
           \/ \E w \in Workers : Takes(w)
           \/ \E c \in Callers : Enqueues(c)
  <1>1. ASSUME NEW w \in Workers, Pop(w)
        PROVE  queue' = queue \/ Takes(w)
    BY <1>1 DEF Pop, PopTakes, PopEnds, PopWaits, Takes, queueVars
  <1>2. ASSUME NEW c \in Callers, Push(c)
        PROVE  queue' = queue \/ Enqueues(c)
    BY <1>2 DEF Push, PushAccepted, PushRefused, PushWaits, HasSpace, Enqueues, queueVars
  <1>3. Next => \/ queue' = queue
                \/ StopJoins \/ \E k \in Cancellers : CancellerCloses(k)
                \/ \E w \in Workers : Pop(w)
                \/ \E c \in Callers : Push(c)
    BY DEF Next, vars, queueVars, ControlStep, WorkerStep, BatchStep, CancelStep,
           Terminated, Spurious, WakeSpuriously, Start, Stop, StartEnds, StopDrains,
           CloseAfterDrain, StopFills, StopEnds, RequestStop, StopQueue, CancellerReads,
           CancellerMarks, PopNotifies, NotifyProducer, Submit, AppendEvidence, Report,
           IngestBatch, Register, PushNotifies, NotifyConsumer, Refuse, Await
  <1>4. StopJoins \/ (\E k \in Cancellers : CancellerCloses(k)) => queue' = << >>
    BY DEF StopJoins, CancellerCloses, Close
  <1> QED BY <1>1, <1>2, <1>3, <1>4 DEF vars, queueVars

(* The wait sets: whoever waits got there by finding no space, or nothing  *)
(* to take.                                                                *)
LEMMA WaitWriters ==
    ASSUME [Next]_vars
    PROVE  /\ notFull' \subseteq notFull \cup Callers
           /\ notEmpty' \subseteq notEmpty \cup Workers
  <1>1. ASSUME NEW w \in Workers, Pop(w) \/ PopNotifies(w)
        PROVE  notFull' \subseteq notFull /\ notEmpty' \subseteq notEmpty \cup Workers
    BY <1>1 DEF Pop, PopTakes, PopEnds, PopWaits, PopNotifies, NotifyProducer, OneWoken, queueVars
  <1>2. ASSUME NEW c \in Callers, Push(c) \/ PushNotifies(c)
        PROVE  notFull' \subseteq notFull \cup Callers /\ notEmpty' \subseteq notEmpty
    BY <1>2 DEF Push, PushAccepted, PushRefused, PushWaits, PushNotifies, NotifyConsumer,
                OneWoken, queueVars
  <1>3. Next => \/ notFull' \subseteq notFull /\ notEmpty' \subseteq notEmpty
                \/ \E w \in Workers : Pop(w) \/ PopNotifies(w)
                \/ \E c \in Callers : Push(c) \/ PushNotifies(c)
    BY DEF Next, vars, queueVars, ControlStep, WorkerStep, BatchStep, CancelStep,
           Terminated, Spurious, WakeSpuriously, Start, Stop, StartEnds, StopDrains, StopJoins,
           CloseAfterDrain, AllWoken, StopFills, StopEnds, RequestStop, StopQueue,
           CancellerCloses, Close, CancellerReads, CancellerMarks, Submit, AppendEvidence,
           Report, IngestBatch, Register, Refuse, Await
  <1> QED BY <1>1, <1>2, <1>3 DEF vars, queueVars

LEMMA ControlWriters ==
    ASSUME [Next]_vars
    PROVE  \/ UNCHANGED controlVars
           \/ Start \/ Stop \/ ControlStep
           \/ \E k \in Cancellers : CancellerMarks(k)
  BY DEF Next, vars, WorkerStep, BatchStep, CancelStep, Terminated, Spurious,
         RequestStop, CancellerCloses, CancellerReads, Pop, PopNotifies, Submit,
         AppendEvidence, Report, IngestBatch, Register, Push, PushNotifies, Refuse, Await

LEMMA WorkerWriters ==
    ASSUME [Next]_vars
    PROVE  \/ UNCHANGED workerVars
           \/ Start \/ StopJoins
           \/ \E w \in Workers : WorkerStep(w)
  BY DEF Next, vars, ControlStep, BatchStep, CancelStep, Terminated, Spurious, Stop,
         StartEnds, StopDrains, StopFills, StopEnds, RequestStop, CancellerCloses,
         CancellerReads, CancellerMarks, IngestBatch, Register, Push, PushNotifies, Refuse,
         Await

LEMMA CallerWriters ==
    ASSUME [Next]_vars
    PROVE  \/ UNCHANGED <<caller, next, waiters>>
           \/ StopFills /\ UNCHANGED <<caller, next>> /\ waiters' = {}
           \/ \E c \in Callers : IngestBatch(c) \/ BatchStep(c)
  BY DEF Next, vars, batchVars, ControlStep, WorkerStep, CancelStep, Terminated,
         Spurious, Start, Stop, StartEnds, StopDrains, StopJoins, StopFills, StopEnds,
         RequestStop, CancellerCloses, CancellerReads, CancellerMarks, Pop, PopNotifies,
         Submit, AppendEvidence, Report

LEMMA AnswerWriters ==
    ASSUME [Next]_vars
    PROVE  \/ UNCHANGED <<result, outstanding, cancelled>>
           \/ StopFills
           \/ \E w \in Workers : Report(w)
           \/ \E c \in Callers : Refuse(c) \/ Await(c)
  BY DEF Next, vars, batchVars, ControlStep, WorkerStep, BatchStep, CancelStep,
         Terminated, Spurious, Start, Stop, StartEnds, StopDrains, StopJoins, StopEnds,
         RequestStop, CancellerCloses, CancellerReads, CancellerMarks, Pop, PopNotifies,
         Submit, AppendEvidence, IngestBatch, Register, Push, PushNotifies

LEMMA BatchWaitWriters ==
    ASSUME [Next]_vars
    PROVE  batchWaiters' \subseteq batchWaiters \cup Callers
  BY DEF Next, vars, batchVars, ControlStep, WorkerStep, BatchStep, CancelStep,
         Terminated, Spurious, Start, Stop, StartEnds, StopDrains, StopJoins, StopFills,
         StopEnds, AllWoken, RequestStop, CancellerCloses, CancellerReads, CancellerMarks, Pop,
         PopNotifies, Submit, AppendEvidence, Report, IngestBatch, Register, Push,
         PushNotifies, Refuse, Await

LEMMA DataWriters ==
    ASSUME [Next]_vars
    PROVE  \/ UNCHANGED dataVars
           \/ \E w \in Workers : Submit(w) \/ AppendEvidence(w)
  BY DEF Next, vars, ControlStep, WorkerStep, BatchStep, CancelStep, Terminated, Spurious,
         Start, Stop, StartEnds, StopDrains, StopJoins, StopFills, StopEnds, RequestStop,
         CancellerCloses, CancellerReads, CancellerMarks, Pop, PopNotifies, Report,
         IngestBatch, Register, Push, PushNotifies, Refuse, Await

LEMMA CancelWriters ==
    ASSUME [Next]_vars
    PROVE  \/ UNCHANGED cancelVars
           \/ \E k \in Cancellers : RequestStop(k) \/ CancelStep(k)
  BY DEF Next, vars, ControlStep, WorkerStep, BatchStep, Terminated, Spurious,
         Start, Stop, StartEnds, StopDrains, StopJoins, StopFills, StopEnds, Pop, PopNotifies,
         Submit, AppendEvidence, Report, IngestBatch, Register, Push, PushNotifies, Refuse,
         Await

(* The flags: a stop, once requested, and a queue, once closed, stay so.   *)
LEMMA FlagWriters ==
    ASSUME [Next]_vars
    PROVE  /\ closed' = closed \/ closed' = TRUE
           /\ stopRequested' = stopRequested \/ stopRequested' = TRUE
           /\ abrupt' = abrupt \/ abrupt' = TRUE
           /\ session' = session \/ session' = TRUE \/ session' = FALSE
  BY DEF Next, vars, queueVars, controlVars, cancelVars, ControlStep, WorkerStep, BatchStep, CancelStep, Terminated, Spurious, WakeSpuriously, Start, Stop, StartEnds,
         StopDrains, CloseAfterDrain, StopJoins, StopFills, StopEnds, RequestStop, StopQueue,
         CancellerCloses, Close, CancellerReads, CancellerMarks, Pop, PopTakes, PopEnds,
         PopWaits, PopNotifies, NotifyProducer, Submit, AppendEvidence, Report, IngestBatch,
         Register, Push, PushAccepted, PushRefused, PushWaits, PushNotifies, NotifyConsumer,
         Refuse, Await

LEMMA StopWriters ==
    ASSUME [Next]_vars
    PROVE  \/ stopRequested' = stopRequested
           \/ StopJoins
           \/ \E k \in Cancellers : RequestStop(k)
  BY DEF Next, vars, queueVars, ControlStep, WorkerStep, BatchStep, CancelStep,
         Terminated, Spurious, WakeSpuriously, Start, Stop, StartEnds, StopDrains,
         CloseAfterDrain, StopFills, StopEnds, CancellerCloses, Close, CancellerReads,
         CancellerMarks, Pop, PopTakes, PopEnds, PopWaits, PopNotifies, NotifyProducer, Submit,
         AppendEvidence, Report, IngestBatch, Register, Push, PushAccepted, PushRefused,
         PushWaits, PushNotifies, NotifyConsumer, Refuse, Await

-----------------------------------------------------------------------------
(* The inductive invariant.                                                *)

Items == 1..BatchSize

(* A worker between two visits to the queue has a slot in hand.            *)
IsBusy(w) == worker[w] \in {"notifying", "submitting", "appending", "reporting"}

Active(c) == caller[c] \notin {"idle", "refused"}

HandedOver == {s \in Slots : s[2] \in Pushed(s[1])}

(* Where a caller is in its batch.                                         *)
CallerInv ==
    /\ \A c \in Callers :
          /\ caller[c] \in {"idle", "registering", "refused"} => next[c] = 1
          /\ caller[c] \notin {"awaiting", "returned"} => next[c] <= BatchSize
    /\ \A c \in waiters : Active(c)

(* The controller, the state and the threads it starts and joins.          *)
ControlInv ==
    /\ control = "idle" /\ state \in {"Created", "Stopped"} =>
          \A w \in Workers : worker[w] = "absent"
    /\ control \in {"filling", "closing"} =>
          stopRequested /\ \A w \in Workers : worker[w] = "absent"
    /\ state = "Running" => control = "idle"
    /\ state = "Running" \/ control = "starting" => \A w \in Workers : worker[w] # "absent"
    /\ \A w \in Workers : worker[w] # "absent" => session
    /\ \A k \in Cancellers : canceller[k] # "idle" => abrupt

(* A slot that was handed over is in one place only: at one position of    *)
(* the queue, or in the hand of one worker.                                *)
SlotInv ==
    /\ \A w \in Workers : IsBusy(w) <=> holding[w] # NoSlot
    /\ \A w \in Workers : IsBusy(w) => holding[w] \in HandedOver
    /\ \A k \in 1..Len(queue) : queue[k] \in HandedOver
    /\ stored \subseteq HandedOver
    /\ \A v, w \in Workers : IsBusy(v) /\ holding[v] = holding[w] => v = w
    /\ \A j, k \in 1..Len(queue) : queue[j] = queue[k] => j = k
    /\ \A w \in Workers, k \in 1..Len(queue) : holding[w] # queue[k]

(* How far its evidence has come: what is accepted is journaled, or the    *)
(* failure is counted, before the worker reports.                          *)
EffectInv ==
    /\ \A k \in 1..Len(queue) : queue[k] \notin stored
    /\ \A w \in Workers :
          /\ worker[w] \in {"notifying", "submitting"} => holding[w] \notin stored
          /\ worker[w] = "appending" => holding[w] \in stored \ (journaled \cup failures)
          /\ worker[w] = "reporting" /\ holding[w] \in stored =>
                 holding[w] \in journaled \cup failures
    /\ journaled \cup failures \subseteq stored

(* A worker that will still report the slot.                               *)
Answering(slot) ==
    \E w \in Workers : worker[w] \in {"appending", "reporting"} /\ holding[w] = slot

(* What the outcomes say.                                                  *)
OutcomeInv ==
    /\ OutstandingIsUndone
    /\ \A c \in Callers, i \in Items :
          /\ result[c][i] = "accepted" =>
                 <<c, i>> \in stored /\ <<c, i>> \in journaled \cup failures
          /\ result[c][i] = "rejected" => <<c, i>> \notin stored
          /\ result[c][i] \in {"accepted", "rejected"} => i \in Pushed(c)
          /\ i \notin Pushed(c) => result[c][i] = "none" \/ Undone(c) = {}
          /\ <<c, i>> \in stored => result[c][i] # "none" \/ Answering(<<c, i>>)

(* The slots that are queued or in a worker's hand have these outcomes.    *)
OnTheWay(outcomes) ==
    /\ \A w \in Workers : IsBusy(w) => result[holding[w][1]][holding[w][2]] \in outcomes
    /\ \A k \in 1..Len(queue) : result[queue[k][1]][queue[k][2]] \in outcomes

(* Nobody but its worker says of a slot what became of its evidence, ...   *)
UndecidedInv == OnTheWay({"none", "cancelled"})

(* ... and unless request_stop was called nobody answers for it at all.    *)
PendingInv == ~abrupt => OnTheWay({"none"})

(* A worker leaves, and stop is requested, only when nothing is queued and *)
(* nothing more will be, unless request_stop was called.                   *)
StopInv ==
    /\ ~abrupt /\ stopRequested =>
          closed /\ queue = << >> /\ \A w \in Workers : ~IsBusy(w)
    /\ \A w \in Workers :
          /\ ~abrupt /\ worker[w] = "exited" => closed /\ queue = << >>
          /\ worker[w] = "absent" => queue = << >> /\ (closed \/ \A c \in Callers : ~Active(c))
    /\ \A c \in Callers :
          ~abrupt /\ (caller[c] = "refusing" \/ \E i \in Items : result[c][i] = "cancelled") =>
              closed

IInv ==
    /\ TypeOK /\ CallerInv /\ ControlInv /\ SlotInv /\ EffectInv /\ OutcomeInv
    /\ UndecidedInv /\ PendingInv /\ StopInv /\ NeverDroppedSilently

-----------------------------------------------------------------------------
(* Type correctness, group by group.                                       *)

QueueType ==
    /\ queue \in Seq(Slots) /\ Len(queue) <= Capacity
    /\ notFull \subseteq Callers /\ notEmpty \subseteq Workers

ControlType ==
    /\ state \in States
    /\ calls \in 0..MaxCalls
    /\ control \in {"idle", "starting", "draining", "joining", "filling", "closing"}

WorkerType ==
    /\ worker \in [Workers -> {"absent", "popping", "notifying", "submitting",
                               "appending", "reporting", "exited"}]
    /\ holding \in [Workers -> Slots \cup {NoSlot}]

BatchType ==
    /\ caller \in [Callers -> {"idle", "registering", "pushing", "notifying", "refusing",
                               "awaiting", "returned", "refused"}]
    /\ next \in [Callers -> 1..(BatchSize + 1)]
    /\ result \in [Callers -> [Items -> Outcomes]]
    /\ outstanding \in [Callers -> 0..BatchSize]
    /\ batchWaiters \subseteq Callers
    /\ waiters \subseteq Callers
    /\ cancelled \in Nat

EffectType ==
    /\ canceller \in [Cancellers -> {"idle", "closing", "reading", "marking", "returned"}]
    /\ stateRead \in [Cancellers -> States]
    /\ stored \subseteq Slots /\ journaled \subseteq Slots /\ failures \subseteq Slots

FlagType ==
    /\ closed \in BOOLEAN /\ stopRequested \in BOOLEAN
    /\ session \in BOOLEAN
    /\ abrupt \in BOOLEAN

LEMMA TypeParts ==
    TypeOK <=> QueueType /\ ControlType /\ WorkerType /\ BatchType /\ EffectType /\ FlagType
  BY DEF TypeOK, QueueType, ControlType, WorkerType, BatchType, EffectType, FlagType, Items

LEMMA TypeHolds == Init => TypeOK
  <1> SUFFICES ASSUME Init PROVE TypeOK
    OBVIOUS
  <1> USE Constants DEF Init
  <1>1. QueueType
    BY EmptySeq DEF QueueInit, QueueType
  <1>2. ControlType
    BY DEF ControlType, States
  <1>3. WorkerType
    BY DEF WorkerType
  <1>4. BatchType
    BY DEF BatchType, Items
  <1>5. EffectType
    BY DEF EffectType, States
  <1>6. FlagType
    BY DEF QueueInit, FlagType
  <1> QED BY <1>1, <1>2, <1>3, <1>4, <1>5, <1>6, TypeParts

LEMMA QueueTypeKept ==
    ASSUME TypeOK, CallerInv, [Next]_vars
    PROVE  QueueType'
  <1>1. QueueType /\ BatchType
    BY TypeParts
  <1>2. queue' \in Seq(Slots) /\ Len(queue') <= Capacity
    <2> USE <1>1 DEF QueueType
    <2>1. CASE queue' = queue
      BY <2>1
    <2>2. CASE queue' = << >>
      BY <2>2, EmptySeq, Constants
    <2>3. ASSUME NEW w \in Workers, Takes(w)
          PROVE  queue' \in Seq(Slots) /\ Len(queue') <= Capacity
      BY <2>3, HeadTailProperties, Constants DEF Takes
    <2>4. ASSUME NEW c \in Callers, Enqueues(c)
          PROVE  queue' \in Seq(Slots) /\ Len(queue') <= Capacity
      <3>1. next[c] \in 1..(BatchSize + 1) /\ next[c] <= BatchSize
        BY <1>1, <2>4 DEF Enqueues, CallerInv, BatchType
      <3>2. <<c, next[c]>> \in Slots
        BY <3>1, Constants DEF Slots
      <3> QED BY <2>4, <3>2, AppendProperties, Constants DEF Enqueues
    <2> QED BY QueueWriters, <2>1, <2>2, <2>3, <2>4
  <1>3. notFull' \subseteq Callers /\ notEmpty' \subseteq Workers
    BY <1>1, WaitWriters DEF QueueType
  <1> QED BY <1>2, <1>3 DEF QueueType

LEMMA ControlTypeKept ==
    ASSUME TypeOK, [Next]_vars
    PROVE  ControlType'
  <1> USE DEF ControlType, States
  <1>1. ControlType
    BY TypeParts
  <1>2. CASE UNCHANGED controlVars
    BY <1>1, <1>2 DEF controlVars
  <1>3. CASE Start \/ Stop
    BY <1>1, <1>3, Constants DEF Start, Stop
  <1>4. CASE ControlStep
    BY <1>1, <1>4 DEF ControlStep, StartEnds, StopDrains, StopJoins, StopFills, StopEnds
  <1>5. ASSUME NEW k \in Cancellers, CancellerMarks(k)
        PROVE  ControlType'
    BY <1>1, <1>5 DEF CancellerMarks
  <1> QED BY ControlWriters, <1>2, <1>3, <1>4, <1>5

LEMMA WorkerTypeKept ==
    ASSUME TypeOK, [Next]_vars
    PROVE  WorkerType'
  <1> USE DEF WorkerType
  <1>1. WorkerType /\ QueueType
    BY TypeParts
  <1>2. CASE UNCHANGED workerVars
    BY <1>1, <1>2 DEF workerVars
  <1>3. CASE Start \/ StopJoins
    BY <1>1, <1>3 DEF Start, StopJoins, workerVars
  <1>4. ASSUME NEW w \in Workers, WorkerStep(w)
        PROVE  WorkerType'
    <2>1. CASE Pop(w)
      <3>1. queue # << >> => Head(queue) \in Slots
        BY <1>1 DEF QueueType
      <3> QED BY <1>1, <2>1, <3>1 DEF Pop, PopTakes, workerVars
    <2>2. CASE PopNotifies(w) \/ Submit(w) \/ AppendEvidence(w) \/ Report(w)
      BY <1>1, <2>2 DEF PopNotifies, Submit, AppendEvidence, Report
    <2> QED BY <1>4, <2>1, <2>2 DEF WorkerStep
  <1> QED BY WorkerWriters, <1>2, <1>3, <1>4

LEMMA UndoneIsFinite ==
    ASSUME NEW c
    PROVE  IsFiniteSet(Undone(c)) /\ Cardinality(Undone(c)) \in 0..BatchSize
  <1>1. Undone(c) \subseteq 1..BatchSize
    BY DEF Undone
  <1>2. IsFiniteSet(1..BatchSize) /\ Cardinality(1..BatchSize) = BatchSize
    BY Constants, FS_Interval
  <1> QED BY <1>1, <1>2, FS_Subset, FS_CardinalityType, Constants

LEMMA SlotsAreFinite == IsFiniteSet(Slots)
  <1>1. IsFiniteSet(1..BatchSize)
    BY Constants, FS_Interval
  <1> QED BY <1>1, Constants, FS_Product DEF Slots

LEMMA FilledType ==
    ASSUME BatchType, NEW c \in Callers
    PROVE  Filled(c) \in [Items -> Outcomes]
  BY DEF BatchType, Filled, Items

LEMMA BatchTypeKept ==
    ASSUME TypeOK, CallerInv, [Next]_vars
    PROVE  BatchType'
  <1> DEFINE AnswerType == /\ result \in [Callers -> [Items -> Outcomes]]
                           /\ outstanding \in [Callers -> 0..BatchSize]
                           /\ cancelled \in Nat
             Stage == {"idle", "registering", "pushing", "notifying", "refusing", "awaiting",
                       "returned", "refused"}
  <1>1. BatchType /\ WorkerType
    BY TypeParts
  <1>2. /\ caller' \in [Callers -> Stage]
        /\ next' \in [Callers -> 1..(BatchSize + 1)]
        /\ waiters' \subseteq Callers
    <2> USE <1>1 DEF BatchType
    <2>1. CASE UNCHANGED <<caller, next, waiters>>
      BY <2>1
    <2>2. CASE UNCHANGED <<caller, next>> /\ waiters' = {}
      BY <2>2
    <2>3. ASSUME NEW c \in Callers, IngestBatch(c) \/ Register(c) \/ Push(c) \/ Await(c)
          PROVE  /\ caller' \in [Callers -> Stage]
                 /\ next' = next /\ waiters' \subseteq Callers
      BY <2>3 DEF IngestBatch, Register, Push, Await
    <2>4. ASSUME NEW c \in Callers, PushNotifies(c) \/ Refuse(c)
          PROVE  /\ caller' \in [Callers -> Stage]
                 /\ next' \in [Callers -> 1..(BatchSize + 1)]
                 /\ waiters' = waiters
      <3>1. Advance(c) /\ waiters' = waiters /\ caller[c] \in {"notifying", "refusing"}
        BY <2>4 DEF PushNotifies, Refuse
      <3>2. next[c] \in 1..(BatchSize + 1) /\ next[c] <= BatchSize
        BY <3>1 DEF CallerInv
      <3> QED BY <3>1, <3>2, Constants DEF Advance
    <2> QED BY CallerWriters, <2>1, <2>2, <2>3, <2>4 DEF BatchStep
  <1>3. AnswerType'
    <2> USE <1>1 DEF BatchType
    <2>1. CASE UNCHANGED <<result, outstanding, cancelled>>
      BY <2>1
    <2>2. CASE StopFills
      <3>1. cancelled' \in Nat
        <4> DEFINE open == {slot \in Slots : slot[1] \in waiters /\ slot[2] \in Undone(slot[1])}
        <4>1. Cardinality(open) \in Nat
          BY SlotsAreFinite, FS_Subset, FS_CardinalityType
        <4> QED BY <2>2, <4>1 DEF StopFills
      <3>2. outstanding' \in [Callers -> 0..BatchSize]
        BY <2>2, Constants DEF StopFills
      <3>3. result' \in [Callers -> [Items -> Outcomes]]
        BY <2>2, FilledType DEF StopFills
      <3> QED BY <3>1, <3>2, <3>3
    <2>3. ASSUME NEW w \in Workers, Report(w)
          PROVE  AnswerType'
      <3> DEFINE c == holding[w][1]
                 i == holding[w][2]
      <3> DEFINE verdict == Verdict(<<c, i>>)
      <3>1. /\ \/ UNCHANGED <<result, outstanding>>
               \/ /\ result' = [result EXCEPT ![c][i] = verdict]
                  /\ outstanding' = [outstanding EXCEPT ![c] = LessOne(@)]
            /\ cancelled' = cancelled
            /\ verdict \in Outcomes
        BY <2>3 DEF Report, Reported, Verdict
      <3> HIDE DEF c, i, verdict
      <3>2. result' \in [Callers -> [Items -> Outcomes]]
        <4>1. ASSUME NEW d \in Callers
              PROVE  result'[d] \in [Items -> Outcomes]
          <5>1. result[d] \in [Items -> Outcomes]
            OBVIOUS
          <5>2. \/ result'[d] = result[d]
                \/ result'[d] = [result[d] EXCEPT ![i] = verdict]
            BY <3>1
          <5> QED BY <3>1, <5>1, <5>2
        <4>2. result' = [d \in Callers |-> result'[d]]
          BY <3>1
        <4> QED BY <4>1, <4>2
      <3>3. outstanding' \in [Callers -> 0..BatchSize]
        BY <3>1, Constants DEF LessOne
      <3> QED BY <3>1, <3>2, <3>3
    <2>4. ASSUME NEW c \in Callers, Refuse(c)
          PROVE  AnswerType'
      <3>1. result' \in [Callers -> [Items -> Outcomes]]
        BY <2>4 DEF Refuse
      <3>2. outstanding' \in [Callers -> 0..BatchSize]
        BY <2>4, Constants DEF Refuse, LessOne
      <3>3. cancelled' \in Nat
        BY <2>4 DEF Refuse
      <3> QED BY <3>1, <3>2, <3>3
    <2>5. ASSUME NEW c \in Callers, Await(c)
          PROVE  AnswerType'
      <3>1. CASE UNCHANGED <<result, outstanding, cancelled>>
        BY <3>1
      <3>2. CASE /\ result' = [result EXCEPT ![c] = Filled(c)]
                 /\ cancelled' = cancelled + Cardinality(Undone(c))
                 /\ outstanding' = [outstanding EXCEPT ![c] = 0]
        <4>1. Filled(c) \in [Items -> Outcomes] /\ Cardinality(Undone(c)) \in Nat
          BY FilledType, UndoneIsFinite, FS_CardinalityType
        <4>2. result' \in [Callers -> [Items -> Outcomes]]
          BY <3>2, <4>1
        <4>3. outstanding' \in [Callers -> 0..BatchSize] /\ cancelled' \in Nat
          BY <3>2, <4>1, Constants
        <4> QED BY <4>2, <4>3
      <3> QED BY <2>5, <3>1, <3>2 DEF Await
    <2> QED BY AnswerWriters, <2>1, <2>2, <2>3, <2>4, <2>5
  <1>4. batchWaiters' \subseteq Callers
    BY <1>1, BatchWaitWriters DEF BatchType
  <1> QED BY <1>2, <1>3, <1>4 DEF BatchType

LEMMA EffectTypeKept ==
    ASSUME TypeOK, SlotInv, [Next]_vars
    PROVE  EffectType'
  <1>1. EffectType /\ ControlType
    BY TypeParts
  <1>2. stored' \subseteq Slots /\ journaled' \subseteq Slots /\ failures' \subseteq Slots
    <2> USE <1>1 DEF EffectType
    <2>1. CASE UNCHANGED dataVars
      BY <2>1 DEF dataVars
    <2>2. ASSUME NEW w \in Workers, Submit(w) \/ AppendEvidence(w)
          PROVE  /\ stored' \subseteq stored \cup {holding[w]}
                 /\ journaled' \subseteq journaled \cup {holding[w]}
                 /\ failures' \subseteq failures \cup {holding[w]}
                 /\ holding[w] \in Slots
      BY <2>2 DEF Submit, Accept, AppendEvidence, Journal, SlotInv, IsBusy, HandedOver, dataVars
    <2> QED BY DataWriters, <2>1, <2>2
  <1>3. /\ canceller' \in [Cancellers -> {"idle", "closing", "reading", "marking", "returned"}]
        /\ stateRead' \in [Cancellers -> States]
    <2>1. CASE UNCHANGED cancelVars
      BY <1>1, <2>1 DEF EffectType, cancelVars
    <2>2. ASSUME NEW k \in Cancellers, RequestStop(k) \/ CancelStep(k)
          PROVE  /\ canceller' \in [Cancellers -> {"idle", "closing", "reading", "marking",
                                                   "returned"}]
                 /\ stateRead' \in [Cancellers -> States]
      BY <1>1, <2>2 DEF EffectType, ControlType, CancelStep, RequestStop, CancellerCloses,
                        CancellerReads, CancellerMarks
    <2> QED BY CancelWriters, <2>1, <2>2
  <1> QED BY <1>2, <1>3 DEF EffectType

LEMMA FlagTypeKept ==
    ASSUME TypeOK, [Next]_vars
    PROVE  FlagType'
  BY TypeParts, FlagWriters DEF FlagType

-----------------------------------------------------------------------------
(* The callers.                                                            *)

LEMMA StepsUp ==
    ASSUME NEW b \in Nat, NEW n \in 1..(b + 1), n <= b
    PROVE  n \in 1..b /\ (n # b => n + 1 <= b)
  OBVIOUS

LEMMA CallerInvKept ==
    ASSUME TypeOK, CallerInv, [Next]_vars
    PROVE  CallerInv'
  <1>1. BatchType
    BY TypeParts
  <1> USE <1>1 DEF CallerInv, Active, BatchType
  <1>2. CASE UNCHANGED <<caller, next, waiters>>
    BY <1>2
  <1>3. CASE UNCHANGED <<caller, next>> /\ waiters' = {}
    BY <1>3
  <1>4. ASSUME NEW c \in Callers, IngestBatch(c) \/ Register(c) \/ Push(c) \/ Await(c)
        PROVE  CallerInv'
    <2>1. next' = next /\ next[c] \in 1..(BatchSize + 1)
      BY <1>4 DEF IngestBatch, Register, Push, Await
    <2>2. \A e \in Callers \ {c} : caller'[e] = caller[e]
      BY <1>4 DEF IngestBatch, Register, Push, Await
    <2>3. CASE IngestBatch(c)
      <3>1. /\ caller[c] = "idle" /\ caller'[c] \in {"registering", "refused"}
            /\ waiters' = waiters
        BY <2>3 DEF IngestBatch
      <3> QED BY <2>1, <2>2, <3>1, Constants
    <2>4. CASE Register(c)
      <3>1. /\ caller[c] = "registering" /\ caller'[c] = "pushing"
            /\ waiters' = waiters \cup {c}
        BY <2>4 DEF Register
      <3> QED BY <2>1, <2>2, <3>1, Constants
    <2>5. CASE Push(c)
      <3>1. /\ caller[c] = "pushing" /\ caller'[c] \in {"pushing", "notifying", "refusing"}
            /\ waiters' = waiters
        BY <2>5 DEF Push
      <3> QED BY <2>1, <2>2, <3>1
    <2>6. CASE Await(c)
      <3>1. /\ caller[c] = "awaiting" /\ caller'[c] \in {"awaiting", "returned"}
            /\ waiters' = waiters
        BY <2>6 DEF Await
      <3> QED BY <2>1, <2>2, <3>1
    <2> QED BY <1>4, <2>3, <2>4, <2>5, <2>6
  <1>5. ASSUME NEW c \in Callers, PushNotifies(c) \/ Refuse(c)
        PROVE  CallerInv'
    <2>1. Advance(c) /\ waiters' = waiters /\ caller[c] \in {"notifying", "refusing"}
      BY <1>5 DEF PushNotifies, Refuse
    <2>2. next[c] \in 1..(BatchSize + 1) /\ next[c] <= BatchSize
      BY <2>1
    <2>3. /\ caller'[c] \in {"awaiting", "pushing"} /\ Active(c)'
          /\ caller'[c] # "awaiting" => next'[c] <= BatchSize
      <3>1. /\ caller'[c] = IF next[c] = BatchSize THEN "awaiting" ELSE "pushing"
            /\ next'[c] = next[c] + 1
        BY <2>1 DEF Advance
      <3>2. CASE next[c] = BatchSize
        BY <3>1, <3>2
      <3>3. CASE next[c] # BatchSize
        <4>1. next[c] + 1 <= BatchSize
          BY <3>3, <2>2, Constants, StepsUp
        <4> QED BY <3>1, <3>3, <4>1
      <3> QED BY <3>2, <3>3
    <2>4. \A e \in Callers \ {c} : caller'[e] = caller[e] /\ next'[e] = next[e]
      BY <2>1 DEF Advance
    <2> QED BY <2>1, <2>3, <2>4
  <1> QED BY CallerWriters, <1>2, <1>3, <1>4, <1>5 DEF BatchStep

-----------------------------------------------------------------------------
(* The controller.                                                         *)

(* Only start makes workers, and only stop takes them away.                *)
LEMMA WorkersStay ==
    ASSUME TypeOK, [Next]_vars, ~Start, ~StopJoins, NEW w \in Workers
    PROVE  worker'[w] = "absent" <=> worker[w] = "absent"
  <1>1. WorkerType
    BY TypeParts
  <1>2. CASE UNCHANGED workerVars
    BY <1>2 DEF workerVars
  <1>3. ASSUME NEW v \in Workers, WorkerStep(v)
        PROVE  /\ \A u \in Workers \ {v} : worker'[u] = worker[u]
               /\ worker[v] # "absent" /\ worker'[v] # "absent"
    <2>1. CASE Pop(v)
      BY <1>1, <2>1 DEF WorkerType, Pop, workerVars
    <2>2. CASE PopNotifies(v) \/ Submit(v) \/ AppendEvidence(v) \/ Report(v)
      BY <1>1, <2>2 DEF WorkerType, PopNotifies, Submit, AppendEvidence, Report
    <2> QED BY <1>3, <2>1, <2>2 DEF WorkerStep
  <1> QED BY WorkerWriters, <1>2, <1>3

LEMMA CancellersAreAbrupt ==
    ASSUME TypeOK, ControlInv, [Next]_vars, NEW k \in Cancellers, canceller'[k] # "idle"
    PROVE  abrupt'
  <1>1. EffectType
    BY TypeParts
  <1>2. CASE UNCHANGED cancelVars
    BY <1>2 DEF cancelVars, ControlInv
  <1>3. ASSUME NEW j \in Cancellers, RequestStop(j)
        PROVE  abrupt'
    BY <1>3 DEF RequestStop
  <1>4. ASSUME NEW j \in Cancellers, CancelStep(j)
        PROVE  abrupt'
    BY <1>4 DEF CancelStep, CancellerCloses, CancellerReads, CancellerMarks, ControlInv
  <1> QED BY CancelWriters, <1>2, <1>3, <1>4

LEMMA ControlInvKept ==
    ASSUME TypeOK, ControlInv, [Next]_vars
    PROVE  ControlInv'
  <1> DEFINE AllAbsent == \A w \in Workers : worker[w] = "absent"
             AllPresent == \A w \in Workers : worker[w] # "absent"
             Control == /\ control = "idle" /\ state \in {"Created", "Stopped"} => AllAbsent
                        /\ control \in {"filling", "closing"} => stopRequested /\ AllAbsent
                        /\ state = "Running" => control = "idle"
                        /\ state = "Running" \/ control = "starting" => AllPresent
                        /\ session \/ AllAbsent
  <1>1. ControlType /\ Control
    BY TypeParts DEF ControlInv
  <1>2. stopRequested => stopRequested'
    BY FlagWriters
  <1>3. ~Start /\ ~StopJoins => (AllAbsent' <=> AllAbsent) /\ (AllPresent' <=> AllPresent)
    BY WorkersStay
  <1>4. \A k \in Cancellers : canceller'[k] # "idle" => abrupt'
    BY CancellersAreAbrupt
  <1>5. Control'
    <2>1. CASE UNCHANGED controlVars
      <3>1. ~Start /\ ~StopJoins
        BY <2>1, <1>1 DEF Start, StopJoins, controlVars, ControlType
      <3> QED BY <2>1, <3>1, <1>1, <1>2, <1>3 DEF controlVars
    <2>2. CASE Start
      <3>1. CASE control' = "starting"
        <4>1. session' /\ AllPresent' /\ state' = state /\ state # "Running"
          BY <2>2, <3>1 DEF Start
        <4> QED BY <3>1, <4>1
      <3>2. CASE control' # "starting"
        <4>1. /\ state' = "Failed" /\ control' = "idle"
              /\ UNCHANGED <<session, worker>>
          BY <2>2, <3>2 DEF Start
        <4> QED BY <4>1, <1>1
      <3> QED BY <3>1, <3>2
    <2>3. CASE StopJoins
      <3>1. /\ control = "joining" /\ control' = "filling" /\ stopRequested'
            /\ AllAbsent' /\ state' = state
        BY <2>3 DEF StopJoins
      <3> QED BY <3>1, <1>1
    <2>4. CASE Stop \/ StartEnds \/ StopDrains \/ StopFills \/ StopEnds
      <3>1. ~Start /\ ~StopJoins
        BY <2>4 DEF Start, Stop, StartEnds, StopDrains, StopFills, StopEnds, StopJoins
      <3>2. /\ AllAbsent' <=> AllAbsent
            /\ AllPresent' <=> AllPresent
        BY <3>1, <1>3
      <3> HIDE DEF AllAbsent, AllPresent
      <3>3. CASE Stop
        BY <3>2, <3>3, <1>1, <1>2 DEF Stop, ControlType
      <3>4. CASE StartEnds
        BY <3>2, <3>4, <1>1, <1>2 DEF StartEnds
      <3>5. CASE StopDrains
        BY <3>2, <3>5, <1>1, <1>2 DEF StopDrains
      <3>6. CASE StopFills
        BY <3>2, <3>6, <1>1, <1>2 DEF StopFills
      <3>7. CASE StopEnds
        BY <3>2, <3>7, <1>1, <1>2 DEF StopEnds
      <3> QED BY <2>4, <3>3, <3>4, <3>5, <3>6, <3>7
    <2>5. ASSUME NEW k \in Cancellers, CancellerMarks(k)
          PROVE  Control'
      <3>1. /\ UNCHANGED <<session, control, worker>>
            /\ state' = state \/ state' = "Draining"
        BY <2>5 DEF CancellerMarks, workerVars
      <3> QED BY <3>1, <1>1, <1>2
    <2> QED BY ControlWriters, <2>1, <2>2, <2>3, <2>4, <2>5 DEF ControlStep
  <1> QED BY <1>4, <1>5 DEF ControlInv

-----------------------------------------------------------------------------
(* How slots travel.                                                       *)

(* A caller hands over the slot it is at when the queue accepts or refuses *)
(* it, and at no other step.                                               *)
LEMMA PushedWriters ==
    ASSUME TypeOK, CallerInv, [Next]_vars, NEW c \in Callers
    PROVE  \/ Pushed(c)' = Pushed(c)
           \/ /\ Enqueues(c) \/ Refuse(c)
              /\ Pushed(c)' = Pushed(c) \cup {next[c]}
              /\ next[c] \in Items \ Pushed(c)
  <1>1. BatchType /\ next[c] \in 1..(BatchSize + 1)
    BY TypeParts DEF BatchType
  <1>2. CASE UNCHANGED <<caller[c], next[c]>>
    BY <1>2 DEF Pushed
  <1>3. CASE caller[c] # "notifying" /\ caller'[c] # "notifying" /\ next'[c] = next[c]
    BY <1>3 DEF Pushed
  <1>4. ASSUME NEW e \in Callers, IngestBatch(e) \/ BatchStep(e), e # c
        PROVE  UNCHANGED <<caller[c], next[c]>>
    BY <1>1, <1>4 DEF BatchType, IngestBatch, BatchStep, Register, Push, PushNotifies, Refuse,
                      Await, Advance
  <1>5. CASE IngestBatch(c) \/ Register(c) \/ Await(c)
    <2>1. caller[c] # "notifying" /\ caller'[c] # "notifying" /\ next'[c] = next[c]
      BY <1>1, <1>5 DEF BatchType, IngestBatch, Register, Await
    <2> QED BY <2>1, <1>3
  <1>6. CASE Push(c)
    <2>1. caller[c] = "pushing" /\ next' = next
      BY <1>6 DEF Push
    <2>2. CASE PushAccepted(<<c, next[c]>>)
      <3>1. Enqueues(c)
        BY <1>6, <2>2 DEF Push, PushAccepted, PushRefused, PushWaits, HasSpace, Enqueues, queueVars
      <3>2. caller'[c] = "notifying"
        BY <1>1, <3>1 DEF Enqueues, BatchType
      <3>3. next[c] \in 1..BatchSize
        BY <1>1, <2>1, StepsUp, Constants DEF CallerInv
      <3> QED BY <2>1, <3>1, <3>2, <3>3 DEF Pushed, Items
    <2>3. CASE ~PushAccepted(<<c, next[c]>>)
      <3>1. caller'[c] # "notifying"
        BY <1>1, <1>6, <2>1, <2>3 DEF Push, BatchType
      <3> QED BY <2>1, <3>1, <1>3
    <2> QED BY <2>2, <2>3
  <1>7. CASE PushNotifies(c) \/ Refuse(c)
    <2>1. /\ Advance(c)
          /\ \/ PushNotifies(c) /\ caller[c] = "notifying"
             \/ Refuse(c) /\ caller[c] = "refusing"
      BY <1>7 DEF PushNotifies, Refuse
    <2>2. next'[c] = next[c] + 1 /\ caller'[c] # "notifying"
      BY <1>1, <2>1 DEF BatchType, Advance
    <2>3. next[c] \in 1..BatchSize
      BY <1>1, <2>1, StepsUp, Constants DEF CallerInv
    <2>4. \A i \in 1..BatchSize : i < next'[c] <=> i < next[c] \/ i = next[c]
      BY <2>2, <2>3, Constants
    <2> QED BY <2>1, <2>2, <2>3, <2>4 DEF Pushed, Items
  <1>8. UNCHANGED <<caller, next>> \/ \E e \in Callers : IngestBatch(e) \/ BatchStep(e)
    BY CallerWriters
  <1> QED BY <1>2, <1>4, <1>5, <1>6, <1>7, <1>8 DEF BatchStep

LEMMA HandedOverStays ==
    ASSUME TypeOK, CallerInv, [Next]_vars
    PROVE  HandedOver \subseteq HandedOver'
  BY PushedWriters DEF HandedOver, Slots

(* No worker takes a slot, reports one, or gets on with the one it has.    *)
HandsRest ==
    /\ holding' = holding
    /\ \A w \in Workers : IsBusy(w) \/ IsBusy(w)' => worker'[w] = worker[w]

LEMMA HandWriters ==
    ASSUME TypeOK, ControlInv, [Next]_vars
    PROVE  \/ HandsRest
           \/ \E w \in Workers :
                 Takes(w) \/ PopNotifies(w) \/ Submit(w) \/ AppendEvidence(w) \/ Report(w)
  <1>1. WorkerType
    BY TypeParts
  <1>2. CASE UNCHANGED workerVars
    BY <1>2 DEF workerVars, HandsRest
  <1>3. CASE Start
    <2>1. \A w \in Workers : worker[w] = "absent"
      BY <1>3 DEF Start, ControlInv
    <2> QED BY <1>3, <2>1 DEF Start, HandsRest, IsBusy
  <1>4. CASE StopJoins
    BY <1>4 DEF StopJoins, HandsRest, IsBusy
  <1>5. ASSUME NEW w \in Workers, Pop(w)
        PROVE  Takes(w) \/ HandsRest
    <2>1. CASE PopTakes
      BY <1>5, <2>1 DEF Pop, PopTakes, PopEnds, PopWaits, Takes
    <2>2. CASE ~PopTakes
      BY <1>1, <1>5, <2>2 DEF Pop, HandsRest, IsBusy, workerVars, WorkerType
    <2> QED BY <2>1, <2>2
  <1> QED BY WorkerWriters, <1>2, <1>3, <1>4, <1>5 DEF WorkerStep

(* What a worker's step does to the slots in hand.                         *)
LEMMA HandsAfter ==
    ASSUME TypeOK, ControlInv, [Next]_vars, NEW w \in Workers
    PROVE  \/ (IsBusy(w)' <=> IsBusy(w)) /\ holding'[w] = holding[w]
           \/ Takes(w) /\ IsBusy(w)' /\ holding'[w] = Head(queue)
           \/ Report(w) /\ ~IsBusy(w)' /\ holding'[w] = NoSlot
  <1>1. WorkerType
    BY TypeParts
  <1>2. CASE HandsRest
    BY <1>2 DEF HandsRest, IsBusy
  <1>3. ASSUME NEW v \in Workers,
               Takes(v) \/ PopNotifies(v) \/ Submit(v) \/ AppendEvidence(v) \/ Report(v)
        PROVE  \/ (IsBusy(w)' <=> IsBusy(w)) /\ holding'[w] = holding[w]
               \/ Takes(w) /\ IsBusy(w)' /\ holding'[w] = Head(queue)
               \/ Report(w) /\ ~IsBusy(w)' /\ holding'[w] = NoSlot
    <2>1. CASE v # w
      BY <1>1, <1>3, <2>1 DEF Takes, PopNotifies, Submit, AppendEvidence, Report, IsBusy, WorkerType
    <2>2. CASE v = w /\ Takes(v)
      BY <1>1, <2>2 DEF Takes, IsBusy, WorkerType
    <2>3. CASE v = w /\ (PopNotifies(v) \/ Submit(v) \/ AppendEvidence(v))
      BY <1>1, <2>3 DEF PopNotifies, Submit, AppendEvidence, IsBusy, WorkerType
    <2>4. CASE v = w /\ Report(v)
      BY <1>1, <2>4 DEF Report, IsBusy, WorkerType
    <2> QED BY <1>3, <2>1, <2>2, <2>3, <2>4
  <1> QED BY HandWriters, <1>2, <1>3

(* What is put into the queue was not handed over before.                  *)
LEMMA EnqueuedIsNew ==
    ASSUME TypeOK, CallerInv, [Next]_vars, NEW c \in Callers, Enqueues(c)
    PROVE  /\ <<c, next[c]>> \in Slots
           /\ <<c, next[c]>> \in HandedOver' \ HandedOver
           /\ queue \in Seq(Slots) /\ Len(queue) \in Nat /\ Len(queue') = Len(queue) + 1
           /\ \A k \in 1..Len(queue) : queue'[k] = queue[k]
           /\ queue'[Len(queue) + 1] = <<c, next[c]>>
  <1>1. BatchType /\ QueueType
    BY TypeParts
  <1>2. next[c] \in 1..BatchSize
    BY <1>1, StepsUp, Constants DEF CallerInv, BatchType, Enqueues
  <1>3. <<c, next[c]>> \in Slots
    BY <1>2 DEF Slots
  <1>4. caller[c] = "pushing" /\ caller'[c] = "notifying" /\ next' = next
    BY <1>1 DEF Enqueues, BatchType
  <1>5. <<c, next[c]>> \in HandedOver' \ HandedOver
    BY <1>2, <1>3, <1>4, Constants DEF HandedOver, Pushed
  <1>6. queue' = Append(queue, <<c, next[c]>>) /\ queue \in Seq(Slots)
    BY <1>1 DEF Enqueues, QueueType
  <1>7. Len(queue) \in Nat
    BY <1>6, LenProperties
  <1> QED BY <1>3, <1>5, <1>6, <1>7, AppendProperties

LEMMA TakenIsFirst ==
    ASSUME TypeOK, NEW w \in Workers, Takes(w)
    PROVE  /\ Len(queue) \in Nat \ {0} /\ Len(queue') = Len(queue) - 1
           /\ Head(queue) = queue[1]
           /\ \A k \in 1..Len(queue') : k + 1 \in 1..Len(queue) /\ queue'[k] = queue[k + 1]
  <1>1. queue \in Seq(Slots) /\ queue # << >> /\ queue' = Tail(queue)
    BY TypeParts DEF QueueType, Takes
  <1>2. Len(queue) \in Nat \ {0}
    BY <1>1, EmptySeq
  <1>3. Head(queue) = queue[1]
    BY <1>1
  <1>4. Len(queue') = Len(queue) - 1 /\ \A k \in 1..(Len(queue) - 1) : queue'[k] = queue[k + 1]
    BY <1>1, <1>2, HeadTailProperties
  <1> QED BY <1>2, <1>3, <1>4

(* What is queued, and what is in hand, one step later.                    *)
LEMMA SlotsTravel ==
    ASSUME TypeOK, CallerInv, ControlInv, SlotInv, [Next]_vars
    PROVE  /\ \A w \in Workers : IsBusy(w)' <=> holding'[w] # NoSlot
           /\ \A w \in Workers : IsBusy(w)' => holding'[w] \in HandedOver'
           /\ \A k \in 1..Len(queue') : queue'[k] \in HandedOver'
           /\ \A v, w \in Workers : IsBusy(v)' /\ holding'[v] = holding'[w] => v = w
           /\ \A j, k \in 1..Len(queue') : queue'[j] = queue'[k] => j = k
           /\ \A w \in Workers, k \in 1..Len(queue') : holding'[w] # queue'[k]
  <1> DEFINE Goal ==
           /\ \A w \in Workers : IsBusy(w)' <=> holding'[w] # NoSlot
           /\ \A w \in Workers : IsBusy(w)' => holding'[w] \in HandedOver'
           /\ \A k \in 1..Len(queue') : queue'[k] \in HandedOver'
           /\ \A v, w \in Workers : IsBusy(v)' /\ holding'[v] = holding'[w] => v = w
           /\ \A j, k \in 1..Len(queue') : queue'[j] = queue'[k] => j = k
           /\ \A w \in Workers, k \in 1..Len(queue') : holding'[w] # queue'[k]
  <1>1. HandedOver \subseteq HandedOver' /\ HandedOver \subseteq Slots /\ HandedOver' \subseteq Slots
    BY HandedOverStays DEF HandedOver, Slots
  <1>2. NoSlot \notin Slots
    BY Constants
  <1>3. ASSUME NEW w \in Workers, Takes(w)
        PROVE  Goal
    <2>1. \A v \in Workers \ {w} : (IsBusy(v)' <=> IsBusy(v)) /\ holding'[v] = holding[v]
      BY <1>3, TypeParts DEF Takes, IsBusy, WorkerType
    <2>2. IsBusy(w)' /\ holding'[w] = queue[1] /\ ~IsBusy(w)
      BY <1>3, TakenIsFirst, TypeParts DEF Takes, IsBusy, WorkerType
    <2>3. /\ Len(queue) \in Nat \ {0} /\ Len(queue') = Len(queue) - 1 /\ 1 \in 1..Len(queue)
          /\ \A k \in 1..Len(queue') : k + 1 \in 1..Len(queue) /\ queue'[k] = queue[k + 1]
      BY <1>3, TakenIsFirst
    <2>4. \A k \in 1..Len(queue') : k + 1 # 1 /\ k \in Nat
      BY <2>3
    <2>5. \A v \in Workers \ {w} : holding'[v] # queue[1]
      BY <2>1, <2>3 DEF SlotInv
    <2>6. ASSUME NEW j \in 1..Len(queue'), NEW k \in 1..Len(queue'), queue'[j] = queue'[k]
          PROVE  j = k
      <3>1. j + 1 \in 1..Len(queue) /\ k + 1 \in 1..Len(queue) /\ queue[j + 1] = queue[k + 1]
        BY <2>3, <2>6
      <3>2. j + 1 = k + 1
        BY <3>1 DEF SlotInv
      <3> QED BY <3>2, <2>4
    <2>7. \A k \in 1..Len(queue') : queue'[k] # queue[1] /\ queue'[k] \in HandedOver'
      BY <1>1, <2>3, <2>4 DEF SlotInv
    <2>8. queue[1] \in HandedOver'
      BY <1>1, <2>3 DEF SlotInv
    <2>9. \A v \in Workers \ {w}, k \in 1..Len(queue') : holding'[v] # queue'[k]
      BY <2>1, <2>3 DEF SlotInv
    <2>10. /\ \A v \in Workers : IsBusy(v)' <=> holding'[v] # NoSlot
           /\ \A v \in Workers : IsBusy(v)' => holding'[v] \in HandedOver'
      BY <1>1, <1>2, <2>1, <2>2, <2>8 DEF SlotInv
    <2>11. \A u, v \in Workers : IsBusy(u)' /\ holding'[u] = holding'[v] => u = v
      BY <2>1, <2>2, <2>5 DEF SlotInv
    <2> QED BY <2>2, <2>6, <2>7, <2>9, <2>10, <2>11
  <1>4. ASSUME NEW c \in Callers, Enqueues(c)
        PROVE  Goal
    <2>1. UNCHANGED <<worker, holding>>
      BY <1>4 DEF Enqueues, workerVars
    <2>2. \A w \in Workers : (IsBusy(w)' <=> IsBusy(w)) /\ holding'[w] = holding[w]
      BY <2>1 DEF IsBusy
    <2> DEFINE new == <<c, next[c]>>
    <2>3. /\ new \in HandedOver' \ HandedOver
          /\ Len(queue) \in Nat /\ Len(queue') = Len(queue) + 1
          /\ \A k \in 1..Len(queue) : queue'[k] = queue[k]
          /\ queue'[Len(queue) + 1] = new
      BY <1>4, EnqueuedIsNew
    <2> HIDE DEF new
    <2>4. \A k \in 1..Len(queue') :
             \/ k \in 1..Len(queue) /\ queue'[k] = queue[k]
             \/ k = Len(queue) + 1 /\ queue'[k] = new
      BY <2>3
    <2>5. \A j, k \in 1..Len(queue') : queue'[j] = queue'[k] => j = k
      BY <2>3, <2>4 DEF SlotInv
    <2>6. \A w \in Workers, k \in 1..Len(queue') : holding'[w] # queue'[k]
      BY <1>1, <1>2, <2>2, <2>3, <2>4 DEF SlotInv
    <2> QED BY <1>1, <2>2, <2>3, <2>4, <2>5, <2>6 DEF SlotInv
  <1>5. ASSUME queue' = queue \/ queue' = << >>, \A w \in Workers : ~Takes(w)
        PROVE  Goal
    <2>1. Len(queue) \in Nat /\ (queue' = << >> => Len(queue') = 0)
      BY EmptySeq, LenProperties, TypeParts DEF QueueType
    <2>2. \A k \in 1..Len(queue') : k \in 1..Len(queue) /\ queue'[k] = queue[k]
      BY <1>5, <2>1
    <2>3. \A w \in Workers : \/ (IsBusy(w)' <=> IsBusy(w)) /\ holding'[w] = holding[w]
                             \/ ~IsBusy(w)' /\ holding'[w] = NoSlot
      BY <1>5, HandsAfter
    <2>4. \A w \in Workers, k \in 1..Len(queue') : holding'[w] # queue'[k]
      BY <1>1, <1>2, <2>2, <2>3 DEF SlotInv
    <2> QED BY <1>1, <1>2, <2>2, <2>3, <2>4 DEF SlotInv
  <1>6. queue' = queue \/ queue' = << >> \/ (\E w \in Workers : Takes(w))
        \/ \E c \in Callers : Enqueues(c)
    BY QueueWriters
  <1> QED BY <1>3, <1>4, <1>5, <1>6

(* The store and the journal only grow.                                    *)
LEMMA DataGrow ==
    ASSUME [Next]_vars
    PROVE  /\ stored \subseteq stored' /\ journaled \subseteq journaled'
           /\ failures \subseteq failures'
           /\ (\E w \in Workers : Submit(w) \/ AppendEvidence(w)) \/ UNCHANGED dataVars
  <1>1. ASSUME NEW w \in Workers, Submit(w) \/ AppendEvidence(w)
        PROVE  stored \subseteq stored' /\ journaled \subseteq journaled' /\ failures \subseteq failures'
    BY <1>1 DEF Submit, Accept, AppendEvidence, Journal, dataVars
  <1> QED BY DataWriters, <1>1 DEF dataVars

LEMMA SlotInvKept ==
    ASSUME TypeOK, CallerInv, ControlInv, SlotInv, [Next]_vars
    PROVE  SlotInv'
  <1>1. stored' \subseteq HandedOver'
    <2>1. ASSUME NEW w \in Workers, Submit(w) \/ AppendEvidence(w)
          PROVE  stored' \subseteq HandedOver \cup stored
      BY <2>1 DEF Submit, Accept, AppendEvidence, Journal, SlotInv, IsBusy, dataVars
    <2> QED BY <2>1, DataGrow, HandedOverStays DEF SlotInv, dataVars
  <1> QED BY <1>1, SlotsTravel DEF SlotInv

LEMMA EffectInvKept ==
    ASSUME TypeOK, CallerInv, ControlInv, SlotInv, EffectInv, [Next]_vars
    PROVE  EffectInv'
  <1>1. WorkerType /\ QueueType
    BY TypeParts
  <1>2. HandedOver \subseteq Slots
    BY DEF HandedOver
  <1>3. CASE \E w \in Workers : Submit(w) \/ AppendEvidence(w)
    <2>1. PICK w \in Workers : Submit(w) \/ AppendEvidence(w)
      BY <1>3
    <2>2. queue' = queue /\ holding' = holding /\ IsBusy(w)
      BY <2>1 DEF Submit, AppendEvidence, queueVars, IsBusy
    <2>3. \A v \in Workers \ {w} : worker'[v] = worker[v] /\ (IsBusy(v) => holding[v] # holding[w])
      BY <1>1, <2>1, <2>2 DEF Submit, AppendEvidence, WorkerType, SlotInv
    <2>4. /\ stored \subseteq stored' /\ journaled \subseteq journaled' /\ failures \subseteq failures'
          /\ stored' \subseteq stored \cup {holding[w]}
          /\ journaled' \cup failures' \subseteq journaled \cup failures \cup {holding[w]}
      BY <2>1, DataGrow DEF Submit, Accept, AppendEvidence, Journal, dataVars
    <2>5. /\ worker'[w] = "appending" => holding'[w] \in stored' \ (journaled' \cup failures')
          /\ worker'[w] = "reporting" /\ holding'[w] \in stored' =>
                 holding'[w] \in journaled' \cup failures'
          /\ worker'[w] \in {"appending", "reporting"}
          /\ journaled' \cup failures' \subseteq stored'
      <3>1. CASE Submit(w)
        <4>1. \/ /\ worker'[w] = "appending" /\ stored' = stored \cup {holding[w]}
                 /\ UNCHANGED <<journaled, failures>>
              \/ worker'[w] = "reporting" /\ UNCHANGED <<stored, journaled, failures>>
          BY <1>1, <3>1 DEF Submit, Accept, WorkerType, dataVars
        <4>2. holding[w] \notin stored
          BY <3>1 DEF Submit, EffectInv
        <4> QED BY <2>2, <4>1, <4>2 DEF EffectInv
      <3>2. CASE AppendEvidence(w)
        <4>1. /\ worker[w] = "appending" /\ worker'[w] = "reporting" /\ stored' = stored
              /\ \/ journaled' = journaled \cup {holding[w]} /\ failures' = failures
                 \/ failures' = failures \cup {holding[w]} /\ journaled' = journaled
          BY <1>1, <3>2 DEF AppendEvidence, Journal, WorkerType
        <4> QED BY <2>2, <4>1 DEF EffectInv
      <3> QED BY <2>1, <3>1, <3>2
    <2>6. \A k \in 1..Len(queue') : queue'[k] \notin stored'
      BY <2>2, <2>4 DEF EffectInv, SlotInv
    <2>7. \A v \in Workers \ {w} :
              /\ worker'[v] \in {"notifying", "submitting"} => holding'[v] \notin stored'
              /\ worker'[v] = "appending" => holding'[v] \in stored' \ (journaled' \cup failures')
              /\ worker'[v] = "reporting" /\ holding'[v] \in stored' =>
                     holding'[v] \in journaled' \cup failures'
      BY <2>2, <2>3, <2>4 DEF EffectInv, IsBusy
    <2> QED BY <2>5, <2>6, <2>7 DEF EffectInv
  <1>4. CASE ~ \E w \in Workers : Submit(w) \/ AppendEvidence(w)
    <2>1. stored' = stored /\ journaled' = journaled /\ failures' = failures
      BY <1>4, DataGrow DEF dataVars
    <2>2. \A k \in 1..Len(queue') : queue'[k] \notin stored'
      <3>1. CASE queue' = queue
        BY <1>2, <2>1, <3>1 DEF EffectInv, SlotInv
      <3>2. CASE queue' = << >>
        BY <3>2, EmptySeq
      <3>3. ASSUME NEW w \in Workers, Takes(w), NEW k \in 1..Len(queue')
            PROVE  queue'[k] \notin stored'
        BY <1>2, <2>1, <3>3, TakenIsFirst DEF EffectInv, SlotInv
      <3>4. ASSUME NEW c \in Callers, Enqueues(c), NEW k \in 1..Len(queue')
            PROVE  queue'[k] \notin stored'
        <4> DEFINE new == <<c, next[c]>>
        <4>1. /\ new \in Slots \ HandedOver
              /\ Len(queue) \in Nat /\ Len(queue') = Len(queue) + 1
              /\ \A j \in 1..Len(queue) : queue'[j] = queue[j]
              /\ queue'[Len(queue) + 1] = new
          BY <3>4, EnqueuedIsNew
        <4> HIDE DEF new
        <4>2. \/ k \in 1..Len(queue) /\ queue'[k] = queue[k]
              \/ queue'[k] = new
          BY <4>1
        <4> QED BY <1>2, <2>1, <4>1, <4>2 DEF EffectInv, SlotInv
      <3> QED BY QueueWriters, <3>1, <3>2, <3>3, <3>4
    <2>3. ASSUME NEW w \in Workers
          PROVE  /\ worker'[w] \in {"notifying", "submitting"} => holding'[w] \notin stored'
                 /\ worker'[w] = "appending" =>
                        holding'[w] \in stored' \ (journaled' \cup failures')
                 /\ worker'[w] = "reporting" /\ holding'[w] \in stored' =>
                        holding'[w] \in journaled' \cup failures'
      <3>1. IsBusy(w) => holding[w] \in Slots
        BY <1>2 DEF SlotInv
      <3>2. CASE UNCHANGED <<worker[w], holding[w]>>
        BY <2>1, <3>1, <3>2 DEF EffectInv, IsBusy
      <3>3. CASE Takes(w)
        <4>1. Head(queue) = queue[1] /\ 1 \in 1..Len(queue)
          BY <3>3, TakenIsFirst
        <4>2. Head(queue) \notin stored /\ Head(queue) \in Slots
          BY <1>2, <4>1 DEF EffectInv, SlotInv
        <4>3. worker'[w] = "notifying" /\ holding'[w] = Head(queue)
          BY <1>1, <3>3 DEF Takes, WorkerType
        <4> QED BY <2>1, <4>2, <4>3
      <3>4. CASE PopNotifies(w)
        BY <1>1, <2>1, <3>1, <3>4 DEF PopNotifies, EffectInv, IsBusy, WorkerType
      <3>5. CASE Report(w)
        BY <1>1, <3>5 DEF Report, WorkerType
      <3>6. CASE HandsRest
        BY <3>2, <3>6 DEF HandsRest, IsBusy
      <3>7. ASSUME NEW v \in Workers \ {w}, Takes(v) \/ PopNotifies(v) \/ Report(v)
            PROVE  UNCHANGED <<worker[w], holding[w]>>
        BY <1>1, <3>7 DEF Takes, PopNotifies, Report, WorkerType
      <3> QED BY <1>4, HandWriters, <3>2, <3>3, <3>4, <3>5, <3>6, <3>7
    <2> QED BY <2>1, <2>2, <2>3 DEF EffectInv
  <1> QED BY <1>3, <1>4

-----------------------------------------------------------------------------
(* Outcomes.                                                               *)

(* The ways the outcomes of one batch change.                              *)
Fills(c) ==
    /\ \/ StopFills /\ c \in waiters
       \/ Await(c) /\ (outstanding[c] = 0 \/ stopRequested)
    /\ result'[c] = Filled(c)
    /\ outstanding'[c] = 0

Answers(c, i, w) ==
    /\ Report(w) /\ holding[w] = <<c, i>>
    /\ result[c][i] = "none"
    /\ \E verdict \in {"accepted", "rejected"} :
          /\ verdict = "accepted" <=> <<c, i>> \in stored
          /\ result'[c] = [result[c] EXCEPT ![i] = verdict]
    /\ outstanding'[c] = LessOne(outstanding[c])

Refuses(c) ==
    /\ Refuse(c)
    /\ result'[c] = [result[c] EXCEPT ![next[c]] = "cancelled"]
    /\ outstanding'[c] = LessOne(outstanding[c])

LEMMA AnswersOfBatch ==
    ASSUME TypeOK, SlotInv, [Next]_vars, NEW c \in Callers
    PROVE  \/ UNCHANGED <<result[c], outstanding[c]>>
           \/ Fills(c)
           \/ \E i \in Items, w \in Workers : Answers(c, i, w)
           \/ Refuses(c)
  <1>1. BatchType /\ WorkerType
    BY TypeParts
  <1> USE <1>1 DEF BatchType
  <1>2. CASE UNCHANGED <<result, outstanding, cancelled>>
    BY <1>2
  <1>3. CASE StopFills
    BY <1>3 DEF StopFills, Fills
  <1>4. ASSUME NEW w \in Workers, Report(w)
        PROVE  \/ UNCHANGED <<result[c], outstanding[c]>>
               \/ \E i \in Items : Answers(c, i, w)
    <2>1. holding[w] \in Slots
      BY <1>4 DEF Report, SlotInv, IsBusy, HandedOver
    <2>2. PICK e \in Callers, i \in Items : holding[w] = <<e, i>>
      BY <2>1 DEF Slots, Items
    <2>3. Reported(e, i)
      BY <1>4, <2>2 DEF Report
    <2>4. CASE e = c /\ result[c][i] = "none"
      <3> DEFINE verdict == Verdict(<<c, i>>)
      <3>1. /\ result' = [result EXCEPT ![c][i] = verdict]
            /\ outstanding' = [outstanding EXCEPT ![c] = LessOne(@)]
        BY <2>3, <2>4 DEF Reported
      <3>2. /\ verdict \in {"accepted", "rejected"}
            /\ verdict = "accepted" <=> <<c, i>> \in stored
        BY DEF Verdict
      <3> HIDE DEF verdict
      <3>3. /\ result'[c] = [result[c] EXCEPT ![i] = verdict]
            /\ outstanding'[c] = LessOne(outstanding[c])
        BY <3>1
      <3> QED BY <1>4, <2>2, <2>4, <3>2, <3>3 DEF Answers
    <2>5. CASE ~(e = c /\ result[c][i] = "none")
      BY <2>3, <2>5 DEF Reported
    <2> QED BY <2>4, <2>5
  <1>5. ASSUME NEW e \in Callers, Refuse(e)
        PROVE  UNCHANGED <<result[c], outstanding[c]>> \/ Refuses(c)
    BY <1>5 DEF Refuse, Refuses
  <1>6. ASSUME NEW e \in Callers, Await(e)
        PROVE  UNCHANGED <<result[c], outstanding[c]>> \/ Fills(c)
    <2>1. CASE e # c \/ ~(outstanding[e] = 0 \/ stopRequested)
      BY <1>6, <2>1 DEF Await
    <2>2. CASE e = c /\ (outstanding[e] = 0 \/ stopRequested)
      <3>1. result'[c] = Filled(c) /\ outstanding'[c] = 0
        BY <1>6, <2>2 DEF Await
      <3> QED BY <1>6, <2>2, <3>1 DEF Fills
    <2> QED BY <2>1, <2>2
  <1> QED BY AnswerWriters, <1>2, <1>3, <1>4, <1>5, <1>6

LEMMA FilledEach ==
    ASSUME NEW c, NEW i \in Items
    PROVE  Filled(c)[i] = IF result[c][i] = "none" THEN "cancelled" ELSE result[c][i]
  BY DEF Filled, Undone, Items

(* A slot that a caller is about to hand over has no outcome, unless the   *)
(* whole batch was cancelled.                                              *)
LEMMA RefusedWasOpen ==
    ASSUME TypeOK, CallerInv, SlotInv, EffectInv, OutcomeInv, [Next]_vars,
           NEW c \in Callers, Refuses(c)
    PROVE  /\ next[c] \in Items /\ next[c] \in Pushed(c)' /\ next[c] \notin Pushed(c)
           /\ \/ result[c][next[c]] = "none"
              \/ result'[c] = result[c] /\ Undone(c) = {}
  <1>1. caller[c] = "refusing" /\ BatchType
    BY TypeParts DEF Refuses, Refuse
  <1>2. next[c] \in Items
    BY <1>1, StepsUp, Constants DEF CallerInv, BatchType, Items
  <1>3. next[c] \notin Pushed(c)
    BY <1>1, <1>2, Constants DEF Pushed, Items
  <1>4. next'[c] = next[c] + 1
    BY <1>1 DEF Refuses, Refuse, Advance, BatchType
  <1>5. next[c] \in Pushed(c)'
    BY <1>2, <1>4, Constants DEF Pushed, Items
  <1>6. CASE result[c][next[c]] # "none"
    <2>1. Undone(c) = {}
      BY <1>2, <1>3, <1>6 DEF OutcomeInv
    <2>2. result[c] \in [Items -> Outcomes]
      BY <1>1 DEF BatchType
    <2>3. result[c][next[c]] = "cancelled"
      BY <1>2, <1>3, <1>6, <2>2 DEF OutcomeInv
    <2>4. result'[c] = result[c]
      BY <2>2, <2>3 DEF Refuses
    <2> QED BY <1>2, <1>3, <1>5, <2>1, <2>4
  <1> QED BY <1>2, <1>3, <1>5, <1>6

(* An outcome, once given, stands.                                         *)
LEMMA OutcomesStay ==
    ASSUME TypeOK, CallerInv, SlotInv, EffectInv, OutcomeInv, [Next]_vars,
           NEW c \in Callers, NEW i \in Items, result[c][i] # "none"
    PROVE  result'[c][i] = result[c][i]
  <1>1. result[c] \in [Items -> Outcomes]
    BY TypeParts DEF BatchType
  <1>2. CASE Fills(c)
    BY <1>2, FilledEach DEF Fills
  <1>3. ASSUME NEW j \in Items, NEW w \in Workers, Answers(c, j, w)
        PROVE  result'[c][i] = result[c][i]
    BY <1>1, <1>3 DEF Answers
  <1>4. CASE Refuses(c)
    <2>1. CASE result[c][next[c]] = "none"
      BY <1>1, <1>4, <2>1 DEF Refuses
    <2> QED BY <1>4, <2>1, RefusedWasOpen
  <1> QED BY AnswersOfBatch, <1>2, <1>3, <1>4

(* Filling gives every slot an outcome, and one answer gives one.          *)
LEMMA FilledLeavesNone ==
    ASSUME NEW c \in Callers, Fills(c)
    PROVE  Undone(c)' = {}
  BY FilledEach DEF Fills, Undone, Items

LEMMA AnsweredLeavesOneLess ==
    ASSUME TypeOK, NEW c \in Callers, NEW i \in Items, 
           NEW outcome \in {"accepted", "rejected", "cancelled"},
           result[c][i] = "none",
           result'[c] = [result[c] EXCEPT ![i] = outcome],
           outstanding[c] = Cardinality(Undone(c)),
           outstanding'[c] = LessOne(outstanding[c])
    PROVE  /\ Undone(c)' = Undone(c) \ {i}
           /\ outstanding'[c] = Cardinality(Undone(c)')
  <1>1. result[c] \in [Items -> Outcomes]
    BY TypeParts DEF BatchType
  <1>2. Undone(c)' = Undone(c) \ {i} /\ i \in Undone(c)
    BY <1>1 DEF Undone, Items
  <1>3. Cardinality(Undone(c) \ {i}) = Cardinality(Undone(c)) - 1
    BY <1>2, UndoneIsFinite, FS_RemoveElement
  <1>4. Cardinality(Undone(c)) \in Nat /\ Cardinality(Undone(c)) # 0
    BY <1>2, UndoneIsFinite, FS_EmptySet, FS_CardinalityType
  <1> QED BY <1>2, <1>3, <1>4 DEF LessOne

LEMMA OutstandingKept ==
    ASSUME TypeOK, CallerInv, SlotInv, EffectInv, OutcomeInv, [Next]_vars, NEW c \in Callers
    PROVE  outstanding'[c] = Cardinality(Undone(c)')
  <1>1. outstanding[c] = Cardinality(Undone(c))
    BY DEF OutcomeInv, OutstandingIsUndone
  <1>2. CASE UNCHANGED <<result[c], outstanding[c]>>
    BY <1>1, <1>2 DEF Undone
  <1>3. CASE Fills(c)
    BY <1>3, FilledLeavesNone, FS_EmptySet DEF Fills
  <1>4. ASSUME NEW i \in Items, NEW w \in Workers, Answers(c, i, w)
        PROVE  outstanding'[c] = Cardinality(Undone(c)')
    BY <1>1, <1>4, AnsweredLeavesOneLess DEF Answers
  <1>5. CASE Refuses(c)
    <2>1. CASE result[c][next[c]] = "none"
      BY <1>1, <1>5, <2>1, AnsweredLeavesOneLess, RefusedWasOpen DEF Refuses
    <2>2. CASE result[c][next[c]] # "none"
      <3>1. result'[c] = result[c] /\ Undone(c) = {}
        BY <1>5, <2>2, RefusedWasOpen
      <3>2. Undone(c)' = {}
        BY <3>1 DEF Undone
      <3>3. outstanding[c] = 0 /\ outstanding'[c] = 0
        BY <1>1, <1>5, <3>1, FS_EmptySet DEF Refuses, LessOne
      <3> QED BY <3>2, <3>3, FS_EmptySet
    <2> QED BY <2>1, <2>2
  <1> QED BY AnswersOfBatch, <1>2, <1>3, <1>4, <1>5

LEMMA OutcomeInvKept ==
    ASSUME TypeOK, CallerInv, ControlInv, SlotInv, EffectInv, OutcomeInv, UndecidedInv,
           [Next]_vars
    PROVE  OutcomeInv'
  <1>1. OutstandingIsUndone'
    BY OutstandingKept DEF OutstandingIsUndone
  <1>2. ASSUME NEW c \in Callers, NEW i \in Items, result'[c][i] \in {"accepted", "rejected"}
        PROVE  /\ result'[c][i] = "accepted" =>
                      <<c, i>> \in stored' /\ <<c, i>> \in journaled' \cup failures'
               /\ result'[c][i] = "rejected" => <<c, i>> \notin stored'
               /\ i \in Pushed(c)'
    <2>0. result[c] \in [Items -> Outcomes]
      BY TypeParts DEF BatchType
    <2>1. CASE result[c][i] # "none"
      <3>1. result'[c][i] = result[c][i]
        BY <2>1, OutcomesStay
      <3>2. i \in Pushed(c)'
        <4>1. i \in Pushed(c)
          BY <1>2, <3>1 DEF OutcomeInv
        <4>2. Pushed(c)' = Pushed(c) \/ Pushed(c)' = Pushed(c) \cup {next[c]}
          BY PushedWriters
        <4> QED BY <4>1, <4>2
      <3>3. CASE result[c][i] = "accepted"
        BY <3>1, <3>2, <3>3, DataGrow DEF OutcomeInv
      <3>4. CASE result[c][i] = "rejected"
        <4>1. <<c, i>> \notin stored
          BY <3>4 DEF OutcomeInv
        <4>2. ASSUME NEW w \in Workers, Submit(w) \/ AppendEvidence(w)
              PROVE  <<c, i>> # holding[w] /\ stored' \subseteq stored \cup {holding[w]}
          <5>1. IsBusy(w) /\ stored' \subseteq stored \cup {holding[w]}
            BY <4>2 DEF Submit, Accept, AppendEvidence, Journal, IsBusy, dataVars
          <5> QED BY <3>4, <5>1 DEF UndecidedInv, OnTheWay
        <4>3. <<c, i>> \notin stored'
          BY <4>1, <4>2, DataGrow DEF dataVars
        <4> QED BY <3>1, <3>2, <3>4, <4>3
      <3> QED BY <1>2, <3>1, <3>3, <3>4
    <2>2. CASE result[c][i] = "none"
      <3>1. CASE Fills(c)
        BY <1>2, <2>2, <3>1, FilledEach DEF Fills
      <3>2. CASE Refuses(c)
        BY <1>2, <2>0, <2>2, <3>2 DEF Refuses
      <3>3. ASSUME NEW j \in Items, NEW w \in Workers, Answers(c, j, w)
            PROVE  /\ i = j
                   /\ result'[c][i] = "accepted" <=> <<c, i>> \in stored
        BY <1>2, <2>0, <2>2, <3>3 DEF Answers
      <3>4. ASSUME NEW w \in Workers, Answers(c, i, w)
            PROVE  /\ <<c, i>> \in stored => <<c, i>> \in journaled \cup failures
                   /\ stored' = stored /\ journaled' = journaled /\ failures' = failures
                   /\ i \in Pushed(c)
        <4>1. Report(w) /\ worker[w] = "reporting" /\ holding[w] = <<c, i>>
          BY <3>4 DEF Answers, Report
        <4>2. holding[w] \in HandedOver
          BY <4>1 DEF SlotInv, IsBusy
        <4> QED BY <4>1, <4>2 DEF Report, EffectInv, HandedOver, dataVars
      <3>5. ASSUME NEW w \in Workers, Answers(c, i, w)
            PROVE  i \in Pushed(c)'
        BY <3>4, <3>5, PushedWriters
      <3> QED BY <1>2, <2>2, AnswersOfBatch, <3>1, <3>2, <3>3, <3>4, <3>5
    <2> QED BY <2>1, <2>2
  <1>3. ASSUME NEW c \in Callers, NEW i \in Items, i \notin Pushed(c)', result'[c][i] # "none"
        PROVE  Undone(c)' = {}
    <2>0. result[c] \in [Items -> Outcomes]
      BY TypeParts DEF BatchType
    <2>1. i \notin Pushed(c)
      BY <1>3, PushedWriters
    <2>2. CASE Undone(c) = {}
      <3>1. \A j \in Items : result[c][j] # "none"
        BY <2>2 DEF Undone, Items
      <3>2. \A j \in Items : result'[c][j] # "none"
        BY <3>1, OutcomesStay
      <3> QED BY <3>2 DEF Undone, Items
    <2>3. CASE result[c][i] = "none"
      <3>1. CASE Fills(c)
        BY <3>1, FilledLeavesNone
      <3>2. ASSUME Refuses(c)
            PROVE  FALSE
        <4>1. i # next[c]
          BY <1>3, <3>2, RefusedWasOpen
        <4> QED BY <1>3, <2>0, <2>3, <3>2, <4>1 DEF Refuses
      <3>3. ASSUME NEW j \in Items, NEW w \in Workers, Answers(c, j, w)
            PROVE  FALSE
        <4>1. <<c, j>> \in HandedOver
          BY <3>3 DEF Answers, Report, SlotInv, IsBusy
        <4>2. j \in Pushed(c)
          BY <4>1 DEF HandedOver
        <4> QED BY <1>3, <2>0, <2>1, <2>3, <3>3, <4>2 DEF Answers
      <3> QED BY <1>3, <2>3, AnswersOfBatch, <3>1, <3>2, <3>3
    <2> QED BY <2>1, <2>2, <2>3 DEF OutcomeInv
  <1>4. ASSUME NEW c \in Callers, NEW i \in Items, <<c, i>> \in stored'
        PROVE  result'[c][i] # "none" \/ Answering(<<c, i>>)'
    <2>0. WorkerType /\ BatchType
      BY TypeParts
    <2>1. CASE result[c][i] # "none"
      BY <2>1, OutcomesStay
    <2>2. ASSUME NEW w \in Workers, worker[w] \in {"appending", "reporting"}, holding[w] = <<c, i>>
          PROVE  result'[c][i] # "none" \/ Answering(<<c, i>>)'
      <3>1. CASE UNCHANGED <<worker[w], holding[w]>>
        BY <2>2, <3>1 DEF Answering
      <3>2. CASE Report(w)
        <4>1. Reported(c, i)
          BY <2>2, <3>2 DEF Report
        <4>2. result[c] \in [Items -> Outcomes]
          BY <2>0 DEF BatchType
        <4>3. \/ result[c][i] # "none" /\ result' = result
              \/ result'[c] = [result[c] EXCEPT ![i] = Verdict(<<c, i>>)]
          BY <2>0, <4>1 DEF Reported, BatchType
        <4>4. Verdict(<<c, i>>) # "none"
          BY DEF Verdict
        <4> QED BY <4>2, <4>3, <4>4
      <3>3. CASE AppendEvidence(w)
        BY <2>0, <2>2, <3>3 DEF AppendEvidence, WorkerType, Answering
      <3>4. CASE Takes(w) \/ PopNotifies(w) \/ Submit(w)
        BY <2>2, <3>4 DEF Takes, PopNotifies, Submit
      <3>5. ASSUME NEW v \in Workers \ {w},
                   Takes(v) \/ PopNotifies(v) \/ Submit(v) \/ AppendEvidence(v) \/ Report(v)
            PROVE  UNCHANGED <<worker[w], holding[w]>>
        BY <2>0, <3>5 DEF Takes, PopNotifies, Submit, AppendEvidence, Report, WorkerType
      <3>6. CASE HandsRest
        BY <2>2, <3>1, <3>6 DEF HandsRest, IsBusy
      <3> QED BY HandWriters, <3>1, <3>2, <3>3, <3>4, <3>5, <3>6
    <2>3. CASE <<c, i>> \in stored
      BY <2>1, <2>2, <2>3 DEF OutcomeInv, Answering
    <2>4. CASE <<c, i>> \notin stored
      <3>1. PICK w \in Workers : Submit(w) \/ AppendEvidence(w)
        BY <1>4, <2>4, DataGrow DEF dataVars
      <3>2. Submit(w) /\ holding[w] = <<c, i>>
        BY <1>4, <2>4, <3>1 DEF Submit, Accept, AppendEvidence, Journal, dataVars
      <3>3. worker'[w] = "appending" /\ holding' = holding
        BY <1>4, <2>0, <2>4, <3>2 DEF Submit, WorkerType, dataVars
      <3> QED BY <3>2, <3>3 DEF Answering
    <2> QED BY <2>3, <2>4
  <1> QED BY <1>1, <1>2, <1>3, <1>4 DEF OutcomeInv

-----------------------------------------------------------------------------
(* Stopping.                                                               *)

(* A batch that has slots left is filled only when stop was requested.     *)
LEMMA FillsWhenStopped ==
    ASSUME TypeOK, ControlInv, OutcomeInv, NEW c \in Callers, Fills(c)
    PROVE  stopRequested \/ result'[c] = result[c]
  <1>1. StopFills => stopRequested
    BY DEF StopFills, ControlInv
  <1>2. CASE outstanding[c] = 0
    <2>1. Undone(c) = {}
      BY <1>2, UndoneIsFinite, FS_EmptySet DEF OutcomeInv, OutstandingIsUndone
    <2>2. result[c] \in [Items -> Outcomes]
      BY TypeParts DEF BatchType
    <2>3. Filled(c) = result[c]
      BY <2>1, <2>2 DEF Filled, Items
    <2> QED BY <2>3 DEF Fills
  <1> QED BY <1>1, <1>2 DEF Fills

LEMMA StopInvKept ==
    ASSUME TypeOK, CallerInv, ControlInv, SlotInv, EffectInv, OutcomeInv, StopInv, [Next]_vars
    PROVE  StopInv'
  <1>1. WorkerType /\ BatchType /\ QueueType
    BY TypeParts
  <1>2. (closed => closed') /\ (~abrupt' => ~abrupt)
    <2>1. closed => closed'
      BY FlagWriters
    <2>2. abrupt => abrupt'
      BY FlagWriters
    <2> QED BY <2>1, <2>2
  <1>3. queue' = queue \/ queue' = << >> \/ (\E w \in Workers : Takes(w))
        \/ \E c \in Callers : Enqueues(c)
    BY QueueWriters
  <1>4. \A w \in Workers : Takes(w) => queue # << >>
    BY DEF Takes
  <1>5. \A c \in Callers : Enqueues(c) => ~closed /\ Active(c)
    BY DEF Enqueues, Active
  <1>6. closed /\ queue = << >> => queue' = << >>
    BY <1>3, <1>4, <1>5
  <1>7. ASSUME ~abrupt', stopRequested'
        PROVE  closed' /\ queue' = << >> /\ \A w \in Workers : ~IsBusy(w)'
    <2>1. CASE stopRequested
      <3>1. closed /\ queue = << >> /\ \A w \in Workers : ~IsBusy(w)
        BY <1>2, <1>7, <2>1 DEF StopInv
      <3>2. \A w \in Workers : ~IsBusy(w)'
        BY <3>1, <1>4, HandsAfter
      <3> QED BY <1>2, <1>6, <3>1, <3>2
    <2>2. CASE ~stopRequested
      BY <1>7, <2>2, StopWriters DEF StopJoins, RequestStop, IsBusy
    <2> QED BY <2>1, <2>2
  <1>8. ASSUME NEW w \in Workers, ~abrupt', worker'[w] = "exited"
        PROVE  closed' /\ queue' = << >>
    <2>1. worker[w] = "exited" \/ (Pop(w) /\ PopEnds)
      <3>1. CASE UNCHANGED workerVars
        BY <1>8, <3>1 DEF workerVars
      <3>2. ~StopJoins /\ (Start => worker' = worker)
        BY <1>8 DEF Start, StopJoins
      <3>3. ASSUME NEW v \in Workers, WorkerStep(v), v # w
            PROVE  worker'[w] = worker[w]
        BY <1>1, <3>3 DEF WorkerStep, Pop, PopNotifies, Submit, AppendEvidence, Report,
                          WorkerType, workerVars
      <3>4. CASE WorkerStep(w)
        <4>1. CASE Pop(w)
          BY <1>1, <1>8, <4>1 DEF Pop, WorkerType, workerVars
        <4>2. CASE ~Pop(w)
          BY <1>1, <1>8, <3>4, <4>2 DEF WorkerStep, PopNotifies, Submit, AppendEvidence, Report,
                                        WorkerType
        <4> QED BY <4>1, <4>2
      <3> QED BY <1>8, WorkerWriters, <3>1, <3>2, <3>3, <3>4
    <2>2. closed /\ queue = << >>
      BY <1>2, <1>8, <2>1 DEF PopEnds, StopInv
    <2> QED BY <1>2, <1>6, <2>2
  <1>9. ASSUME NEW w \in Workers, worker'[w] = "absent"
        PROVE  queue' = << >> /\ (closed' \/ \A c \in Callers : ~Active(c)')
    <2>1. CASE StopJoins
      BY <2>1 DEF StopJoins
    <2>2. CASE ~StopJoins
      <3>1. worker[w] = "absent"
        <4>1. ~Start \/ worker' = worker
          BY <1>9 DEF Start
        <4> QED BY <1>9, <2>2, <4>1, WorkersStay
      <3>2. queue = << >> /\ (closed \/ \A c \in Callers : ~Active(c)) /\ state # "Running"
        BY <3>1 DEF StopInv, ControlInv
      <3>3. queue' = << >>
        BY <1>3, <1>4, <1>5, <3>2
      <3>4. CASE closed
        BY <1>2, <3>3, <3>4
      <3>5. ASSUME NEW c \in Callers, ~Active(c)
            PROVE  ~Active(c)'
        <4>1. CASE UNCHANGED <<caller, next>>
          BY <3>5, <4>1 DEF Active
        <4>2. ASSUME NEW e \in Callers, IngestBatch(e) \/ BatchStep(e), e # c
              PROVE  caller'[c] = caller[c]
          BY <1>1, <4>2 DEF IngestBatch, BatchStep, Register, Push, PushNotifies, Refuse, Await,
                            Advance, BatchType
        <4>3. CASE IngestBatch(c)
          BY <1>1, <3>2, <4>3 DEF IngestBatch, Active, BatchType
        <4>4. ~BatchStep(c)
          BY <3>5 DEF Active, BatchStep, Register, Push, PushNotifies, Refuse, Await
        <4> QED BY CallerWriters, <3>5, <4>1, <4>2, <4>3, <4>4 DEF Active
      <3> QED BY <3>2, <3>3, <3>4, <3>5
    <2> QED BY <2>1, <2>2
  <1>10. ASSUME NEW c \in Callers, ~abrupt',
                caller'[c] = "refusing" \/ \E i \in Items : result'[c][i] = "cancelled"
         PROVE  closed'
    <2>0. result[c] \in [Items -> Outcomes]
      BY <1>1 DEF BatchType
    <2>1. ~abrupt /\ (stopRequested => closed)
      BY <1>2, <1>10 DEF StopInv
    <2>2. CASE caller'[c] = "refusing"
      <3>1. caller[c] = "refusing" \/ (Push(c) /\ PushRefused)
        <4>1. CASE UNCHANGED <<caller, next>>
          BY <2>2, <4>1
        <4>2. ASSUME NEW e \in Callers, IngestBatch(e) \/ BatchStep(e), e # c
              PROVE  caller'[c] = caller[c]
          BY <1>1, <4>2 DEF IngestBatch, BatchStep, Register, Push, PushNotifies, Refuse, Await,
                            Advance, BatchType
        <4>3. CASE Push(c)
          BY <1>1, <2>2, <4>3 DEF Push, BatchType
        <4>4. CASE IngestBatch(c) \/ Register(c) \/ PushNotifies(c) \/ Refuse(c) \/ Await(c)
          BY <1>1, <2>2, <4>4 DEF IngestBatch, Register, PushNotifies, Refuse, Await, Advance,
                                  BatchType
        <4> QED BY CallerWriters, <2>2, <4>1, <4>2, <4>3, <4>4 DEF BatchStep
      <3> QED BY <1>2, <2>1, <3>1 DEF PushRefused, StopInv
    <2>3. ASSUME NEW i \in Items, result'[c][i] = "cancelled"
          PROVE  closed'
      <3>1. CASE result[c][i] = "cancelled"
        BY <1>2, <2>1, <3>1 DEF StopInv
      <3>2. CASE Refuses(c)
        BY <1>2, <2>1, <3>2 DEF StopInv, Refuses, Refuse
      <3>3. ASSUME NEW j \in Items, NEW w \in Workers, Answers(c, j, w)
            PROVE  result[c][i] = "cancelled"
        BY <2>0, <2>3, <3>3 DEF Answers
      <3>4. CASE Fills(c)
        BY <1>2, <2>1, <2>3, <3>1, <3>4, FillsWhenStopped
      <3>5. CASE result'[c] = result[c]
        BY <2>3, <3>1, <3>5
      <3> QED BY <3>1, <3>2, <3>3, <3>4, <3>5, AnswersOfBatch
    <2> QED BY <1>10, <2>2, <2>3
  <1> QED BY <1>7, <1>8, <1>9, <1>10 DEF StopInv

(* A slot on its way keeps its kind of outcome if the steps that do not    *)
(* report it do, and if a slot has one of that kind when it is queued.     *)
LEMMA TravelKeepsOutcome ==
    ASSUME TypeOK, CallerInv, ControlInv, SlotInv, [Next]_vars,
           NEW outcomes, OnTheWay(outcomes),
           \A slot \in HandedOver :
               /\ result[slot[1]][slot[2]] \in outcomes
               /\ \/ \E w \in Workers : IsBusy(w) /\ holding[w] = slot
                  \/ \E k \in 1..Len(queue) : queue[k] = slot
               /\ ~ \E w \in Workers : Report(w) /\ holding[w] = slot
               => result'[slot[1]][slot[2]] \in outcomes,
           \A c \in Callers : Enqueues(c) => result'[c][next[c]] \in outcomes
    PROVE  OnTheWay(outcomes)'
  <1>1. WorkerType /\ QueueType
    BY TypeParts
  <1>2. ASSUME NEW w \in Workers, IsBusy(w)'
        PROVE  result'[holding'[w][1]][holding'[w][2]] \in outcomes
    <2>1. \/ IsBusy(w) /\ holding'[w] = holding[w] /\ ~Report(w)
          \/ Takes(w) /\ holding'[w] = Head(queue)
      <3>1. Report(w) => ~IsBusy(w)'
        BY <1>1 DEF Report, WorkerType, IsBusy
      <3> QED BY <1>2, <3>1, HandsAfter
    <2>2. CASE IsBusy(w) /\ holding'[w] = holding[w] /\ ~Report(w)
      <3>1. holding[w] \in HandedOver /\ result[holding[w][1]][holding[w][2]] \in outcomes
        BY <2>2 DEF SlotInv, OnTheWay
      <3>2. ~ \E v \in Workers : Report(v) /\ holding[v] = holding[w]
        BY <2>2 DEF SlotInv
      <3> QED BY <2>2, <3>1, <3>2
    <2>3. CASE Takes(w) /\ holding'[w] = Head(queue)
      <3>1. 1 \in 1..Len(queue) /\ Head(queue) = queue[1]
        BY <2>3, TakenIsFirst
      <3>2. queue[1] \in HandedOver /\ result[queue[1][1]][queue[1][2]] \in outcomes
        BY <3>1 DEF SlotInv, OnTheWay
      <3>3. ~ \E v \in Workers : Report(v) /\ holding[v] = queue[1]
        BY <3>1 DEF SlotInv
      <3> QED BY <2>3, <3>1, <3>2, <3>3
    <2> QED BY <2>1, <2>2, <2>3
  <1>3. ASSUME NEW k \in 1..Len(queue)
        PROVE  result'[queue[k][1]][queue[k][2]] \in outcomes
    <2>1. queue[k] \in HandedOver /\ result[queue[k][1]][queue[k][2]] \in outcomes
      BY DEF SlotInv, OnTheWay
    <2>2. ~ \E v \in Workers : Report(v) /\ holding[v] = queue[k]
      BY DEF SlotInv
    <2> QED BY <2>1, <2>2
  <1>4. ASSUME NEW k \in 1..Len(queue')
        PROVE  result'[queue'[k][1]][queue'[k][2]] \in outcomes
    <2>1. CASE queue' = queue
      BY <1>3, <2>1
    <2>2. CASE queue' = << >>
      BY <2>2, EmptySeq
    <2>3. ASSUME NEW w \in Workers, Takes(w)
          PROVE  result'[queue'[k][1]][queue'[k][2]] \in outcomes
      BY <1>3, <2>3, TakenIsFirst
    <2>4. ASSUME NEW c \in Callers, Enqueues(c)
          PROVE  result'[queue'[k][1]][queue'[k][2]] \in outcomes
      <3> DEFINE new == <<c, next[c]>>
      <3>1. /\ Len(queue) \in Nat /\ Len(queue') = Len(queue) + 1
            /\ \A j \in 1..Len(queue) : queue'[j] = queue[j]
            /\ queue'[Len(queue) + 1] = new
        BY <2>4, EnqueuedIsNew
      <3>2. new[1] = c /\ new[2] = next[c]
        OBVIOUS
      <3>3. result'[new[1]][new[2]] \in outcomes
        BY <2>4, <3>2
      <3> HIDE DEF new
      <3>4. \/ k \in 1..Len(queue) /\ queue'[k] = queue[k]
            \/ queue'[k] = new
        BY <3>1
      <3> QED BY <1>3, <3>3, <3>4
    <2> QED BY QueueWriters, <2>1, <2>2, <2>3, <2>4
  <1> QED BY <1>2, <1>4 DEF OnTheWay

(* What a caller queues has no outcome, or was cancelled with its batch.   *)
LEMMA QueuedIsUndecided ==
    ASSUME TypeOK, CallerInv, OutcomeInv, SlotInv, [Next]_vars, NEW c \in Callers, Enqueues(c)
    PROVE  /\ next[c] \in Items /\ result' = result
           /\ result[c][next[c]] \in {"none", "cancelled"}
  <1>1. <<c, next[c]>> \in Slots \ HandedOver
    BY EnqueuedIsNew
  <1>2. next[c] \in Items /\ next[c] \notin Pushed(c)
    BY <1>1 DEF HandedOver, Slots, Items
  <1>3. result[c][next[c]] \in Outcomes
    BY <1>2, TypeParts DEF BatchType
  <1> QED BY <1>2, <1>3 DEF Enqueues, OutcomeInv

(* A slot on its way that is not reported is not answered, unless its      *)
(* whole batch is.                                                         *)
LEMMA UnreportedIsUnanswered ==
    ASSUME TypeOK, CallerInv, ControlInv, SlotInv, EffectInv, OutcomeInv, [Next]_vars,
           NEW c \in Callers, NEW i \in Items, <<c, i>> \in HandedOver,
           result[c][i] = "none",
           ~ \E w \in Workers : Report(w) /\ holding[w] = <<c, i>>
    PROVE  \/ result'[c][i] = "none"
           \/ Fills(c) /\ result'[c][i] = "cancelled"
  <1>1. result[c] \in [Items -> Outcomes]
    BY TypeParts DEF BatchType
  <1>2. CASE Fills(c)
    BY <1>2, FilledEach DEF Fills
  <1>3. CASE Refuses(c)
    <2>1. i # next[c]
      BY <1>3, RefusedWasOpen DEF HandedOver
    <2> QED BY <1>1, <1>3, <2>1 DEF Refuses
  <1>4. ASSUME NEW j \in Items, NEW w \in Workers, Answers(c, j, w)
        PROVE  result'[c][i] = "none"
    <2>1. j # i
      BY <1>4 DEF Answers
    <2> QED BY <1>1, <1>4, <2>1 DEF Answers
  <1> QED BY AnswersOfBatch, <1>2, <1>3, <1>4

LEMMA SlotsAreNamed ==
    \A slot \in HandedOver :
        slot[1] \in Callers /\ slot[2] \in Items /\ slot = <<slot[1], slot[2]>>
  BY DEF HandedOver, Slots, Items

LEMMA UndecidedInvKept ==
    ASSUME TypeOK, CallerInv, ControlInv, SlotInv, EffectInv, OutcomeInv, UndecidedInv,
           [Next]_vars
    PROVE  UndecidedInv'
  <1> DEFINE outcomes == {"none", "cancelled"}
  <1>1. ASSUME NEW slot \in HandedOver, result[slot[1]][slot[2]] \in outcomes,
               ~ \E w \in Workers : Report(w) /\ holding[w] = slot
        PROVE  result'[slot[1]][slot[2]] \in outcomes
    <2>1. slot[1] \in Callers /\ slot[2] \in Items /\ slot = <<slot[1], slot[2]>>
      BY SlotsAreNamed
    <2>2. CASE result[slot[1]][slot[2]] = "none"
      BY <1>1, <2>1, <2>2, UnreportedIsUnanswered
    <2>3. CASE result[slot[1]][slot[2]] = "cancelled"
      BY <2>1, <2>3, OutcomesStay
    <2> QED BY <1>1, <2>2, <2>3
  <1>2. \A c \in Callers : Enqueues(c) => result'[c][next[c]] \in outcomes
    BY QueuedIsUndecided
  <1>3. OnTheWay(outcomes)
    BY DEF UndecidedInv
  <1> HIDE DEF outcomes
  <1>4. OnTheWay(outcomes)'
    BY <1>1, <1>2, <1>3, TravelKeepsOutcome
  <1> QED BY <1>4 DEF outcomes, UndecidedInv

LEMMA PendingInvKept ==
    ASSUME TypeOK, CallerInv, ControlInv, SlotInv, EffectInv, OutcomeInv, PendingInv, StopInv,
           [Next]_vars
    PROVE  PendingInv'
  <1> SUFFICES ASSUME ~abrupt' PROVE OnTheWay({"none"})'
    BY DEF PendingInv
  <1>1. ~abrupt
    BY FlagWriters
  <1> DEFINE outcomes == {"none"}
  <1>2. ASSUME NEW slot \in HandedOver, result[slot[1]][slot[2]] \in outcomes,
               \/ \E w \in Workers : IsBusy(w) /\ holding[w] = slot
               \/ \E k \in 1..Len(queue) : queue[k] = slot,
               ~ \E w \in Workers : Report(w) /\ holding[w] = slot
        PROVE  result'[slot[1]][slot[2]] \in outcomes
    <2>1. slot[1] \in Callers /\ slot[2] \in Items /\ slot = <<slot[1], slot[2]>>
      BY SlotsAreNamed
    <2>2. ~stopRequested
      <3>1. queue # << >> \/ \E w \in Workers : IsBusy(w)
        BY <1>2, EmptySeq
      <3> QED BY <1>1, <3>1 DEF StopInv
    <2>3. Fills(slot[1]) => result'[slot[1]] = result[slot[1]]
      BY <2>1, <2>2, FillsWhenStopped
    <2> QED BY <1>2, <2>1, <2>3, UnreportedIsUnanswered
  <1>3. ASSUME NEW c \in Callers, Enqueues(c)
        PROVE  result'[c][next[c]] \in outcomes
    <2>1. /\ next[c] \in Items /\ result' = result
          /\ result[c][next[c]] \in {"none", "cancelled"}
      BY <1>3, QueuedIsUndecided
    <2>2. result[c][next[c]] # "cancelled"
      BY <1>1, <1>3, <2>1 DEF StopInv, Enqueues
    <2> QED BY <2>1, <2>2
  <1>4. OnTheWay(outcomes)
    BY <1>1 DEF PendingInv
  <1> HIDE DEF outcomes
  <1>5. OnTheWay(outcomes)'
    BY <1>2, <1>3, <1>4, TravelKeepsOutcome
  <1> QED BY <1>5 DEF outcomes

-----------------------------------------------------------------------------
(* Nothing is dropped silently.                                            *)

(* The queue is dropped only by request_stop, or when there is nothing in  *)
(* it.                                                                     *)
LEMMA DroppedQueueIsEmpty ==
    ASSUME TypeOK, ControlInv, StopInv, [Next]_vars, ~abrupt,
           StopJoins \/ \E k \in Cancellers : CancellerCloses(k)
    PROVE  queue = << >>
  <1>1. CASE StopJoins
    <2>1. PICK w \in Workers : worker[w] \in {"absent", "exited"}
      BY <1>1, Constants DEF StopJoins
    <2> QED BY <2>1 DEF StopInv
  <1>2. ~ \E k \in Cancellers : CancellerCloses(k)
    BY DEF CancellerCloses, ControlInv
  <1> QED BY <1>1, <1>2

LEMMA NeverDroppedKept ==
    ASSUME TypeOK, CallerInv, ControlInv, SlotInv, EffectInv, OutcomeInv, PendingInv, StopInv,
           NeverDroppedSilently, [Next]_vars
    PROVE  NeverDroppedSilently'
  <1> SUFFICES ASSUME ~abrupt', NEW c \in Callers, NEW i \in Pushed(c)'
               PROVE  \/ <<c, i>> \in InQueue' \cup Held' \cup stored'
                      \/ result'[c][i] \in {"rejected", "cancelled"}
    BY DEF NeverDroppedSilently
  <1>1. ~abrupt
    BY FlagWriters
  <1>2. i \in Items /\ <<c, i>> \in Slots /\ <<c, i>> # NoSlot
    BY Constants DEF Pushed, Slots, Items
  <1>3. CASE i \in Pushed(c)
    <2>1. CASE result[c][i] \in {"rejected", "cancelled"}
      BY <1>2, <2>1, OutcomesStay
    <2>2. CASE <<c, i>> \in stored
      BY <2>2, DataGrow
    <2>3. CASE <<c, i>> \in Held
      <3>1. PICK w \in Workers : holding[w] = <<c, i>>
        BY <2>3 DEF Held
      <3>2. IsBusy(w)
        BY <1>2, <3>1 DEF SlotInv
      <3>3. CASE Report(w)
        <4>1. Reported(c, i) /\ stored' = stored
          BY <3>1, <3>3 DEF Report, dataVars
        <4>2. result[c][i] = "none"
          BY <1>1, <3>1, <3>2 DEF PendingInv, OnTheWay
        <4>3. result'[c][i] = Verdict(<<c, i>>)
          BY <1>2, <4>1, <4>2, TypeParts DEF Reported, BatchType
        <4> QED BY <4>1, <4>3 DEF Verdict
      <3>4. CASE ~Report(w)
        <4>1. ~Takes(w)
          BY <3>2 DEF Takes, IsBusy
        <4> QED BY <1>2, <3>1, <3>4, <4>1, HandsAfter DEF Held
      <3> QED BY <3>3, <3>4
    <2>4. CASE <<c, i>> \in InQueue
      <3>1. PICK k \in 1..Len(queue) : queue[k] = <<c, i>>
        BY <2>4 DEF InQueue
      <3>2. CASE queue' = queue
        BY <3>1, <3>2 DEF InQueue
      <3>3. ~(StopJoins \/ \E m \in Cancellers : CancellerCloses(m))
        BY <1>1, <3>1, DroppedQueueIsEmpty, EmptySeq
      <3>4. ASSUME NEW w \in Workers, Takes(w)
            PROVE  <<c, i>> \in InQueue' \cup Held'
        <4>1. /\ Len(queue) \in Nat \ {0} /\ Len(queue') = Len(queue) - 1
              /\ Head(queue) = queue[1]
              /\ \A j \in 1..Len(queue') : queue'[j] = queue[j + 1]
          BY <3>4, TakenIsFirst
        <4>2. CASE k = 1
          <5>1. holding'[w] = <<c, i>>
            BY <3>1, <3>4, <4>1, <4>2, TypeParts DEF Takes, WorkerType
          <5> QED BY <1>2, <5>1 DEF Held
        <4>3. CASE k # 1
          <5>1. k - 1 \in 1..Len(queue') /\ (k - 1) + 1 = k
            BY <4>1, <4>3
          <5>2. queue'[k - 1] = <<c, i>>
            BY <3>1, <4>1, <5>1
          <5> QED BY <5>1, <5>2 DEF InQueue
        <4> QED BY <4>2, <4>3
      <3>5. ASSUME NEW e \in Callers, Enqueues(e)
            PROVE  <<c, i>> \in InQueue'
        <4>1. /\ Len(queue) \in Nat /\ Len(queue') = Len(queue) + 1
              /\ \A j \in 1..Len(queue) : queue'[j] = queue[j]
          BY <3>5, EnqueuedIsNew
        <4>2. k \in 1..Len(queue') /\ queue'[k] = queue[k]
          BY <4>1
        <4> QED BY <3>1, <4>2 DEF InQueue
      <3> QED BY QueueWriters, <3>2, <3>3, <3>4, <3>5
    <2> QED BY <1>1, <1>3, <2>1, <2>2, <2>3, <2>4 DEF NeverDroppedSilently
  <1>4. CASE i \notin Pushed(c)
    <2>1. (Enqueues(c) \/ Refuse(c)) /\ i = next[c]
      BY <1>4, PushedWriters
    <2>2. CASE Enqueues(c)
      <3>1. /\ Len(queue) \in Nat /\ Len(queue') = Len(queue) + 1
            /\ queue'[Len(queue) + 1] = <<c, i>>
        BY <2>1, <2>2, EnqueuedIsNew
      <3>2. Len(queue) + 1 \in 1..Len(queue')
        BY <3>1
      <3> QED BY <3>1, <3>2 DEF InQueue
    <2>3. CASE Refuse(c)
      BY <1>2, <2>1, <2>3, TypeParts DEF Refuse, BatchType
    <2> QED BY <2>1, <2>2, <2>3
  <1> QED BY <1>3, <1>4

-----------------------------------------------------------------------------
(* The invariant.                                                          *)

LEMMA InitHolds == Init => IInv
  <1> SUFFICES ASSUME Init PROVE IInv
    OBVIOUS
  <1>1. TypeOK
    BY TypeHolds
  <1>2. CallerInv
    BY Constants DEF Init, CallerInv
  <1>3. ControlInv
    BY DEF Init, ControlInv
  <1>4. queue = << >> /\ Len(queue) = 0 /\ 1..Len(queue) = {}
    BY EmptySeq DEF Init, QueueInit
  <1>5. SlotInv
    BY <1>4 DEF Init, SlotInv, IsBusy
  <1>6. EffectInv
    BY <1>4 DEF Init, EffectInv
  <1>7. OutcomeInv
    <2>1. \A c \in Callers : Undone(c) = 1..BatchSize
      BY DEF Init, Undone
    <2>2. Cardinality(1..BatchSize) = BatchSize
      BY Constants, FS_Interval
    <2>3. OutstandingIsUndone
      BY <2>1, <2>2 DEF Init, OutstandingIsUndone
    <2> QED BY <2>3 DEF Init, OutcomeInv, Items
  <1>8. UndecidedInv /\ PendingInv
    BY <1>4 DEF Init, UndecidedInv, PendingInv, OnTheWay, IsBusy
  <1>9. StopInv
    <2>1. queue = << >> /\ ~stopRequested
      BY DEF Init, QueueInit
    <2>2. \A c \in Callers : ~Active(c) /\ caller[c] # "refusing"
      BY DEF Init, Active
    <2>3. \A c \in Callers, i \in Items : result[c][i] # "cancelled"
      BY DEF Init, Items
    <2>4. \A w \in Workers : worker[w] # "exited"
      BY DEF Init
    <2> QED BY <2>1, <2>2, <2>3, <2>4 DEF StopInv
  <1>10. NeverDroppedSilently
    <2>1. \A c \in Callers : Pushed(c) = {}
      BY Constants DEF Init, Pushed
    <2> QED BY <2>1 DEF NeverDroppedSilently
  <1> QED BY <1>1, <1>2, <1>3, <1>5, <1>6, <1>7, <1>8, <1>9, <1>10 DEF IInv

LEMMA NextKeeps == IInv /\ [Next]_vars => IInv'
  <1> SUFFICES ASSUME IInv, [Next]_vars PROVE IInv'
    OBVIOUS
  <1> USE DEF IInv
  <1>1. TypeOK'
    <2>1. /\ QueueType' /\ ControlType' /\ WorkerType' /\ BatchType' /\ EffectType'
          /\ FlagType'
      BY QueueTypeKept, ControlTypeKept, WorkerTypeKept, BatchTypeKept, EffectTypeKept,
         FlagTypeKept
    <2> QED
      BY <2>1 DEF TypeOK, QueueType, ControlType, WorkerType, BatchType, EffectType, FlagType,
                  Items
  <1>2. CallerInv' /\ ControlInv'
    BY CallerInvKept, ControlInvKept
  <1>3. SlotInv' /\ EffectInv'
    BY SlotInvKept, EffectInvKept
  <1>4. OutcomeInv' /\ UndecidedInv' /\ PendingInv'
    BY OutcomeInvKept, UndecidedInvKept, PendingInvKept
  <1>5. StopInv' /\ NeverDroppedSilently'
    BY StopInvKept, NeverDroppedKept
  <1> QED BY <1>1, <1>2, <1>3, <1>4, <1>5

LEMMA InvHolds == Spec => []IInv
  BY InitHolds, NextKeeps, PTL DEF Spec

-----------------------------------------------------------------------------
(* Every variable of the engine keeps its type (src/src/engine.cpp).       *)
THEOREM TypeCorrect == Spec => []TypeOK
  BY InvHolds, PTL DEF IInv

(* The counter a caller waits on is the number of its slots without an     *)
(* outcome, whoever of worker, caller and stop wrote last                  *)
(* (src/src/engine.cpp:258-262, 344-372 and 137-160).                      *)
THEOREM OutstandingCounts == Spec => []OutstandingIsUndone
  BY InvHolds, PTL DEF IInv, OutcomeInv

(* Unless request_stop was called, a slot that was handed over is queued,  *)
(* with a worker, in the store, or reported as rejected or cancelled: no   *)
(* start, stop or full queue loses one (src/include/loss_observatory/core/bounded.hpp).        *)
THEOREM NothingDropped == Spec => []NeverDroppedSilently
  BY InvHolds, PTL DEF IInv

-----------------------------------------------------------------------------
(* The engine implements the contract of ingest_batch.                     *)

Accepted == {c \in Callers : caller[c] \notin {"idle", "refused"}}
Returned == {c \in Callers : caller[c] = "returned"}
contractVars == <<Accepted, Returned, result, stored, journaled, failures, abrupt>>

LEMMA Stutters ==
    ASSUME UNCHANGED contractVars
    PROVE  UNCHANGED Contract!vars
  BY DEF Contract!vars, contractVars, Accepted, Returned

LEMMA ContractInit == Init => Contract!Init
  <1> SUFFICES ASSUME Init PROVE Contract!Init
    OBVIOUS
  <1>1. Accepted = {} /\ Returned = {}
    BY DEF Init, Accepted, Returned
  <1> QED BY <1>1 DEF Init, Contract!Init, Accepted, Returned

(* Every answer that is not a worker's is given for slots whose evidence   *)
(* is not in the store, unless request_stop was called.                    *)
LEMMA FilledIsUndone ==
    ASSUME IInv, NEW c \in Callers, Fills(c), NEW i \in Undone(c)
    PROVE  abrupt \/ <<c, i>> \notin stored
  <1>1. i \in Items /\ result[c][i] = "none"
    BY DEF Undone, Items
  <1>2. stopRequested
    BY <1>1, FillsWhenStopped, FilledEach DEF IInv, Fills
  <1>3. CASE ~abrupt
    BY <1>1, <1>2, <1>3 DEF IInv, StopInv, OutcomeInv, Answering, IsBusy
  <1> QED BY <1>3

LEMMA StopFillsCancels ==
    ASSUME IInv, StopFills
    PROVE  Contract!CancelBatches(waiters)
  <1>1. BatchType
    BY TypeParts DEF IInv
  <1>2. ASSUME NEW c \in waiters
        PROVE  Contract!Cancellable(c, Contract!Open(c))
    <2>1. c \in Accepted /\ c \in Callers
      BY <1>1 DEF IInv, CallerInv, Active, Accepted, BatchType
    <2>2. Fills(c)
      BY <1>1, <2>1 DEF StopFills, Fills, BatchType
    <2>3. Contract!Open(c) = Undone(c)
      BY DEF Contract!Open, Undone
    <2> QED BY <2>1, <2>2, <2>3, FilledIsUndone DEF Contract!Cancellable, Accepted
  <1>3. \A c \in Callers : Contract!Cancelled(c, Contract!Open(c)) = Filled(c)
    BY DEF Contract!Cancelled, Contract!Open, Filled, Undone
  <1>4. result' = [c \in Callers |-> IF c \in waiters THEN Contract!Cancelled(c, Contract!Open(c))
                                     ELSE result[c]]
    BY <1>3 DEF StopFills
  <1>5. UNCHANGED <<caller, stored, journaled, failures, abrupt>>
    BY DEF StopFills, dataVars, cancelVars
  <1> QED BY <1>2, <1>4, <1>5 DEF Contract!CancelBatches

LEMMA AwaitReturns ==
    ASSUME IInv, NEW c \in Callers, Await(c)
    PROVE  UNCHANGED contractVars \/ Contract!Return(c)
  <1>1. BatchType /\ caller[c] = "awaiting"
    BY TypeParts DEF IInv, Await
  <1>2. UNCHANGED <<stored, journaled, failures, abrupt>>
    BY DEF Await, dataVars, cancelVars
  <1>3. CASE ~(outstanding[c] = 0 \/ stopRequested)
    <2>1. UNCHANGED <<caller, result>>
      BY <1>3 DEF Await
    <2> QED BY <1>2, <2>1 DEF contractVars, Accepted, Returned
  <1>4. CASE outstanding[c] = 0 \/ stopRequested
    <2>1. /\ result' = [result EXCEPT ![c] = Filled(c)]
          /\ outstanding' = [outstanding EXCEPT ![c] = 0]
          /\ caller' = [caller EXCEPT ![c] = "returned"]
      BY <1>4 DEF Await
    <2>2. Fills(c)
      BY <1>1, <1>4, <2>1 DEF Fills, BatchType
    <2>3. Contract!Open(c) = Undone(c)
      BY DEF Contract!Open, Undone
    <2>4. c \in Accepted \ Returned
      BY <1>1 DEF Accepted, Returned
    <2>5. Contract!Cancellable(c, Contract!Open(c))
      BY <2>2, <2>3, <2>4, FilledIsUndone DEF Contract!Cancellable, Accepted
    <2>6. Contract!Cancelled(c, Contract!Open(c)) = Filled(c)
      BY DEF Contract!Cancelled, Contract!Open, Filled, Undone
    <2>7. Returned' = Returned \cup {c} /\ Accepted' = Accepted
      BY <1>1, <2>1 DEF Returned, Accepted, BatchType
    <2> QED
      BY <1>2, <2>1, <2>4, <2>5, <2>6, <2>7 DEF Contract!Return, Accepted, Returned
  <1> QED BY <1>3, <1>4

LEMMA RefuseCancels ==
    ASSUME IInv, [Next]_vars, NEW c \in Callers, Refuse(c)
    PROVE  \/ UNCHANGED contractVars
           \/ \E i \in 1..BatchSize : Contract!AnswerCancelled(c, i)
  <1>1. BatchType
    BY TypeParts DEF IInv
  <1>2. Refuses(c) /\ caller[c] = "refusing"
    BY <1>1 DEF Refuse, Refuses, BatchType
  <1> DEFINE i == next[c]
  <1>3. /\ i \in Items /\ i \notin Pushed(c)
        /\ result[c][i] = "none" \/ result'[c] = result[c]
    BY <1>2, RefusedWasOpen DEF IInv
  <1>4. /\ result' = [result EXCEPT ![c][i] = "cancelled"]
        /\ UNCHANGED <<stored, journaled, failures, abrupt>>
    BY DEF Refuse, dataVars, cancelVars
  <1>5. c \in Accepted /\ Accepted' = Accepted /\ Returned' = Returned
    BY <1>1, <1>2 DEF Accepted, Returned, Refuse, Advance, BatchType
  <1>6. CASE result'[c] = result[c]
    <2>1. result' = result
      BY <1>1, <1>4, <1>6 DEF BatchType
    <2> QED BY <1>4, <1>5, <2>1 DEF contractVars
  <1>7. CASE result[c][i] = "none"
    <2>1. <<c, i>> \notin stored
      BY <1>3 DEF IInv, SlotInv, HandedOver, Slots, Items
    <2>2. Contract!Cancellable(c, {i})
      BY <1>5, <2>1 DEF Contract!Cancellable, Accepted
    <2>3. [result[c] EXCEPT ![i] = "cancelled"] = Contract!Cancelled(c, {i})
      BY <1>1, <1>3 DEF Contract!Cancelled, BatchType, Items
    <2>4. result' = [result EXCEPT ![c] = Contract!Cancelled(c, {i})]
      BY <1>4, <2>3
    <2>5. i \in Contract!Open(c)
      BY <1>3, <1>7 DEF Contract!Open, Items
    <2>6. Contract!AnswerCancelled(c, i)
      BY <1>4, <1>5, <2>2, <2>4, <2>5 DEF Contract!AnswerCancelled, Accepted, Returned
    <2> QED BY <1>3, <2>6 DEF Items
  <1> QED BY <1>3, <1>6, <1>7

LEMMA WorkerTakesEffect ==
    ASSUME IInv, NEW w \in Workers, Submit(w) \/ AppendEvidence(w) \/ Report(w)
    PROVE  [Contract!Next]_(Contract!vars)
  <1>1. holding[w] \in HandedOver /\ IsBusy(w)
    BY DEF IInv, SlotInv, IsBusy, Submit, AppendEvidence, Report
  <1>2. PICK c \in Callers, i \in 1..BatchSize : holding[w] = <<c, i>> /\ i \in Pushed(c)
    BY <1>1 DEF HandedOver, Slots
  <1>3. BatchType /\ <<c, i>> \in Slots
    BY TypeParts DEF IInv, Slots
  <1>4. caller' = caller /\ abrupt' = abrupt
    BY DEF Submit, AppendEvidence, Report, batchVars, cancelVars
  <1>5. CASE Submit(w)
    <2>1. /\ <<c, i>> \notin stored /\ result' = result
          /\ \/ stored' = stored \cup {<<c, i>>} /\ UNCHANGED <<journaled, failures>>
             \/ UNCHANGED <<stored, journaled, failures>>
      BY <1>2, <1>5 DEF Submit, Accept, IInv, EffectInv, batchVars, dataVars
    <2>2. caller[c] \notin {"idle", "refused"}
      BY <1>2, <1>3, Constants DEF IInv, CallerInv, Pushed
    <2>3. i \in Contract!Open(c) \/ (abrupt /\ result[c][i] = "cancelled")
      <3>1. result[c][i] \in {"none", "cancelled"}
        BY <1>1, <1>2 DEF IInv, UndecidedInv, OnTheWay
      <3>2. ~abrupt => result[c][i] = "none"
        BY <1>1, <1>2 DEF IInv, PendingInv, OnTheWay
      <3> QED BY <3>1, <3>2 DEF Contract!Open
    <2>4. CASE stored' = stored \cup {<<c, i>>} /\ UNCHANGED <<journaled, failures>>
      <3>1. Contract!TakeEffect(c, i)
        BY <1>3, <1>4, <2>1, <2>2, <2>3, <2>4 DEF Contract!TakeEffect
      <3> QED BY <3>1 DEF Contract!Next
    <2>5. CASE UNCHANGED <<stored, journaled, failures>>
      BY <1>4, <2>1, <2>5, Stutters DEF contractVars, Accepted, Returned
    <2> QED BY <2>1, <2>4, <2>5
  <1>6. CASE AppendEvidence(w)
    <2>1. /\ <<c, i>> \in stored \ (journaled \cup failures)
          /\ \/ journaled' = journaled \cup {<<c, i>>} /\ failures' = failures
             \/ failures' = failures \cup {<<c, i>>} /\ journaled' = journaled
          /\ UNCHANGED <<result, stored>>
      BY <1>2, <1>6 DEF AppendEvidence, Journal, IInv, EffectInv, batchVars
    <2>2. Contract!Record(<<c, i>>)
      BY <1>4, <2>1 DEF Contract!Record
    <2> QED BY <2>1, <2>2 DEF Contract!Next
  <1>7. CASE Report(w)
    <2>1. /\ <<c, i>> \in stored => <<c, i>> \in journaled \cup failures
          /\ Reported(c, i)
          /\ UNCHANGED <<stored, journaled, failures>>
      BY <1>2, <1>7 DEF Report, IInv, EffectInv, dataVars
    <2>2. caller[c] \notin {"idle", "refused"}
      BY <1>2, <1>3, Constants DEF IInv, CallerInv, Pushed
    <2>3. CASE result[c][i] = "none" /\ <<c, i>> \in stored
      <3>1. result' = [result EXCEPT ![c][i] = "accepted"]
        BY <2>1, <2>3 DEF Reported, Verdict
      <3>2. Contract!AnswerAccepted(c, i)
        BY <1>3, <1>4, <2>1, <2>3, <3>1 DEF Contract!AnswerAccepted, Contract!Open
      <3> QED BY <3>2 DEF Contract!Next
    <2>4. CASE result[c][i] = "none" /\ <<c, i>> \notin stored
      <3>1. result' = [result EXCEPT ![c][i] = "rejected"]
        BY <2>1, <2>4 DEF Reported, Verdict
      <3>2. Contract!AnswerRejected(c, i)
        BY <1>3, <1>4, <2>1, <2>2, <2>4, <3>1 DEF Contract!AnswerRejected, Contract!Open
      <3> QED BY <3>2 DEF Contract!Next
    <2>5. CASE result[c][i] # "none"
      <3>1. result' = result
        BY <2>1, <2>5 DEF Reported
      <3> QED BY <1>4, <2>1, <3>1, Stutters
              DEF contractVars, Accepted, Returned
    <2> QED BY <2>3, <2>4, <2>5
  <1> QED BY <1>5, <1>6, <1>7

LEMMA BatchImplements ==
    ASSUME IInv, [Next]_vars, NEW c \in Callers, IngestBatch(c) \/ BatchStep(c)
    PROVE  [Contract!Next]_(Contract!vars)
  <1>1. BatchType
    BY TypeParts DEF IInv
  <1>2. CASE IngestBatch(c)
    <2>1. /\ UNCHANGED <<result, stored, journaled, failures, abrupt>>
          /\ caller[c] = "idle" /\ caller'[c] \in {"registering", "refused"}
          /\ \A e \in Callers \ {c} : caller'[e] = caller[e]
      BY <1>1, <1>2 DEF IngestBatch, dataVars, cancelVars, BatchType
    <2>2. Returned' = Returned
      BY <2>1 DEF Returned
    <2>3. CASE caller'[c] = "refused"
      <3>1. Accepted' = Accepted
        BY <2>1, <2>3 DEF Accepted
      <3> QED BY <2>1, <2>2, <3>1, Stutters DEF contractVars
    <2>4. CASE caller'[c] = "registering"
      <3>1. Accepted' = Accepted \cup {c} /\ c \notin Accepted
        BY <2>1, <2>4 DEF Accepted
      <3>2. Contract!Accept(c)
        BY <2>1, <2>2, <3>1 DEF Contract!Accept, Accepted, Returned
      <3> QED BY <3>2 DEF Contract!Next
    <2> QED BY <2>1, <2>3, <2>4
  <1>3. CASE Register(c) \/ Push(c) \/ PushNotifies(c)
    <2>1. /\ UNCHANGED <<result, stored, journaled, failures, abrupt>>
          /\ caller[c] \notin {"idle", "refused", "returned"}
          /\ caller'[c] \notin {"idle", "refused", "returned"}
          /\ \A e \in Callers \ {c} : caller'[e] = caller[e]
      BY <1>1, <1>3 DEF Register, Push, PushNotifies, Advance, dataVars, cancelVars, BatchType
    <2>2. Accepted' = Accepted /\ Returned' = Returned
      BY <2>1 DEF Accepted, Returned
    <2> QED BY <2>1, <2>2, Stutters DEF contractVars
  <1>4. CASE Refuse(c)
    <2>1. CASE UNCHANGED contractVars
      BY <2>1, Stutters
    <2>2. CASE \E i \in 1..BatchSize : Contract!AnswerCancelled(c, i)
      BY <2>2 DEF Contract!Next
    <2> QED BY <1>4, <2>1, <2>2, RefuseCancels
  <1>5. CASE Await(c)
    <2>1. CASE UNCHANGED contractVars
      BY <2>1, Stutters
    <2>2. CASE Contract!Return(c)
      BY <2>2 DEF Contract!Next
    <2> QED BY <1>5, <2>1, <2>2, AwaitReturns
  <1> QED BY <1>2, <1>3, <1>4, <1>5 DEF BatchStep

(* Every step of the engine is a step of the contract, or none.            *)
LEMMA StepImplements ==
    ASSUME IInv, [Next]_vars
    PROVE  [Contract!Next]_(Contract!vars)
  <1>1. ASSUME NEW c \in Callers, IngestBatch(c) \/ BatchStep(c)
        PROVE  [Contract!Next]_(Contract!vars)
    BY <1>1, BatchImplements
  <1>2. ASSUME NEW w \in Workers, Submit(w) \/ AppendEvidence(w) \/ Report(w)
        PROVE  [Contract!Next]_(Contract!vars)
    BY <1>2, WorkerTakesEffect
  <1>3. CASE StopFills
    <2>1. Contract!CancelBatches(waiters) /\ waiters \in SUBSET Callers
      BY <1>3, StopFillsCancels, TypeParts DEF IInv, BatchType
    <2> QED BY <2>1 DEF Contract!Next
  <1>4. ASSUME NEW k \in Cancellers, RequestStop(k)
        PROVE  [Contract!Next]_(Contract!vars)
    <2>1. abrupt' = TRUE /\ UNCHANGED <<caller, result, stored, journaled, failures>>
      BY <1>4 DEF RequestStop, dataVars
    <2>2. Contract!RequestStop
      BY <2>1 DEF Contract!RequestStop
    <2> QED BY <2>2 DEF Contract!Next
  <1>5. CASE UNCHANGED <<caller, result, stored, journaled, failures, abrupt>>
    BY <1>5, Stutters DEF contractVars, Accepted, Returned
  <1>6. \/ UNCHANGED <<caller, result, stored, journaled, failures, abrupt>>
        \/ \E c \in Callers : IngestBatch(c) \/ BatchStep(c)
        \/ \E w \in Workers : Submit(w) \/ AppendEvidence(w) \/ Report(w)
        \/ StopFills
        \/ \E k \in Cancellers : RequestStop(k)
    BY DEF Next, vars, batchVars, cancelVars, dataVars, ControlStep, WorkerStep, CancelStep,
           Terminated, Spurious, Start, Stop, StartEnds, StopDrains, StopJoins, StopEnds,
           CancellerCloses, CancellerReads, CancellerMarks, Pop, PopNotifies
  <1> QED BY <1>1, <1>2, <1>3, <1>4, <1>5, <1>6

(* Threads, queue and stop together do nothing that the contract of        *)
(* ingest_batch does not allow: "every slot is given a definite outcome so *)
(* a caller can never mistake 'not processed' for 'processed'"             *)
(* (src/src/engine.cpp:364).                                               *)
THEOREM EngineImplementsContract == Spec => IngestContractHolds
  <1>1. IInv /\ [Next]_vars => [Contract!Next]_(Contract!vars)
    BY StepImplements
  <1> QED
    BY <1>1, ContractInit, InvHolds, PTL DEF Spec, IngestContractHolds, Contract!Spec

-----------------------------------------------------------------------------
(* What the contract's callers can rely on, the engine's can.              *)

Promises ==
    INSTANCE IngestContract_proofs WITH
        accepted  <- {c \in Callers : caller[c] \notin {"idle", "refused"}},
        returned  <- {c \in Callers : caller[c] = "returned"},
        outcome   <- result,
        effective <- stored,
        recorded  <- journaled,
        failed    <- failures,
        abrupt    <- abrupt

LEMMA SameContract == IngestContractHolds => Promises!Spec
  <1>1. Contract!Init => Promises!Init
    BY DEF Contract!Init, Promises!Init
  <1>2. [Contract!Next]_(Contract!vars) => [Promises!Next]_(Promises!vars)
    BY DEF Contract!Next, Promises!Next, Contract!vars, Promises!vars,
           Contract!Accept, Promises!Accept, Contract!Return, Promises!Return,
           Contract!TakeEffect, Promises!TakeEffect,
           Contract!AnswerAccepted, Promises!AnswerAccepted,
           Contract!AnswerRejected, Promises!AnswerRejected,
           Contract!AnswerCancelled, Promises!AnswerCancelled,
           Contract!Record, Promises!Record, Contract!CancelBatches, Promises!CancelBatches,
           Contract!RequestStop, Promises!RequestStop, Contract!Open, Promises!Open,
           Contract!Cancellable, Promises!Cancellable, Contract!Cancelled, Promises!Cancelled
  <1> QED BY <1>1, <1>2, PTL DEF IngestContractHolds, Contract!Spec, Promises!Spec

(* What a caller of ingest_batch is told is true: "accepted" only of       *)
(* evidence that is in the store and was journaled or counted among the    *)
(* failures, "rejected" only of evidence that is not, "cancelled", unless  *)
(* request_stop was called, only of evidence that is not either, and one   *)
(* of the three of every slot once the call has returned                   *)
(* (src/src/engine.cpp:222-235, 290-304 and 364-382).                      *)
AnswersAreTrue ==
    /\ \A c \in Callers, i \in 1..BatchSize :
          /\ result[c][i] = "accepted" =>
                 <<c, i>> \in stored /\ <<c, i>> \in journaled \cup failures
          /\ result[c][i] = "rejected" => <<c, i>> \notin stored
          /\ result[c][i] = "cancelled" /\ ~abrupt => <<c, i>> \notin stored
    /\ \A c \in Callers : caller[c] = "returned" => Undone(c) = {}

THEOREM EngineAnswersAreTrue == Spec => []AnswersAreTrue
  <1>1. Promises!EffectsAreAccepted /\ Promises!OutcomesAreTrue /\ Promises!ReturnedIsAnswered
            => AnswersAreTrue
    BY DEF Promises!EffectsAreAccepted, Promises!OutcomesAreTrue, Promises!ReturnedIsAnswered,
           Promises!Items, Promises!Open, AnswersAreTrue, Undone, Slots
  <1> QED BY <1>1, EngineImplementsContract, SameContract, Promises!AnswersAreTrue, PTL

(* An outcome, once given, is never replaced: neither by stop nor by a     *)
(* worker that is late (src/src/engine.cpp:258-262, 344-372).              *)
OutcomesStand ==
    \A c \in Callers, i \in 1..BatchSize :
        result[c][i] # "none" => result'[c][i] = result[c][i]

THEOREM EngineAnswersStand == Spec => [][OutcomesStand]_vars
  <1>1. IInv /\ [Next]_vars => [OutcomesStand]_vars
    BY OutcomesStay DEF IInv, OutcomesStand, Items
  <1> QED BY <1>1, InvHolds, PTL DEF Spec

================================================================================
