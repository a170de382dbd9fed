---------------------------- MODULE IngestContract ----------------------------
(***************************************************************************)
(* What ingest_batch promises its callers, without threads, queue or       *)
(* condition variables (the contract of ObservatoryEngine::ingest_batch    *)
(* and of stop, src/src/engine.cpp:119-163, 290-304 and 313-382): a batch  *)
(* that was accepted has an effect slot by slot and never twice; an        *)
(* outcome once given stands; "accepted" is said of nothing that is not in *)
(* the store and either journaled or counted as a failure to journal;      *)
(* "rejected" of nothing that was or ever will be in the store; and        *)
(* "cancelled", unless somebody called request_stop, of nothing either.  A *)
(* refused call has no effect.  Nothing is promised of the journal alone:  *)
(* an append that fails leaves the outcome as it is.                       *)
(***************************************************************************)
EXTENDS Naturals

CONSTANTS
    Callers,      \* threads that hand over a batch, once each
    BatchSize     \* items per batch

VARIABLES
    accepted,     \* the callers whose batch was accepted
    returned,     \* those that have their answer
    outcome,      \* the outcome of every slot
    effective,    \* the slots whose evidence the store accepted
    recorded,     \* those whose evidence is in the journal
    failed,       \* those whose evidence the journal failed to take
    abrupt        \* has request_stop been called?

vars == <<accepted, returned, outcome, effective, recorded, failed, abrupt>>

Init ==
    /\ accepted = {} /\ returned = {}
    /\ outcome = [c \in Callers |-> [i \in 1..BatchSize |-> "none"]]
    /\ effective = {} /\ recorded = {} /\ failed = {}
    /\ abrupt = FALSE

Open(c) == {i \in 1..BatchSize : outcome[c][i] = "none"}

Accept(c) ==
    /\ c \notin accepted
    /\ accepted' = accepted \cup {c}
    /\ UNCHANGED <<returned, outcome, effective, recorded, failed, abrupt>>

(* The evidence takes effect in the store, ...                             *)
TakeEffect(c, i) ==
    /\ c \in accepted /\ <<c, i>> \notin effective
    /\ i \in Open(c) \/ (abrupt /\ outcome[c][i] = "cancelled")
    /\ effective' = effective \cup {<<c, i>>}
    /\ UNCHANGED <<accepted, returned, outcome, recorded, failed, abrupt>>

(* ... and the journal takes it or does not.                               *)
Record(slot) ==
    /\ slot \in effective \ (recorded \cup failed)
    /\ \/ recorded' = recorded \cup {slot} /\ UNCHANGED failed
       \/ failed' = failed \cup {slot} /\ UNCHANGED recorded
    /\ UNCHANGED <<accepted, returned, outcome, effective, abrupt>>

AnswerAccepted(c, i) ==
    /\ i \in Open(c) /\ <<c, i>> \in recorded \cup failed
    /\ outcome' = [outcome EXCEPT ![c][i] = "accepted"]
    /\ UNCHANGED <<accepted, returned, effective, recorded, failed, abrupt>>

AnswerRejected(c, i) ==
    /\ c \in accepted
    /\ i \in Open(c) /\ <<c, i>> \notin effective
    /\ outcome' = [outcome EXCEPT ![c][i] = "rejected"]
    /\ UNCHANGED <<accepted, returned, effective, recorded, failed, abrupt>>

(* Nothing that took effect is cancelled.                                  *)
Cancellable(c, items) ==
    /\ c \in accepted
    /\ abrupt \/ \A i \in items : <<c, i>> \notin effective

Cancelled(c, items) ==
    [i \in 1..BatchSize |-> IF i \in items THEN "cancelled" ELSE outcome[c][i]]

AnswerCancelled(c, i) ==
    /\ i \in Open(c)
    /\ Cancellable(c, {i})
    /\ outcome' = [outcome EXCEPT ![c] = Cancelled(c, {i})]
    /\ UNCHANGED <<accepted, returned, effective, recorded, failed, abrupt>>

(* stop answers for all the batches it knows of.                           *)
CancelBatches(callers) ==
    /\ \A c \in callers : Cancellable(c, Open(c))
    /\ outcome' = [c \in Callers |-> IF c \in callers THEN Cancelled(c, Open(c)) ELSE outcome[c]]
    /\ UNCHANGED <<accepted, returned, effective, recorded, failed, abrupt>>

(* The caller returns with an outcome for every slot.                      *)
Return(c) ==
    /\ c \in accepted \ returned
    /\ Cancellable(c, Open(c))
    /\ outcome' = [outcome EXCEPT ![c] = Cancelled(c, Open(c))]
    /\ returned' = returned \cup {c}
    /\ UNCHANGED <<accepted, effective, recorded, failed, abrupt>>

RequestStop ==
    /\ abrupt' = TRUE
    /\ UNCHANGED <<accepted, returned, outcome, effective, recorded, failed>>

Next ==
    \/ \E c \in Callers :
          \/ Accept(c) \/ Return(c)
          \/ \E i \in 1..BatchSize :
                \/ TakeEffect(c, i)
                \/ AnswerAccepted(c, i) \/ AnswerRejected(c, i) \/ AnswerCancelled(c, i)
    \/ \E slot \in effective : Record(slot)
    \/ \E callers \in SUBSET Callers : CancelBatches(callers)
    \/ RequestStop

Spec == Init /\ [][Next]_vars

==============================================================================
