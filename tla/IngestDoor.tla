------------------------------ MODULE IngestDoor ------------------------------
(***************************************************************************)
(* The one door evidence enters by: EvidenceStore::submit, which asks the  *)
(* source registry for a fence decision and only then takes the store's    *)
(* own mutex (src/src/evidence/store.cpp:44-162).  Any number of threads   *)
(* submit at once -- engine workers and direct callers -- so another       *)
(* submission, an activation or a retirement may run between the two       *)
(* critical sections.                                                      *)
(*                                                                         *)
(* A submission the fence refuses changes nothing but a rejection counter  *)
(* and is not a step here.                                                 *)
(***************************************************************************)
EXTENDS SourceRegistry, EvidenceStore

CONSTANTS
    Threads,        \* threads that call submit
    Submittable,    \* the items they may submit
    Recoverable,    \* the items a recovery may restore
    NoItem,         \* a thread with nothing in hand
    MaxAttempts     \* bound of a run: items let through to the store

ASSUME DoorAssumption ==
    /\ Provenance = [source : Sources, epoch : Epochs, sequence : SequenceNumbers]
    /\ Submittable \subseteq {i \in Item : ~i.recovered}
    /\ Recoverable \subseteq Item
    /\ NoItem \notin Item
    /\ MaxAttempts \in Nat

VARIABLES
    inHand,     \* per thread: the item between the fence and the store
    attempts    \* how many items were let through to the store (bounds the run)

vars == <<registryVars, storeVars, inHand, attempts>>

TypeOK ==
    /\ RegistryTypeOK
    /\ \A s \in Sources, e \in Epochs : Len(fence[s][e].seen) <= SequenceWindow
    /\ StoreTypeOK
    /\ inHand \in [Threads -> Item \cup {NoItem}]
    /\ attempts \in 0..MaxAttempts

Init ==
    /\ RegistryInit
    /\ StoreInit
    /\ inHand = [t \in Threads |-> NoItem]
    /\ attempts = 0

-----------------------------------------------------------------------------
(* The fence step of a submission.                                         *)
PassFence(t, item) ==
    /\ inHand[t] = NoItem
    /\ attempts < MaxAttempts
    /\ ObserveSequence(item.from.source, item.from.epoch, item.from.sequence)
    /\ inHand' = [inHand EXCEPT ![t] = item]
    /\ attempts' = attempts + 1
    /\ UNCHANGED storeVars

(* The store step of the same submission.                                  *)
ReachStore(t) ==
    /\ inHand[t] # NoItem
    /\ Submit(inHand[t])
    /\ inHand' = [inHand EXCEPT ![t] = NoItem]
    /\ UNCHANGED <<registryVars, attempts>>

Recover(item) ==
    /\ attempts < MaxAttempts
    /\ Restore(item)
    /\ attempts' = attempts + 1
    /\ UNCHANGED <<registryVars, inHand>>

MarkRecovered ==
    /\ MarkAllRecovered
    /\ UNCHANGED <<registryVars, inHand, attempts>>

AdministerRegistry ==
    /\ Administer
    /\ UNCHANGED <<storeVars, inHand, attempts>>

Next ==
    \/ \E t \in Threads :
          \/ \E item \in Submittable : PassFence(t, item)
          \/ ReachStore(t)
    \/ \E item \in Recoverable : Recover(item)
    \/ MarkRecovered
    \/ AdministerRegistry

Spec == Init /\ [][Next]_vars

-----------------------------------------------------------------------------
(* Between two admissions of the same sequence under one (source, epoch)   *)
(* the fence admitted at least SequenceWindow others, whatever the number  *)
(* of submitting threads and however epochs are retired and reactivated in *)
(* between: apply_fence's promise that nothing in the window is replayed.  *)
NoReplayWithinWindow ==
    \A s \in Sources, e \in Epochs : NoRepeatWithin(admitted[s][e], SequenceWindow)

(* "The only door": whatever the store holds without the recovered mark,   *)
(* and whatever a thread is about to store, was admitted by the fence of   *)
(* the very source and epoch it cites.                                     *)
OnlyThroughTheDoor ==
    \A item \in Retained \cup ({inHand[t] : t \in Threads} \ {NoItem}) :
        ~item.recovered =>
            item.from.sequence \in Range(admitted[item.from.source][item.from.epoch])

(* The same measurement identity is stored again only after at least       *)
(* MaxIdsTracked others, although two threads may carry it past the fence  *)
(* at the same time and recovery may bring it a third time.                *)
NoMeasurementTwice == NoRepeatWithin(stored, MaxIdsTracked)

(* While no subject bound has bitten, the total bound does what store.hpp  *)
(* says of the insertion order: the store holds exactly the last MaxItems  *)
(* insertions and the oldest goes first.                                   *)
OldestEvictedFirst ==
    stats.evicted_per_subject = 0 =>
        /\ IsWindow(insertionOrder, stored, MaxItems)
        /\ Len(insertionOrder) = ItemCount
        /\ Range(insertionOrder) = {item.id : item \in Retained}

(* The front of the insertion order is popped only when there is one:      *)
(* pop_front on an empty deque (store.cpp:120) is undefined.               *)
OrderNeverEmptyWhenPopped ==
    \A u \in Subjects : Full(u) => insertionOrder # << >>

==============================================================================
