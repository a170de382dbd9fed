---------------------------- MODULE EvidenceStore ----------------------------
(***************************************************************************)
(* The bounded store of raw evidence (src/src/evidence/store.cpp): one     *)
(* bucket per subject, a memory of measurement identities for             *)
(* de-duplication, and the global insertion order that the total bound     *)
(* evicts by.  Every action is one critical section of the store's mutex.  *)
(*                                                                         *)
(* Abstracted: payloads and the checks on them (note size, validate,       *)
(* method), which reject an item before anything here changes; the         *)
(* counters of rejections; bound notes.  Identities of subjects are        *)
(* numbers because std::map iterates them in order.                        *)
(***************************************************************************)
EXTENDS SlidingWindow, FiniteSets, FiniteSetsExt

CONSTANTS
    Subjects,            \* SubjectRef: a set of numbers, in map order
    Ids,                 \* MeasurementId
    Provenance,          \* what else an item carries (source, epoch, sequence)
    MaxItems,            \* max_items
    MaxItemsPerSubject,  \* max_items_per_subject
    MaxSubjects,         \* max_distinct_subjects
    MaxIdsTracked        \* max_measurement_ids_tracked

ASSUME StoreAssumption ==
    /\ Subjects \subseteq Nat /\ IsFiniteSet(Subjects)
    /\ MaxItems \in Nat \ {0}
    /\ MaxItemsPerSubject \in Nat \ {0}
    /\ MaxSubjects \in Nat \ {0}
    /\ MaxIdsTracked \in Nat \ {0}

VARIABLES
    known,           \* the keys of subjects_, which are never removed
    buckets,         \* subjects_: the retained items of each subject, oldest first
    seenIds,         \* seen_ids_
    seenOrder,       \* seen_order_
    insertionOrder,  \* insertion_order_
    stats,           \* stats_.accepted, .evicted and .evicted_per_subject
    stored           \* history: every identity ever inserted, in order

storeVars == <<known, buckets, seenIds, seenOrder, insertionOrder, stats, stored>>

Item == [id : Ids, subject : Subjects, from : Provenance, recovered : BOOLEAN]

BoundedSeqs(S, n) == {q \in Seq(S) : Len(q) <= n}

StoreTypeOK ==
    /\ known \subseteq Subjects /\ IsFiniteSet(known)
    /\ Cardinality(known) <= MaxSubjects
    /\ buckets \in [Subjects -> BoundedSeqs(Item, MaxItemsPerSubject)]
    /\ seenIds \subseteq Ids
    /\ seenOrder \in BoundedSeqs(Ids, MaxIdsTracked)
    /\ insertionOrder \in BoundedSeqs(Ids, MaxItems)
    /\ stats \in [accepted : Nat, evicted : Nat, evicted_per_subject : Nat]
    /\ stored \in Seq(Ids)

StoreInit ==
    /\ known = {}
    /\ buckets = [u \in Subjects |-> << >>]
    /\ seenIds = {}
    /\ seenOrder = << >>
    /\ insertionOrder = << >>
    /\ stats = [accepted |-> 0, evicted |-> 0, evicted_per_subject |-> 0]
    /\ stored = << >>

-----------------------------------------------------------------------------
(* The parts of an insertion.                                              *)

Full(u) == Len(buckets[u]) >= MaxItemsPerSubject

(* A plausible bug: only what the bucket still holds counts as seen.       *)
RetainedAlready(item) ==
    \E k \in DOMAIN buckets[item.subject] : buckets[item.subject][k].id = item.id

Duplicate(item) == item.id \in seenIds

HasRoom(item) == item.subject \in known \/ Cardinality(known) < MaxSubjects

(* A full bucket loses its oldest item to the new one.                     *)
WithItem(item) ==
    [buckets EXCEPT ![item.subject] =
        Append(IF Full(item.subject) THEN Tail(@) ELSE @, item)]

(* A plausible bug: the item that replaces another is not recorded.        *)
OrderedUnlessReplacing(item) ==
    IF Full(item.subject) THEN Tail(insertionOrder) ELSE Append(insertionOrder, item.id)

(* The insertion order loses its front when a bucket was full, whichever   *)
(* item the front names, and gains the new identity.                       *)
Ordered(item) ==
    Append(IF Full(item.subject) THEN Tail(insertionOrder) ELSE insertionOrder, item.id)

(* The subjects whose bucket retains the identity, and the one of them     *)
(* that comes first in the map.                                            *)
Holders(retained, id) ==
    {u \in Subjects : \E k \in DOMAIN retained[u] : retained[u][k].id = id}

FirstHolder(retained, id, u) ==
    u \in Holders(retained, id) /\ \A v \in Holders(retained, id) : u <= v

(* A bucket that holds the identity, without its oldest item of that name. *)
Erased(bucket, id) ==
    [k \in 1..(Len(bucket) - 1) |->
        IF \E j \in 1..k : bucket[j].id = id THEN bucket[k + 1] ELSE bucket[k]]

(* The eviction loop erases the victim from the first bucket that holds    *)
(* it, and nothing when no bucket does.                                    *)
Without(retained, id) ==
    [u \in Subjects |-> IF FirstHolder(retained, id, u)
                        THEN Erased(retained[u], id) ELSE retained[u]]

(* A plausible bug: the bound is one item too small.                       *)
OverfullAtBound(order) == Len(order) >= MaxItems

Overfull(order) == Len(order) > MaxItems

(* What an insertion evicts by either bound, as a count of items.          *)
EvictedPerSubject(item) == IF Full(item.subject) THEN 1 ELSE 0

EvictedInTotal(item) ==
    IF /\ Overfull(Ordered(item))
       /\ Holders(WithItem(item), Head(Ordered(item))) # {}
    THEN 1 ELSE 0

Counted(item) ==
    [accepted |-> stats.accepted + 1,
     evicted |-> stats.evicted + EvictedPerSubject(item) + EvictedInTotal(item),
     evicted_per_subject |-> stats.evicted_per_subject + EvictedPerSubject(item)]

(* The identity memory and its trim.                                       *)
Remember(id) ==
    /\ seenOrder' = Slide(seenOrder, id, MaxIdsTracked)
    /\ seenIds' = IF Len(seenOrder) < MaxIdsTracked
                  THEN seenIds \cup {id}
                  ELSE (seenIds \cup {id}) \ {Head(seenOrder)}

(* What submit and restore do once nothing refuses the item.               *)
Insert(item) ==
    /\ known' = known \cup {item.subject}
    /\ IF Overfull(Ordered(item))
       THEN /\ insertionOrder' = Tail(Ordered(item))
            /\ buckets' = Without(WithItem(item), Head(Ordered(item)))
       ELSE /\ insertionOrder' = Ordered(item)
            /\ buckets' = WithItem(item)
    /\ Remember(item.id)
    /\ stats' = Counted(item)
    /\ stored' = Append(stored, item.id)

-----------------------------------------------------------------------------
(* Operations.                                                             *)

(* The part of submit after the fence; the caller's item is gone either    *)
(* way, refused as a duplicate, refused for capacity, or retained.         *)
Submit(item) ==
    \/ (Duplicate(item) \/ ~HasRoom(item)) /\ UNCHANGED storeVars
    \/ ~Duplicate(item) /\ HasRoom(item) /\ Insert(item)

(* A plausible bug: recovery forgets to mark the item.                     *)
AsRecorded(item) == item

AsRecovered(item) == [item EXCEPT !.recovered = TRUE]

(* restore: no fence, the item marked as recovered.                        *)
Restore(item) ==
    /\ ~Duplicate(item)
    /\ HasRoom(item)
    /\ Insert(AsRecovered(item))

(* mark_all_recovered.                                                     *)
MarkAllRecovered ==
    /\ buckets' = [u \in Subjects |->
                     [k \in DOMAIN buckets[u] |-> AsRecovered(buckets[u][k])]]
    /\ UNCHANGED <<known, seenIds, seenOrder, insertionOrder, stats, stored>>

-----------------------------------------------------------------------------
(* Everything retained, over all subjects.                                 *)
Retained == UNION {Range(buckets[u]) : u \in Subjects}

ItemCount == FoldSet(LAMBDA u, n : Len(buckets[u]) + n, 0, Subjects)

==============================================================================
