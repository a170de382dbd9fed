--------------------------- MODULE IngestDoor_proofs ---------------------------
(***************************************************************************)
(* The safety of the ingest door for every number of threads, sources,     *)
(* epochs and items, and every size of the fence window, the identity      *)
(* memory and the store.  First what its parts do: what a bounded deque    *)
(* remembers, for every window size and every log, and what an insertion   *)
(* does to the types, to the retained items and to the memory of           *)
(* measurement identities.                                                 *)
(***************************************************************************)
EXTENDS IngestDoor, FiniteSetTheorems, SequenceTheorems, WellFoundedInduction, TLAPS

-----------------------------------------------------------------------------
(* The window.                                                             *)

(* Pushing onto a window of the log gives the window of the longer log:    *)
(* the trim loop of the deques in source.cpp and store.cpp forgets exactly *)
(* the oldest entry.                                                       *)
LEMMA SlideKeepsWindow ==
    ASSUME NEW S, NEW log \in Seq(S), NEW w \in Seq(S), NEW x \in S,
           NEW n \in Nat \ {0}, IsWindow(w, log, n)
    PROVE  /\ Slide(w, x, n) \in Seq(S)
           /\ IsWindow(Slide(w, x, n), Append(log, x), n)
  <1> DEFINE kept == IF Len(w) < n THEN w ELSE Tail(w)
             new  == Append(kept, x)
             next == Append(log, x)
             drop == Len(w) - Len(kept)
  <1>1. /\ Len(w) \in Nat /\ Len(log) \in Nat
        /\ Len(w) = IF Len(log) < n THEN Len(log) ELSE n
        /\ \A k \in 1..Len(w) : w[k] = log[(Len(log) - Len(w)) + k]
    <2>1. Len(w) \in Nat /\ Len(log) \in Nat
      OBVIOUS
    <2>2. /\ Len(w) = IF Len(log) < n THEN Len(log) ELSE n
          /\ \A k \in 1..Len(w) : w[k] = log[(Len(log) - Len(w)) + k]
      BY Zenon DEF IsWindow
    <2> QED BY <2>1, <2>2
  <1>2. /\ kept \in Seq(S)
        /\ Len(kept) \in Nat
        /\ drop = IF Len(w) < n THEN 0 ELSE 1
        /\ \A k \in 1..Len(kept) : kept[k] = w[k + drop]
    <2>1. CASE Len(w) < n
      BY <2>1, <1>1
    <2>2. CASE ~(Len(w) < n)
      <3>1. w # << >>
        BY <2>2, <1>1
      <3>2. /\ kept = Tail(w)
            /\ kept \in Seq(S)
            /\ Len(kept) = Len(w) - 1
            /\ \A k \in 1..Len(kept) : kept[k] = w[k + 1]
        BY <2>2, <3>1
      <3>3. drop = 1
        BY <3>2, <1>1
      <3> QED BY <2>2, <3>2, <3>3, <1>1
    <2> QED BY <2>1, <2>2
  <1>3. /\ new \in Seq(S)
        /\ Len(new) = Len(kept) + 1
        /\ \A k \in 1..Len(kept) : new[k] = kept[k]
        /\ new[Len(kept) + 1] = x
    BY <1>2
  <1>4. /\ Len(next) = Len(log) + 1
        /\ \A k \in 1..Len(log) : next[k] = log[k]
        /\ next[Len(log) + 1] = x
    OBVIOUS
  <1>5. Slide(w, x, n) = new
    BY DEF Slide
  <1> HIDE DEF kept, new, next
  <1>6. Len(new) = IF Len(next) < n THEN Len(next) ELSE n
    BY <1>1, <1>2, <1>3, <1>4
  <1>7. ASSUME NEW k \in 1..Len(new)
        PROVE  new[k] = next[(Len(next) - Len(new)) + k]
    <2>1. CASE k = Len(kept) + 1
      BY <2>1, <1>1, <1>2, <1>3, <1>4
    <2>2. CASE k \in 1..Len(kept)
      <3>1. k + drop \in 1..Len(w)
        BY <2>2, <1>1, <1>2
      <3>2. new[k] = log[(Len(log) - Len(w)) + (k + drop)]
        <4>1. new[k] = w[k + drop]
          BY <2>2, <1>2, <1>3
        <4>2. w[k + drop] = log[(Len(log) - Len(w)) + (k + drop)]
          BY <3>1, <1>1
        <4> QED BY <4>1, <4>2
      <3>3. (Len(log) - Len(w)) + (k + drop) = (Len(next) - Len(new)) + k
        <4>1. Len(next) = Len(log) + 1 /\ Len(new) = Len(kept) + 1
          BY <1>3, <1>4
        <4>2. Len(log) \in Nat /\ Len(w) \in Nat /\ Len(kept) \in Nat /\ k \in Nat
          BY <2>2, <1>1, <1>2
        <4> QED BY <4>1, <4>2
      <3>4. (Len(log) - Len(w)) + (k + drop) \in 1..Len(log)
        BY <3>1, <1>1
      <3> QED BY <3>2, <3>3, <3>4, <1>4
    <2> QED BY <2>1, <2>2, <1>2, <1>3
  <1> QED BY <1>3, <1>5, <1>6, <1>7, <1>4 DEF IsWindow, next

(* A value absent from the window was last logged at least n entries ago,  *)
(* so logging it keeps the log free of repeats within n.  This is why the  *)
(* lookups in apply_fence and in EvidenceStore::submit are enough.         *)
LEMMA FreshKeepsNoRepeat ==
    ASSUME NEW S, NEW log \in Seq(S), NEW w \in Seq(S), NEW x \in S,
           NEW n \in Nat \ {0}, IsWindow(w, log, n),
           NoRepeatWithin(log, n), x \notin Range(w)
    PROVE  NoRepeatWithin(Append(log, x), n)
  <1> DEFINE next == Append(log, x)
  <1>1. /\ DOMAIN next = 1..(Len(log) + 1)
        /\ \A k \in 1..Len(log) : next[k] = log[k]
        /\ next[Len(log) + 1] = x
        /\ Len(log) \in Nat /\ Len(w) \in Nat
        /\ DOMAIN log = 1..Len(log) /\ DOMAIN w = 1..Len(w)
    OBVIOUS
  <1> HIDE DEF next
  <1>2. ASSUME NEW i \in DOMAIN next, NEW j \in DOMAIN next,
               i < j, next[i] = next[j]
        PROVE  j - i > n
    <2>1. CASE j \in 1..Len(log)
      BY <1>1, <1>2, <2>1 DEF NoRepeatWithin
    <2>2. CASE j = Len(log) + 1
      <3>1. i \in 1..Len(log) /\ log[i] = x
        BY <1>1, <1>2, <2>2
      <3>2. SUFFICES ASSUME j - i <= n
                     PROVE  FALSE
        BY <1>1, <1>2
      <3> DEFINE k == i - (Len(log) - Len(w))
      <3>3. k \in 1..Len(w)
        BY <3>1, <3>2, <2>2, <1>1 DEF IsWindow
      <3>4. w[k] = log[(Len(log) - Len(w)) + k]
        BY <3>3 DEF IsWindow
      <3>5. (Len(log) - Len(w)) + k = i
        BY <3>1, <1>1
      <3> QED BY <3>1, <3>3, <3>4, <3>5, <1>1 DEF Range
    <2> QED BY <2>1, <2>2, <1>1
  <1> QED BY <1>2 DEF NoRepeatWithin, next

(* No two entries of a window are equal when its log repeats nothing       *)
(* within the window.                                                      *)
LEMMA WindowIsInjective ==
    ASSUME NEW S, NEW log \in Seq(S), NEW w \in Seq(S), NEW n \in Nat \ {0},
           IsWindow(w, log, n), NoRepeatWithin(log, n)
    PROVE  \A i, j \in 1..Len(w) : w[i] = w[j] => i = j
  <1> DEFINE d == Len(log) - Len(w)
  <1>1. /\ Len(w) \in Nat /\ Len(log) \in Nat /\ Len(w) <= n /\ Len(w) <= Len(log)
        /\ DOMAIN log = 1..Len(log) /\ d \in Nat
    BY DEF IsWindow
  <1>2. ASSUME NEW k \in 1..Len(w)
        PROVE  w[k] = log[d + k] /\ d + k \in DOMAIN log
    <2>1. d + k \in 1..Len(log)
      BY <1>1
    <2>2. w[k] = log[d + k]
      BY Zenon DEF IsWindow
    <2> QED BY <2>1, <2>2, <1>1
  <1> HIDE DEF d
  <1>3. ASSUME NEW i \in 1..Len(w), NEW j \in 1..Len(w), w[i] = w[j], i < j
        PROVE  FALSE
    <2>1. d + i < d + j /\ log[d + i] = log[d + j]
      BY <1>1, <1>2, <1>3
    <2>2. (d + j) - (d + i) > n
      BY <1>2, <2>1 DEF NoRepeatWithin
    <2> QED BY <1>1, <2>2
  <1> QED BY <1>1, <1>3

(* Sliding a full window forgets exactly its oldest entry: popping the     *)
(* front of the deque and erasing it from the set that mirrors the deque   *)
(* keep the two in step.                                                   *)
LEMMA SlideForgetsTheOldest ==
    ASSUME NEW S, NEW w \in Seq(S), NEW x \in S, NEW n \in Nat \ {0},
           Len(w) <= n, x \notin Range(w),
           \A i, j \in 1..Len(w) : w[i] = w[j] => i = j
    PROVE  Range(Slide(w, x, n)) =
             IF Len(w) < n THEN Range(w) \cup {x}
             ELSE (Range(w) \cup {x}) \ {Head(w)}
  <1>1. Len(w) \in Nat /\ DOMAIN w = 1..Len(w)
    OBVIOUS
  <1>2. CASE Len(w) < n
    <2>1. /\ Slide(w, x, n) = Append(w, x)
          /\ DOMAIN Append(w, x) = 1..(Len(w) + 1)
          /\ \A k \in 1..Len(w) : Append(w, x)[k] = w[k]
          /\ Append(w, x)[Len(w) + 1] = x
      BY <1>2 DEF Slide
    <2>2. Range(Append(w, x)) = Range(w) \cup {x}
      BY <1>1, <2>1 DEF Range
    <2> QED BY <1>2, <2>1, <2>2
  <1>3. CASE Len(w) = n
    <2> DEFINE new == Append(Tail(w), x)
    <2>1. w # << >> /\ Head(w) = w[1] /\ Slide(w, x, n) = new
      BY <1>1, <1>3 DEF Slide
    <2>2. /\ DOMAIN new = 1..Len(w)
          /\ \A k \in 1..(Len(w) - 1) : new[k] = w[k + 1]
          /\ new[Len(w)] = x
      BY <2>1, <1>1
    <2> HIDE DEF new
    <2>3. \A k \in 2..Len(w) : w[k] # w[1]
      BY <1>1, <1>3
    <2>4. x # w[1] /\ x \in Range(new)
      BY <2>2, <1>1, <1>3 DEF Range
    <2>5. ASSUME NEW k \in 1..Len(w), new[k] # x
          PROVE  new[k] \in Range(w) \ {w[1]}
      <3>1. k \in 1..(Len(w) - 1) /\ new[k] = w[k + 1] /\ k + 1 \in 2..Len(w)
        BY <2>5, <2>2, <1>1
      <3> QED BY <3>1, <2>3, <1>1 DEF Range
    <2>6. ASSUME NEW k \in 1..Len(w), w[k] # w[1]
          PROVE  w[k] \in Range(new)
      <3>1. k - 1 \in 1..(Len(w) - 1) /\ new[k - 1] = w[k]
        BY <2>6, <2>2, <1>1
      <3> QED BY <3>1, <2>2, <1>1 DEF Range
    <2>7. Range(new) = (Range(w) \cup {x}) \ {w[1]}
      <3>1. Range(new) \subseteq (Range(w) \cup {x}) \ {w[1]}
        BY <2>2, <2>4, <2>5 DEF Range
      <3>2. (Range(w) \cup {x}) \ {w[1]} \subseteq Range(new)
        BY <1>1, <2>4, <2>6 DEF Range
      <3> QED BY <3>1, <3>2
    <2>8. ~(Len(w) < n)
      BY <1>1, <1>3
    <2> QED BY <2>1, <2>7, <2>8
  <1>4. Len(w) < n \/ Len(w) = n
    <2>1. \A l \in Nat : l <= n => l < n \/ l = n
      OBVIOUS
    <2> QED BY <1>1, <2>1
  <1> QED BY <1>2, <1>3, <1>4

-----------------------------------------------------------------------------
(* The parts of an insertion.                                              *)

(* A bucket that loses its oldest item when full and gains one stays       *)
(* within the subject bound and holds nothing but old items and the new.   *)
LEMMA WithItemKeepsBuckets ==
    ASSUME StoreAssumption,
           buckets \in [Subjects -> BoundedSeqs(Item, MaxItemsPerSubject)],
           NEW item \in Item
    PROVE  /\ WithItem(item) \in [Subjects -> BoundedSeqs(Item, MaxItemsPerSubject)]
           /\ \A u \in Subjects : Range(WithItem(item)[u]) \subseteq Range(buckets[u]) \cup {item}
  <1> DEFINE u == item.subject
             kept == IF Full(u) THEN Tail(buckets[u]) ELSE buckets[u]
  <1>1. u \in Subjects
    BY DEF Item
  <1>2. /\ buckets[u] \in Seq(Item)
        /\ Len(buckets[u]) \in Nat
        /\ Len(buckets[u]) <= MaxItemsPerSubject
        /\ MaxItemsPerSubject \in Nat \ {0}
    <2>1. buckets[u] \in BoundedSeqs(Item, MaxItemsPerSubject)
      BY <1>1
    <2> QED BY <2>1, LenProperties DEF BoundedSeqs, StoreAssumption
  <1>3. /\ kept \in Seq(Item)
        /\ Len(kept) < MaxItemsPerSubject
        /\ Range(kept) \subseteq Range(buckets[u])
    <2>1. CASE Full(u)
      <3>1. buckets[u] # << >> /\ kept = Tail(buckets[u])
        BY <1>2, <2>1 DEF Full
      <3>2. /\ kept \in Seq(Item)
            /\ Len(kept) = Len(buckets[u]) - 1
            /\ \A k \in 1..Len(kept) : kept[k] = buckets[u][k + 1]
        BY <3>1, <1>2, HeadTailProperties
      <3>3. Range(kept) \subseteq Range(buckets[u])
        BY <3>2, <1>2, LenProperties DEF Range
      <3> QED BY <3>2, <3>3, <1>2
    <2>2. CASE ~Full(u)
      BY <2>2, <1>2 DEF Full
    <2> QED BY <2>1, <2>2
  <1> DEFINE new == Append(kept, item)
  <1>4. /\ new \in BoundedSeqs(Item, MaxItemsPerSubject)
        /\ Range(new) \subseteq Range(buckets[u]) \cup {item}
    <2>1. /\ new \in Seq(Item)
          /\ Len(new) = Len(kept) + 1
          /\ \A k \in 1..Len(kept) : new[k] = kept[k]
          /\ new[Len(kept) + 1] = item
      BY <1>3, AppendProperties
    <2>2. Len(kept) \in Nat /\ DOMAIN kept = 1..Len(kept) /\ DOMAIN new = 1..Len(new)
      BY <1>3, <2>1, LenProperties
    <2>3. Range(new) \subseteq Range(kept) \cup {item}
      BY <2>1, <2>2 DEF Range
    <2> QED BY <1>2, <1>3, <2>1, <2>2, <2>3 DEF BoundedSeqs
  <1>5. WithItem(item) = [buckets EXCEPT ![u] = new]
    BY DEF WithItem
  <1> HIDE DEF new, u
  <1> QED BY <1>1, <1>4, <1>5

(* The total bound erases at most one item and adds none.                  *)
LEMMA WithoutKeepsBuckets ==
    ASSUME NEW n \in Nat, NEW retained \in [Subjects -> BoundedSeqs(Item, n)], NEW id
    PROVE  /\ Without(retained, id) \in [Subjects -> BoundedSeqs(Item, n)]
           /\ \A u \in Subjects : Range(Without(retained, id)[u]) \subseteq Range(retained[u])
  <1>1. ASSUME NEW u \in Subjects, FirstHolder(retained, id, u)
        PROVE  /\ Erased(retained[u], id) \in BoundedSeqs(Item, n)
               /\ Range(Erased(retained[u], id)) \subseteq Range(retained[u])
    <2> DEFINE b == retained[u]
               m == Len(b) - 1
               e == Erased(b, id)
    <2>1. b \in Seq(Item) /\ Len(b) \in Nat /\ Len(b) <= n /\ DOMAIN b = 1..Len(b)
      BY LenProperties DEF BoundedSeqs
    <2>2. m \in Nat
      BY <1>1, <2>1 DEF FirstHolder, Holders
    <2>3. \A k \in 1..m : b[k] \in Range(b) /\ b[k + 1] \in Range(b) /\ Range(b) \subseteq Item
      BY <2>1, <2>2, RangeOfSeq DEF Range
    <2> HIDE DEF m, b
    <2>4. e = [k \in 1..m |-> IF \E j \in 1..k : b[j].id = id THEN b[k + 1] ELSE b[k]]
      BY DEF Erased, m
    <2>5. /\ DOMAIN e = 1..m
          /\ \A k \in 1..m : e[k] \in Range(b) /\ e[k] \in Item
      BY <2>3, <2>4
    <2> HIDE DEF e
    <2>6. e \in Seq(Item) /\ Len(e) = m
      <3>1. e = [k \in 1..m |-> e[k]]
        BY <2>4, <2>5
      <3> QED BY <3>1, <2>5, <2>2
    <2>7. Range(e) \subseteq Range(b)
      BY <2>5 DEF Range
    <2>8. m <= n
      BY <2>1 DEF m
    <2> QED BY <2>6, <2>7, <2>8, <2>2 DEF BoundedSeqs, e, b
  <1> QED BY <1>1 DEF Without

-----------------------------------------------------------------------------
(* The memory of measurement identities.                                   *)

(* seen_order_ is the window of everything ever inserted and seen_ids_ is  *)
(* the set of its entries.                                                 *)
MemoryIsWindow ==
    /\ IsWindow(seenOrder, stored, MaxIdsTracked)
    /\ seenIds = Range(seenOrder)

(* Remembering an identity that is not in the memory keeps the two deques  *)
(* of store.cpp:129-134 in step and the log free of close repeats.         *)
LEMMA RememberKeepsMemory ==
    ASSUME StoreAssumption, StoreTypeOK, NEW id \in Ids,
           MemoryIsWindow, NoRepeatWithin(stored, MaxIdsTracked),
           id \notin seenIds, Remember(id), stored' = Append(stored, id)
    PROVE  /\ MemoryIsWindow'
           /\ NoRepeatWithin(stored, MaxIdsTracked)'
  <1> DEFINE n == MaxIdsTracked
             w == seenOrder
  <1>1. /\ stored \in Seq(Ids) /\ w \in Seq(Ids) /\ n \in Nat \ {0}
        /\ IsWindow(w, stored, n)
        /\ w' = Slide(w, id, n)
        /\ Len(w) \in Nat /\ Len(w) <= n /\ DOMAIN w = 1..Len(w)
    BY LenProperties DEF StoreTypeOK, BoundedSeqs, StoreAssumption, MemoryIsWindow, Remember
  <1>2. w' \in Seq(Ids) /\ IsWindow(w', stored', n)
    BY <1>1, SlideKeepsWindow
  <1>3. NoRepeatWithin(stored', n)
    BY <1>1, FreshKeepsNoRepeat DEF MemoryIsWindow
  <1>4. seenIds' = Range(w')
    <2>1. id \notin Range(w) /\ \A i, j \in 1..Len(w) : w[i] = w[j] => i = j
      BY <1>1, WindowIsInjective DEF MemoryIsWindow
    <2>2. Range(Slide(w, id, n)) = IF Len(w) < n THEN Range(w) \cup {id}
                                   ELSE (Range(w) \cup {id}) \ {Head(w)}
      BY <1>1, <2>1, SlideForgetsTheOldest
    <2> QED BY <1>1, <2>2 DEF Remember, MemoryIsWindow
  <1> QED BY <1>2, <1>3, <1>4 DEF MemoryIsWindow

-----------------------------------------------------------------------------
(* An insertion as a whole.                                                *)

(* An insertion keeps the types and bounds, and leaves something in the    *)
(* insertion order for the next full bucket to pop.                        *)
LEMMA InsertKeepsTypes ==
    ASSUME StoreAssumption, StoreTypeOK, NEW item \in Item, HasRoom(item), Insert(item),
           Full(item.subject) => insertionOrder # << >>
    PROVE  StoreTypeOK' /\ insertionOrder' # << >>
  <1>1. /\ item.subject \in Subjects /\ item.id \in Ids
        /\ MaxItems \in Nat \ {0} /\ MaxItemsPerSubject \in Nat \ {0}
        /\ MaxSubjects \in Nat \ {0} /\ MaxIdsTracked \in Nat \ {0}
    BY DEF Item, StoreAssumption
  <1>2. /\ known' \subseteq Subjects /\ IsFiniteSet(known')
        /\ Cardinality(known') <= MaxSubjects
    <2>1. known' = known \cup {item.subject}
      BY DEF Insert
    <2>2. /\ IsFiniteSet(known')
          /\ Cardinality(known') = IF item.subject \in known THEN Cardinality(known)
                                   ELSE Cardinality(known) + 1
      BY <2>1, FS_AddElement DEF StoreTypeOK
    <2>3. Cardinality(known) \in Nat /\ Cardinality(known) <= MaxSubjects
      BY FS_CardinalityType DEF StoreTypeOK
    <2> QED BY <1>1, <2>1, <2>2, <2>3 DEF StoreTypeOK, HasRoom
  <1>3. buckets' \in [Subjects -> BoundedSeqs(Item, MaxItemsPerSubject)]
    <2>1. WithItem(item) \in [Subjects -> BoundedSeqs(Item, MaxItemsPerSubject)]
      BY WithItemKeepsBuckets DEF StoreTypeOK
    <2>2. Without(WithItem(item), Head(Ordered(item)))
            \in [Subjects -> BoundedSeqs(Item, MaxItemsPerSubject)]
      BY <1>1, <2>1, WithoutKeepsBuckets
    <2> QED BY <2>1, <2>2 DEF Insert
  <1>4. /\ seenOrder' \in BoundedSeqs(Ids, MaxIdsTracked)
        /\ seenIds' \subseteq Ids
    <2>1. seenOrder \in Seq(Ids) /\ Len(seenOrder) \in Nat /\ Len(seenOrder) <= MaxIdsTracked
      BY LenProperties DEF StoreTypeOK, BoundedSeqs
    <2>2. /\ Slide(seenOrder, item.id, MaxIdsTracked) \in Seq(Ids)
          /\ Len(Slide(seenOrder, item.id, MaxIdsTracked)) <= MaxIdsTracked
      <3>1. CASE Len(seenOrder) < MaxIdsTracked
        BY <3>1, <2>1, <1>1, AppendProperties DEF Slide
      <3>2. CASE Len(seenOrder) = MaxIdsTracked
        <4>1. seenOrder # << >>
          BY <3>2, <1>1
        <4>2. Tail(seenOrder) \in Seq(Ids) /\ Len(Tail(seenOrder)) = Len(seenOrder) - 1
          BY <4>1, <2>1, HeadTailProperties
        <4> QED BY <3>2, <4>2, <2>1, <1>1, AppendProperties DEF Slide
      <3> QED BY <3>1, <3>2, <2>1, <1>1
    <2>3. seenIds' \subseteq Ids
      BY <1>1 DEF Insert, Remember, StoreTypeOK
    <2> QED BY <2>2, <2>3 DEF Insert, Remember, BoundedSeqs
  <1>5. insertionOrder' \in BoundedSeqs(Ids, MaxItems) /\ insertionOrder' # << >>
    <2> DEFINE kept == IF Full(item.subject) THEN Tail(insertionOrder) ELSE insertionOrder
    <2>1. insertionOrder \in Seq(Ids) /\ Len(insertionOrder) \in Nat
          /\ Len(insertionOrder) <= MaxItems
      BY LenProperties DEF StoreTypeOK, BoundedSeqs
    <2>2. kept \in Seq(Ids) /\ Len(kept) \in Nat /\ Len(kept) <= MaxItems
      <3>1. CASE Full(item.subject)
        <4>1. Tail(insertionOrder) \in Seq(Ids)
              /\ Len(Tail(insertionOrder)) = Len(insertionOrder) - 1
          BY <3>1, <2>1, HeadTailProperties
        <4> QED BY <3>1, <4>1, <2>1, LenProperties
      <3>2. CASE ~Full(item.subject)
        BY <3>2, <2>1
      <3> QED BY <3>1, <3>2
    <2> HIDE DEF kept
    <2> DEFINE new == Append(kept, item.id)
    <2>3. /\ new \in Seq(Ids) /\ new # << >>
          /\ Len(new) = Len(kept) + 1
          /\ Tail(new) \in Seq(Ids) /\ Len(Tail(new)) = Len(kept)
      BY <2>2, <1>1, AppendProperties, HeadTailProperties
    <2>4. Ordered(item) = new
      BY DEF Ordered, kept
    <2> HIDE DEF new
    <2>5. CASE Overfull(new)
      <3>1. insertionOrder' = Tail(new) /\ Len(Tail(new)) = MaxItems
        BY <2>2, <2>3, <2>4, <2>5, <1>1 DEF Insert, Overfull
      <3>2. Tail(new) # << >>
        BY <3>1, <1>1
      <3> QED BY <3>1, <3>2, <2>3, <1>1 DEF BoundedSeqs
    <2>6. CASE ~Overfull(new)
      BY <2>2, <2>3, <2>4, <2>6, <1>1 DEF Insert, Overfull, BoundedSeqs
    <2> QED BY <2>5, <2>6
  <1>6. stats' \in [accepted : Nat, evicted : Nat, evicted_per_subject : Nat]
    <2>1. EvictedPerSubject(item) \in Nat /\ EvictedInTotal(item) \in Nat
      BY DEF EvictedPerSubject, EvictedInTotal
    <2> QED BY <2>1 DEF Insert, Counted, StoreTypeOK
  <1>7. stored' \in Seq(Ids)
    BY <1>1 DEF Insert, StoreTypeOK
  <1> QED BY <1>2, <1>3, <1>4, <1>5, <1>6, <1>7 DEF StoreTypeOK

(* Whatever is retained after an insertion was retained before or is the   *)
(* item inserted.                                                          *)
LEMMA InsertAddsOnlyTheItem ==
    ASSUME StoreAssumption, StoreTypeOK, NEW item \in Item, Insert(item)
    PROVE  Retained' \subseteq Retained \cup {item}
  <1>1. MaxItemsPerSubject \in Nat
    BY DEF StoreAssumption
  <1>2. /\ WithItem(item) \in [Subjects -> BoundedSeqs(Item, MaxItemsPerSubject)]
        /\ \A u \in Subjects : Range(WithItem(item)[u]) \subseteq Range(buckets[u]) \cup {item}
    BY WithItemKeepsBuckets DEF StoreTypeOK
  <1>3. \A u \in Subjects :
            Range(Without(WithItem(item), Head(Ordered(item)))[u]) \subseteq Range(WithItem(item)[u])
    BY <1>1, <1>2, WithoutKeepsBuckets
  <1>4. \A u \in Subjects : Range(buckets'[u]) \subseteq Range(buckets[u]) \cup {item}
    BY <1>2, <1>3 DEF Insert
  <1> QED BY <1>4 DEF Retained

-----------------------------------------------------------------------------
(* Types.                                                                  *)

(* Whoever is being submitted names a source, an epoch and a sequence      *)
(* number of the model.                                                    *)
LEMMA ItemsAreTyped ==
    ASSUME DoorAssumption, NEW item \in Item
    PROVE  /\ item.subject \in Subjects /\ item.id \in Ids
           /\ item.from.source \in Sources
           /\ item.from.epoch \in Epochs
           /\ item.from.sequence \in SequenceNumbers
           /\ AsRecovered(item) \in Item
  <1>1. item.from \in [source : Sources, epoch : Epochs, sequence : SequenceNumbers]
    BY DEF Item, DoorAssumption
  <1> QED BY <1>1 DEF Item, AsRecovered

(* The fence keeps its type and its window bound.                          *)
LEMMA ObserveKeepsTypes ==
    ASSUME RegistryAssumption, NEW q \in SequenceNumbers, NEW state \in SequenceState,
           Len(state.seen) <= SequenceWindow
    PROVE  /\ Observed(state, q) \in SequenceState
           /\ Len(Observed(state, q).seen) <= SequenceWindow
  <1>1. /\ state.seen \in Seq(SequenceNumbers) /\ Len(state.seen) \in Nat
        /\ state.high_water \in 0..MaxSequence
        /\ SequenceWindow \in Nat \ {0} /\ MaxSequence \in Nat
    BY LenProperties DEF SequenceState, RegistryAssumption
  <1>2. /\ Slide(state.seen, q, SequenceWindow) \in Seq(SequenceNumbers)
        /\ Len(Slide(state.seen, q, SequenceWindow)) <= SequenceWindow
    <2>1. CASE Len(state.seen) < SequenceWindow
      BY <2>1, <1>1, AppendProperties DEF Slide
    <2>2. CASE Len(state.seen) = SequenceWindow
      <3>1. state.seen # << >>
        BY <2>2, <1>1
      <3>2. /\ Tail(state.seen) \in Seq(SequenceNumbers)
            /\ Len(Tail(state.seen)) = Len(state.seen) - 1
        BY <3>1, <1>1, HeadTailProperties
      <3> QED BY <3>2, <2>2, <1>1, AppendProperties DEF Slide
    <2> QED BY <2>1, <2>2, <1>1
  <1>3. HighWater(state, q) \in 0..MaxSequence
    BY <1>1 DEF HighWater, SequenceNumbers
  <1> QED BY <1>2, <1>3 DEF Observed, SequenceState

(* Administration of the registry keeps the registry's types.              *)
LEMMA AdministerKeepsTypes ==
    ASSUME RegistryTypeOK, Administer
    PROVE  RegistryTypeOK' /\ UNCHANGED <<fence, admitted>>
  <1> USE DEF RegistryTypeOK
  <1>1. PICK s \in Sources :
            \/ RegisterSource(s)
            \/ \E e \in Epochs :
                  \/ ActivateIncarnation(s, e)
                  \/ ActivateWithKnownEpoch(s, e)
                  \/ RestoreIncarnation(s, e)
                  \/ RetireIncarnation(s, e)
    BY DEF Administer
  <1>2. CASE RegisterSource(s)
    BY <1>2 DEF RegisterSource
  <1>3. ASSUME NEW e \in Epochs, ActivateIncarnation(s, e)
        PROVE  RegistryTypeOK' /\ UNCHANGED <<fence, admitted>>
    <2>1. Activated(incarnations[s], e) \in Seq(Incarnation)
      <3>1. incarnations[s] \in Seq(Incarnation) /\ Len(incarnations[s]) \in Nat
            /\ DOMAIN incarnations[s] = 1..Len(incarnations[s])
            /\ \A i \in 1..Len(incarnations[s]) : incarnations[s][i] \in Incarnation
        BY LenProperties
      <3>2. \A i \in 1..Len(incarnations[s]) : Retired(incarnations[s][i].epoch) \in Incarnation
        BY <3>1 DEF Retired, Incarnation
      <3>3. AllRetired(incarnations[s]) \in Seq(Incarnation)
        BY <3>1, <3>2 DEF AllRetired
      <3>4. Live(e) \in Incarnation
        BY DEF Live, Incarnation
      <3> QED BY <3>3, <3>4, AppendProperties DEF Activated
    <2> QED BY <1>3, <2>1 DEF ActivateIncarnation
  <1>4. ASSUME NEW e \in Epochs, ActivateWithKnownEpoch(s, e)
        PROVE  RegistryTypeOK' /\ UNCHANGED <<fence, admitted>>
    <2>1. ASSUME NEW k
          PROVE  Reactivated(incarnations[s], k) \in Seq(Incarnation)
      <3> DEFINE list == incarnations[s]
      <3>1. list \in Seq(Incarnation) /\ Len(list) \in Nat /\ DOMAIN list = 1..Len(list)
            /\ \A i \in 1..Len(list) : list[i] \in Incarnation
        BY LenProperties
      <3> HIDE DEF list
      <3>2. \A i \in 1..Len(list) : Retired(list[i].epoch) \in Incarnation
                                    /\ Live(list[i].epoch) \in Incarnation
        BY <3>1 DEF Retired, Live, Incarnation
      <3>3. Reactivated(list, k) \in Seq(Incarnation)
        BY <3>1, <3>2 DEF Reactivated
      <3> QED BY <3>3 DEF list
    <2> QED BY <1>4, <2>1 DEF ActivateWithKnownEpoch
  <1>5. ASSUME NEW e \in Epochs, RestoreIncarnation(s, e)
        PROVE  RegistryTypeOK' /\ UNCHANGED <<fence, admitted>>
    <2>1. Retired(e) \in Incarnation
      BY DEF Retired, Incarnation
    <2> QED BY <1>5, <2>1, AppendProperties DEF RestoreIncarnation
  <1>6. ASSUME NEW e \in Epochs, RetireIncarnation(s, e)
        PROVE  RegistryTypeOK' /\ UNCHANGED <<fence, admitted>>
    <2>1. Retired(e) \in Incarnation
      BY DEF Retired, Incarnation
    <2>2. PositionOf(s, e) \in DOMAIN incarnations[s]
      BY <1>6 DEF RetireIncarnation, KnownEpoch, PositionOf
    <2>3. [incarnations[s] EXCEPT ![PositionOf(s, e)] = Retired(e)] \in Seq(Incarnation)
      BY <2>1, <2>2, ExceptSeq, LenProperties
    <2> QED BY <1>6, <2>3 DEF RetireIncarnation
  <1> QED BY <1>1, <1>2, <1>3, <1>4, <1>5, <1>6

(* The store step and the recovery step are a store insertion or nothing:  *)
(* what the proofs below need of them.                                     *)
StoreInserts(item) ==
    item \in Item /\ ~Duplicate(item) /\ HasRoom(item) /\ Insert(item)

LEMMA ReachStoreInserts ==
    ASSUME TypeOK, NEW t \in Threads, ReachStore(t)
    PROVE  UNCHANGED storeVars \/ StoreInserts(inHand[t])
  BY DEF ReachStore, Submit, StoreInserts, TypeOK

LEMMA RecoverInserts ==
    ASSUME DoorAssumption, NEW item \in Recoverable, Recover(item)
    PROVE  StoreInserts(AsRecovered(item)) /\ AsRecovered(item).id = item.id
  <1>1. item \in Item
    BY DEF DoorAssumption
  <1>2. AsRecovered(item) \in Item /\ AsRecovered(item).id = item.id
        /\ AsRecovered(item).subject = item.subject
    BY <1>1, ItemsAreTyped DEF AsRecovered, Item
  <1> QED BY <1>2 DEF Recover, Restore, StoreInserts, Duplicate, HasRoom

(* Marking what the store holds as recovered changes no bucket's length.   *)
LEMMA MarkKeepsBuckets ==
    ASSUME DoorAssumption, StoreTypeOK, MarkAllRecovered
    PROVE  /\ StoreTypeOK'
           /\ \A u \in Subjects : Len(buckets'[u]) = Len(buckets[u])
           /\ \A i \in Retained' : i.recovered
  <1>1. ASSUME NEW u \in Subjects
        PROVE  /\ buckets'[u] \in BoundedSeqs(Item, MaxItemsPerSubject)
               /\ Len(buckets'[u]) = Len(buckets[u])
               /\ \A i \in Range(buckets'[u]) : i.recovered
    <2> DEFINE b == buckets[u]
    <2>1. b \in Seq(Item) /\ Len(b) \in Nat /\ Len(b) <= MaxItemsPerSubject
          /\ DOMAIN b = 1..Len(b)
      BY LenProperties DEF StoreTypeOK, BoundedSeqs
    <2>2. \A k \in 1..Len(b) : AsRecovered(b[k]) \in Item /\ AsRecovered(b[k]).recovered
      <3>1. \A k \in 1..Len(b) : b[k] \in Item
        BY <2>1
      <3> QED BY <3>1, ItemsAreTyped DEF AsRecovered, Item
    <2>3. buckets'[u] = [k \in 1..Len(b) |-> AsRecovered(b[k])]
      BY <2>1 DEF MarkAllRecovered
    <2> HIDE DEF b
    <2>4. buckets'[u] \in Seq(Item) /\ Len(buckets'[u]) = Len(b)
      BY <2>1, <2>2, <2>3
    <2>5. \A i \in Range(buckets'[u]) : i.recovered
      BY <2>2, <2>3 DEF Range
    <2> QED BY <2>1, <2>4, <2>5 DEF BoundedSeqs, b
  <1>2. buckets' = [u \in Subjects |-> buckets'[u]]
    BY DEF MarkAllRecovered
  <1>3. buckets' \in [Subjects -> BoundedSeqs(Item, MaxItemsPerSubject)]
    BY <1>1, <1>2
  <1>4. StoreTypeOK'
    BY <1>3 DEF MarkAllRecovered, StoreTypeOK
  <1>5. \A i \in Retained' : i.recovered
    BY <1>1 DEF Retained
  <1> QED BY <1>1, <1>4, <1>5

(* The fence step of a submission keeps the types.                         *)
LEMMA PassFenceKeepsTypes ==
    ASSUME RegistryAssumption, DoorAssumption, TypeOK,
           NEW t \in Threads, NEW item \in Submittable, PassFence(t, item)
    PROVE  TypeOK'
  <1> DEFINE s == item.from.source
             e == item.from.epoch
             q == item.from.sequence
  <1>1. item \in Item /\ s \in Sources /\ e \in Epochs /\ q \in SequenceNumbers
    BY ItemsAreTyped DEF DoorAssumption
  <1>2. /\ fence' = [fence EXCEPT ![s][e] = Observed(fence[s][e], q)]
        /\ admitted' = [admitted EXCEPT ![s][e] = Append(admitted[s][e], q)]
        /\ UNCHANGED <<sources, incarnations, storeVars>>
    BY DEF PassFence, ObserveSequence
  <1> HIDE DEF s, e, q
  <1>3. /\ Observed(fence[s][e], q) \in SequenceState
        /\ Len(Observed(fence[s][e], q).seen) <= SequenceWindow
    BY <1>1, ObserveKeepsTypes DEF TypeOK, RegistryTypeOK
  <1>4. Append(admitted[s][e], q) \in Seq(SequenceNumbers)
    BY <1>1, AppendProperties DEF TypeOK, RegistryTypeOK
  <1>5. RegistryTypeOK'
    BY <1>1, <1>2, <1>3, <1>4 DEF TypeOK, RegistryTypeOK
  <1>6. (\A s_1 \in Sources, e_1 \in Epochs : Len(fence[s_1][e_1].seen) <= SequenceWindow)'
    BY <1>1, <1>2, <1>3 DEF TypeOK, RegistryTypeOK
  <1>7. StoreTypeOK'
    BY <1>2 DEF TypeOK, StoreTypeOK, storeVars
  <1>8. inHand' \in [Threads -> Item \cup {NoItem}] /\ attempts' \in 0..MaxAttempts
    BY <1>1 DEF PassFence, TypeOK, DoorAssumption
  <1> QED BY <1>5, <1>6, <1>7, <1>8 DEF TypeOK

(* Neither holds without the other: a pop of an empty deque has no defined *)
(* result, and it is the bounds that make a full bucket imply an entry.    *)
TypeInv == TypeOK /\ OrderNeverEmptyWhenPopped

(* The inductive step of TypeCorrect, below.                               *)
LEMMA TypeInvariance == Spec => []TypeInv
  <1> USE RegistryAssumption, StoreAssumption, DoorAssumption
  <1>1. Init => TypeInv
    <2> SUFFICES ASSUME Init PROVE TypeInv
      OBVIOUS
    <2>1. RegistryTypeOK
      BY DEF Init, RegistryInit, RegistryTypeOK, SequenceState
    <2>2. \A s \in Sources, e \in Epochs : Len(fence[s][e].seen) <= SequenceWindow
      BY DEF Init, RegistryInit, RegistryAssumption
    <2>3. StoreTypeOK
      BY FS_EmptySet DEF Init, StoreInit, StoreTypeOK, BoundedSeqs, StoreAssumption
    <2>4. inHand \in [Threads -> Item \cup {NoItem}] /\ attempts \in 0..MaxAttempts
      BY DEF Init, DoorAssumption
    <2>5. OrderNeverEmptyWhenPopped
      BY DEF Init, StoreInit, OrderNeverEmptyWhenPopped, Full, StoreAssumption
    <2> QED BY <2>1, <2>2, <2>3, <2>4, <2>5 DEF TypeInv, TypeOK
  <1>2. TypeInv /\ [Next]_vars => TypeInv'
    <2> SUFFICES ASSUME TypeInv, [Next]_vars PROVE TypeInv'
      OBVIOUS
    <2>1. ASSUME NEW t \in Threads, NEW item \in Submittable, PassFence(t, item)
          PROVE  TypeInv'
      BY <2>1, PassFenceKeepsTypes
         DEF TypeInv, OrderNeverEmptyWhenPopped, PassFence, Full, storeVars
    <2>2. ASSUME NEW item, StoreInserts(item)
          PROVE  StoreTypeOK' /\ OrderNeverEmptyWhenPopped'
      BY <2>2, InsertKeepsTypes, ItemsAreTyped
         DEF TypeInv, TypeOK, OrderNeverEmptyWhenPopped, StoreInserts
    <2>3. ASSUME NEW t \in Threads, ReachStore(t)
          PROVE  TypeInv'
      <3>1. StoreTypeOK' /\ OrderNeverEmptyWhenPopped'
        <4>1. CASE UNCHANGED storeVars
          BY <4>1 DEF TypeInv, TypeOK, StoreTypeOK, OrderNeverEmptyWhenPopped, Full, storeVars
        <4> QED BY <2>2, <2>3, <4>1, ReachStoreInserts DEF TypeInv
      <3>2. /\ RegistryTypeOK'
            /\ (\A s \in Sources, e \in Epochs : Len(fence[s][e].seen) <= SequenceWindow)'
            /\ inHand' \in [Threads -> Item \cup {NoItem}] /\ attempts' \in 0..MaxAttempts
        BY <2>3 DEF TypeInv, TypeOK, RegistryTypeOK, ReachStore, registryVars
      <3> QED BY <3>1, <3>2 DEF TypeInv, TypeOK
    <2>4. ASSUME NEW item \in Recoverable, Recover(item)
          PROVE  TypeInv'
      <3>1. StoreTypeOK' /\ OrderNeverEmptyWhenPopped'
        BY <2>2, <2>4, RecoverInserts
      <3>2. /\ RegistryTypeOK'
            /\ (\A s \in Sources, e \in Epochs : Len(fence[s][e].seen) <= SequenceWindow)'
            /\ inHand' \in [Threads -> Item \cup {NoItem}] /\ attempts' \in 0..MaxAttempts
        BY <2>4 DEF TypeInv, TypeOK, RegistryTypeOK, Recover, registryVars
      <3> QED BY <3>1, <3>2 DEF TypeInv, TypeOK
    <2>5. CASE MarkRecovered
      <3>1. StoreTypeOK' /\ OrderNeverEmptyWhenPopped'
        BY <2>5, MarkKeepsBuckets
           DEF TypeInv, TypeOK, MarkRecovered, OrderNeverEmptyWhenPopped, Full, MarkAllRecovered
      <3>2. /\ RegistryTypeOK'
            /\ (\A s \in Sources, e \in Epochs : Len(fence[s][e].seen) <= SequenceWindow)'
            /\ inHand' \in [Threads -> Item \cup {NoItem}] /\ attempts' \in 0..MaxAttempts
        BY <2>5 DEF TypeInv, TypeOK, RegistryTypeOK, MarkRecovered, registryVars
      <3> QED BY <3>1, <3>2 DEF TypeInv, TypeOK
    <2>6. CASE AdministerRegistry
      <3>1. RegistryTypeOK' /\ UNCHANGED <<fence, storeVars, inHand, attempts>>
        BY <2>6, AdministerKeepsTypes DEF TypeInv, TypeOK, AdministerRegistry
      <3> QED BY <3>1 DEF TypeInv, TypeOK, StoreTypeOK, OrderNeverEmptyWhenPopped, Full, storeVars
    <2>7. CASE UNCHANGED vars
      BY <2>7 DEF TypeInv, TypeOK, RegistryTypeOK, StoreTypeOK, OrderNeverEmptyWhenPopped,
                  Full, vars, registryVars, storeVars
    <2> QED BY <2>1, <2>3, <2>4, <2>5, <2>6, <2>7 DEF Next
  <1> QED BY <1>1, <1>2, PTL DEF Spec

(* Every bound that the registry and the store keep is kept by every       *)
(* interleaving.                                                           *)
THEOREM TypeCorrect == Spec => []TypeOK
  BY TypeInvariance, PTL DEF TypeInv

(* A full bucket always finds an insertion to pop (store.cpp:120), though  *)
(* the order may by then name items that the bucket no longer holds.       *)
THEOREM OrderOutlastsBuckets == Spec => []OrderNeverEmptyWhenPopped
  BY TypeInvariance, PTL DEF TypeInv

-----------------------------------------------------------------------------
(* The fence.                                                              *)

(* What has to be known of one fence for apply_fence's lookup to be        *)
(* enough.                                                                 *)
FenceSound(state, log) ==
    /\ IsWindow(state.seen, log, SequenceWindow)
    /\ NoRepeatWithin(log, SequenceWindow)
    /\ \A q \in Range(log) : q <= state.high_water
    /\ log # << >> => state.high_water \in Range(log)

(* One admission keeps one fence sound.                                    *)
LEMMA AdmissionKeepsFenceSound ==
    ASSUME RegistryAssumption,
           NEW state \in SequenceState, NEW log \in Seq(SequenceNumbers),
           NEW q \in SequenceNumbers,
           FenceSound(state, log), Admissible(Applied(state, q))
    PROVE  FenceSound(Observed(state, q), Append(log, q))
  <1> DEFINE n == SequenceWindow
             new == Append(log, q)
             w == state.seen
  <1>1. /\ n \in Nat \ {0} /\ w \in Seq(SequenceNumbers) /\ q \in Nat
        /\ state.high_water \in Nat
        /\ SequenceNumbers \subseteq Nat
    BY DEF RegistryAssumption, SequenceState, SequenceNumbers
  <1>2. q \notin Range(w)
    <2>1. CASE w = << >>
      BY <2>1 DEF Range
    <2>2. CASE w # << >>
      BY <2>2 DEF Applied, Admissible
    <2> QED BY <2>1, <2>2
  <1>3. /\ IsWindow(Slide(w, q, n), new, n)
        /\ NoRepeatWithin(new, n)
    BY <1>1, <1>2, SlideKeepsWindow, FreshKeepsNoRepeat DEF FenceSound
  <1>4. w = << >> <=> log = << >>
    <2>1. Len(w) = IF Len(log) < n THEN Len(log) ELSE n
      BY DEF FenceSound, IsWindow
    <2>2. Len(w) \in Nat /\ Len(log) \in Nat
          /\ (w = << >> <=> Len(w) = 0) /\ (log = << >> <=> Len(log) = 0)
      BY <1>1, LenProperties, EmptySeq
    <2> QED BY <2>1, <2>2, <1>1
  <1>5. Range(new) = Range(log) \cup {q} /\ new # << >>
    <2>1. /\ DOMAIN log = 1..Len(log) /\ Len(log) \in Nat
          /\ DOMAIN new = 1..(Len(log) + 1)
          /\ \A k \in 1..Len(log) : new[k] = log[k]
          /\ new[Len(log) + 1] = q
          /\ new # << >>
      BY LenProperties, AppendProperties
    <2> HIDE DEF new
    <2> QED BY <2>1 DEF Range
  <1>6. Range(log) \subseteq Nat
    BY <1>1, RangeOfSeq
  <1> HIDE DEF new
  <1>7. /\ \A x \in Range(new) : x <= HighWater(state, q)
        /\ HighWater(state, q) \in Range(new)
    <2>1. CASE w = << >>
      <3>1. Range(new) = {q}
        BY <2>1, <1>4, <1>5 DEF Range
      <3> QED BY <2>1, <3>1, <1>1 DEF HighWater
    <2>2. CASE w # << >> /\ q > state.high_water
      BY <2>2, <1>1, <1>5, <1>6 DEF HighWater, FenceSound
    <2>3. CASE w # << >> /\ ~(q > state.high_water)
      BY <2>3, <1>1, <1>4, <1>5, <1>6 DEF HighWater, FenceSound
    <2> QED BY <2>1, <2>2, <2>3
  <1> QED BY <1>3, <1>5, <1>7 DEF FenceSound, Observed, new

(* A fence's high-water mark is the newest sequence it ever admitted       *)
(* (SequenceState::high_water).                                            *)
HighWaterIsNewest ==
    \A s \in Sources, e \in Epochs :
        /\ \A q \in Range(admitted[s][e]) : q <= fence[s][e].high_water
        /\ admitted[s][e] # << >> =>
              fence[s][e].high_water \in Range(admitted[s][e])

(* However many threads submit, and however epochs are retired and         *)
(* reactivated in between, no fence admits a sequence again within its     *)
(* window, and its high-water mark is the newest sequence ever admitted.   *)
FenceInv ==
    \A s \in Sources, e \in Epochs : FenceSound(fence[s][e], admitted[s][e])

THEOREM FenceIsSound ==
    Spec => [](NoReplayWithinWindow /\ HighWaterIsNewest)
  <1> USE RegistryAssumption, StoreAssumption, DoorAssumption
  <1>1. Init => FenceInv
    <2> SUFFICES ASSUME Init, NEW s \in Sources, NEW e \in Epochs
                 PROVE  FenceSound(fence[s][e], admitted[s][e])
      BY DEF FenceInv
    <2>1. fence[s][e].seen = << >> /\ admitted[s][e] = << >>
      BY DEF Init, RegistryInit
    <2>2. IsWindow(<< >>, << >>, SequenceWindow) /\ NoRepeatWithin(<< >>, SequenceWindow)
          /\ Range(<< >>) = {}
      BY DEF IsWindow, NoRepeatWithin, RegistryAssumption, Range
    <2> QED BY <2>1, <2>2 DEF FenceSound
  <1>2. TypeInv /\ FenceInv /\ [Next]_vars => FenceInv'
    <2> SUFFICES ASSUME TypeInv, FenceInv, [Next]_vars PROVE FenceInv'
      OBVIOUS
    <2>1. ASSUME NEW t \in Threads, NEW item \in Submittable, PassFence(t, item)
          PROVE  FenceInv'
      <3> DEFINE s == item.from.source
                 e == item.from.epoch
                 q == item.from.sequence
      <3>1. s \in Sources /\ e \in Epochs /\ q \in SequenceNumbers
        BY ItemsAreTyped DEF DoorAssumption
      <3>2. /\ fence' = [fence EXCEPT ![s][e] = Observed(fence[s][e], q)]
            /\ admitted' = [admitted EXCEPT ![s][e] = Append(admitted[s][e], q)]
            /\ Admissible(FenceOutcome(s, e, q))
        BY <2>1 DEF PassFence, ObserveSequence
      <3> HIDE DEF s, e, q
      <3>3. Admissible(Applied(fence[s][e], q))
        BY <3>2 DEF FenceOutcome, Admissible
      <3>4. /\ fence[s][e] \in SequenceState /\ admitted[s][e] \in Seq(SequenceNumbers)
            /\ fence \in [Sources -> [Epochs -> SequenceState]]
            /\ admitted \in [Sources -> [Epochs -> Seq(SequenceNumbers)]]
        BY <3>1 DEF TypeInv, TypeOK, RegistryTypeOK
      <3>5. FenceSound(Observed(fence[s][e], q), Append(admitted[s][e], q))
        BY <3>1, <3>3, <3>4, AdmissionKeepsFenceSound DEF FenceInv
      <3>6. ASSUME NEW x \in Sources, NEW y \in Epochs
            PROVE  FenceSound(fence'[x][y], admitted'[x][y])
        <4>1. CASE x = s /\ y = e
          BY <4>1, <3>1, <3>2, <3>4, <3>5
        <4>2. CASE ~(x = s /\ y = e)
          <5>1. fence'[x][y] = fence[x][y] /\ admitted'[x][y] = admitted[x][y]
            BY <4>2, <3>1, <3>2, <3>4
          <5> QED BY <5>1 DEF FenceInv
        <4> QED BY <4>1, <4>2
      <3> QED BY <3>6 DEF FenceInv
    <2>2. ASSUME UNCHANGED <<fence, admitted>>
          PROVE  FenceInv'
      BY <2>2 DEF FenceInv
    <2>3. CASE AdministerRegistry
      BY <2>2, <2>3, AdministerKeepsTypes DEF TypeInv, TypeOK, AdministerRegistry
    <2>4. ASSUME NEW t \in Threads, ReachStore(t)
          PROVE  FenceInv'
      BY <2>2, <2>4 DEF ReachStore, registryVars
    <2>5. ASSUME NEW item \in Recoverable, Recover(item)
          PROVE  FenceInv'
      BY <2>2, <2>5 DEF Recover, registryVars
    <2>6. CASE MarkRecovered \/ UNCHANGED vars
      BY <2>2, <2>6 DEF MarkRecovered, vars, registryVars
    <2> QED BY <2>1, <2>3, <2>4, <2>5, <2>6 DEF Next
  <1>3. FenceInv => NoReplayWithinWindow /\ HighWaterIsNewest
    BY DEF FenceInv, FenceSound, NoReplayWithinWindow, HighWaterIsNewest
  <1> QED BY <1>1, <1>2, <1>3, TypeInvariance, PTL DEF Spec

-----------------------------------------------------------------------------
(* The identity memory.                                                    *)

(* The same measurement identity is inserted again only after as many      *)
(* others as the memory holds, whether it comes through the fence twice,   *)
(* on two threads at once, or from a recovery.                             *)
MemoryInv == MemoryIsWindow /\ NoMeasurementTwice

THEOREM StoredOnce == Spec => []NoMeasurementTwice
  <1> USE RegistryAssumption, StoreAssumption, DoorAssumption
  <1>1. Init => MemoryInv
    <2> SUFFICES ASSUME Init PROVE MemoryInv
      OBVIOUS
    <2>1. seenOrder = << >> /\ stored = << >> /\ seenIds = {}
      BY DEF Init, StoreInit
    <2>2. /\ IsWindow(<< >>, << >>, MaxIdsTracked)
          /\ NoRepeatWithin(<< >>, MaxIdsTracked)
          /\ Range(<< >>) = {}
      BY DEF IsWindow, NoRepeatWithin, Range
    <2> QED BY <2>1, <2>2 DEF MemoryInv, MemoryIsWindow, NoMeasurementTwice
  <1>2. TypeInv /\ MemoryInv /\ [Next]_vars => MemoryInv'
    <2> SUFFICES ASSUME TypeInv, MemoryInv, [Next]_vars PROVE MemoryInv'
      OBVIOUS
    <2>1. ASSUME NEW item, StoreInserts(item)
          PROVE  MemoryInv'
      BY <2>1, RememberKeepsMemory, ItemsAreTyped
         DEF TypeInv, TypeOK, MemoryInv, NoMeasurementTwice, StoreInserts, Insert, Duplicate
    <2>2. ASSUME UNCHANGED <<seenIds, seenOrder, stored>>
          PROVE  MemoryInv'
      BY <2>2 DEF MemoryInv, MemoryIsWindow, NoMeasurementTwice
    <2>3. ASSUME NEW t \in Threads, ReachStore(t)
          PROVE  MemoryInv'
      BY <2>1, <2>2, <2>3, ReachStoreInserts DEF TypeInv, storeVars
    <2>4. ASSUME NEW item \in Recoverable, Recover(item)
          PROVE  MemoryInv'
      BY <2>1, <2>4, RecoverInserts
    <2>5. ASSUME NEW t \in Threads, NEW item \in Submittable, PassFence(t, item)
          PROVE  MemoryInv'
      BY <2>2, <2>5 DEF PassFence, storeVars
    <2>6. CASE MarkRecovered
      BY <2>2, <2>6 DEF MarkRecovered, MarkAllRecovered
    <2>7. CASE AdministerRegistry \/ UNCHANGED vars
      BY <2>2, <2>7 DEF AdministerRegistry, vars, storeVars
    <2> QED BY <2>3, <2>4, <2>5, <2>6, <2>7 DEF Next
  <1>3. MemoryInv => NoMeasurementTwice
    BY DEF MemoryInv
  <1> QED BY <1>1, <1>2, <1>3, TypeInvariance, PTL DEF Spec

-----------------------------------------------------------------------------
(* The only door.                                                          *)

(* An item is vouched for when it is marked as recovered or the fence it   *)
(* names admitted its sequence.                                            *)
Vouched(item) ==
    ~item.recovered =>
        item.from.sequence \in Range(admitted[item.from.source][item.from.epoch])

(* An admission withdraws nothing a fence vouched for before.              *)
LEMMA AdmittedGrows ==
    ASSUME RegistryAssumption, DoorAssumption, TypeOK,
           NEW t \in Threads, NEW item \in Submittable, PassFence(t, item)
    PROVE  /\ \A s \in Sources, e \in Epochs :
                  Range(admitted[s][e]) \subseteq Range(admitted'[s][e])
           /\ item.from.sequence \in Range(admitted'[item.from.source][item.from.epoch])
  <1> DEFINE s == item.from.source
             e == item.from.epoch
             q == item.from.sequence
             log == admitted[s][e]
             new == Append(log, q)
  <1>1. s \in Sources /\ e \in Epochs /\ q \in SequenceNumbers
    BY ItemsAreTyped DEF DoorAssumption
  <1>2. /\ admitted' = [admitted EXCEPT ![s][e] = new]
        /\ admitted \in [Sources -> [Epochs -> Seq(SequenceNumbers)]]
    BY DEF PassFence, ObserveSequence, TypeOK, RegistryTypeOK
  <1>3. log \in Seq(SequenceNumbers)
    BY <1>1, <1>2
  <1> HIDE DEF s, e, q, log
  <1>4. Range(log) \subseteq Range(new) /\ q \in Range(new)
    <2>1. /\ DOMAIN log = 1..Len(log) /\ Len(log) \in Nat
          /\ DOMAIN new = 1..(Len(log) + 1)
          /\ \A k \in 1..Len(log) : new[k] = log[k]
          /\ new[Len(log) + 1] = q
      BY <1>1, <1>3, LenProperties, AppendProperties
    <2> HIDE DEF new
    <2> QED BY <2>1 DEF Range
  <1> HIDE DEF new
  <1>5. admitted'[s][e] = new
    BY <1>1, <1>2
  <1>6. ASSUME NEW x \in Sources, NEW y \in Epochs
        PROVE  Range(admitted[x][y]) \subseteq Range(admitted'[x][y])
    <2>1. CASE x = s /\ y = e
      BY <2>1, <1>4, <1>5 DEF log
    <2>2. CASE ~(x = s /\ y = e)
      <3>1. admitted'[x][y] = admitted[x][y]
        BY <2>2, <1>1, <1>2
      <3> QED BY <3>1
    <2> QED BY <2>1, <2>2
  <1> QED BY <1>4, <1>5, <1>6 DEF s, e, q

(* "Ingest is the only door into the runtime" (store.hpp): no interleaving *)
(* and no recovery puts unfenced evidence before a reader as live.         *)
THEOREM OnlyDoor == Spec => []OnlyThroughTheDoor
  <1> USE RegistryAssumption, StoreAssumption, DoorAssumption
  <1> DEFINE inside == Retained \cup ({inHand[t] : t \in Threads} \ {NoItem})
  <1>0. OnlyThroughTheDoor <=> \A item \in inside : Vouched(item)
    BY DEF OnlyThroughTheDoor, Vouched
  <1>1. Init => OnlyThroughTheDoor
    BY DEF Init, StoreInit, OnlyThroughTheDoor, Retained, Range
  <1>2. TypeInv /\ OnlyThroughTheDoor /\ [Next]_vars => OnlyThroughTheDoor'
    <2> SUFFICES ASSUME TypeInv, OnlyThroughTheDoor, [Next]_vars
                 PROVE  OnlyThroughTheDoor'
      OBVIOUS
    <2>1. /\ Retained \subseteq Item
          /\ \A t \in Threads : inHand[t] \in Item \cup {NoItem}
      <3>1. \A u \in Subjects : Range(buckets[u]) \subseteq Item
        <4>1. \A u \in Subjects : buckets[u] \in Seq(Item)
          BY DEF TypeInv, TypeOK, StoreTypeOK, BoundedSeqs
        <4> QED BY <4>1, RangeOfSeq
      <3> QED BY <3>1 DEF Retained, TypeInv, TypeOK
    <2>2. ASSUME NEW t \in Threads, NEW item \in Submittable, PassFence(t, item)
          PROVE  OnlyThroughTheDoor'
      <3>1. Retained' = Retained /\ inHand' = [inHand EXCEPT ![t] = item]
        BY <2>2 DEF PassFence, storeVars, Retained
      <3>2. /\ \A s \in Sources, e \in Epochs :
                   Range(admitted[s][e]) \subseteq Range(admitted'[s][e])
            /\ Vouched(item)'
        BY <2>2, AdmittedGrows DEF TypeInv, Vouched
      <3>3. ASSUME NEW i \in Item, Vouched(i)
            PROVE  Vouched(i)'
        BY <3>2, <3>3, ItemsAreTyped DEF Vouched
      <3>4. ASSUME NEW i \in inside'
            PROVE  Vouched(i)'
        <4>1. i \in inside \/ i = item
          BY <3>1, <3>4 DEF TypeInv, TypeOK
        <4> QED BY <4>1, <1>0, <2>1, <3>2, <3>3
      <3> QED BY <3>4 DEF OnlyThroughTheDoor, Vouched
    <2>3. ASSUME UNCHANGED admitted,
                 \A i \in inside' : i \in inside \/ i.recovered
          PROVE  OnlyThroughTheDoor'
      BY <2>3 DEF OnlyThroughTheDoor
    <2>4. ASSUME NEW t \in Threads, ReachStore(t)
          PROVE  OnlyThroughTheDoor'
      <3>1. /\ inHand[t] # NoItem /\ UNCHANGED admitted
            /\ inHand' = [inHand EXCEPT ![t] = NoItem]
        BY <2>4 DEF ReachStore, registryVars
      <3>2. Retained' \subseteq Retained \cup {inHand[t]}
        <4>1. CASE UNCHANGED storeVars
          BY <4>1 DEF storeVars, Retained
        <4>2. CASE StoreInserts(inHand[t])
          BY <4>2, InsertAddsOnlyTheItem DEF StoreInserts, TypeInv, TypeOK
        <4> QED BY <2>4, <4>1, <4>2, ReachStoreInserts DEF TypeInv
      <3>3. \A i \in inside' : i \in inside
        BY <3>1, <3>2 DEF TypeInv, TypeOK
      <3> QED BY <2>3, <3>1, <3>3
    <2>5. ASSUME NEW item \in Recoverable, Recover(item)
          PROVE  OnlyThroughTheDoor'
      <3>1. UNCHANGED <<admitted, inHand>>
        BY <2>5 DEF Recover, registryVars
      <3>2. Retained' \subseteq Retained \cup {AsRecovered(item)}
        BY <2>5, RecoverInserts, InsertAddsOnlyTheItem DEF StoreInserts, TypeInv, TypeOK
      <3>3. AsRecovered(item).recovered
        BY DEF AsRecovered, Item, DoorAssumption
      <3> QED BY <2>3, <3>1, <3>2, <3>3
    <2>6. CASE MarkRecovered
      <3>1. \A i \in Retained' : i.recovered
        BY <2>6, MarkKeepsBuckets DEF MarkRecovered, TypeInv, TypeOK
      <3>2. UNCHANGED <<admitted, inHand>>
        BY <2>6 DEF MarkRecovered, registryVars
      <3> QED BY <2>3, <3>1, <3>2
    <2>7. CASE AdministerRegistry
      <3>1. UNCHANGED <<admitted, storeVars, inHand>>
        BY <2>7, AdministerKeepsTypes DEF TypeInv, TypeOK, AdministerRegistry
      <3> QED BY <3>1 DEF OnlyThroughTheDoor, Retained, storeVars
    <2>8. CASE UNCHANGED vars
      BY <2>8 DEF OnlyThroughTheDoor, Retained, vars, registryVars, storeVars
    <2> QED BY <2>2, <2>4, <2>5, <2>6, <2>7, <2>8 DEF Next
  <1> QED BY <1>1, <1>2, TypeInvariance, PTL DEF Spec

-----------------------------------------------------------------------------
(* The oldest is evicted first.                                            *)

(* Every set of naturals that is not empty has a least element.            *)
LEMMA Least ==
    ASSUME NEW T \in SUBSET Nat, T # {}
    PROVE  \E x \in T : \A y \in T : x <= y
  <1>1. PICK x \in T : \A y \in T : ~ (<<y, x>> \in OpToRel(<, Nat))
    BY NatLessThanWellFounded, WFMin, Zenon
  <1>2. ASSUME NEW y \in T
        PROVE  x <= y
    <2>1. x \in Nat /\ y \in Nat
      OBVIOUS
    <2>2. ~ (y < x)
      BY <1>1, <2>1 DEF OpToRel
    <2> QED BY <2>1, <2>2
  <1> QED BY <1>2

(* Numbering the elements of a set from 1 to n counts them.                *)
LEMMA NumberedCount ==
    ASSUME NEW n \in Nat, NEW S, NEW g \in [1..n -> S],
           \A j, k \in 1..n : g[j] = g[k] => j = k,
           \A s \in S : \E k \in 1..n : g[k] = s
    PROVE  IsFiniteSet(S) /\ Cardinality(S) = n
  <1>1. g \in Surjection(1..n, S)
    BY DEF Surjection
  <1>2. IsInjective(g)
    BY DEF IsInjective
  <1>3. g \in Injection(1..n, S)
    BY <1>2 DEF Injection
  <1>4. IsFiniteSet(1..n) /\ Cardinality(1..n) = n
    BY FS_Interval
  <1> QED BY <1>1, <1>3, <1>4, FS_Surjection

(* The places of the buckets that hold an item.                            *)
SlotsIn(retained, subjects) ==
    {s \in subjects \X Nat : s[2] \in 1..Len(retained[s[1]])}

Slots(retained) == SlotsIn(retained, Subjects)

IdAt(retained, s) == retained[s[1]][s[2]].id

(* The insertion order names what is retained, entry for entry.            *)
Matches(f, order, retained) ==
    /\ \A k \in 1..Len(order) : f[k] \in Slots(retained) /\ IdAt(retained, f[k]) = order[k]
    /\ \A j, k \in 1..Len(order) : f[j] = f[k] => j = k
    /\ \A s \in Slots(retained) : \E k \in 1..Len(order) : f[k] = s

Matched(order, retained) == \E f : Matches(f, order, retained)

(* So there are as many entries as items held.                             *)
LEMMA MatchedCount ==
    ASSUME NEW order \in Seq(Ids), NEW retained, Matched(order, retained)
    PROVE  IsFiniteSet(Slots(retained)) /\ Cardinality(Slots(retained)) = Len(order)
  <1>1. PICK f : Matches(f, order, retained)
    BY DEF Matched
  <1> DEFINE n == Len(order)
             S == Slots(retained)
             g == [k \in 1..n |-> f[k]]
  <1>2. n \in Nat
    OBVIOUS
  <1>3. /\ \A k \in 1..n : f[k] \in S
        /\ \A j, k \in 1..n : f[j] = f[k] => j = k
        /\ \A s \in S : \E k \in 1..n : f[k] = s
    BY <1>1 DEF Matches
  <1> HIDE DEF n, S
  <1>4. /\ g \in [1..n -> S]
        /\ \A j, k \in 1..n : g[j] = g[k] => j = k
        /\ \A s \in S : \E k \in 1..n : g[k] = s
    BY <1>3
  <1> HIDE DEF g
  <1>5. IsFiniteSet(S) /\ Cardinality(S) = n
    BY <1>2, <1>4, NumberedCount
  <1> QED BY <1>5 DEF n, S

(* What the store counts is how many places there are.                     *)
LEMMA ItemCountIs ==
    ASSUME IsFiniteSet(Subjects), IsFiniteSet(Slots(buckets)),
           buckets \in [Subjects -> Seq(Item)]
    PROVE  ItemCount = Cardinality(Slots(buckets))
  <1> DEFINE Count(S) == Cardinality(SlotsIn(buckets, S))
             Recursion(h) ==
                 h = [s \in SUBSET Subjects |->
                        IF s = {} THEN 0
                        ELSE Len(buckets[CHOOSE x \in s : TRUE]) + h[s \ {CHOOSE x \in s : TRUE}]]
             iter == CHOOSE h : Recursion(h)
  <1>1. ItemCount = iter[Subjects]
    BY DEF ItemCount, FoldSet, MapThenFoldSet
  <1>2. ASSUME NEW S \in SUBSET Subjects, NEW x \in S
        PROVE  Count(S) = Len(buckets[x]) + Count(S \ {x})
    <2> DEFINE A == SlotsIn(buckets, S \ {x})
               B == SlotsIn(buckets, {x})
               n == Len(buckets[x])
               g == [k \in 1..n |-> <<x, k>>]
    <2>1. n \in Nat
      OBVIOUS
    <2>2. /\ g \in [1..n -> B]
          /\ \A j, k \in 1..n : g[j] = g[k] => j = k
          /\ \A s \in B : \E k \in 1..n : g[k] = s
      <3>1. \A k \in 1..n : g[k] = <<x, k>> /\ <<x, k>> \in B
        BY <2>1 DEF SlotsIn
      <3>2. \A s \in B : s[2] \in 1..n /\ g[s[2]] = s
        BY <2>1 DEF SlotsIn
      <3> HIDE DEF B, n
      <3>3. g \in [1..n -> B]
        BY <3>1
      <3>4. \A j, k \in 1..n : g[j] = g[k] => j = k
        BY <3>1
      <3> QED BY <3>2, <3>3, <3>4
    <2>4. /\ SlotsIn(buckets, S) = A \cup B /\ A \cap B = {}
          /\ A \subseteq Slots(buckets)
      BY DEF SlotsIn, Slots
    <2> HIDE DEF A, B, g, n
    <2>5. IsFiniteSet(B) /\ Cardinality(B) = n
      BY <2>1, <2>2, NumberedCount
    <2>6. IsFiniteSet(A) /\ Cardinality(A) \in Nat
      BY <2>4, FS_Subset, FS_CardinalityType
    <2>7. Cardinality(A \cup B) = Cardinality(A) + n
      <3>1. Cardinality({}) = 0
        BY FS_EmptySet
      <3>2. Cardinality(A \cup B) = Cardinality(A) + Cardinality(B) - Cardinality(A \cap B)
        BY <2>5, <2>6, FS_Union
      <3>3. Cardinality(A \cap B) = 0
        BY <2>4, <3>1
      <3> QED BY <2>1, <2>5, <2>6, <3>2, <3>3
    <2>8. Count(S) = n + Cardinality(A)
      BY <2>1, <2>4, <2>6, <2>7
    <2> QED BY <2>8 DEF A, n
  <1>3. Count({}) = 0
    <2>1. SlotsIn(buckets, {}) = {}
      BY DEF SlotsIn
    <2> QED BY <2>1, FS_EmptySet
  <1> DEFINE g == [s \in SUBSET Subjects |-> Count(s)]
  <1>4. Recursion(g)
    <2> HIDE DEF Count
    <2>1. ASSUME NEW s \in SUBSET Subjects, s # {}
          PROVE  Count(s) = Len(buckets[CHOOSE x \in s : TRUE]) + g[s \ {CHOOSE x \in s : TRUE}]
      <3>1. (CHOOSE x \in s : TRUE) \in s
        BY <2>1
      <3> QED BY <1>2, <3>1
    <2> QED BY <1>3, <2>1
  <1>5. Recursion(iter)
    <2> HIDE DEF Recursion, g
    <2> QED BY <1>4
  <1> HIDE DEF iter
  <1>6. \A s \in SUBSET Subjects :
            iter[s] = IF s = {} THEN 0
                      ELSE Len(buckets[CHOOSE x \in s : TRUE]) + iter[s \ {CHOOSE x \in s : TRUE}]
    BY <1>5
  <1> HIDE DEF Recursion, Count, g
  <1> DEFINE Wrong   == {s \in SUBSET Subjects : iter[s] # Count(s)}
             Failing == {Cardinality(s) : s \in Wrong}
  <1>7. Wrong = {}
    <2> SUFFICES ASSUME Wrong # {} PROVE FALSE
      OBVIOUS
    <2>1. \A s \in Wrong : IsFiniteSet(s) /\ Cardinality(s) \in Nat
      BY FS_Subset, FS_CardinalityType
    <2>2. PICK n \in Failing : \A m \in Failing : n <= m
      <3>1. Failing \in SUBSET Nat /\ Failing # {}
        BY <2>1
      <3> HIDE DEF Failing
      <3> QED BY <3>1, Least
    <2>3. PICK s \in Wrong : Cardinality(s) = n
      OBVIOUS
    <2>4. s \in SUBSET Subjects /\ iter[s] # Count(s) /\ n \in Nat
      BY <2>1, <2>3
    <2>5. s # {}
      BY <1>3, <1>6, <2>4
    <2>6. PICK x \in s : x = CHOOSE y \in s : TRUE
      BY <2>5
    <2>7. IsFiniteSet(s \ {x}) /\ Cardinality(s \ {x}) = n - 1
      BY <2>1, <2>3, FS_RemoveElement
    <2>8. s \ {x} \notin Wrong
      <3>1. s \ {x} \in Wrong => n - 1 \in Failing
        BY <2>7
      <3> HIDE DEF Wrong, Failing
      <3> QED BY <2>2, <2>4, <3>1
    <2>9. iter[s \ {x}] = Count(s \ {x})
      BY <2>4, <2>8
    <2>10. iter[s] = Len(buckets[x]) + iter[s \ {x}]
      BY <1>6, <2>4, <2>5, <2>6
    <2>11. Count(s) = Len(buckets[x]) + Count(s \ {x})
      BY <1>2, <2>4
    <2> QED BY <2>4, <2>9, <2>10, <2>11
  <1>8. iter[Subjects] = Count(Subjects)
    BY <1>7
  <1> QED BY <1>1, <1>8 DEF Count, Slots

(* An item put at the end of its bucket and of the order keeps the match.  *)
LEMMA MatchedByAppend ==
    ASSUME DoorAssumption, NEW order \in Seq(Ids), NEW retained \in [Subjects -> Seq(Item)],
           NEW item \in Item, Matched(order, retained)
    PROVE  Matched(Append(order, item.id),
                   [retained EXCEPT ![item.subject] = Append(@, item)])
  <1> DEFINE u == item.subject
             n == Len(order)
             m == Len(retained[u])
             longer == Append(order, item.id)
             added == [retained EXCEPT ![u] = Append(@, item)]
             e == <<u, m + 1>>
  <1>1. PICK f : Matches(f, order, retained)
    BY DEF Matched
  <1> DEFINE g == [k \in 1..(n + 1) |-> IF k = n + 1 THEN e ELSE f[k]]
  <1>2. u \in Subjects /\ item.id \in Ids /\ n \in Nat /\ m \in Nat
    BY ItemsAreTyped
  <1>3. Len(longer) = n + 1 /\ longer[n + 1] = item.id /\ \A k \in 1..n : longer[k] = order[k]
    BY <1>2, AppendProperties
  <1>4. /\ \A s \in Slots(retained) : s \in Slots(added) /\ IdAt(added, s) = IdAt(retained, s)
        /\ e \in Slots(added) /\ IdAt(added, e) = item.id
        /\ e \notin Slots(retained)
        /\ \A s \in Slots(added) : s \in Slots(retained) \/ s = e
    <2>1. /\ Len(added[u]) = m + 1 /\ added[u][m + 1] = item
          /\ \A k \in 1..m : added[u][k] = retained[u][k]
          /\ \A v \in Subjects : v # u => added[v] = retained[v]
      BY <1>2, AppendProperties
    <2>2. m = Len(retained[u]) /\ e = <<u, m + 1>>
      OBVIOUS
    <2> HIDE DEF added, u, m, e
    <2>3. ASSUME NEW s \in Slots(retained)
          PROVE  s \in Slots(added) /\ IdAt(added, s) = IdAt(retained, s)
      <3>1. s \in Subjects \X Nat /\ s[1] \in Subjects /\ s[2] \in 1..Len(retained[s[1]])
        BY DEF Slots, SlotsIn
      <3>2. CASE s[1] = u
        BY <1>2, <2>1, <2>2, <3>1, <3>2 DEF Slots, SlotsIn, IdAt
      <3>3. CASE s[1] # u
        BY <2>1, <3>1, <3>3 DEF Slots, SlotsIn, IdAt
      <3> QED BY <3>2, <3>3
    <2>4. e \in Slots(added) /\ IdAt(added, e) = item.id /\ e \notin Slots(retained)
      <3>1. e[1] = u /\ e[2] = m + 1 /\ e \in Subjects \X Nat
        BY <1>2, <2>2
      <3> QED BY <1>2, <2>1, <2>2, <3>1 DEF Slots, SlotsIn, IdAt
    <2>5. ASSUME NEW s \in Slots(added)
          PROVE  s \in Slots(retained) \/ s = e
      <3>1. s \in Subjects \X Nat /\ s[1] \in Subjects /\ s[2] \in 1..Len(added[s[1]])
        BY DEF Slots, SlotsIn
      <3>2. CASE s[1] = u
        <4>1. s = <<u, s[2]>> /\ (s[2] \in 1..m \/ s[2] = m + 1)
          BY <1>2, <2>1, <3>1, <3>2
        <4> QED BY <2>2, <3>1, <3>2, <4>1 DEF Slots, SlotsIn
      <3>3. CASE s[1] # u
        BY <2>1, <3>1, <3>3 DEF Slots, SlotsIn
      <3> QED BY <3>2, <3>3
    <2> QED BY <2>3, <2>4, <2>5
  <1>5. /\ \A k \in 1..n : f[k] \in Slots(retained) /\ IdAt(retained, f[k]) = order[k]
        /\ \A j, k \in 1..n : f[j] = f[k] => j = k
        /\ \A s \in Slots(retained) : \E k \in 1..n : f[k] = s
    BY <1>1 DEF Matches
  <1>6. g[n + 1] = e /\ \A k \in 1..n : g[k] = f[k]
    BY <1>2
  <1>7. \A k \in 1..(n + 1) : k = n + 1 \/ k \in 1..n
    BY <1>2
  <1>8. n + 1 \in 1..(n + 1) /\ \A k \in 1..n : k \in 1..(n + 1)
    BY <1>2
  <1> HIDE DEF g, longer, added, e, n, m
  <1>9. ASSUME NEW k \in 1..(n + 1)
        PROVE  g[k] \in Slots(added) /\ IdAt(added, g[k]) = longer[k]
    BY <1>3, <1>4, <1>5, <1>6, <1>7
  <1>10. ASSUME NEW j \in 1..(n + 1), NEW k \in 1..(n + 1), g[j] = g[k]
         PROVE  j = k
    BY <1>4, <1>5, <1>6, <1>7, <1>10
  <1>11. ASSUME NEW s \in Slots(added)
         PROVE  \E k \in 1..(n + 1) : g[k] = s
    BY <1>4, <1>5, <1>6, <1>8
  <1>12. Matches(g, longer, added)
    BY <1>3, <1>9, <1>10, <1>11 DEF Matches
  <1> QED BY <1>12 DEF Matched, longer, added, u

(* Where a place is once the place e of the same bucket has been closed.   *)
MovedUp(e, s) == IF s[1] = e[1] /\ s[2] > e[2] THEN <<s[1], s[2] - 1>> ELSE s

(* Losing the item at e leaves every other one, each at its new place.     *)
Loses(e, retained, fewer) ==
    /\ e \in Slots(retained)
    /\ \A s \in Slots(retained) \ {e} :
          MovedUp(e, s) \in Slots(fewer) /\ IdAt(fewer, MovedUp(e, s)) = IdAt(retained, s)
    /\ \A r, s \in Slots(retained) \ {e} : MovedUp(e, r) = MovedUp(e, s) => r = s
    /\ \A s \in Slots(fewer) : \E r \in Slots(retained) \ {e} : MovedUp(e, r) = s

(* The eviction loop takes the oldest item of that name from the first     *)
(* bucket that has one (store.cpp:132-142).                                *)
LEMMA WithoutLosesOne ==
    ASSUME StoreAssumption, NEW retained \in [Subjects -> Seq(Item)], NEW id,
           \E s \in Slots(retained) : IdAt(retained, s) = id
    PROVE  \E e : Loses(e, retained, Without(retained, id)) /\ IdAt(retained, e) = id
  <1> DEFINE H == Holders(retained, id)
             fewer == Without(retained, id)
  <1>1. PICK u \in H : \A v \in H : u <= v
    <2>1. H \in SUBSET Nat
      BY DEF Holders, StoreAssumption
    <2>2. H # {}
      <3>1. PICK s \in Slots(retained) : IdAt(retained, s) = id
        OBVIOUS
      <3>2. s[1] \in Subjects /\ s[2] \in 1..Len(retained[s[1]])
        BY DEF Slots, SlotsIn
      <3> QED BY <3>1, <3>2 DEF Holders, IdAt
    <2> HIDE DEF H
    <2> QED BY <2>1, <2>2, Least
  <1> DEFINE bucket == retained[u]
             m == Len(bucket)
             K == {k \in 1..m : bucket[k].id = id}
  <1>2. u \in Subjects /\ u \in Nat /\ bucket \in Seq(Item) /\ m \in Nat
    BY <1>1 DEF Holders, StoreAssumption
  <1>3. PICK k1 \in K : \A k \in K : k1 <= k
    <2>1. K \in SUBSET Nat /\ K # {}
      BY <1>1, <1>2 DEF Holders
    <2> HIDE DEF K
    <2> QED BY <2>1, Least
  <1>4. k1 \in 1..m /\ bucket[k1].id = id /\ \A k \in 1..m : bucket[k].id = id => k1 <= k
    BY <1>3
  <1>5. \A v \in Subjects : FirstHolder(retained, id, v) <=> v = u
    <2>1. \A v \in H : v \in Nat
      BY DEF Holders, StoreAssumption
    <2> QED BY <1>1, <1>2, <2>1 DEF FirstHolder
  <1>6. /\ fewer[u] = Erased(bucket, id)
        /\ \A v \in Subjects : v # u => fewer[v] = retained[v]
    BY <1>2, <1>5 DEF Without
  <1>7. /\ Len(fewer[u]) = m - 1
        /\ \A k \in 1..(m - 1) : fewer[u][k] = IF k >= k1 THEN bucket[k + 1] ELSE bucket[k]
    <2>1. m - 1 \in Nat
      BY <1>2, <1>4
    <2>2. Len(Erased(bucket, id)) = m - 1
      BY <2>1 DEF Erased
    <2>3. ASSUME NEW k \in 1..(m - 1)
          PROVE  Erased(bucket, id)[k] = IF k >= k1 THEN bucket[k + 1] ELSE bucket[k]
      <3>1. (\E j \in 1..k : bucket[j].id = id) <=> k >= k1
        BY <1>2, <1>4
      <3> QED BY <3>1, <2>1 DEF Erased
    <2> QED BY <1>6, <2>2, <2>3
  <1> DEFINE e == <<u, k1>>
  <1>8. e \in Slots(retained) /\ IdAt(retained, e) = id /\ e[1] = u /\ e[2] = k1
    BY <1>2, <1>4 DEF Slots, SlotsIn, IdAt
  <1>9. m = Len(retained[u]) /\ bucket = retained[u]
    OBVIOUS
  <1> HIDE DEF e, m, bucket, fewer
  <1>10. ASSUME NEW s \in Slots(retained) \ {e}
         PROVE  MovedUp(e, s) \in Slots(fewer) /\ IdAt(fewer, MovedUp(e, s)) = IdAt(retained, s)
    <2>1. s \in Subjects \X Nat /\ s[1] \in Subjects /\ s[2] \in 1..Len(retained[s[1]])
      BY DEF Slots, SlotsIn
    <2>2. CASE s[1] # u
      BY <1>6, <1>8, <2>1, <2>2 DEF MovedUp, Slots, SlotsIn, IdAt
    <2>3. CASE s[1] = u /\ s[2] > k1
      <3>1. MovedUp(e, s) = <<u, s[2] - 1>> /\ s[2] - 1 \in 1..(m - 1) /\ s[2] - 1 \in Nat
        BY <1>2, <1>4, <1>8, <1>9, <2>1, <2>3 DEF MovedUp
      <3>2. fewer[u][s[2] - 1] = bucket[s[2]]
        BY <1>4, <1>7, <2>1, <2>3, <3>1
      <3> QED BY <1>2, <1>7, <1>9, <2>3, <3>1, <3>2 DEF Slots, SlotsIn, IdAt
    <2>4. CASE s[1] = u /\ ~ (s[2] > k1)
      <3>1. MovedUp(e, s) = s /\ s[2] # k1
        BY <1>8, <2>1, <2>4 DEF MovedUp, e
      <3>2. s[2] \in 1..(m - 1) /\ ~ (s[2] >= k1)
        BY <1>2, <1>4, <1>9, <2>1, <2>4, <3>1
      <3> QED BY <1>2, <1>7, <1>9, <2>1, <2>4, <3>1, <3>2 DEF Slots, SlotsIn, IdAt
    <2> QED BY <2>2, <2>3, <2>4
  <1>11. ASSUME NEW r \in Slots(retained) \ {e}, NEW s \in Slots(retained) \ {e},
                MovedUp(e, r) = MovedUp(e, s)
         PROVE  r = s
    <2>1. /\ r \in Subjects \X Nat /\ s \in Subjects \X Nat
          /\ r # <<u, k1>> /\ s # <<u, k1>> /\ k1 \in Nat
      BY <1>4 DEF Slots, SlotsIn, e
    <2>2. r = <<r[1], r[2]>> /\ s = <<s[1], s[2]>> /\ r[2] \in Nat /\ s[2] \in Nat
      BY <2>1
    <2> QED BY <1>8, <1>11, <2>1, <2>2 DEF MovedUp
  <1>12. ASSUME NEW s \in Slots(fewer)
         PROVE  \E r \in Slots(retained) \ {e} : MovedUp(e, r) = s
    <2>1. s \in Subjects \X Nat /\ s[1] \in Subjects /\ s[2] \in 1..Len(fewer[s[1]])
      BY DEF Slots, SlotsIn
    <2>2. CASE s[1] # u
      <3>1. s \in Slots(retained) /\ s # e
        BY <1>6, <1>8, <2>1, <2>2 DEF Slots, SlotsIn
      <3> QED BY <1>8, <2>2, <3>1 DEF MovedUp
    <2>3. CASE s[1] = u /\ s[2] >= k1
      <3> DEFINE r == <<u, s[2] + 1>>
      <3>1. r[1] = u /\ r[2] = s[2] + 1 /\ r \in Subjects \X Nat /\ s = <<u, s[2]>>
        BY <1>2, <2>1, <2>3
      <3> HIDE DEF r
      <3>2. r[2] \in 1..m /\ r[2] > k1 /\ r[2] - 1 = s[2]
        BY <1>2, <1>4, <1>7, <2>1, <2>3, <3>1
      <3>3. r \in Slots(retained) /\ r # e
        BY <1>4, <1>8, <1>9, <3>1, <3>2 DEF Slots, SlotsIn
      <3>4. MovedUp(e, r) = s
        BY <1>8, <3>1, <3>2 DEF MovedUp
      <3> QED BY <3>3, <3>4
    <2>4. CASE s[1] = u /\ ~ (s[2] >= k1)
      <3>1. s[2] \in 1..m /\ s[2] # k1 /\ ~ (s[2] > k1)
        BY <1>2, <1>4, <1>7, <2>1, <2>4
      <3>2. s \in Slots(retained) /\ s # e
        BY <1>8, <1>9, <2>1, <2>4, <3>1 DEF Slots, SlotsIn
      <3> QED BY <1>8, <3>1, <3>2 DEF MovedUp
    <2> QED BY <2>2, <2>3, <2>4
  <1>13. Loses(e, retained, fewer)
    BY <1>8, <1>10, <1>11, <1>12 DEF Loses
  <1> QED BY <1>8, <1>13 DEF fewer

(* Popping the front of the order and erasing that identity keeps the      *)
(* match, even when the identity is held more than once and the item       *)
(* erased is not the one the front was pushed for.                         *)
LEMMA MatchedByErase ==
    ASSUME StoreAssumption, NEW order \in Seq(Ids), order # << >>,
           NEW retained \in [Subjects -> Seq(Item)], Matched(order, retained)
    PROVE  Matched(Tail(order), Without(retained, Head(order)))
  <1> DEFINE n == Len(order)
             id == Head(order)
             rest == Tail(order)
             fewer == Without(retained, id)
  <1>1. PICK f : Matches(f, order, retained)
    BY DEF Matched
  <1>2. /\ \A k \in 1..n : f[k] \in Slots(retained) /\ IdAt(retained, f[k]) = order[k]
        /\ \A j, k \in 1..n : f[j] = f[k] => j = k
        /\ \A s \in Slots(retained) : \E k \in 1..n : f[k] = s
    BY <1>1 DEF Matches
  <1>3. /\ n \in Nat /\ n >= 1 /\ 1 \in 1..n /\ id = order[1]
        /\ Len(rest) = n - 1 /\ \A k \in 1..(n - 1) : rest[k] = order[k + 1]
    BY EmptySeq, LenProperties, HeadTailProperties
  <1>4. PICK e : Loses(e, retained, fewer) /\ IdAt(retained, e) = id
    <2>1. \E s \in Slots(retained) : IdAt(retained, s) = id
      BY <1>2, <1>3
    <2> HIDE DEF id
    <2> QED BY <2>1, WithoutLosesOne DEF fewer
  <1>5. PICK j1 \in 1..n : f[j1] = e
    BY <1>2, <1>4 DEF Loses
  <1> DEFINE \* the entry pushed for e is met where the front was
             h == [k \in 1..n |-> IF k = 1 THEN e ELSE IF k = j1 THEN f[1] ELSE f[k]]
             g == [k \in 1..(n - 1) |-> MovedUp(e, h[k + 1])]
  <1>6. order[j1] = id
    BY <1>2, <1>4, <1>5
  <1> HIDE DEF n, id, rest, fewer
  <1>7. /\ \A k \in 1..n : h[k] = IF k = 1 THEN e ELSE IF k = j1 THEN f[1] ELSE f[k]
        /\ \A k \in 1..(n - 1) : g[k] = MovedUp(e, h[k + 1])
    OBVIOUS
  <1> HIDE DEF h, g
  <1>8. ASSUME NEW k \in 1..n
        PROVE  h[k] \in Slots(retained) /\ IdAt(retained, h[k]) = order[k]
    <2>1. CASE k = 1
      BY <1>3, <1>4, <1>7, <2>1 DEF Loses
    <2>2. CASE k # 1 /\ k = j1
      <3>1. h[k] = f[1]
        BY <1>7, <2>2
      <3> QED BY <1>2, <1>3, <1>6, <2>2, <3>1
    <2>3. CASE k # 1 /\ k # j1
      <3>1. h[k] = f[k]
        BY <1>7, <2>3
      <3> QED BY <1>2, <3>1
    <2> QED BY <2>1, <2>2, <2>3
  <1>9. ASSUME NEW j \in 1..n, NEW k \in 1..n, h[j] = h[k]
        PROVE  j = k
    BY <1>2, <1>3, <1>5, <1>7, <1>9
  <1>10. ASSUME NEW s \in Slots(retained)
         PROVE  \E k \in 1..n : h[k] = s
    <2>1. PICK k \in 1..n : f[k] = s
      BY <1>2
    <2>2. CASE k = j1
      BY <1>3, <1>5, <1>7, <2>1, <2>2
    <2>3. CASE k # j1 /\ k = 1
      BY <1>3, <1>5, <1>7, <2>1, <2>3
    <2>4. CASE k # j1 /\ k # 1
      BY <1>3, <1>5, <1>7, <2>1, <2>4
    <2> QED BY <2>2, <2>3, <2>4
  <1>11. \A k \in 1..(n - 1) :
            /\ k \in Nat /\ k + 1 \in 1..n /\ k + 1 # 1
            /\ h[k + 1] \in Slots(retained) \ {e}
    <2>1. \A k \in 1..(n - 1) : k \in Nat /\ k + 1 \in 1..n /\ k + 1 # 1
      BY <1>3
    <2>2. h[1] = e
      BY <1>3, <1>7
    <2> QED BY <1>3, <1>8, <1>9, <2>1, <2>2
  <1>12. ASSUME NEW k \in 1..(n - 1)
         PROVE  g[k] \in Slots(fewer) /\ IdAt(fewer, g[k]) = rest[k]
    BY <1>3, <1>4, <1>7, <1>8, <1>11 DEF Loses
  <1>13. ASSUME NEW j \in 1..(n - 1), NEW k \in 1..(n - 1), g[j] = g[k]
         PROVE  j = k
    <2>1. h[j + 1] = h[k + 1]
      BY <1>4, <1>7, <1>11, <1>13 DEF Loses
    <2>2. j + 1 = k + 1
      BY <1>9, <1>11, <2>1
    <2> QED BY <1>11, <2>2
  <1>14. ASSUME NEW s \in Slots(fewer)
         PROVE  \E k \in 1..(n - 1) : g[k] = s
    <2>1. PICK r \in Slots(retained) \ {e} : MovedUp(e, r) = s
      BY <1>4 DEF Loses
    <2>2. PICK k \in 1..n : h[k] = r
      BY <1>10, <2>1
    <2>3. k # 1
      BY <1>3, <1>7, <2>1, <2>2
    <2>4. k - 1 \in 1..(n - 1) /\ (k - 1) + 1 = k
      BY <1>3, <2>3
    <2> QED BY <1>7, <2>1, <2>2, <2>4
  <1>15. Matches(g, rest, fewer)
    BY <1>3, <1>12, <1>13, <1>14 DEF Matches
  <1> QED BY <1>15 DEF Matched, rest, fewer, id

(* Marking the items as recovered moves none and renames none.             *)
LEMMA MatchedByMark ==
    ASSUME DoorAssumption, NEW order \in Seq(Ids), buckets \in [Subjects -> Seq(Item)],
           MarkAllRecovered, Matched(order, buckets)
    PROVE  Matched(order, buckets')
  <1>1. PICK f : Matches(f, order, buckets)
    BY DEF Matched
  <1>2. ASSUME NEW u \in Subjects
        PROVE  /\ Len(buckets'[u]) = Len(buckets[u])
               /\ \A k \in 1..Len(buckets[u]) : buckets'[u][k].id = buckets[u][k].id
    <2>1. buckets[u] \in Seq(Item) /\ Len(buckets[u]) \in Nat
          /\ DOMAIN buckets[u] = 1..Len(buckets[u])
      BY LenProperties
    <2>2. buckets'[u] = [k \in 1..Len(buckets[u]) |-> AsRecovered(buckets[u][k])]
      BY <2>1 DEF MarkAllRecovered
    <2>3. \A k \in 1..Len(buckets[u]) :
             /\ AsRecovered(buckets[u][k]) \in Item
             /\ AsRecovered(buckets[u][k]).id = buckets[u][k].id
      <3>1. \A k \in 1..Len(buckets[u]) : buckets[u][k] \in Item
        BY <2>1
      <3> QED BY <3>1, ItemsAreTyped DEF AsRecovered, Item
    <2> QED BY <2>1, <2>2, <2>3
  <1>3. Slots(buckets') = Slots(buckets)
    BY <1>2 DEF Slots, SlotsIn
  <1>4. \A s \in Slots(buckets) : IdAt(buckets', s) = IdAt(buckets, s)
    BY <1>2 DEF Slots, SlotsIn, IdAt
  <1>5. Matches(f, order, buckets')
    BY <1>1, <1>3, <1>4 DEF Matches
  <1> QED BY <1>5 DEF Matched

(* While no subject bound has bitten, the order is the window of what was  *)
(* stored and names what is retained.                                      *)
OrderInv ==
    stats.evicted_per_subject = 0 =>
        IsWindow(insertionOrder, stored, MaxItems) /\ Matched(insertionOrder, buckets)

(* An insertion keeps it, with or without an eviction by the total bound.  *)
LEMMA InsertKeepsOrder ==
    ASSUME StoreAssumption, DoorAssumption, StoreTypeOK, OrderInv,
           NEW item, StoreInserts(item)
    PROVE  OrderInv'
  <1> SUFFICES ASSUME stats'.evicted_per_subject = 0
               PROVE  /\ IsWindow(insertionOrder', stored', MaxItems)
                      /\ Matched(insertionOrder', buckets')
    BY DEF OrderInv
  <1> DEFINE u == item.subject
             order == insertionOrder
             longer == Append(order, item.id)
             added == [buckets EXCEPT ![u] = Append(@, item)]
  <1>1. /\ item \in Item /\ u \in Subjects /\ item.id \in Ids
        /\ Insert(item)
    BY ItemsAreTyped DEF StoreInserts
  <1>2. /\ order \in Seq(Ids) /\ stored \in Seq(Ids)
        /\ buckets \in [Subjects -> Seq(Item)]
        /\ MaxItems \in Nat \ {0} /\ Len(order) \in Nat
        /\ stats.evicted_per_subject \in Nat
    BY DEF StoreTypeOK, BoundedSeqs, StoreAssumption
  <1>3. ~ Full(u) /\ stats.evicted_per_subject = 0
    <2>1. stats'.evicted_per_subject
            = stats.evicted_per_subject + (IF Full(u) THEN 1 ELSE 0)
      BY <1>1 DEF Insert, Counted, EvictedPerSubject
    <2> HIDE DEF u
    <2>2. CASE Full(u)
      BY <1>2, <2>1, <2>2
    <2>3. CASE ~ Full(u)
      BY <1>2, <2>1, <2>3
    <2> QED BY <2>2, <2>3
  <1>4. Ordered(item) = longer /\ WithItem(item) = added
    BY <1>3 DEF Ordered, WithItem
  <1>5. IsWindow(order, stored, MaxItems) /\ Matched(order, buckets)
    BY <1>3 DEF OrderInv
  <1>6. /\ longer \in Seq(Ids) /\ longer # << >> /\ Len(longer) = Len(order) + 1
        /\ added \in [Subjects -> Seq(Item)]
    <2>1. longer \in Seq(Ids) /\ longer # << >> /\ Len(longer) = Len(order) + 1
      BY <1>1, <1>2, AppendProperties
    <2>2. Append(buckets[u], item) \in Seq(Item)
      BY <1>1, <1>2, AppendProperties
    <2> HIDE DEF u
    <2>3. added \in [Subjects -> Seq(Item)]
      BY <1>1, <1>2, <2>2
    <2> QED BY <2>1, <2>3
  <1>7. Matched(longer, added)
    BY <1>1, <1>2, <1>5, MatchedByAppend
  <1>8. IsWindow(Slide(order, item.id, MaxItems), Append(stored, item.id), MaxItems)
    BY <1>1, <1>2, <1>5, SlideKeepsWindow
  <1>9. /\ stored' = Append(stored, item.id)
        /\ Len(longer) > MaxItems =>
              insertionOrder' = Tail(longer) /\ buckets' = Without(added, Head(longer))
        /\ ~ (Len(longer) > MaxItems) => insertionOrder' = longer /\ buckets' = added
    BY <1>1, <1>4 DEF Insert, Overfull
  <1>10. CASE Len(longer) > MaxItems
    <2>1. Len(order) # 0 /\ ~ (Len(order) < MaxItems)
      BY <1>2, <1>6, <1>10
    <2>2. order # << >>
      BY <2>1
    <2>3. Tail(longer) = Append(Tail(order), item.id)
      BY <1>1, <1>2, <2>2
    <2>4. Slide(order, item.id, MaxItems) = Tail(longer)
      BY <2>1, <2>3 DEF Slide
    <2> HIDE DEF longer, added
    <2>5. Matched(Tail(longer), Without(added, Head(longer)))
      BY <1>6, <1>7, MatchedByErase
    <2> QED BY <1>8, <1>9, <1>10, <2>4, <2>5
  <1>11. CASE ~ (Len(longer) > MaxItems)
    <2>1. Len(order) < MaxItems
      BY <1>2, <1>6, <1>11
    <2>2. Slide(order, item.id, MaxItems) = longer
      BY <2>1 DEF Slide
    <2> QED BY <1>7, <1>8, <1>9, <1>11, <2>2
  <1> QED BY <1>10, <1>11

(* store.hpp's promise of the insertion order: until some subject's own    *)
(* bound bites, the store holds exactly the last max_items insertions.     *)
THEOREM OldestGoesFirst == Spec => []OldestEvictedFirst
  <1> USE RegistryAssumption, StoreAssumption, DoorAssumption
  <1>1. Init => OrderInv
    <2> SUFFICES ASSUME Init PROVE OrderInv
      OBVIOUS
    <2>1. insertionOrder = << >> /\ stored = << >> /\ buckets = [u \in Subjects |-> << >>]
      BY DEF Init, StoreInit
    <2>2. IsWindow(<< >>, << >>, MaxItems)
      BY DEF IsWindow, StoreAssumption
    <2>3. Slots(buckets) = {}
      BY <2>1 DEF Slots, SlotsIn
    <2>4. Matches(<< >>, << >>, buckets)
      BY <2>3 DEF Matches
    <2> QED BY <2>1, <2>2, <2>4 DEF OrderInv, Matched
  <1>2. TypeInv /\ OrderInv /\ [Next]_vars => OrderInv'
    <2> SUFFICES ASSUME TypeInv, OrderInv, [Next]_vars PROVE OrderInv'
      OBVIOUS
    <2>1. StoreTypeOK /\ TypeOK
      BY DEF TypeInv, TypeOK
    <2>2. ASSUME UNCHANGED storeVars
          PROVE  OrderInv'
      BY <2>2 DEF OrderInv, storeVars
    <2>3. ASSUME NEW t \in Threads, ReachStore(t)
          PROVE  OrderInv'
      BY <2>1, <2>2, <2>3, ReachStoreInserts, InsertKeepsOrder
    <2>4. ASSUME NEW item \in Recoverable, Recover(item)
          PROVE  OrderInv'
      BY <2>1, <2>4, RecoverInserts, InsertKeepsOrder
    <2>5. CASE MarkRecovered
      <3>1. MarkAllRecovered /\ UNCHANGED <<insertionOrder, stored, stats>>
        BY <2>5 DEF MarkRecovered, MarkAllRecovered
      <3>2. buckets \in [Subjects -> Seq(Item)] /\ insertionOrder \in Seq(Ids)
        BY <2>1 DEF StoreTypeOK, BoundedSeqs
      <3>3. Matched(insertionOrder, buckets) => Matched(insertionOrder, buckets')
        BY <3>1, <3>2, MatchedByMark
      <3> QED BY <3>1, <3>3 DEF OrderInv
    <2>6. ASSUME NEW t \in Threads, NEW item \in Submittable, PassFence(t, item)
          PROVE  OrderInv'
      BY <2>2, <2>6 DEF PassFence
    <2>7. CASE AdministerRegistry \/ UNCHANGED vars
      BY <2>2, <2>7 DEF AdministerRegistry, vars
    <2> QED BY <2>3, <2>4, <2>5, <2>6, <2>7 DEF Next
  <1>3. TypeInv /\ OrderInv => OldestEvictedFirst
    <2> SUFFICES ASSUME TypeInv, IsWindow(insertionOrder, stored, MaxItems),
                        Matched(insertionOrder, buckets)
                 PROVE  /\ Len(insertionOrder) = ItemCount
                        /\ Range(insertionOrder) = {item.id : item \in Retained}
      BY DEF OrderInv, OldestEvictedFirst
    <2>1. buckets \in [Subjects -> Seq(Item)] /\ insertionOrder \in Seq(Ids)
      BY DEF TypeInv, TypeOK, StoreTypeOK, BoundedSeqs
    <2>2. Len(insertionOrder) = ItemCount
      BY <2>1, MatchedCount, ItemCountIs DEF StoreAssumption
    <2>3. PICK f : Matches(f, insertionOrder, buckets)
      BY DEF Matched
    <2>4. DOMAIN insertionOrder = 1..Len(insertionOrder)
          /\ \A u \in Subjects : DOMAIN buckets[u] = 1..Len(buckets[u])
      BY <2>1, LenProperties
    <2>5. ASSUME NEW k \in DOMAIN insertionOrder
          PROVE  \E item \in Retained : insertionOrder[k] = item.id
      <3>1. f[k] \in Slots(buckets) /\ IdAt(buckets, f[k]) = insertionOrder[k]
        BY <2>3, <2>4 DEF Matches
      <3>2. f[k][1] \in Subjects /\ f[k][2] \in DOMAIN buckets[f[k][1]]
        BY <2>4, <3>1 DEF Slots, SlotsIn
      <3>3. buckets[f[k][1]][f[k][2]] \in Retained
        <4>1. buckets[f[k][1]][f[k][2]] \in Range(buckets[f[k][1]])
          BY <3>2 DEF Range
        <4> QED BY <3>2, <4>1 DEF Retained
      <3>4. insertionOrder[k] = buckets[f[k][1]][f[k][2]].id
        BY <3>1 DEF IdAt
      <3> QED BY <3>3, <3>4, Zenon
    <2>6. ASSUME NEW item \in Retained
          PROVE  \E k \in DOMAIN insertionOrder : insertionOrder[k] = item.id
      <3>1. PICK u \in Subjects : \E i \in DOMAIN buckets[u] : buckets[u][i] = item
        BY DEF Retained, Range
      <3>2. PICK i \in DOMAIN buckets[u] : buckets[u][i] = item
        BY <3>1
      <3>3. <<u, i>> \in Slots(buckets) /\ IdAt(buckets, <<u, i>>) = item.id
        BY <2>1, <2>4, <3>1, <3>2 DEF Slots, SlotsIn, IdAt
      <3> QED BY <2>3, <2>4, <3>3 DEF Matches
    <2>7. Range(insertionOrder) = {item.id : item \in Retained}
      BY <2>5, <2>6 DEF Range
    <2> QED BY <2>2, <2>7
  <1> QED BY <1>1, <1>2, <1>3, TypeInvariance, PTL DEF Spec

================================================================================
