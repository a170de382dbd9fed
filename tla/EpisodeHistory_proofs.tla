------------------------ MODULE EpisodeHistory_proofs ------------------------
(***************************************************************************)
(* What the episode history keeps, through classification, stops, crashes, *)
(* failing writes and recoveries, for every number of bindings, threads,   *)
(* processes and events and for every bound on the history.                *)
(***************************************************************************)
EXTENDS EpisodeHistory, FiniteSetTheorems, SequenceTheorems, TLAPS

-----------------------------------------------------------------------------
(* The inductive invariant, in parts.                                      *)

Records == [kind : {"entry"}, body : LossEpisode] \cup {Session, Torn}

(* The tracker: identities name one episode each.                          *)
TrackerInv ==
    /\ episodes \subseteq LossEpisode
    /\ IsFiniteSet(episodes)
    /\ \A e, f \in episodes : e.id = f.id => e = f
    /\ openIndex \subseteq EpisodeId
    /\ \A i, j \in openIndex : i.binding = j.binding => i = j
    /\ evicted \in Nat

(* What the index names is retained, and open.                             *)
IndexInv ==
    \A i \in openIndex : \E e \in episodes : e.id = i /\ IsOpen(e)

JournalInv ==
    /\ file \in Seq(Records)
    /\ flushed \in 0..Len(file)
    /\ stream \in Streams

ProcessInv ==
    /\ pc \in Phases
    /\ life \in 0..MaxLives
    /\ cursor \in Nat
    /\ events \in 0..MaxEvents
    /\ clean \in BOOLEAN
    /\ raced \in BOOLEAN

(* A thread holds an identity to look up, or a copy to append, or nothing. *)
ThreadInv ==
    /\ looking \in [Threads -> SUBSET EpisodeId]
    /\ writing \in [Threads -> SUBSET LossEpisode]
    /\ \A t \in Threads :
          /\ looking[t] = {} \/ writing[t] = {}
          /\ \A i, j \in looking[t] : i = j
          /\ \A e, f \in writing[t] : e = f

(* A process that is not up yet has opened nothing.                        *)
StartingInv ==
    /\ pc \in {"down", "opening"} => episodes = {} /\ cursor = 1
    /\ pc \notin Up => openIndex = {} /\ Opened(episodes) = {}

(* The identities that were restored from the first n of these records.    *)
Noted(records, n) ==
    {records[k].body.id : k \in {k \in 1..n : IsRestored(records, k)}}

(* As many of the named as the bound allows, and none younger is left out. *)
Youngest(kept, named) ==
    /\ kept \subseteq named
    /\ Cardinality(kept) = Min({Cardinality(named), MaxEpisodes})
    /\ \A i \in named \ kept, j \in kept : i.start <= j.start

(* Recovery is a loop over the records: after each of them the history is  *)
(* what recovery would have made of the journal up to that record.         *)
RecoveryInv ==
    pc = "loading" =>
        /\ cursor \in 1..(Len(Readable(OnDisk)) + 1)
        /\ Youngest(IdsOf(episodes), Noted(Readable(OnDisk), cursor - 1))

(* The last entry of each retained episode is what memory holds.           *)
Described(records) ==
    \A e \in episodes :
        \E k \in DOMAIN records :
            /\ records[k] = Entry(e)
            /\ \A j \in DOMAIN records :
                  j > k /\ records[j].kind = "entry" => records[j].body.id # e.id

(* What a stop that no thread races has reached, part by part.             *)
StoppingInv ==
    /\ pc = "stopped" => stream = "none"
    /\ pc \in {"sealed", "persisted", "appended", "stopped"} /\ ~raced =>
          Opened(episodes) = {}
    /\ pc = "appended" /\ ~raced /\ clean /\ stream # "failed" =>
          episodes = {} \/ (stream = "good" /\ Described(file))
    /\ pc = "stopped" /\ ~raced /\ clean =>
          episodes = {} \/ (flushed = Len(file) /\ Described(file))

IInv ==
    /\ TrackerInv /\ IndexInv /\ NothingResumes
    /\ JournalInv /\ ProcessInv /\ ThreadInv
    /\ StartingInv /\ RecoveryInv /\ StoppingInv

-----------------------------------------------------------------------------
(* Least and greatest elements: what the CHOOSE of Min, Max and FreshId    *)
(* picks.                                                                  *)

(* Every set of naturals that is not empty has a least element.            *)
LEMMA Least ==
    ASSUME NEW T \in SUBSET Nat, T # {}
    PROVE  \E x \in T : \A y \in T : x <= y
  <1>1. PICK x \in T : \A y \in T : ~ (<<y, x>> \in OpToRel(<, Nat))
    BY NatLessThanWellFounded, WFMin, Zenon
  <1>2. ASSUME NEW y \in T
        PROVE  x <= y
    <2>1. x \in Nat /\ y \in Nat
      OBVIOUS
    <2>2. ~ (y < x)
      BY <1>1, <2>1 DEF OpToRel
    <2> QED BY <2>1, <2>2
  <1> QED BY <1>2

LEMMA MinIsLeast ==
    ASSUME NEW T \in SUBSET Nat, T # {}
    PROVE  Min(T) \in T /\ \A y \in T : Min(T) <= y
  BY Least DEF Min

(* Every set of naturals with an upper bound has a greatest element.       *)
LEMMA MaxIsGreatest ==
    ASSUME NEW T \in SUBSET Nat, T # {}, NEW n \in Nat, \A y \in T : y <= n
    PROVE  Max(T) \in T /\ \A y \in T : Max(T) >= y
  <1> DEFINE below == {m \in Nat : \E y \in T : m = n - y}
  <1>1. below \in SUBSET Nat /\ below # {}
    <2>1. PICK y \in T : TRUE
      OBVIOUS
    <2>2. n - y \in Nat
      OBVIOUS
    <2> QED BY <2>2
  <1>2. PICK m \in below : \A k \in below : m <= k
    <2> HIDE DEF below
    <2> QED BY <1>1, Least
  <1>3. PICK x \in T : m = n - x
    OBVIOUS
  <1>4. ASSUME NEW y \in T
        PROVE  x >= y
    <2>1. n - y \in below
      OBVIOUS
    <2>2. m <= n - y
      BY <2>1, <1>2
    <2> QED BY <1>3, <2>2
  <1> QED BY <1>4 DEF Max

(* The smaller of two numbers.                                             *)
LEMMA MinOfTwo ==
    ASSUME NEW m \in Nat, NEW n \in Nat
    PROVE  Min({m, n}) = IF m <= n THEN m ELSE n
  <1>1. /\ Min({m, n}) \in {m, n}
        /\ \A y \in {m, n} : Min({m, n}) <= y
    BY MinIsLeast
  <1> QED BY <1>1

-----------------------------------------------------------------------------
(* The operators of the tracker.                                           *)

(* The parameters, as their assumptions type them.                         *)
LEMMA Parameters ==
    /\ MaxInstant \in Nat \ {0} /\ MaxEpisodes \in Nat \ {0} /\ IdleTimeout \in Nat
    /\ MaxLives \in Nat /\ MaxEvents \in Nat /\ MaxJournal \in Nat
  BY TrackerAssumption, HistoryAssumption

(* The images of a finite set under id: the identities of a group are      *)
(* finitely many, and as many as the episodes where no two share one.      *)
LEMMA IdentitiesFinite ==
    ASSUME NEW group, IsFiniteSet(group)
    PROVE  /\ IsFiniteSet(IdsOf(group))
           /\ (\A e, f \in group : e.id = f.id => e = f)
              => Cardinality(IdsOf(group)) = Cardinality(group)
  <1> DEFINE name == [e \in group |-> e.id]
  <1>1. name \in Surjection(group, IdsOf(group))
    BY DEF Surjection, IdsOf
  <1>2. /\ IsFiniteSet(IdsOf(group))
        /\ Cardinality(IdsOf(group)) = Cardinality(group) <=>
              name \in Injection(group, IdsOf(group))
    <2> HIDE DEF name
    <2> QED BY <1>1, FS_Surjection
  <1>3. ASSUME \A e, f \in group : e.id = f.id => e = f
        PROVE  name \in Injection(group, IdsOf(group))
    BY <1>3 DEF Injection, IsInjective, IdsOf
  <1> QED BY <1>2, <1>3

(* The loop that salts an identity ends, and with one that is not taken.   *)
LEMMA FreshIdIsFree ==
    ASSUME episodes \subseteq LossEpisode, IsFiniteSet(episodes),
           NEW b \in Bindings, NEW at \in Instants
    PROVE  /\ FreshId(b, at) \in EpisodeId
           /\ FreshId(b, at).binding = b
           /\ FreshId(b, at).start = at
           /\ FreshId(b, at) \notin IdsOf(episodes)
  <1> DEFINE hashed    == {i \in IdsOf(episodes) : i.binding = b /\ i.start = at}
             taken     == {i.salt : i \in hashed}
             bound     == Cardinality(taken)
             Free(n)   == n \notin taken /\ \A m \in 0..(n - 1) : m \in taken
             n         == CHOOSE k \in 0..bound : Free(k)
             fresh     == [binding |-> b, start |-> at, salt |-> n]
  <1>1. IdsOf(episodes) \subseteq EpisodeId
    BY DEF IdsOf, LossEpisode
  <1>2. taken \in SUBSET Nat /\ IsFiniteSet(taken) /\ bound \in Nat
    <2>1. taken \in SUBSET Nat
      BY <1>1 DEF EpisodeId
    <2>2. IsFiniteSet(hashed)
      <3>1. IsFiniteSet(IdsOf(episodes)) /\ hashed \in SUBSET IdsOf(episodes)
        BY IdentitiesFinite
      <3> HIDE DEF hashed
      <3> QED BY <3>1, FS_Subset
    <2>3. IsFiniteSet(taken)
      <3> DEFINE salts == [i \in hashed |-> i.salt]
      <3>1. salts \in Surjection(hashed, taken)
        BY DEF Surjection
      <3> HIDE DEF salts, taken, hashed
      <3> QED BY <3>1, <2>2, FS_Surjection
    <2> HIDE DEF taken
    <2> QED BY <2>1, <2>3, FS_CardinalityType
  <1> HIDE DEF taken
  <1>3. \E k \in 0..bound : Free(k)
    <2>1. Nat \ taken # {}
      <3>1. SUFFICES ASSUME Nat \subseteq taken
                     PROVE  FALSE
        OBVIOUS
      <3>2. 0..bound \in SUBSET taken
        BY <3>1, <1>2
      <3>3. Cardinality(0..bound) <= bound
        BY <3>2, <1>2, FS_Subset
      <3>4. Cardinality(0..bound) = bound + 1
        BY <1>2, FS_Interval
      <3> QED BY <3>3, <3>4, <1>2
    <2>2. PICK k \in Nat \ taken : \A y \in Nat \ taken : k <= y
      BY <2>1, Least
    <2>3. Free(k)
      <3>1. ASSUME NEW m \in 0..(k - 1)
            PROVE  m \in taken
        BY <2>2
      <3> QED BY <3>1
    <2>4. k <= bound
      <3>1. 0..(k - 1) \in SUBSET taken
        BY <2>3
      <3>2. Cardinality(0..(k - 1)) <= bound
        BY <3>1, <1>2, FS_Subset
      <3>3. Cardinality(0..(k - 1)) = k
        <4>1. Cardinality(0..(k - 1)) = IF 0 > k - 1 THEN 0 ELSE k - 1 - 0 + 1
          BY FS_Interval
        <4> QED BY <4>1
      <3> QED BY <3>2, <3>3
    <2> QED BY <2>3, <2>4, <1>2
  <1>4. n \in 0..bound /\ Free(n)
    BY <1>3
  <1>5. FreshId(b, at) = fresh
    BY DEF FreshId, taken
  <1> HIDE DEF n
  <1>6. fresh \in EpisodeId
    BY <1>2, <1>4 DEF EpisodeId
  <1>7. fresh \notin IdsOf(episodes)
    <2>1. SUFFICES ASSUME fresh \in IdsOf(episodes)
                   PROVE  n \in taken
      BY <1>4
    <2> QED BY <2>1 DEF taken
  <1> QED BY <1>5, <1>6, <1>7

-----------------------------------------------------------------------------
(* The operators of the journal.                                           *)

(* A reader stops before the first damaged record, and only there.         *)
LEMMA ReadableIs ==
    ASSUME NEW records \in Seq(Records)
    PROVE  \E n \in 0..Len(records) :
              /\ Readable(records) = SubSeq(records, 1, n)
              /\ \A k \in 1..n : records[k] # Torn
              /\ n < Len(records) => records[n + 1] = Torn
  <1> DEFINE torn == {k \in 1..Len(records) : records[k] = Torn}
             first == IF torn # {} THEN Min(torn) ELSE 0
  <1>1. Readable(records) =
            IF first = 0 THEN records ELSE SubSeq(records, 1, first - 1)
    BY DEF Readable, SelectInSeq
  <1>2. Len(records) \in Nat
    OBVIOUS
  <1>3. CASE torn = {}
    <2>1. Readable(records) = SubSeq(records, 1, Len(records))
      BY <1>1, <1>3
    <2> QED BY <2>1, <1>2, <1>3
  <1>4. CASE torn # {}
    <2>1. torn \in SUBSET Nat
      OBVIOUS
    <2>2. first \in torn /\ \A k \in torn : first <= k
      <3> HIDE DEF torn
      <3> QED BY <2>1, <1>4, MinIsLeast
    <2>3. /\ first - 1 \in 0..Len(records)
          /\ first # 0
          /\ records[first - 1 + 1] = Torn
      BY <2>2, <1>2
    <2>4. ASSUME NEW k \in 1..(first - 1)
          PROVE  records[k] # Torn
      <3>1. k \notin torn
        <4>1. first \in Nat /\ k \in Nat /\ k < first
          <5>1. first \in Nat
            BY <2>1, <2>2
          <5> HIDE DEF torn, first
          <5> QED BY <5>1
        <4> HIDE DEF torn, first
        <4> QED BY <2>2, <4>1
      <3>2. k \in 1..Len(records)
        BY <2>3, <1>2
      <3> QED BY <3>1, <3>2
    <2> QED BY <2>3, <2>4, <1>1
  <1> QED BY <1>3, <1>4

(* What was readable stays readable whatever follows it.                   *)
LEMMA ReadableGrows ==
    ASSUME NEW old \in Seq(Records), NEW new \in Seq(Records), IsPrefix(old, new)
    PROVE  IsPrefix(Readable(old), Readable(new))
  <1>1. PICK m \in 0..Len(old) : /\ Readable(old) = SubSeq(old, 1, m)
                                 /\ \A k \in 1..m : old[k] # Torn
    BY ReadableIs
  <1>2. PICK n \in 0..Len(new) : /\ Readable(new) = SubSeq(new, 1, n)
                                 /\ n < Len(new) => new[n + 1] = Torn
    BY ReadableIs
  <1>3. /\ Len(old) \in Nat /\ Len(new) \in Nat
        /\ Len(old) <= Len(new)
        /\ \A k \in 1..Len(old) : new[k] = old[k]
    <2>1. /\ Len(old) \in Nat /\ Len(new) \in Nat
          /\ Len(old) <= Len(new)
          /\ SubSeq(old, 1, Len(old)) = SubSeq(new, 1, Len(old))
      BY DEF IsPrefix
    <2>2. ASSUME NEW k \in 1..Len(old)
          PROVE  new[k] = old[k]
      <3>1. /\ SubSeq(old, 1, Len(old))[k] = old[k]
            /\ SubSeq(new, 1, Len(old))[k] = new[k]
        BY <2>1
      <3> QED BY <3>1, <2>1
    <2> QED BY <2>1, <2>2
  <1>4. m <= n
    <2>1. SUFFICES ASSUME n < m
                   PROVE  FALSE
      OBVIOUS
    <2>2. new[n + 1] = Torn /\ n + 1 \in 1..m /\ n + 1 \in 1..Len(old)
      BY <2>1, <1>2, <1>3
    <2> QED BY <2>2, <1>1, <1>3
  <1>5. /\ Len(Readable(old)) = m /\ Len(Readable(new)) = n
        /\ \A k \in 1..m : Readable(old)[k] = old[k] /\ Readable(new)[k] = new[k]
    BY <1>1, <1>2, <1>3, <1>4
  <1>6. SubSeq(Readable(old), 1, m) = SubSeq(Readable(new), 1, m)
    <2>1. /\ Len(SubSeq(Readable(old), 1, m)) = m
          /\ Len(SubSeq(Readable(new), 1, m)) = m
          /\ SubSeq(Readable(old), 1, m) \in Seq(Records)
          /\ SubSeq(Readable(new), 1, m) \in Seq(Records)
      BY <1>1, <1>2, <1>3, <1>4, <1>5
    <2>2. \A k \in 1..m : SubSeq(Readable(old), 1, m)[k] = SubSeq(Readable(new), 1, m)[k]
      BY <1>1, <1>2, <1>3, <1>4, <1>5
    <2> QED BY <2>1, <2>2, SeqEqual
  <1> QED BY <1>5, <1>6, <1>4 DEF IsPrefix

-----------------------------------------------------------------------------
(* What an operation of the tracker keeps.                                 *)

TrackerSafe == TrackerInv /\ IndexInv /\ NothingResumes

(* The step HistoryIsFrozen speaks of.                                     *)
Frozen ==
    \A e \in episodes, f \in episodes' : IsClosed(e) /\ e.id = f.id => f = e

(* The end of an insertion removes closed episodes only, and forgets no    *)
(* more of the index than it must.                                         *)
LEMMA SettleKeeps ==
    ASSUME NEW group, group \subseteq LossEpisode, IsFiniteSet(group),
           \A e, f \in group : e.id = f.id => e = f,
           NEW index, index \subseteq EpisodeId,
           \A i, j \in index : i.binding = j.binding => i = j,
           \A i \in index : \E e \in group : e.id = i /\ IsOpen(e),
           \A e \in Opened(group) : e.life = life',
           evicted \in Nat,
           Settle(group, index)
    PROVE  /\ TrackerSafe'
           /\ episodes' \subseteq group
           /\ openIndex' \subseteq index
           /\ Opened(episodes') = Opened(group)
  <1>1. PICK v \in Victims(group) :
            /\ episodes' = group \ v
            /\ openIndex' = Untracked(index, {e.id.binding : e \in v})
            /\ evicted' = evicted + Cardinality(v)
    BY DEF Settle
  <1>2. v \in SUBSET group /\ \A e \in v : IsClosed(e)
    BY DEF Victims
  <1>3. episodes' \subseteq group /\ openIndex' \subseteq index
    BY <1>1 DEF Untracked
  <1>4. Opened(episodes') = Opened(group)
    BY <1>1, <1>2 DEF Opened, IsClosed
  <1>5. IsFiniteSet(v) /\ Cardinality(v) \in Nat
    BY <1>2, FS_Subset, FS_CardinalityType
  <1>6. evicted' \in Nat
    BY <1>1, <1>5
  <1>7. IsFiniteSet(episodes')
    BY <1>1, <1>2, FS_Subset
  <1>8. TrackerInv'
    BY <1>3, <1>6, <1>7 DEF TrackerInv
  <1>9. IndexInv'
    <2>1. SUFFICES ASSUME NEW i \in openIndex'
                   PROVE  \E e \in episodes' : e.id = i /\ IsOpen(e)
      BY DEF IndexInv, IsOpen
    <2>2. PICK e \in group : e.id = i /\ IsOpen(e)
      BY <1>3
    <2>3. e \in Opened(episodes')
      BY <2>2, <1>4 DEF Opened
    <2> QED BY <2>2, <2>3 DEF Opened
  <1>10. NothingResumes'
    BY <1>4 DEF NothingResumes, Opened, IsOpen
  <1> QED BY <1>3, <1>4, <1>8, <1>9, <1>10 DEF TrackerSafe

(* A change of episodes in place keeps their identities apart.             *)
LEMMA ChangeKeeps ==
    ASSUME TrackerInv,
           NEW change \in [episodes -> LossEpisode],
           \A e \in episodes : change[e].id = e.id,
           episodes' = {change[e] : e \in episodes}
    PROVE  /\ episodes' \subseteq LossEpisode
           /\ IsFiniteSet(episodes')
           /\ \A e, f \in episodes' : e.id = f.id => e = f
  <1>1. episodes' \subseteq LossEpisode
    OBVIOUS
  <1>2. IsFiniteSet(episodes')
    <2>1. change \in Surjection(episodes, episodes')
      BY DEF Surjection
    <2> QED BY <2>1, FS_Surjection DEF TrackerInv
  <1>3. ASSUME NEW e \in episodes', NEW f \in episodes', e.id = f.id
        PROVE  e = f
    <2>1. PICK x \in episodes : e = change[x]
      OBVIOUS
    <2>2. PICK y \in episodes : f = change[y]
      OBVIOUS
    <2>3. x.id = y.id
      BY <2>1, <2>2, <1>3
    <2> QED BY <2>1, <2>2, <2>3 DEF TrackerInv
  <1> QED BY <1>1, <1>2, <1>3

(* observe, loss, nothing tracked.                                         *)
LEMMA FirstLossKeeps ==
    ASSUME TrackerSafe, life \in Nat, life' = life,
           NEW b \in Bindings, NEW at \in Instants, ObserveFirstLoss(b, at, life)
    PROVE  TrackerSafe' /\ Frozen
  <1> DEFINE e     == Born(b, at, life)
             group == episodes \cup {e}
             index == openIndex \cup {e.id}
  <1>1. /\ TrackerInv /\ IndexInv /\ NothingResumes
        /\ Tracked(b) = {}
        /\ Settle(group, index)
    BY DEF TrackerSafe, ObserveFirstLoss
  <1>2. /\ e \in LossEpisode
        /\ e.id = FreshId(b, at) /\ e.id.binding = b
        /\ e.state = "Open" /\ e.life = life
        /\ e.id \in EpisodeId /\ e.id \notin IdsOf(episodes)
    <2>1. /\ FreshId(b, at) \in EpisodeId
          /\ FreshId(b, at).binding = b
          /\ FreshId(b, at) \notin IdsOf(episodes)
      BY <1>1, FreshIdIsFree DEF TrackerInv
    <2> HIDE DEF e
    <2>2. e = [id |-> FreshId(b, at), last |-> at, state |-> "Open", life |-> life]
      BY DEF e, Born
    <2> QED BY <2>1, <2>2 DEF LossEpisode, EpisodeStates
  <1> HIDE DEF e
  <1>3. group \subseteq LossEpisode /\ IsFiniteSet(group)
    BY <1>1, <1>2, FS_AddElement DEF TrackerInv
  <1>4. \A x, y \in group : x.id = y.id => x = y
    BY <1>1, <1>2 DEF TrackerInv, IdsOf
  <1>5. index \subseteq EpisodeId /\ \A i, j \in index : i.binding = j.binding => i = j
    BY <1>1, <1>2 DEF TrackerInv, Tracked
  <1>6. \A i \in index : \E x \in group : x.id = i /\ IsOpen(x)
    BY <1>1, <1>2 DEF IndexInv, IsOpen
  <1>7. \A x \in Opened(group) : x.life = life'
    BY <1>1, <1>2 DEF NothingResumes, Opened
  <1>8. TrackerSafe' /\ episodes' \subseteq group
    <2>1. evicted \in Nat
      BY <1>1 DEF TrackerInv
    <2> HIDE DEF group, index
    <2> QED BY <2>1, <1>1, <1>3, <1>4, <1>5, <1>6, <1>7, SettleKeeps
  <1>9. Frozen
    BY <1>4, <1>8 DEF Frozen
  <1> QED BY <1>8, <1>9

(* Operations that only change what the tracker holds: an episode that     *)
(* changes was open, one that stays open still belongs to this process,    *)
(* and of one that is closed the index forgets the binding.                *)
LEMMA InPlaceKeeps ==
    ASSUME TrackerSafe, life' = life,
           NEW change \in [episodes -> LossEpisode],
           \A e \in episodes :
              /\ change[e].id = e.id
              /\ change[e].life = e.life
              /\ change[e] # e => IsOpen(e)
              /\ IsOpen(e) /\ IsClosed(change[e]) => e.id \notin openIndex',
           episodes' = {change[e] : e \in episodes},
           openIndex' \subseteq openIndex,
           evicted' = evicted
    PROVE  TrackerSafe' /\ Frozen
  <1>1. TrackerInv /\ IndexInv /\ NothingResumes
    BY DEF TrackerSafe
  <1>2. TrackerInv'
    <2>1. /\ episodes' \subseteq LossEpisode
          /\ IsFiniteSet(episodes')
          /\ \A e, f \in episodes' : e.id = f.id => e = f
      BY <1>1, ChangeKeeps
    <2> QED BY <2>1, <1>1 DEF TrackerInv
  <1>3. IndexInv'
    <2>1. SUFFICES ASSUME NEW i \in openIndex'
                   PROVE  \E f \in episodes' : f.id = i /\ IsOpen(f)
      BY DEF IndexInv, IsOpen
    <2>2. PICK e \in episodes : e.id = i /\ IsOpen(e)
      BY <1>1 DEF IndexInv
    <2>3. change[e].id = i /\ IsOpen(change[e])
      BY <2>2 DEF IsClosed
    <2> QED BY <2>3
  <1>4. NothingResumes'
    <2>1. SUFFICES ASSUME NEW f \in episodes', IsOpen(f)
                   PROVE  f.life = life
      BY DEF NothingResumes, Opened, IsOpen
    <2>2. PICK e \in episodes : f = change[e]
      OBVIOUS
    <2>3. IsOpen(e)
      BY <2>1, <2>2
    <2> QED BY <2>2, <2>3, <1>1 DEF NothingResumes, Opened
  <1>5. Frozen
    <2>1. SUFFICES ASSUME NEW e \in episodes, NEW f \in episodes', IsClosed(e), e.id = f.id
                   PROVE  f = e
      BY DEF Frozen
    <2>2. PICK x \in episodes : f = change[x]
      OBVIOUS
    <2>3. x = e
      BY <2>1, <2>2, <1>1 DEF TrackerInv
    <2> QED BY <2>1, <2>2, <2>3 DEF IsClosed
  <1> QED BY <1>2, <1>3, <1>4, <1>5 DEF TrackerSafe

(* The tracked episode is open, and there is only one of its identity.     *)
LEMMA TrackedIsOpen ==
    ASSUME TrackerSafe, NEW e \in episodes, e.id \in openIndex
    PROVE  IsOpen(e)
  BY DEF TrackerSafe, TrackerInv, IndexInv

(* observe, loss, an episode tracked.                                      *)
LEMMA MoreLossKeeps ==
    ASSUME TrackerSafe, life' = life,
           NEW b \in Bindings, NEW at \in Instants, ObserveMoreLoss(b, at)
    PROVE  TrackerSafe' /\ Frozen
  <1> DEFINE chosen == {e \in episodes : e.id \in Tracked(b)}
             change == [e \in episodes |-> IF e \in chosen THEN Extended(e, at) ELSE e]
  <1>1. episodes' = {change[e] : e \in episodes}
    BY DEF ObserveMoreLoss, Changed
  <1>2. openIndex' = openIndex /\ evicted' = evicted
    BY DEF ObserveMoreLoss
  <1>3. episodes \subseteq LossEpisode
    BY DEF TrackerSafe, TrackerInv
  <1>4. ASSUME NEW e \in episodes
        PROVE  /\ change[e] \in LossEpisode
               /\ change[e].id = e.id /\ change[e].life = e.life
               /\ change[e].state = e.state
               /\ change[e] # e => IsOpen(e)
    <2>1. /\ Extended(e, at) \in LossEpisode
          /\ Extended(e, at).id = e.id /\ Extended(e, at).life = e.life
          /\ Extended(e, at).state = e.state
      BY <1>3 DEF Extended, LossEpisode
    <2>2. e \in chosen => IsOpen(e)
      BY TrackedIsOpen DEF Tracked
    <2> QED BY <2>1, <2>2, <1>3
  <1>5. change \in [episodes -> LossEpisode]
    BY <1>4
  <1> HIDE DEF change
  <1> QED BY <1>1, <1>2, <1>4, <1>5, InPlaceKeeps DEF IsOpen, IsClosed

(* A change that closes what it is applied to: the shape shared by absence *)
(* of loss, by close_idle and by the seal that stop applies.               *)
LEMMA ClosingKeeps ==
    ASSUME TrackerSafe, life' = life,
           NEW chosen, chosen \subseteq episodes, \A e \in chosen : IsOpen(e),
           NEW s \in EpisodeStates, s # "Open",
           episodes' = {IF e \in chosen THEN [e EXCEPT !.state = s] ELSE e : e \in episodes},
           openIndex' \subseteq openIndex,
           \A e \in chosen : e.id \notin openIndex',
           evicted' = evicted
    PROVE  /\ TrackerSafe' /\ Frozen
           /\ Opened(episodes') \subseteq Opened(episodes) \ chosen
  <1> DEFINE change == [e \in episodes |-> IF e \in chosen THEN [e EXCEPT !.state = s] ELSE e]
  <1>1. episodes' = {change[e] : e \in episodes}
    OBVIOUS
  <1>2. episodes \subseteq LossEpisode
    BY DEF TrackerSafe, TrackerInv
  <1>3. ASSUME NEW e \in episodes
        PROVE  /\ change[e] \in LossEpisode
               /\ change[e].id = e.id /\ change[e].life = e.life
               /\ change[e] # e => e \in chosen
               /\ e \in chosen => change[e].state = s
    BY <1>2 DEF LossEpisode
  <1>4. change \in [episodes -> LossEpisode]
    BY <1>3
  <1> HIDE DEF change
  <1>5. TrackerSafe' /\ Frozen
    BY <1>1, <1>3, <1>4, InPlaceKeeps DEF IsOpen, IsClosed
  <1>6. Opened(episodes') \subseteq Opened(episodes) \ chosen
    BY <1>1, <1>3 DEF Opened, IsOpen
  <1> QED BY <1>5, <1>6

(* observe, absence of loss.                                               *)
LEMMA AbsenceKeeps ==
    ASSUME TrackerSafe, life' = life, NEW b \in Bindings, ObserveAbsence(b)
    PROVE  TrackerSafe' /\ Frozen
  <1> DEFINE chosen == {e \in episodes : e.id \in Tracked(b)}
  <1>1. /\ episodes' = {IF e \in chosen THEN [e EXCEPT !.state = "ClosedByAbsence"] ELSE e :
                           e \in episodes}
        /\ openIndex' = Untracked(openIndex, {b})
        /\ evicted' = evicted
    BY DEF ObserveAbsence, Changed
  <1>2. \A e \in chosen : IsOpen(e) /\ e.id \notin openIndex'
    BY <1>1, TrackedIsOpen DEF Tracked, Untracked
  <1>3. openIndex' \subseteq openIndex
    BY <1>1 DEF Untracked
  <1>4. chosen \subseteq episodes /\ "ClosedByAbsence" \in EpisodeStates
    BY DEF EpisodeStates
  <1> HIDE DEF chosen
  <1> QED BY <1>1, <1>2, <1>3, <1>4, ClosingKeeps

LEMMA CloseIdleKeeps ==
    ASSUME TrackerSafe, life' = life, NEW now \in Instants, CloseIdle(now)
    PROVE  TrackerSafe' /\ Frozen
  <1> DEFINE idle == {e \in Opened(episodes) : now - e.last > IdleTimeout}
  <1>1. /\ episodes' = {IF e \in idle THEN [e EXCEPT !.state = "ClosedByIdle"] ELSE e :
                           e \in episodes}
        /\ openIndex' = Untracked(openIndex, {e.id.binding : e \in idle})
        /\ evicted' = evicted
    BY DEF CloseIdle, Changed
  <1>2. \A e \in idle : IsOpen(e) /\ e.id \notin openIndex'
    BY <1>1 DEF Untracked, Opened
  <1>3. openIndex' \subseteq openIndex
    BY <1>1 DEF Untracked
  <1>4. idle \subseteq episodes /\ "ClosedByIdle" \in EpisodeStates
    BY DEF EpisodeStates, Opened
  <1> HIDE DEF idle
  <1> QED BY <1>1, <1>2, <1>3, <1>4, ClosingKeeps

(* seal_all leaves nothing open.                                           *)
LEMMA SealAllKeeps ==
    ASSUME TrackerSafe, life' = life,
           NEW s \in EpisodeStates, s # "Open", SealAll(s)
    PROVE  TrackerSafe' /\ Frozen /\ Opened(episodes') = {}
  <1>1. /\ episodes' = {IF e \in Opened(episodes) THEN [e EXCEPT !.state = s] ELSE e :
                           e \in episodes}
        /\ openIndex' = {}
        /\ evicted' = evicted
    BY DEF SealAll, Changed
  <1>2. Opened(episodes) \subseteq episodes /\ \A e \in Opened(episodes) : IsOpen(e)
    BY DEF Opened
  <1> QED BY <1>1, <1>2, ClosingKeeps

(* restore of a record into a history where nothing is open.               *)
LEMMA RestoreKeeps ==
    ASSUME TrackerSafe, life' = life, Opened(episodes) = {}, openIndex = {},
           NEW e \in LossEpisode, Restore(e)
    PROVE  TrackerSafe' /\ Frozen /\ Opened(episodes') = {} /\ openIndex' = {}
  <1>1. TrackerInv /\ IndexInv /\ NothingResumes
    BY DEF TrackerSafe
  <1>2. CASE e.id \in IdsOf(episodes)
    <2>1. episodes' = episodes /\ openIndex' = openIndex /\ evicted' = evicted
      BY <1>2 DEF Restore, trackerVars
    <2> QED BY <2>1, <1>1
            DEF TrackerSafe, TrackerInv, IndexInv, NothingResumes, Frozen, Opened, IsOpen
  <1>3. CASE e.id \notin IdsOf(episodes)
    <2> DEFINE s     == Sealed(e)
               group == episodes \cup {s}
    <2>1. Settle(group, openIndex)
      BY <1>3 DEF Restore
    <2>2. s \in LossEpisode /\ s.id = e.id /\ IsClosed(s)
      BY DEF Sealed, LossEpisode, EpisodeStates, IsOpen, IsClosed
    <2> HIDE DEF s
    <2>3. group \subseteq LossEpisode /\ IsFiniteSet(group)
      BY <1>1, <2>2, FS_AddElement DEF TrackerInv
    <2>4. \A x, y \in group : x.id = y.id => x = y
      BY <1>1, <1>3, <2>2 DEF TrackerInv, IdsOf
    <2>5. Opened(group) = {}
      BY <2>2 DEF Opened, IsClosed
    <2>6. /\ TrackerSafe' /\ episodes' \subseteq group
          /\ openIndex' \subseteq openIndex
          /\ Opened(episodes') = {}
      <3>1. evicted \in Nat
        BY <1>1 DEF TrackerInv
      <3> HIDE DEF group
      <3> QED BY <3>1, <2>1, <2>3, <2>4, <2>5, SettleKeeps
    <2>7. Frozen
      BY <2>4, <2>6 DEF Frozen
    <2> QED BY <2>6, <2>7
  <1> QED BY <1>2, <1>3

-----------------------------------------------------------------------------
(* What an operation of the journal keeps.                                 *)

(* The journal stays well formed, and what is on disk stays.               *)
DiskStays == JournalInv' /\ IsPrefix(OnDisk, file')

(* A sequence that agrees with the file on what is flushed has it as a     *)
(* prefix.                                                                 *)
LEMMA DiskIsPrefix ==
    ASSUME JournalInv, NEW new \in Seq(Records), flushed <= Len(new),
           \A k \in 1..flushed : new[k] = file[k]
    PROVE  IsPrefix(OnDisk, new) /\ SubSeq(new, 1, flushed) = OnDisk
  <1>1. /\ file \in Seq(Records) /\ Len(file) \in Nat /\ Len(new) \in Nat
        /\ flushed \in 0..Len(file)
    BY DEF JournalInv
  <1>2. /\ SubSeq(file, 1, flushed) \in Seq(Records)
        /\ SubSeq(new, 1, flushed) \in Seq(Records)
        /\ Len(SubSeq(file, 1, flushed)) = flushed
        /\ Len(SubSeq(new, 1, flushed)) = flushed
        /\ \A k \in 1..flushed : SubSeq(file, 1, flushed)[k] = file[k]
        /\ \A k \in 1..flushed : SubSeq(new, 1, flushed)[k] = new[k]
    BY <1>1
  <1>3. SubSeq(new, 1, flushed) = SubSeq(file, 1, flushed)
    BY <1>2, SeqEqual
  <1>4. SubSeq(OnDisk, 1, flushed) = OnDisk
    <2>1. OnDisk \in Seq(Records) /\ Len(OnDisk) = flushed
      BY <1>2 DEF OnDisk
    <2> QED BY <2>1, <1>1
  <1> QED BY <1>1, <1>2, <1>3, <1>4 DEF IsPrefix, OnDisk

(* What is appended to the file is not flushed yet.                        *)
LEMMA AppendKeeps ==
    ASSUME JournalInv, NEW more \in Seq(Records), file' = file \o more,
           flushed' = flushed, stream' \in Streams
    PROVE  DiskStays
  <1>1. /\ file \in Seq(Records) /\ Len(file) \in Nat /\ Len(more) \in Nat
        /\ flushed \in 0..Len(file)
    BY DEF JournalInv
  <1>2. /\ file' \in Seq(Records)
        /\ Len(file') = Len(file) + Len(more)
        /\ \A k \in 1..flushed : file'[k] = file[k]
    BY <1>1
  <1>3. flushed <= Len(file') /\ flushed' \in 0..Len(file')
    BY <1>1, <1>2
  <1>4. IsPrefix(OnDisk, file')
    BY <1>2, <1>3, DiskIsPrefix
  <1> QED BY <1>2, <1>3, <1>4 DEF DiskStays, JournalInv

(* The records of episodes are records.                                    *)
LEMMA EntriesAreRecords ==
    ASSUME NEW bodies \in Seq(LossEpisode)
    PROVE  /\ Entries(bodies) \in Seq(Records)
           /\ Len(Entries(bodies)) = Len(bodies)
           /\ \A k \in 1..Len(bodies) : Entries(bodies)[k] = Entry(bodies[k])
  <1>1. Entries(bodies) = [k \in 1..Len(bodies) |-> Entry(bodies[k])]
    BY DEF Entries
  <1>2. \A k \in 1..Len(bodies) : Entry(bodies[k]) \in Records
    BY DEF Entry, Records
  <1> QED BY <1>1, <1>2

LEMMA AppendAllKeeps ==
    ASSUME JournalInv, NEW bodies \in Seq(LossEpisode), AppendAll(bodies)
    PROVE  DiskStays
  <1>1. flushed' = flushed /\ stream' = stream /\ stream \in Streams
    BY DEF AppendAll, JournalInv
  <1>2. CASE stream = "good"
    BY <1>1, <1>2, EntriesAreRecords, AppendKeeps DEF AppendAll
  <1>3. CASE stream # "good"
    <2>1. file' = file \o << >>
      BY <1>3 DEF AppendAll, JournalInv
    <2>2. << >> \in Seq(Records)
      OBVIOUS
    <2> QED BY <2>1, <2>2, <1>1, AppendKeeps
  <1> QED BY <1>2, <1>3

LEMMA OpenSessionKeeps ==
    ASSUME JournalInv, OpenSession
    PROVE  DiskStays
  <1>1. <<Session>> \in Seq(Records) /\ file' = file \o <<Session>>
    BY DEF OpenSession, JournalInv, Records
  <1>2. flushed' = flushed /\ stream' \in Streams
    BY DEF OpenSession, Streams
  <1> QED BY <1>1, <1>2, AppendKeeps

(* The file as it is, with more of it flushed.                             *)
LEMMA FlushingKeeps ==
    ASSUME JournalInv, file' = file, flushed' \in {flushed, Len(file)}, stream' \in Streams
    PROVE  DiskStays
  <1>1. /\ file \in Seq(Records) /\ Len(file) \in Nat
        /\ flushed \in 0..Len(file)
    BY DEF JournalInv
  <1>2. IsPrefix(OnDisk, file')
    BY <1>1, DiskIsPrefix
  <1> QED BY <1>1, <1>2 DEF DiskStays, JournalInv

(* What a failure leaves of the file: the flushed part, some of the rest,  *)
(* and perhaps half a record.                                              *)
LEMMA CutIs ==
    ASSUME JournalInv, NEW k \in flushed..Len(file)
    PROVE  \A new \in {SubSeq(file, 1, k), Append(SubSeq(file, 1, k), Torn)} :
              /\ new \in Seq(Records)
              /\ flushed <= Len(new)
              /\ \A i \in 1..flushed : new[i] = file[i]
  <1>1. /\ file \in Seq(Records) /\ Len(file) \in Nat
        /\ flushed \in 0..Len(file) /\ k \in 0..Len(file) /\ flushed <= k
    BY DEF JournalInv
  <1> DEFINE cut == SubSeq(file, 1, k)
  <1>2. /\ cut \in Seq(Records) /\ Len(cut) = k
        /\ \A i \in 1..k : cut[i] = file[i]
    BY <1>1
  <1> HIDE DEF cut
  <1>3. Torn \in Records
    BY DEF Records
  <1>4. /\ Append(cut, Torn) \in Seq(Records)
        /\ Len(Append(cut, Torn)) = k + 1
        /\ \A i \in 1..k : Append(cut, Torn)[i] = cut[i]
    BY <1>1, <1>2, <1>3
  <1>5. ASSUME NEW new \in {cut, Append(cut, Torn)}
        PROVE  /\ new \in Seq(Records)
               /\ flushed <= Len(new)
               /\ \A i \in 1..flushed : new[i] = file[i]
    <2>1. CASE new = cut
      BY <2>1, <1>1, <1>2
    <2>2. CASE new = Append(cut, Torn)
      BY <2>2, <1>1, <1>2, <1>4
    <2> QED BY <2>1, <2>2, <1>5
  <1> QED BY <1>5 DEF cut

LEMMA TailSettlesKeeps ==
    ASSUME JournalInv, TailSettles, stream' \in Streams
    PROVE  DiskStays
  <1>1. PICK k \in flushed..Len(file) :
            /\ file' \in {SubSeq(file, 1, k), Append(SubSeq(file, 1, k), Torn)}
            /\ flushed' = Len(file')
    BY DEF TailSettles
  <1>2. /\ file' \in Seq(Records) /\ flushed <= Len(file')
        /\ \A i \in 1..flushed : file'[i] = file[i]
    BY <1>1, CutIs
  <1>3. IsPrefix(OnDisk, file')
    BY <1>2, DiskIsPrefix
  <1>4. flushed' \in 0..Len(file')
    BY <1>1, <1>2
  <1> QED BY <1>2, <1>3, <1>4 DEF DiskStays, JournalInv

LEMMA WriteFailsKeeps ==
    ASSUME JournalInv, WriteFails
    PROVE  DiskStays /\ flushed' = flushed
  <1>1. PICK k \in flushed..Len(file) :
            file' \in {SubSeq(file, 1, k), Append(SubSeq(file, 1, k), Torn)}
    BY DEF WriteFails
  <1>2. /\ file' \in Seq(Records) /\ flushed <= Len(file')
        /\ \A i \in 1..flushed : file'[i] = file[i]
    BY <1>1, CutIs
  <1>3. IsPrefix(OnDisk, file')
    BY <1>2, DiskIsPrefix
  <1>4. flushed' = flushed /\ stream' \in Streams
    BY DEF WriteFails, Streams
  <1>5. flushed' \in 0..Len(file')
    BY <1>2, <1>4 DEF JournalInv
  <1> QED BY <1>2, <1>3, <1>4, <1>5 DEF DiskStays, JournalInv

(* A sequence of the history holds every episode, each at one position.    *)
LEMMA HistoryIs ==
    ASSUME TrackerInv, NEW history \in Histories
    PROVE  /\ history \in Seq(LossEpisode)
           /\ \A k \in 1..Len(history) : history[k] \in episodes
           /\ \A e \in episodes : \E k \in 1..Len(history) : history[k] = e
           /\ \A j, k \in 1..Len(history) : history[j] = history[k] => j = k
  <1> DEFINE size == Cardinality(episodes)
  <1>1. episodes \subseteq LossEpisode /\ IsFiniteSet(episodes)
    BY DEF TrackerInv
  <1>2. size \in Nat
    BY <1>1, FS_CardinalityType
  <1> HIDE DEF size
  <1>3. /\ history \in [1..size -> episodes]
        /\ \A j, k \in 1..size : j # k => history[j] # history[k]
    BY DEF Histories, SetToSeqs, size
  <1>4. history \in Seq(LossEpisode) /\ Len(history) = size
    BY <1>1, <1>2, <1>3
  <1>5. history \in Injection(1..size, episodes)
    BY <1>3 DEF Injection, IsInjective
  <1>6. Cardinality(1..size) = size
    BY <1>2, FS_Interval
  <1>7. history \in Surjection(1..size, episodes)
    BY <1>1, <1>5, <1>6, FS_Injection DEF size
  <1>8. \A e \in episodes : \E k \in 1..size : history[k] = e
    BY <1>7 DEF Surjection
  <1> QED BY <1>3, <1>4, <1>8

(* A compaction leaves nothing unreadable, and nothing retained behind.    *)
LEMMA CompactKeeps ==
    ASSUME TrackerInv, NEW history \in Histories, Compact(history)
    PROVE  JournalInv' /\ episodes \subseteq Bodies(Readable(file'))
  <1> DEFINE written == Entries(history)
  <1>1. /\ history \in Seq(LossEpisode)
        /\ \A e \in episodes : \E k \in 1..Len(history) : history[k] = e
    BY HistoryIs
  <1>2. /\ written \in Seq(Records)
        /\ Len(written) = Len(history)
        /\ \A k \in 1..Len(history) : written[k] = Entry(history[k])
    BY <1>1, EntriesAreRecords
  <1> HIDE DEF written
  <1>3. <<Session>> \in Seq(Records) /\ Len(<<Session>>) = 1
    BY DEF Records
  <1>4. /\ file' \in Seq(Records)
        /\ Len(file') = Len(history) + 1
        /\ file'[1] = Session
        /\ \A k \in 1..Len(history) : file'[k + 1] = Entry(history[k])
    <2>1. file' = <<Session>> \o written
      BY DEF Compact, written
    <2>2. Len(history) \in Nat
      BY <1>1
    <2> QED BY <2>1, <2>2, <1>2, <1>3
  <1>5. flushed' \in 0..Len(file') /\ stream' \in Streams
    BY <1>4 DEF Compact, Streams
  <1>6. \A k \in 1..Len(file') : file'[k] # Torn
    <2>1. SUFFICES ASSUME NEW k \in 1..Len(file'), file'[k] = Torn
                   PROVE  FALSE
      OBVIOUS
    <2>2. CASE k = 1
      BY <2>1, <2>2, <1>4 DEF Session, Torn
    <2>3. CASE k # 1
      <3>1. k - 1 \in 1..Len(history) /\ (k - 1) + 1 = k
        BY <2>3, <1>1, <1>4
      <3>2. file'[k] = Entry(history[k - 1])
        BY <3>1, <1>4
      <3> QED BY <3>2, <2>1 DEF Entry, Torn
    <2> QED BY <2>2, <2>3
  <1>7. Readable(file') = file'
    <2>1. PICK n \in 0..Len(file') :
              /\ Readable(file') = SubSeq(file', 1, n)
              /\ n < Len(file') => file'[n + 1] = Torn
      BY <1>4, ReadableIs
    <2>2. n = Len(file')
      BY <2>1, <1>6, <1>4
    <2> QED BY <2>1, <2>2, <1>4
  <1>8. ASSUME NEW e \in episodes
        PROVE  e \in Bodies(file')
    <2>1. PICK k \in 1..Len(history) : history[k] = e
      BY <1>1
    <2>2. /\ k + 1 \in DOMAIN file'
          /\ file'[k + 1] = Entry(e)
      BY <2>1, <1>1, <1>4
    <2>3. Entry(e) \in ToSet(file')
      BY <2>2 DEF ToSet
    <2>4. Entry(e).kind = "entry" /\ Entry(e).body = e
      BY DEF Entry
    <2> QED BY <2>3, <2>4 DEF Bodies
  <1> QED BY <1>4, <1>5, <1>7, <1>8 DEF JournalInv

(* persist keeps what is on disk, or replaces it by all that is retained.  *)
LEMMA PersistedKeeps ==
    ASSUME TrackerInv, JournalInv, ProcessInv, NEW ok \in BOOLEAN, Persisted(ok)
    PROVE  /\ JournalInv'
           /\ \/ IsPrefix(OnDisk, file')
              \/ episodes \subseteq Bodies(Readable(file'))
           /\ events' \in 0..MaxEvents
  <1>1. events' \in 0..MaxEvents
    <2>1. events' = events \/ Event
      BY DEF Persisted
    <2> QED BY <2>1, Parameters DEF Event, ProcessInv
  <1>2. CASE \E history \in Histories : Compact(history)
    BY <1>1, <1>2, CompactKeeps
  <1>3. CASE CompactionFails
    <2>1. CASE UNCHANGED journalVars
      <3>1. file' = file /\ flushed' = flushed /\ stream' \in Streams
        BY <2>1 DEF journalVars, JournalInv
      <3> QED BY <3>1, <1>1, FlushingKeeps DEF DiskStays
    <2>2. CASE TailSettles /\ stream' \in Streams
      BY <2>2, <1>1, TailSettlesKeeps DEF DiskStays
    <2> QED BY <2>1, <2>2, <1>3 DEF CompactionFails
  <1>4. CASE Flush
    <2>1. file' = file /\ flushed' \in {flushed, Len(file)} /\ stream' \in Streams
      BY <1>4 DEF Flush, JournalInv
    <2> QED BY <2>1, <1>1, FlushingKeeps DEF DiskStays
  <1> QED BY <1>2, <1>3, <1>4 DEF Persisted

-----------------------------------------------------------------------------
(* The invariant is kept, part by part.                                    *)

(* What load reads is a record, and a recorded episode is an episode.      *)
LEMMA DiskIsRecords ==
    ASSUME JournalInv
    PROVE  /\ OnDisk \in Seq(Records)
           /\ Readable(OnDisk) \in Seq(Records)
           /\ Len(Readable(OnDisk)) \in Nat
           /\ \A k \in 1..Len(Readable(OnDisk)) :
                 /\ Readable(OnDisk)[k] \in Records
                 /\ Readable(OnDisk)[k].kind = "entry" =>
                       Readable(OnDisk)[k].body \in LossEpisode
  <1>1. OnDisk \in Seq(Records)
    BY DEF JournalInv, OnDisk
  <1>2. Readable(OnDisk) \in Seq(Records)
    <2>1. PICK n \in 0..Len(OnDisk) : Readable(OnDisk) = SubSeq(OnDisk, 1, n)
      BY <1>1, ReadableIs
    <2> QED BY <1>1, <2>1
  <1>3. ASSUME NEW r \in Records, r.kind = "entry"
        PROVE  r.body \in LossEpisode
    BY <1>3 DEF Records, Session, Torn
  <1> QED BY <1>1, <1>2, <1>3

LEMMA TrackerStays ==
    ASSUME TrackerSafe, UNCHANGED trackerVars, life' = life \/ episodes = {}
    PROVE  TrackerSafe' /\ Frozen /\ Opened(episodes') = Opened(episodes)
  BY DEF TrackerSafe, TrackerInv, IndexInv, NothingResumes, Frozen, trackerVars,
         Opened, IsOpen

(* The tracker, and what is closed in it, at every step.                   *)
LEMMA TrackerKept ==
    ASSUME IInv, [Next]_vars
    PROVE  TrackerSafe' /\ (pc' # "down" => Frozen)
  <1>1. /\ TrackerSafe /\ life \in Nat
        /\ TrackerInv /\ JournalInv /\ StartingInv /\ RecoveryInv
    BY DEF IInv, TrackerSafe, ProcessInv
  <1>2. CASE UNCHANGED trackerVars /\ life' = life
    BY <1>1, <1>2, TrackerStays
  <1>3. CASE Start
    <2>1. UNCHANGED trackerVars /\ episodes = {}
      BY <1>1, <1>3 DEF Start, StartingInv
    <2> QED BY <2>1, <1>1, TrackerStays
  <1>4. CASE Load
    <2>1. /\ life' = life /\ Opened(episodes) = {} /\ openIndex = {}
          /\ cursor \in 1..Len(Readable(OnDisk))
      BY <1>1, <1>4, DiskIsRecords DEF Load, StartingInv, RecoveryInv, Up, Loaded
    <2>2. CASE IsRestored(Readable(OnDisk), cursor)
      <3>1. /\ Restore(Readable(OnDisk)[cursor].body)
            /\ Readable(OnDisk)[cursor].body \in LossEpisode
        BY <1>1, <1>4, <2>1, <2>2, DiskIsRecords DEF Load, IsRestored
      <3> QED BY <3>1, <2>1, <1>1, RestoreKeeps
    <2>3. CASE ~ IsRestored(Readable(OnDisk), cursor)
      BY <1>1, <1>4, <2>1, <2>3, TrackerStays DEF Load
    <2> QED BY <2>2, <2>3
  <1>5. ASSUME NEW t \in Threads, Classify(t)
        PROVE  TrackerSafe' /\ Frozen
    <2>1. life' = life
      BY <1>5 DEF Classify
    <2>2. PICK b \in Bindings, at \in Instants :
              \/ ObserveFirstLoss(b, at, life)
              \/ ObserveMoreLoss(b, at) \/ ObserveAbsence(b) \/ ObserveNeither(b)
      BY <1>5 DEF Classify
    <2>3. CASE ObserveNeither(b)
      BY <1>1, <2>1, <2>3, TrackerStays DEF ObserveNeither
    <2> QED BY <1>1, <2>1, <2>2, <2>3, FirstLossKeeps, MoreLossKeeps, AbsenceKeeps
  <1>6. CASE StopClosesIdle
    BY <1>1, <1>6, CloseIdleKeeps DEF StopClosesIdle
  <1>7. CASE StopSeals
    <2>1. "ClosedExplicitly" \in EpisodeStates
      BY DEF EpisodeStates
    <2> QED BY <1>1, <1>7, <2>1, SealAllKeeps DEF StopSeals
  <1>8. CASE ProcessEnds
    <2>1. pc' = "down" /\ episodes' = {} /\ openIndex' = {} /\ evicted' = 0
      BY <1>8 DEF ProcessEnds
    <2>2. TrackerInv'
      BY <2>1, FS_EmptySet DEF TrackerInv
    <2>3. IndexInv' /\ NothingResumes'
      BY <2>1 DEF IndexInv, NothingResumes, Opened
    <2> QED BY <2>1, <2>2, <2>3 DEF TrackerSafe
  <1>9. \/ UNCHANGED trackerVars /\ life' = life
        \/ Start \/ Load \/ StopClosesIdle \/ StopSeals \/ ProcessEnds
        \/ \E t \in Threads : Classify(t)
    BY DEF Next, vars, processVars, StartFlushes, LoadEnds, FindEpisode, JournalEpisode,
           Persist, StopPersists, StopAppends, StopCloses, StreamFails, Ended
  <1> QED BY <1>2, <1>3, <1>4, <1>5, <1>6, <1>7, <1>8, <1>9

(* The journal at every step: it keeps what is on disk, or a compaction    *)
(* has replaced it.                                                        *)
LEMMA JournalKept ==
    ASSUME IInv, [Next]_vars
    PROVE  /\ JournalInv'
           /\ \/ IsPrefix(OnDisk, file')
              \/ /\ pc \in {"running", "sealed"} /\ pc' # "down"
                 /\ episodes \subseteq Bodies(Readable(file'))
  <1>1. TrackerInv /\ JournalInv /\ ProcessInv /\ ThreadInv
    BY DEF IInv
  <1>2. CASE UNCHANGED journalVars
    <2>1. file' = file /\ flushed' \in {flushed, Len(file)} /\ stream' \in Streams
      BY <1>1, <1>2 DEF journalVars, JournalInv
    <2> QED BY <2>1, <1>1, FlushingKeeps DEF DiskStays
  <1>3. CASE Start
    BY <1>1, <1>3, OpenSessionKeeps DEF Start, DiskStays
  <1>4. CASE StartFlushes \/ StopCloses
    <2>1. file' = file /\ flushed' \in {flushed, Len(file)} /\ stream' \in Streams
      BY <1>1, <1>4 DEF StartFlushes, StopCloses, Flush, Close, JournalInv, Streams
    <2> QED BY <2>1, <1>1, FlushingKeeps DEF DiskStays
  <1>5. ASSUME NEW t \in Threads, JournalEpisode(t)
        PROVE  DiskStays
    <2>1. PICK e \in writing[t] : AppendAll(<<e>>)
      BY <1>5 DEF JournalEpisode
    <2>2. <<e>> \in Seq(LossEpisode)
      BY <1>1 DEF ThreadInv
    <2> QED BY <1>1, <2>1, <2>2, AppendAllKeeps
  <1>6. CASE Persist \/ StopPersists
    <2>1. /\ \E ok \in BOOLEAN : Persisted(ok)
          /\ pc \in {"running", "sealed"} /\ pc' # "down"
      BY <1>6 DEF Persist, StopPersists
    <2> QED BY <1>1, <2>1, PersistedKeeps
  <1>7. CASE StopAppends
    <2>1. PICK history \in Histories : AppendAll(history)
      BY <1>7 DEF StopAppends
    <2> QED BY <1>1, <2>1, HistoryIs, AppendAllKeeps DEF DiskStays
  <1>8. CASE StreamFails
    BY <1>1, <1>8, WriteFailsKeeps DEF StreamFails, DiskStays
  <1>9. CASE ProcessEnds
    <2>1. TailSettles /\ stream' \in Streams
      BY <1>9 DEF ProcessEnds, LoseTail, Streams
    <2> QED BY <1>1, <2>1, TailSettlesKeeps DEF DiskStays
  <1>10. \/ UNCHANGED journalVars
         \/ Start \/ StartFlushes \/ Persist \/ StopPersists \/ StopAppends \/ StopCloses
         \/ StreamFails \/ ProcessEnds
         \/ \E t \in Threads : JournalEpisode(t)
    BY DEF Next, vars, Load, LoadEnds, Classify, FindEpisode, StopClosesIdle, StopSeals, Ended
  <1> QED BY <1>2, <1>3, <1>4, <1>5, <1>6, <1>7, <1>8, <1>9, <1>10 DEF DiskStays

(* The flags, apart from the counters.                                     *)
LEMMA FlagsKept ==
    ASSUME clean \in BOOLEAN, raced \in BOOLEAN, [Next]_vars
    PROVE  clean' \in BOOLEAN /\ raced' \in BOOLEAN
  <1>1. CASE UNCHANGED <<clean, raced>>
    BY <1>1
  <1>2. ASSUME NEW t \in Threads, Classify(t) \/ FindEpisode(t) \/ JournalEpisode(t)
        PROVE  clean' \in BOOLEAN /\ raced' \in BOOLEAN
    <2>1. clean' = clean
      BY <1>2, Zenon DEF Classify, FindEpisode, JournalEpisode
    <2>2. raced' = (raced \/ pc # "running")
      BY <1>2, Zenon DEF Classify, FindEpisode, JournalEpisode, Racing
    <2> QED BY <2>1, <2>2
  <1>3. CASE StopPersists
    BY <1>3 DEF StopPersists
  <1>4. CASE StopAppends
    BY <1>4 DEF StopAppends
  <1>5. CASE StopCloses
    BY <1>5 DEF StopCloses
  <1>6. CASE ProcessEnds
    BY <1>6 DEF ProcessEnds
  <1>7. \/ UNCHANGED <<clean, raced>>
        \/ StopPersists \/ StopAppends \/ StopCloses \/ ProcessEnds
        \/ \E t \in Threads : Classify(t) \/ FindEpisode(t) \/ JournalEpisode(t)
    BY DEF Next, vars, processVars, Start, StartFlushes, Load, LoadEnds, Persist,
           StopClosesIdle, StopSeals, StreamFails, Ended
  <1> QED BY <1>1, <1>2, <1>3, <1>4, <1>5, <1>6, <1>7

LEMMA ProcessKept ==
    ASSUME IInv, [Next]_vars
    PROVE  ProcessInv'
  <1>1. TrackerInv /\ JournalInv /\ ProcessInv
    BY DEF IInv
  <1>2. clean' \in BOOLEAN /\ raced' \in BOOLEAN
    BY <1>1, FlagsKept DEF ProcessInv
  <1>3. events' \in 0..MaxEvents
    <2>1. CASE events' = events \/ Event
      BY <2>1, <1>1, Parameters DEF ProcessInv, Event
    <2>2. CASE \E ok \in BOOLEAN : Persisted(ok)
      BY <1>1, <2>2, PersistedKeeps
    <2>3. events' = events \/ Event \/ \E ok \in BOOLEAN : Persisted(ok)
      BY DEF Next, vars, processVars, Start, StartFlushes, Load, LoadEnds, Classify,
             FindEpisode, JournalEpisode, Persist, StopClosesIdle, StopSeals,
             StopPersists, StopAppends, StopCloses, StreamFails, ProcessEnds, Ended
    <2> QED BY <2>1, <2>2, <2>3
  <1>4. life' \in 0..MaxLives
    <2>1. life' = life \/ (life < MaxLives /\ life' = life + 1)
      BY DEF Next, vars, processVars, Start, StartFlushes, Load, LoadEnds, Classify,
             FindEpisode, JournalEpisode, Persist, StopClosesIdle, StopSeals,
             StopPersists, StopAppends, StopCloses, StreamFails, ProcessEnds, Ended
    <2> QED BY <2>1, <1>1, Parameters DEF ProcessInv
  <1>5. cursor' \in Nat
    <2>1. cursor' \in {cursor, cursor + 1, 1}
      BY DEF Next, vars, processVars, Start, StartFlushes, Load, LoadEnds, Classify,
             FindEpisode, JournalEpisode, Persist, StopClosesIdle, StopSeals,
             StopPersists, StopAppends, StopCloses, StreamFails, ProcessEnds, Ended
    <2> QED BY <2>1, <1>1 DEF ProcessInv
  <1>6. pc' \in Phases
    <2>1. pc' = pc \/ pc' \in Phases
      BY DEF Next, vars, processVars, Start, StartFlushes, Load, LoadEnds, Classify,
             FindEpisode, JournalEpisode, Persist, StopClosesIdle, StopSeals,
             StopPersists, StopAppends, StopCloses, StreamFails, ProcessEnds, Ended,
             Phases, Up
    <2> QED BY <2>1, <1>1 DEF ProcessInv
  <1> QED BY <1>2, <1>3, <1>4, <1>5, <1>6 DEF ProcessInv

(* A thread that recorded holds one identity, then one copy.               *)
LEMMA ThreadKept ==
    ASSUME IInv, [Next]_vars
    PROVE  ThreadInv'
  <1>1. TrackerInv /\ ThreadInv
    BY DEF IInv
  <1>2. CASE UNCHANGED threadVars
    BY <1>1, <1>2 DEF threadVars, ThreadInv
  <1>3. ASSUME NEW t \in Threads, Classify(t)
        PROVE  ThreadInv'
    <2>1. PICK b \in Bindings, at \in Instants :
              \/ looking' = [looking EXCEPT ![t] = {FreshId(b, at)}]
              \/ looking' = [looking EXCEPT ![t] = Tracked(b)]
      BY <1>3 DEF Classify
    <2>2. writing' = writing /\ looking[t] = {} /\ writing[t] = {}
      BY <1>3 DEF Classify, Idle
    <2>3. FreshId(b, at) \in EpisodeId
      BY <1>1, FreshIdIsFree DEF TrackerInv
    <2>4. /\ Tracked(b) \subseteq EpisodeId
          /\ \A i, j \in Tracked(b) : i = j
      BY <1>1 DEF TrackerInv, Tracked
    <2>5. PICK held \in SUBSET EpisodeId : /\ looking' = [looking EXCEPT ![t] = held]
                                           /\ \A i, j \in held : i = j
      BY <2>1, <2>3, <2>4
    <2> QED BY <2>2, <2>5, <1>1 DEF ThreadInv
  <1>4. ASSUME NEW t \in Threads, FindEpisode(t)
        PROVE  ThreadInv'
    <2> DEFINE found == {e \in episodes : e.id \in looking[t]}
    <2>1. /\ writing' = [writing EXCEPT ![t] = found]
          /\ looking' = [looking EXCEPT ![t] = {}]
      BY <1>4 DEF FindEpisode
    <2>2. found \subseteq LossEpisode /\ \A e, f \in found : e = f
      BY <1>1 DEF TrackerInv, ThreadInv
    <2> HIDE DEF found
    <2> QED BY <2>1, <2>2, <1>1 DEF ThreadInv
  <1>5. ASSUME NEW t \in Threads, JournalEpisode(t)
        PROVE  ThreadInv'
    <2>1. looking' = looking /\ writing' = [writing EXCEPT ![t] = {}]
      BY <1>5 DEF JournalEpisode
    <2> QED BY <2>1, <1>1 DEF ThreadInv
  <1>6. CASE ProcessEnds
    BY <1>6 DEF ProcessEnds, ThreadInv
  <1>7. \/ UNCHANGED threadVars
        \/ ProcessEnds
        \/ \E t \in Threads : Classify(t) \/ FindEpisode(t) \/ JournalEpisode(t)
    BY DEF Next, vars, Start, StartFlushes, Load, LoadEnds, Persist, StopClosesIdle,
           StopSeals, StopPersists, StopAppends, StopCloses, StreamFails, Ended
  <1> QED BY <1>2, <1>3, <1>4, <1>5, <1>6, <1>7

LEMMA StartingKept ==
    ASSUME IInv, [Next]_vars
    PROVE  StartingInv'
  <1>1. TrackerSafe /\ JournalInv /\ StartingInv /\ RecoveryInv
    BY DEF IInv, TrackerSafe
  <1>2. CASE UNCHANGED <<episodes, openIndex, pc, cursor>>
    <2>1. Opened(episodes') = Opened(episodes)
      BY <1>2 DEF Opened, IsOpen
    <2> QED BY <1>1, <1>2, <2>1 DEF StartingInv
  <1>3. CASE pc' \in Up
    BY <1>3 DEF StartingInv, Up
  <1>4. CASE Start
    <2>1. UNCHANGED <<episodes, openIndex, cursor>> /\ pc = "down" /\ pc' = "opening"
      BY <1>4 DEF Start, trackerVars
    <2>2. Opened(episodes') = Opened(episodes)
      BY <2>1 DEF Opened, IsOpen
    <2> QED BY <1>1, <2>1, <2>2 DEF StartingInv, Up
  <1>5. CASE StartFlushes
    <2>1. UNCHANGED <<episodes, openIndex>> /\ pc = "opening" /\ pc' = "loading"
      BY <1>5 DEF StartFlushes, trackerVars
    <2>2. Opened(episodes') = Opened(episodes)
      BY <2>1 DEF Opened, IsOpen
    <2> QED BY <1>1, <2>1, <2>2 DEF StartingInv, Up
  <1>6. CASE Load
    <2>1. /\ life' = life /\ Opened(episodes) = {} /\ openIndex = {}
          /\ pc' = "loading"
          /\ cursor \in 1..Len(Readable(OnDisk))
      BY <1>1, <1>6, DiskIsRecords DEF Load, StartingInv, RecoveryInv, Up, Loaded
    <2>2. CASE IsRestored(Readable(OnDisk), cursor)
      <3>1. /\ Restore(Readable(OnDisk)[cursor].body)
            /\ Readable(OnDisk)[cursor].body \in LossEpisode
        BY <1>1, <1>6, <2>1, <2>2, DiskIsRecords DEF Load, IsRestored
      <3> QED BY <3>1, <2>1, <1>1, RestoreKeeps DEF StartingInv
    <2>3. CASE ~ IsRestored(Readable(OnDisk), cursor)
      <3>1. UNCHANGED trackerVars
        BY <1>6, <2>1, <2>3 DEF Load
      <3>2. Opened(episodes') = {} /\ openIndex' = {}
        BY <3>1, <2>1, <1>1, TrackerStays DEF trackerVars
      <3> QED BY <3>2, <2>1 DEF StartingInv
    <2> QED BY <2>2, <2>3
  <1>7. CASE ProcessEnds
    BY <1>7 DEF ProcessEnds, StartingInv, Opened
  <1>8. \/ UNCHANGED <<episodes, openIndex, pc, cursor>>
        \/ pc' \in Up
        \/ Start \/ StartFlushes \/ Load \/ ProcessEnds
    BY DEF Next, vars, processVars, trackerVars, LoadEnds, Classify, FindEpisode,
           JournalEpisode, Persist, StopClosesIdle, StopSeals, StopPersists, StopAppends,
           StopCloses, StreamFails, Ended, Up
  <1> QED BY <1>2, <1>3, <1>4, <1>5, <1>6, <1>7, <1>8

(* Where the file grows and what it describes does not change, the rest of *)
(* the file must not speak of it again.                                    *)
LEMMA HistoryIsDescribed ==
    ASSUME TrackerInv, file \in Seq(Records), NEW history \in Histories,
           file' = file \o Entries(history), episodes' = episodes
    PROVE  Described(file)'
  <1> DEFINE written == Entries(history)
  <1>1. /\ history \in Seq(LossEpisode)
        /\ \A k \in 1..Len(history) : history[k] \in episodes
        /\ \A e \in episodes : \E k \in 1..Len(history) : history[k] = e
        /\ \A j, k \in 1..Len(history) : history[j] = history[k] => j = k
    BY HistoryIs
  <1>2. /\ written \in Seq(Records)
        /\ Len(written) = Len(history)
        /\ \A k \in 1..Len(history) : written[k] = Entry(history[k])
    BY <1>1, EntriesAreRecords
  <1> HIDE DEF written
  <1> DEFINE base == Len(file)
  <1>3. /\ base \in Nat /\ Len(history) \in Nat
        /\ DOMAIN file' = 1..(base + Len(history))
        /\ \A k \in 1..Len(history) : file'[base + k] = Entry(history[k])
    <2>1. base \in Nat /\ Len(history) \in Nat
      BY <1>1
    <2>2. file' = file \o written
      BY DEF written
    <2>3. file' \in Seq(Records) /\ Len(file') = base + Len(history)
      <3>1. /\ (file \o written) \in Seq(Records)
            /\ Len(file \o written) = Len(file) + Len(written)
        BY <1>2
      <3> QED BY <3>1, <2>2, <1>2
    <2>4. ASSUME NEW k \in 1..Len(history)
          PROVE  file'[base + k] = Entry(history[k])
      <3>1. /\ base + k \in 1..(Len(file) + Len(written))
            /\ ~(base + k <= Len(file))
            /\ base + k - Len(file) = k
        BY <2>1, <1>2
      <3>2. (file \o written)[base + k] = written[base + k - Len(file)]
        BY <3>1, <1>2, ConcatProperties
      <3> QED BY <3>1, <3>2, <2>2, <1>2
    <2> QED BY <2>1, <2>3, <2>4
  <1> HIDE DEF base
  <1>4. ASSUME NEW e \in episodes
        PROVE  \E k \in DOMAIN file' :
                  /\ file'[k] = Entry(e)
                  /\ \A j \in DOMAIN file' :
                        j > k /\ file'[j].kind = "entry" => file'[j].body.id # e.id
    <2>1. PICK p \in 1..Len(history) : history[p] = e
      BY <1>1
    <2>2. base + p \in DOMAIN file' /\ file'[base + p] = Entry(e)
      BY <2>1, <1>3
    <2>3. ASSUME NEW j \in DOMAIN file', j > base + p
          PROVE  file'[j].body.id # e.id
      <3>1. /\ j - base \in 1..Len(history) /\ j - base # p
            /\ base + (j - base) = j
        BY <2>3, <1>3
      <3>2. file'[j] = Entry(history[j - base])
        BY <3>1, <1>3
      <3>3. history[j - base] \in episodes /\ history[j - base] # e
        BY <3>1, <2>1, <1>1
      <3>4. file'[j].body = history[j - base]
        BY <3>2 DEF Entry
      <3> QED BY <3>3, <3>4 DEF TrackerInv
    <2> QED BY <2>2, <2>3
  <1> QED BY <1>4 DEF Described

LEMMA StoppingKept ==
    ASSUME IInv, [Next]_vars
    PROVE  StoppingInv'
  <1> DEFINE late == {"sealed", "persisted", "appended", "stopped"}
  <1>1. /\ TrackerSafe /\ TrackerInv /\ JournalInv /\ StoppingInv
        /\ file \in Seq(Records)
    BY DEF IInv, TrackerSafe, JournalInv
  <1>2. CASE UNCHANGED vars
    <2>1. UNCHANGED <<episodes, file, flushed, stream, pc, clean, raced>>
      BY <1>2 DEF vars, trackerVars, journalVars, processVars
    <2> QED BY <2>1, <1>1 DEF StoppingInv, Opened, IsOpen, Described
  <1>3. CASE pc' \notin late
    BY <1>3 DEF StoppingInv
  <1>4. ASSUME NEW t \in Threads, Classify(t) \/ FindEpisode(t) \/ JournalEpisode(t)
        PROVE  StoppingInv'
    <2>1. pc' = pc /\ stream' = stream
      BY <1>4 DEF Classify, FindEpisode, JournalEpisode, AppendAll, journalVars
    <2>2. raced' = (raced \/ pc # "running")
      BY <1>4, Zenon DEF Classify, FindEpisode, JournalEpisode, Racing
    <2>3. CASE pc = "running"
      BY <2>1, <2>3 DEF StoppingInv
    <2>4. CASE pc # "running"
      BY <2>1, <2>2, <2>4, <1>1 DEF StoppingInv
    <2> QED BY <2>3, <2>4
  <1>5. CASE StopSeals
    <2>1. "ClosedExplicitly" \in EpisodeStates
      BY DEF EpisodeStates
    <2>2. Opened(episodes') = {} /\ pc' = "sealed"
      BY <1>1, <1>5, <2>1, SealAllKeeps DEF StopSeals
    <2> QED BY <2>2 DEF StoppingInv
  <1>6. CASE StopPersists
    <2>1. /\ episodes' = episodes /\ raced' = raced
          /\ pc = "sealed" /\ pc' = "persisted"
      BY <1>6 DEF StopPersists, trackerVars
    <2>2. Opened(episodes') = Opened(episodes)
      BY <2>1 DEF Opened, IsOpen
    <2> QED BY <2>1, <2>2, <1>1 DEF StoppingInv
  <1>7. CASE StopAppends
    <2>1. /\ episodes' = episodes /\ raced' = raced /\ stream' = stream
          /\ pc = "persisted" /\ pc' = "appended"
      BY <1>7 DEF StopAppends, trackerVars, AppendAll
    <2>2. clean' => stream = "good" \/ episodes = {}
      BY <1>7 DEF StopAppends
    <2>3. Opened(episodes') = Opened(episodes)
      BY <2>1 DEF Opened, IsOpen
    <2>4. stream = "good" => Described(file)'
      <3>1. SUFFICES ASSUME stream = "good"
                     PROVE  Described(file)'
        OBVIOUS
      <3>2. PICK history \in Histories : AppendAll(history)
        BY <1>7 DEF StopAppends
      <3>3. file' = file \o Entries(history)
        BY <3>1, <3>2 DEF AppendAll
      <3> QED BY <3>3, <2>1, <1>1, HistoryIsDescribed
    <2> QED BY <2>1, <2>2, <2>3, <2>4, <1>1 DEF StoppingInv
  <1>8. CASE StopCloses
    <2>1. /\ episodes' = episodes /\ raced' = raced /\ file' = file
          /\ pc = "appended" /\ pc' = "stopped"
          /\ stream' = "none"
          /\ stream = "good" => flushed' = Len(file)
      BY <1>8 DEF StopCloses, trackerVars, Close
    <2>2. clean' => clean /\ stream # "failed"
      BY <1>8 DEF StopCloses, FlushReports
    <2>3. Opened(episodes') = Opened(episodes)
      BY <2>1 DEF Opened, IsOpen
    <2>4. Described(file)' <=> Described(file)
      BY <2>1 DEF Described
    <2> QED BY <2>1, <2>2, <2>3, <2>4, <1>1 DEF StoppingInv
  <1>9. CASE StreamFails
    <2>1. /\ episodes' = episodes /\ raced' = raced /\ pc' = pc
          /\ stream = "good" /\ stream' = "failed"
      BY <1>9 DEF StreamFails, trackerVars, WriteFails
    <2>2. Opened(episodes') = Opened(episodes)
      BY <2>1 DEF Opened, IsOpen
    <2> QED BY <2>1, <2>2, <1>1 DEF StoppingInv
  <1>10. \/ UNCHANGED vars \/ pc' \notin late
         \/ StopSeals \/ StopPersists \/ StopAppends \/ StopCloses \/ StreamFails
         \/ \E t \in Threads : Classify(t) \/ FindEpisode(t) \/ JournalEpisode(t)
    BY DEF Next, Start, StartFlushes, Load, LoadEnds, Persist, StopClosesIdle,
           ProcessEnds, Ended
  <1> QED BY <1>2, <1>3, <1>4, <1>5, <1>6, <1>7, <1>8, <1>9, <1>10

-----------------------------------------------------------------------------
(* Recovery.                                                               *)

(* One more record restored: the youngest episodes of one more identity.   *)
LEMMA RestoreKeepsYoungest ==
    ASSUME TrackerSafe, Opened(episodes) = {}, NEW e \in LossEpisode,
           NEW named, named \subseteq EpisodeId, IsFiniteSet(named),
           Youngest(IdsOf(episodes), named), Restore(e)
    PROVE  Youngest(IdsOf(episodes'), named \cup {e.id})
  <1> DEFINE kept == IdsOf(episodes)
             more == named \cup {e.id}
             s    == Sealed(e)
             group == episodes \cup {s}
  <1>1. /\ kept \subseteq named
        /\ Cardinality(kept) = Min({Cardinality(named), MaxEpisodes})
        /\ \A i \in named \ kept, j \in kept : i.start <= j.start
    BY DEF Youngest
  <1>2. /\ TrackerInv /\ episodes \subseteq LossEpisode /\ IsFiniteSet(episodes)
        /\ \A x, y \in episodes : x.id = y.id => x = y
    BY DEF TrackerSafe, TrackerInv
  <1>3. e.id \in EpisodeId /\ more \subseteq EpisodeId
    BY DEF LossEpisode
  <1>4. \A i \in EpisodeId : i.start \in Nat
    BY Parameters DEF EpisodeId, Instants
  <1>5. /\ Cardinality(named) \in Nat /\ Cardinality(kept) \in Nat
        /\ IsFiniteSet(more) /\ Cardinality(more) \in Nat
        /\ Cardinality(more) = IF e.id \in named THEN Cardinality(named)
                               ELSE Cardinality(named) + 1
        /\ IsFiniteSet(kept)
        /\ Cardinality(kept) = Cardinality(episodes)
    <2>1. IsFiniteSet(kept) /\ Cardinality(kept) = Cardinality(episodes)
      BY <1>2, IdentitiesFinite
    <2> HIDE DEF kept
    <2> QED BY <2>1, FS_AddElement, FS_CardinalityType
  <1>6. /\ MaxEpisodes \in Nat
        /\ Cardinality(kept) = IF Cardinality(named) <= MaxEpisodes
                               THEN Cardinality(named) ELSE MaxEpisodes
    <2> HIDE DEF kept
    <2> QED BY <1>1, <1>5, MinOfTwo, Parameters
  <1>7. CASE e.id \in kept
    <2>1. episodes' = episodes
      BY <1>7 DEF Restore, trackerVars
    <2>2. more = named
      BY <1>7, <1>1
    <2> QED BY <2>1, <2>2
  <1>8. CASE e.id \notin kept
    <2>1. PICK v \in Victims(group) : episodes' = group \ v
      BY <1>8 DEF Restore, Settle
    <2>2. s.id = e.id /\ IsClosed(s) /\ s \notin episodes
      BY <1>8 DEF Sealed, LossEpisode, EpisodeStates, IsOpen, IsClosed, IdsOf
    <2> HIDE DEF s
    <2>3. /\ IsFiniteSet(group)
          /\ Cardinality(group) = Cardinality(kept) + 1
          /\ \A x, y \in group : x.id = y.id => x = y
      BY <1>2, <1>5, <1>8, <2>2, FS_AddElement DEF IdsOf
    <2>4. {x \in group : IsClosed(x)} = group /\ Opened(group) = {}
      BY <2>2 DEF Opened, IsClosed
    <2>5. IdsOf(group) = kept \cup {e.id}
      BY <2>2 DEF IdsOf
    <2> DEFINE excess == Cardinality(group) - MaxEpisodes
    <2>6. /\ v \in SUBSET group
          /\ Cardinality(v) = IF excess > 0 THEN Min({excess, Cardinality(group)}) ELSE 0
          /\ \A x \in v, k \in group \ v : ~ (k.id.start < x.id.start)
      <3>1. /\ v \in SUBSET {x \in group : IsClosed(x)}
            /\ Cardinality(v) = IF excess > 0
                                THEN Min({excess, Cardinality({x \in group : IsClosed(x)})})
                                ELSE 0
            /\ \A x \in v, k \in {x \in group : IsClosed(x)} \ v :
                  k.id.start < x.id.start => \E o \in Opened(group) : o.id.start <= k.id.start
        BY DEF Victims
      <3> HIDE DEF group, excess
      <3> QED BY <3>1, <2>4
    <2>7. IsFiniteSet(v)
      BY <2>3, <2>6, FS_Subset
    <2> HIDE DEF group, kept
    <2>8. CASE Cardinality(kept) < MaxEpisodes
      <3>1. kept = named
        <4>1. Cardinality(kept) = Cardinality(named)
          BY <2>8, <1>5, <1>6
        <4> QED BY <4>1, <1>1, FS_Subset
      <3>2. Cardinality(v) = 0
        BY <2>3, <2>6, <2>8, <1>5, <1>6
      <3>3. v = {}
        BY <3>2, <2>7, FS_EmptySet
      <3>4. IdsOf(episodes') = more
        BY <3>1, <3>3, <2>1, <2>5
      <3>5. Min({Cardinality(more), MaxEpisodes}) = Cardinality(more)
        <4>1. Cardinality(more) <= MaxEpisodes
          BY <3>1, <2>8, <1>5, <1>6, <1>8
        <4> QED BY <4>1, <1>5, <1>6, MinOfTwo
      <3>6. Youngest(IdsOf(episodes'), more)
        <4> HIDE DEF more
        <4> QED BY <3>4, <3>5 DEF Youngest
      <3> QED BY <3>6
    <2>9. CASE ~ (Cardinality(kept) < MaxEpisodes)
      <3>1. Cardinality(kept) = MaxEpisodes /\ Cardinality(named) >= MaxEpisodes
        BY <2>9, <1>5, <1>6
      <3>2. excess = 1 /\ Cardinality(group) = MaxEpisodes + 1
        BY <3>1, <2>3, <1>6
      <3>3. Cardinality(v) = 1
        <4>1. Min({1, MaxEpisodes + 1}) = 1
          BY <1>6, MinOfTwo
        <4> QED BY <4>1, <3>2, <2>6
      <3>4. PICK o \in group : v = {o}
        <4>1. \E x : v = {x}
          BY <3>3, <2>7, FS_Singleton
        <4> QED BY <4>1, <2>6
      <3>5. episodes' = group \ {o}
        BY <3>4, <2>1
      <3>6. \A x \in group : x.id \in EpisodeId
        BY <1>2, <1>3, <2>2 DEF LossEpisode, group
      <3>7. \A y \in episodes' : o.id.start <= y.id.start
        BY <3>4, <3>5, <3>6, <2>6, <1>4
      <3>8. IdsOf(episodes') = (kept \cup {e.id}) \ {o.id}
        BY <3>5, <2>3, <2>5 DEF IdsOf
      <3>9. Cardinality(IdsOf(episodes')) = MaxEpisodes
        <4>1. o.id \in kept \cup {e.id}
          BY <2>5 DEF IdsOf
        <4>2. IsFiniteSet(kept \cup {e.id}) /\ Cardinality(kept \cup {e.id}) = MaxEpisodes + 1
          BY <1>5, <1>8, <3>1, FS_AddElement
        <4>3. Cardinality((kept \cup {e.id}) \ {o.id}) = Cardinality(kept \cup {e.id}) - 1
          BY <4>1, <4>2, FS_RemoveElement
        <4> QED BY <4>2, <4>3, <3>8, <1>6
      <3>10. Min({Cardinality(more), MaxEpisodes}) = MaxEpisodes
        <4>1. Cardinality(more) >= MaxEpisodes
          BY <3>1, <1>5, <1>6
        <4> HIDE DEF more
        <4>2. Min({Cardinality(more), MaxEpisodes}) =
                  IF Cardinality(more) <= MaxEpisodes THEN Cardinality(more) ELSE MaxEpisodes
          BY <1>5, <1>6, MinOfTwo
        <4> QED BY <4>1, <4>2, <1>5, <1>6
      <3>11. IdsOf(episodes') \subseteq more
        BY <3>8, <1>1
      <3>12. ASSUME NEW i \in more \ IdsOf(episodes'), NEW j \in IdsOf(episodes')
             PROVE  i.start <= j.start
        <4>1. PICK y \in episodes' : j = y.id
          BY DEF IdsOf
        <4>2. o.id.start <= j.start
          BY <4>1, <3>7
        <4>3. CASE i = o.id
          BY <4>2, <4>3
        <4>4. CASE i # o.id
          <5>1. i \in named \ kept
            BY <4>4, <3>8
          <5>2. CASE o \in episodes
            <6>1. o.id \in kept
              BY <5>2 DEF kept, IdsOf
            <6>2. i.start <= o.id.start
              BY <5>1, <6>1, <1>1
            <6>3. i.start \in Nat /\ o.id.start \in Nat /\ j.start \in Nat
              BY <1>3, <1>4, <3>6, <3>11
            <6> QED BY <6>2, <6>3, <4>2
          <5>3. CASE o \notin episodes
            <6>1. o = s /\ y \in episodes
              BY <5>3, <3>5, <4>1 DEF group
            <6>2. j \in kept
              BY <6>1, <4>1 DEF kept, IdsOf
            <6> QED BY <5>1, <6>2, <1>1
          <5> QED BY <5>2, <5>3
        <4> QED BY <4>3, <4>4
      <3>13. Youngest(IdsOf(episodes'), more)
        <4> HIDE DEF more
        <4> QED BY <3>9, <3>10, <3>11, <3>12 DEF Youngest
      <3> QED BY <3>13
    <2> QED BY <2>8, <2>9
  <1> QED BY <1>7, <1>8

LEMMA NotedIs ==
    ASSUME JournalInv, NEW n \in 0..Len(Readable(OnDisk))
    PROVE  /\ Noted(Readable(OnDisk), n) \subseteq EpisodeId
           /\ IsFiniteSet(Noted(Readable(OnDisk), n))
  <1> DEFINE records == Readable(OnDisk)
             entries == {k \in 1..n : IsRestored(records, k)}
             name    == [k \in entries |-> records[k].body.id]
  <1>1. \A k \in entries : records[k].body \in LossEpisode
    <2>1. \A k \in 1..n : k \in 1..Len(Readable(OnDisk))
      BY DiskIsRecords
    <2> QED BY <2>1, DiskIsRecords DEF IsRestored
  <1>2. IsFiniteSet(entries)
    <2>1. IsFiniteSet(1..n) /\ entries \in SUBSET (1..n)
      BY DiskIsRecords, FS_Interval
    <2> HIDE DEF entries
    <2> QED BY <2>1, FS_Subset
  <1>3. name \in Surjection(entries, Noted(records, n))
    BY DEF Noted, Surjection
  <1>4. IsFiniteSet(Noted(records, n))
    <2> HIDE DEF name, entries, records
    <2> QED BY <1>2, <1>3, FS_Surjection
  <1>5. Noted(records, n) \subseteq EpisodeId
    BY <1>1 DEF Noted, LossEpisode
  <1> QED BY <1>4, <1>5

LEMMA NotedGrows ==
    ASSUME NEW records, NEW n \in Nat \ {0}
    PROVE  Noted(records, n) =
               IF IsRestored(records, n)
               THEN Noted(records, n - 1) \cup {records[n].body.id}
               ELSE Noted(records, n - 1)
  <1>1. 1..n = 1..(n - 1) \cup {n}
    OBVIOUS
  <1>2. CASE IsRestored(records, n)
    BY <1>1, <1>2 DEF Noted
  <1>3. CASE ~ IsRestored(records, n)
    BY <1>1, <1>3 DEF Noted
  <1> QED BY <1>2, <1>3

(* What is unflushed may come and go without load noticing.                *)
LEMMA DiskUnchanged ==
    ASSUME JournalInv, DiskStays, flushed' = flushed
    PROVE  OnDisk' = OnDisk
  <1>1. /\ file \in Seq(Records) /\ flushed \in 0..Len(file)
        /\ IsPrefix(OnDisk, file')
    BY DEF JournalInv, DiskStays
  <1>2. OnDisk \in Seq(Records) /\ Len(OnDisk) = flushed /\ flushed \in Nat
    BY <1>1 DEF OnDisk
  <1>3. SubSeq(OnDisk, 1, flushed) = OnDisk
    BY <1>2
  <1>4. SubSeq(OnDisk, 1, flushed) = SubSeq(file', 1, flushed)
    BY <1>1, <1>2 DEF IsPrefix
  <1>5. OnDisk' = SubSeq(file', 1, flushed')
    BY DEF OnDisk
  <1> QED BY <1>3, <1>4, <1>5

LEMMA RecoveryKept ==
    ASSUME IInv, [Next]_vars
    PROVE  RecoveryInv'
  <1>1. /\ TrackerSafe /\ JournalInv /\ StartingInv /\ RecoveryInv /\ ThreadInv
    BY DEF IInv, TrackerSafe
  <1>2. CASE pc' # "loading"
    BY <1>2 DEF RecoveryInv
  <1>3. CASE UNCHANGED <<episodes, pc, cursor, OnDisk>>
    <2>1. /\ episodes' = episodes /\ pc' = pc /\ cursor' = cursor
          /\ Readable(OnDisk') = Readable(OnDisk)
      BY <1>3
    <2> QED BY <2>1, <1>1 DEF RecoveryInv
  <1>4. CASE StartFlushes
    <2>1. cursor' = 1 /\ episodes' = {}
      BY <1>1, <1>4 DEF StartFlushes, StartingInv, trackerVars
    <2>2. Len(Readable(OnDisk')) \in Nat
      <3>1. file' \in Seq(Records) /\ OnDisk' \in Seq(Records)
        <4>1. JournalInv'
          BY <1>4, JournalKept DEF Next
        <4> QED BY <4>1, DiskIsRecords DEF JournalInv, OnDisk
      <3>2. PICK n \in 0..Len(OnDisk') : Readable(OnDisk') = SubSeq(OnDisk', 1, n)
        BY <3>1, ReadableIs
      <3> QED BY <3>1, <3>2
    <2>3. IdsOf(episodes') = {}
      BY <2>1 DEF IdsOf
    <2>4. Noted(Readable(OnDisk'), 0) = {}
      BY DEF Noted
    <2>5. Youngest({}, {})
      <3>1. Min({0, MaxEpisodes}) = 0
        BY Parameters, MinOfTwo
      <3> QED BY <3>1, FS_EmptySet DEF Youngest
    <2> QED BY <2>1, <2>2, <2>3, <2>4, <2>5 DEF RecoveryInv
  <1>5. CASE Load
    <2> DEFINE records == Readable(OnDisk)
    <2>1. /\ pc = "loading" /\ cursor' = cursor + 1 /\ life' = life
          /\ Opened(episodes) = {}
          /\ Readable(OnDisk') = records
      BY <1>1, <1>5 DEF Load, StartingInv, Up, journalVars, OnDisk
    <2>2. /\ cursor \in 1..Len(records) /\ Len(records) \in Nat
          /\ cursor - 1 \in 0..Len(records)
          /\ Youngest(IdsOf(episodes), Noted(records, cursor - 1))
      BY <1>1, <1>5, DiskIsRecords DEF Load, RecoveryInv, Loaded
    <2>3. /\ Noted(records, cursor - 1) \subseteq EpisodeId
          /\ IsFiniteSet(Noted(records, cursor - 1))
      BY <1>1, <2>2, NotedIs
    <2>4. Youngest(IdsOf(episodes'), Noted(records, cursor))
      <3>1. CASE IsRestored(records, cursor)
        <4>1. Restore(records[cursor].body) /\ records[cursor].body \in LossEpisode
          BY <1>1, <1>5, <2>2, <3>1, DiskIsRecords DEF Load, IsRestored
        <4>2. Noted(records, cursor) =
                  Noted(records, cursor - 1) \cup {records[cursor].body.id}
          <5> HIDE DEF records
          <5> QED BY <2>2, <3>1, NotedGrows
        <4> HIDE DEF records
        <4> QED BY <4>1, <4>2, <1>1, <2>1, <2>2, <2>3, RestoreKeepsYoungest
      <3>2. CASE ~ IsRestored(records, cursor)
        <4>1. episodes' = episodes
          BY <1>5, <3>2 DEF Load, trackerVars
        <4>2. Noted(records, cursor) = Noted(records, cursor - 1)
          <5> HIDE DEF records
          <5> QED BY <2>2, <3>2, NotedGrows
        <4> QED BY <4>1, <4>2, <2>2
      <3> QED BY <3>1, <3>2
    <2> HIDE DEF records
    <2>5. cursor' - 1 = cursor /\ cursor' \in 1..(Len(records) + 1)
      BY <2>1, <2>2
    <2> QED BY <2>1, <2>4, <2>5 DEF RecoveryInv
  <1>6. ASSUME NEW t \in Threads, FindEpisode(t)
        PROVE  UNCHANGED <<episodes, pc, cursor, OnDisk>>
    BY <1>6 DEF FindEpisode, trackerVars, journalVars, OnDisk
  <1>7. ASSUME NEW t \in Threads, JournalEpisode(t)
        PROVE  UNCHANGED <<episodes, pc, cursor, OnDisk>>
    <2>1. PICK e \in writing[t] : AppendAll(<<e>>)
      BY <1>7 DEF JournalEpisode
    <2>2. <<e>> \in Seq(LossEpisode)
      BY <1>1 DEF ThreadInv
    <2>3. DiskStays /\ flushed' = flushed
      BY <1>1, <2>1, <2>2, AppendAllKeeps DEF AppendAll
    <2>4. OnDisk' = OnDisk
      BY <1>1, <2>3, DiskUnchanged
    <2> QED BY <2>4, <1>7 DEF JournalEpisode, trackerVars
  <1>8. CASE StreamFails
    <2>1. OnDisk' = OnDisk
      BY <1>1, <1>8, WriteFailsKeeps, DiskUnchanged DEF StreamFails
    <2>2. UNCHANGED <<episodes, pc, cursor, OnDisk>>
      BY <2>1, <1>8 DEF StreamFails, trackerVars
    <2> QED BY <2>2, <1>3
  <1>9. CASE UNCHANGED vars
    BY <1>3, <1>9 DEF vars, trackerVars, journalVars, processVars, OnDisk
  <1>10. \/ pc' # "loading" \/ StartFlushes \/ Load \/ StreamFails \/ UNCHANGED vars
         \/ \E t \in Threads : FindEpisode(t) \/ JournalEpisode(t)
    BY DEF Next, Start, LoadEnds, Classify, Persist, StopClosesIdle, StopSeals,
           StopPersists, StopAppends, StopCloses, ProcessEnds, Ended, Up
  <1> QED BY <1>2, <1>3, <1>4, <1>5, <1>6, <1>7, <1>8, <1>9, <1>10

-----------------------------------------------------------------------------
(* The invariant holds.                                                    *)

LEMMA InitHolds ==
    ASSUME Init
    PROVE  IInv
  <1>1. /\ episodes = {} /\ openIndex = {} /\ evicted = 0
        /\ file = << >> /\ flushed = 0 /\ stream = "none"
        /\ pc = "down" /\ life = 0 /\ cursor = 1
        /\ looking = [t \in Threads |-> {}] /\ writing = [t \in Threads |-> {}]
        /\ events = 0 /\ clean = TRUE /\ raced = FALSE
    BY DEF Init, TrackerInit, JournalInit
  <1>2. TrackerInv /\ IndexInv /\ NothingResumes
    BY <1>1, FS_EmptySet DEF TrackerInv, IndexInv, NothingResumes, Opened
  <1>3. JournalInv
    BY <1>1 DEF JournalInv, Streams
  <1>4. ProcessInv
    <2>1. clean \in BOOLEAN /\ raced \in BOOLEAN
      BY <1>1
    <2>2. pc \in Phases
      BY <1>1 DEF Phases
    <2>3. life \in 0..MaxLives /\ cursor \in Nat /\ events \in 0..MaxEvents
      BY <1>1, Parameters
    <2> QED BY <2>1, <2>2, <2>3 DEF ProcessInv
  <1>5. ThreadInv
    BY <1>1 DEF ThreadInv
  <1>6. StartingInv /\ RecoveryInv /\ StoppingInv
    BY <1>1 DEF StartingInv, RecoveryInv, StoppingInv, Opened
  <1> QED BY <1>2, <1>3, <1>4, <1>5, <1>6 DEF IInv

LEMMA NextKeeps ==
    ASSUME IInv, [Next]_vars
    PROVE  IInv'
  BY TrackerKept, JournalKept, ProcessKept, ThreadKept, StartingKept, RecoveryKept,
     StoppingKept DEF IInv, TrackerSafe

LEMMA InvHolds == Spec => []IInv
  BY InitHolds, NextKeeps, PTL DEF Spec

(* A set with at most one element counts at most one.                      *)
LEMMA AtMostOne ==
    ASSUME NEW T, \A x, y \in T : x = y
    PROVE  Cardinality(T) = IF T = {} THEN 0 ELSE 1
  <1>1. CASE T = {}
    BY <1>1, FS_EmptySet
  <1>2. CASE T # {}
    <2>1. PICK x : T = {x}
      BY <1>2
    <2> QED BY <2>1, <1>2, FS_Singleton
  <1> QED BY <1>1, <1>2

LEMMA InvIsTyped ==
    ASSUME IInv
    PROVE  TypeOK
  <1>1. TrackerInv /\ JournalInv /\ ProcessInv /\ ThreadInv
    BY DEF IInv
  <1>2. TrackerTypeOK
    BY <1>1, IdentitiesFinite DEF TrackerInv, TrackerTypeOK
  <1>3. ASSUME NEW k \in DOMAIN file
        PROVE  \/ file[k] \in {Session, Torn}
               \/ file[k].kind = "entry" /\ file[k].body \in LossEpisode
    BY <1>1 DEF JournalInv, Records
  <1>4. ASSUME NEW t \in Threads
        PROVE  /\ looking[t] \subseteq EpisodeId /\ writing[t] \subseteq LossEpisode
               /\ Cardinality(looking[t]) + Cardinality(writing[t]) <= 1
    <2>1. /\ looking[t] \subseteq EpisodeId /\ writing[t] \subseteq LossEpisode
          /\ looking[t] = {} \/ writing[t] = {}
          /\ \A i, j \in looking[t] : i = j
          /\ \A e, f \in writing[t] : e = f
      BY <1>1 DEF ThreadInv
    <2>2. /\ Cardinality(looking[t]) = IF looking[t] = {} THEN 0 ELSE 1
          /\ Cardinality(writing[t]) = IF writing[t] = {} THEN 0 ELSE 1
      BY <2>1, AtMostOne
    <2> QED BY <2>1, <2>2
  <1>5. clean \in BOOLEAN /\ raced \in BOOLEAN
    BY <1>1 DEF ProcessInv
  <1>6. /\ flushed \in 0..Len(file) /\ stream \in Streams /\ pc \in Phases
        /\ life \in 0..MaxLives /\ cursor \in Nat /\ events \in 0..MaxEvents
    BY <1>1 DEF JournalInv, ProcessInv
  <1> QED BY <1>2, <1>3, <1>4, <1>5, <1>6 DEF TypeOK

(* What load has noted is what the records before the cursor name.         *)
LEMMA InvKeepsYoungest ==
    ASSUME IInv
    PROVE  RecoveryKeepsYoungest
  <1>1. pc = "loading" => Youngest(IdsOf(episodes), Noted(Readable(OnDisk), cursor - 1))
    BY DEF IInv, RecoveryInv
  <1> QED BY <1>1 DEF RecoveryKeepsYoungest, Youngest, Noted

(* The last record of an identity is where the last index selects.         *)
LEMMA InvCompletesStop ==
    ASSUME IInv
    PROVE  CleanStopIsComplete
  <1>1. SUFFICES ASSUME pc = "stopped", clean, ~raced, NEW e \in episodes
                 PROVE  /\ IsClosed(e)
                        /\ e.id \in IdsOf(Bodies(OnDisk))
                        /\ LastRecord(OnDisk, e.id) = e
    BY DEF CleanStopIsComplete
  <1>2. JournalInv /\ StoppingInv
    BY DEF IInv
  <1>3. IsClosed(e)
    BY <1>1, <1>2 DEF StoppingInv, Opened, IsClosed
  <1>4. flushed = Len(file) /\ Described(file)
    BY <1>1, <1>2 DEF StoppingInv
  <1>5. file \in Seq(Records) /\ Len(file) \in Nat /\ OnDisk = file
    BY <1>2, <1>4 DEF JournalInv, OnDisk
  <1>6. PICK k \in 1..Len(file) :
            /\ file[k] = Entry(e)
            /\ \A j \in 1..Len(file) :
                  j > k /\ file[j].kind = "entry" => file[j].body.id # e.id
    BY <1>1, <1>4, <1>5 DEF Described
  <1>7. Entry(e).kind = "entry" /\ Entry(e).body = e
    BY DEF Entry
  <1>8. e.id \in IdsOf(Bodies(OnDisk))
    BY <1>5, <1>6, <1>7 DEF IdsOf, Bodies, ToSet
  <1> DEFINE named == {j \in 1..Len(file) : file[j].kind = "entry" /\ file[j].body.id = e.id}
  <1>9. k \in named /\ \A j \in named : j <= k
    BY <1>5, <1>6, <1>7
  <1>10. Max(named) = k
    <2>1. named \in SUBSET Nat /\ named # {} /\ \A j \in named : j <= Len(file)
      BY <1>9
    <2>2. Max(named) \in named /\ \A j \in named : Max(named) >= j
      <3> HIDE DEF named
      <3> QED BY <2>1, <1>5, MaxIsGreatest
    <2>3. Max(named) \in Nat
      BY <2>1, <2>2
    <2> HIDE DEF named
    <2> QED BY <2>2, <2>3, <1>9
  <1>11. LastRecord(file, e.id) = e
    <2>1. LastRecord(file, e.id) = file[IF named # {} THEN Max(named) ELSE 0].body
      BY DEF LastRecord, SelectLastInSeq
    <2> HIDE DEF named
    <2> QED BY <2>1, <1>6, <1>7, <1>9, <1>10
  <1> QED BY <1>3, <1>5, <1>8, <1>11

-----------------------------------------------------------------------------
(* The theorems.                                                           *)

(* Type correctness; in particular the tracker never holds two episodes of *)
(* one identity, nor indexes two of one binding (episode.cpp), and a thread *)
(* in record_episode holds at most one identity or copy.                   *)
THEOREM TypeCorrect == Spec => []TypeOK
  BY InvHolds, InvIsTyped, PTL

(* "Episodes never resume across a restart": whatever the journal held and *)
(* however the last process ended, every open episode was opened by the    *)
(* process that is running (restore and observe in episode.cpp).           *)
THEOREM NeverResumed == Spec => []NothingResumes
  <1>1. IInv => NothingResumes
    BY DEF IInv
  <1> QED BY <1>1, InvHolds, PTL

(* A closed episode is never changed again while it is retained: not by    *)
(* observe, close_idle or seal_all, nor by restore of an older or a newer  *)
(* record of the same identity.                                            *)
THEOREM ClosedStaysAsItIs == Spec => HistoryIsFrozen
  <1>1. ASSUME IInv, [Next]_vars
        PROVE  [\A e \in episodes, f \in episodes' :
                   IsClosed(e) /\ e.id = f.id /\ pc' # "down" => f = e]_vars
    BY <1>1, TrackerKept DEF Frozen
  <1> QED BY <1>1, InvHolds, PTL DEF Spec, HistoryIsFrozen

(* Wherever a recovery ends, it has restored the youngest of the episodes  *)
(* named by the records it took, as many as max_episodes allows, whatever  *)
(* the order and the repetitions of the records.  It takes the first       *)
(* max_episodes_loaded of them and refuses the later ones (restore and     *)
(* evict_locked behind load).                                              *)
THEOREM RecoveryIsByAge == Spec => []RecoveryKeepsYoungest
  BY InvHolds, InvKeepsYoungest, PTL

(* No crash, failed write, half-written record or failed compaction makes  *)
(* unreadable what a reader could get from the flushed journal; only a     *)
(* compaction replaces it, by all that is retained (persist.cpp).          *)
THEOREM DiskOnlyGrows == Spec => FlushedStaysReadable
  <1>1. ASSUME IInv, [Next]_vars
        PROVE  \/ IsPrefix(Readable(OnDisk), Readable(file'))
               \/ /\ pc \in {"running", "sealed"} /\ pc' # "down"
                  /\ episodes \subseteq Bodies(Readable(file'))
    <2>1. JournalInv /\ JournalInv'
      BY <1>1, JournalKept DEF IInv
    <2>2. OnDisk \in Seq(Records) /\ file' \in Seq(Records)
      BY <2>1, DiskIsRecords DEF JournalInv
    <2>3. IsPrefix(OnDisk, file') => IsPrefix(Readable(OnDisk), Readable(file'))
      BY <2>2, ReadableGrows
    <2> QED BY <1>1, <2>3, JournalKept
  <1>2. ASSUME IInv, [Next]_vars
        PROVE  [\/ IsPrefix(Readable(OnDisk), Readable(file'))
                \/ /\ pc \in {"running", "sealed"} /\ pc' # "down"
                   /\ episodes \subseteq Bodies(Readable(file'))]_vars
    BY <1>1, <1>2
  <1> QED BY <1>2, InvHolds, PTL DEF Spec, FlushedStaysReadable

(* stop() that reports a clean stop, and that no classifying thread raced, *)
(* has closed every episode and left on disk, as the last record of each,  *)
(* what memory held (stop in engine.cpp, append_episode and flush in       *)
(* persist.cpp).                                                           *)
THEOREM CleanStopIsTrue == Spec => []CleanStopIsComplete
  BY InvHolds, InvCompletesStop, PTL

==============================================================================
