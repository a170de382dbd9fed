------------------------ MODULE EvidenceRecovery_proofs ------------------------
(***************************************************************************)
(* What a restart recovers and what it does not, for every number of       *)
(* processes, declarations, sources and measurements, and however long the *)
(* journal is and wherever a crash cut it.                                 *)
(***************************************************************************)
EXTENDS EvidenceRecovery, CurrentEvidence_proofs, SequenceTheorems

-----------------------------------------------------------------------------
(* Recursion over the places of a sequence.                                *)

SolvesByPlace(f, n, base, op) ==
    /\ f[0] = base
    /\ \A k \in 1..n : f[k] = op[<<f[k - 1], k>>]

(* It has a solution: otherwise there would be a least length for which it *)
(* has none, but one place less can be solved and extended.                *)
LEMMA RecursionByPlace ==
    ASSUME NEW T, NEW n \in Nat, NEW base \in T, NEW op \in [T \X (1..n) -> T]
    PROVE  \E f \in [0..n -> T] : SolvesByPlace(f, n, base, op)
  <1> DEFINE Solvable(m) == \E f \in [0..m -> T] : SolvesByPlace(f, m, base, op)
             Failing     == {m \in 0..n : ~Solvable(m)}
  <1>1. SUFFICES ASSUME Failing # {} PROVE FALSE
    OBVIOUS
  <1>2. PICK m \in Failing : m = 0 \/ (m - 1 \in Nat /\ m - 1 \notin Failing)
    <2>1. Failing \in SUBSET Nat
      OBVIOUS
    <2> HIDE DEF Failing
    <2> QED BY <1>1, <2>1, LeastFailure
  <1>3. CASE m = 0
    <2> DEFINE f == [k \in 0..0 |-> base]
    <2>1. f \in [0..0 -> T] /\ SolvesByPlace(f, 0, base, op)
      BY DEF SolvesByPlace
    <2> QED BY <1>2, <1>3, <2>1
  <1>4. CASE m # 0
    <2>1. m \in 1..n /\ Solvable(m - 1)
      BY <1>2, <1>4
    <2>2. PICK f \in [0..(m - 1) -> T] : SolvesByPlace(f, m - 1, base, op)
      BY <2>1
    <2> DEFINE next == op[<<f[m - 1], m>>]
               g    == [k \in 0..m |-> IF k = m THEN next ELSE f[k]]
    <2>3. next \in T
      <3>1. f[m - 1] \in T
        BY <2>1
      <3> QED BY <2>1, <3>1
    <2>4. g \in [0..m -> T] /\ g[m] = next /\ \A k \in 0..(m - 1) : g[k] = f[k]
      BY <2>1, <2>3
    <2> HIDE DEF g
    <2>5. g[0] = base
      BY <2>1, <2>2, <2>4 DEF SolvesByPlace
    <2>6. ASSUME NEW k \in 1..m
          PROVE  g[k] = op[<<g[k - 1], k>>]
      <3>1. CASE k = m
        <4>1. m - 1 \in 0..(m - 1)
          BY <2>1
        <4>2. g[m - 1] = f[m - 1]
          BY <4>1, <2>4
        <4> QED BY <3>1, <4>2, <2>4
      <3>2. CASE k # m
        <4>1. k \in 1..(m - 1) /\ k \in 0..(m - 1) /\ k - 1 \in 0..(m - 1)
          BY <3>2, <2>1
        <4>2. f[k] = op[<<f[k - 1], k>>]
          BY <4>1, <2>2 DEF SolvesByPlace
        <4> QED BY <4>1, <4>2, <2>4
      <3> QED BY <3>1, <3>2
    <2>7. Solvable(m)
      BY <2>4, <2>5, <2>6 DEF SolvesByPlace
    <2> QED BY <1>2, <2>7
  <1> QED BY <1>3, <1>4

-----------------------------------------------------------------------------
(* The order of identities, and sets as sequences.                         *)

Below(S, x) == {y \in S : y < x}

(* In a finite set of numbers each has a rank of its own, and every rank   *)
(* below the size of the set is that of one of them.                       *)
LEMMA Ranks ==
    ASSUME NEW S \in SUBSET Nat, IsFiniteSet(S)
    PROVE  /\ Cardinality(S) \in Nat
           /\ \A x \in S : Cardinality(Below(S, x)) + 1 \in 1..Cardinality(S)
           /\ \A x, y \in S : Cardinality(Below(S, x)) = Cardinality(Below(S, y)) => x = y
           /\ \A k \in 1..Cardinality(S) : \E x \in S : Cardinality(Below(S, x)) = k - 1
  <1> DEFINE n    == Cardinality(S)
             rank == [x \in S |-> Cardinality(Below(S, x)) + 1]
  <1>1. n \in Nat
    BY FS_CardinalityType
  <1>2. ASSUME NEW x \in S
        PROVE  IsFiniteSet(Below(S, x)) /\ Cardinality(Below(S, x)) \in 0..(n - 1)
    <2>1. Below(S, x) \in SUBSET S /\ Below(S, x) # S
      <3>1. x \notin Below(S, x)
        BY DEF Below
      <3> QED BY <3>1 DEF Below
    <2>2. /\ IsFiniteSet(Below(S, x)) /\ Cardinality(Below(S, x)) <= n
          /\ Cardinality(Below(S, x)) # n
      BY <2>1, FS_Subset
    <2>3. Cardinality(Below(S, x)) \in Nat
      BY <2>2, FS_CardinalityType
    <2> QED BY <1>1, <2>2, <2>3
  <1>3. ASSUME NEW x \in S, NEW y \in S, x < y
        PROVE  Cardinality(Below(S, x)) < Cardinality(Below(S, y))
    <2>1. Below(S, x) \in SUBSET Below(S, y) /\ Below(S, x) # Below(S, y)
      <3>1. x \in Below(S, y) /\ x \notin Below(S, x)
        BY <1>3 DEF Below
      <3>2. \A z \in S : z < x => z < y
        <4>1. \A z \in S : z \in Nat /\ x \in Nat /\ y \in Nat
          OBVIOUS
        <4> QED BY <1>3, <4>1
      <3> QED BY <3>1, <3>2 DEF Below
    <2>2. /\ Cardinality(Below(S, x)) <= Cardinality(Below(S, y))
          /\ Cardinality(Below(S, x)) # Cardinality(Below(S, y))
      BY <1>2, <2>1, FS_Subset
    <2> QED BY <1>1, <1>2, <2>2
  <1>4. ASSUME NEW x \in S, NEW y \in S, Cardinality(Below(S, x)) = Cardinality(Below(S, y))
        PROVE  x = y
    <2>1. x \in Nat /\ y \in Nat /\ ~(x < y) /\ ~(y < x)
      BY <1>2, <1>3, <1>4
    <2> QED BY <2>1
  <1>5. rank \in Injection(S, 1..n)
    <2>1. rank \in [S -> 1..n]
      BY <1>1, <1>2
    <2>2. \A x, y \in S : rank[x] = rank[y] => x = y
      <3>1. \A x \in S : rank[x] = Cardinality(Below(S, x)) + 1
        OBVIOUS
      <3> HIDE DEF rank
      <3> QED BY <1>1, <1>2, <1>4, <3>1
    <2> HIDE DEF rank
    <2> QED BY <2>1, <2>2 DEF Injection, IsInjective
  <1>6. IsFiniteSet(1..n) /\ Cardinality(1..n) = n
    <2>1. IsFiniteSet(1..n) /\ Cardinality(1..n) = IF 1 > n THEN 0 ELSE n - 1 + 1
      BY <1>1, FS_Interval
    <2> QED BY <1>1, <2>1
  <1>7. rank \in Surjection(S, 1..n)
    <2> HIDE DEF rank
    <2> QED BY <1>5, <1>6, FS_Injection
  <1>8. ASSUME NEW k \in 1..n
        PROVE  \E x \in S : Cardinality(Below(S, x)) = k - 1
    <2>1. PICK x \in S : rank[x] = k
      <3> HIDE DEF rank
      <3> QED BY <1>7 DEF Surjection
    <2>2. Cardinality(Below(S, x)) + 1 = k
      BY <2>1
    <2> QED BY <1>1, <1>2, <2>2
  <1>9. \A x \in S : Cardinality(Below(S, x)) + 1 \in 1..n
    BY <1>1, <1>2
  <1> HIDE DEF rank
  <1> QED BY <1>1, <1>4, <1>8, <1>9

(* InOrder puts every member of the set in one place.                      *)
LEMMA InOrderIs ==
    ASSUME NEW S \in SUBSET Nat, IsFiniteSet(S)
    PROVE  /\ Cardinality(S) \in Nat
           /\ \A k \in 1..Cardinality(S) : InOrder(S)[k] \in S
           /\ \A x \in S : \E k \in 1..Cardinality(S) : InOrder(S)[k] = x
           /\ \A j, k \in 1..Cardinality(S) : InOrder(S)[j] = InOrder(S)[k] => j = k
  <1> DEFINE n == Cardinality(S)
  <1>1. n \in Nat
    BY Ranks
  <1>2. ASSUME NEW k \in 1..n
        PROVE  InOrder(S)[k] \in S /\ Cardinality(Below(S, InOrder(S)[k])) = k - 1
    <2> DEFINE Ranked(x) == Cardinality(Below(S, x)) = k - 1
    <2>1. InOrder(S)[k] = CHOOSE x \in S : Ranked(x)
      BY DEF InOrder, Below
    <2>2. \E x \in S : Ranked(x)
      BY Ranks
    <2> HIDE DEF Ranked
    <2>3. InOrder(S)[k] \in S /\ Ranked(InOrder(S)[k])
      BY <2>1, <2>2
    <2> QED BY <2>3 DEF Ranked
  <1>3. ASSUME NEW x \in S
        PROVE  \E k \in 1..n : InOrder(S)[k] = x
    <2> DEFINE k == Cardinality(Below(S, x)) + 1
    <2>1. k \in 1..n
      BY Ranks
    <2>2. Cardinality(Below(S, x)) = k - 1
      <3>1. IsFiniteSet(Below(S, x))
        BY FS_Subset DEF Below
      <3> QED BY <3>1, FS_CardinalityType
    <2> HIDE DEF k
    <2>3. /\ InOrder(S)[k] \in S
          /\ Cardinality(Below(S, InOrder(S)[k])) = Cardinality(Below(S, x))
      BY <1>2, <2>1, <2>2
    <2>4. \A y, z \in S : Cardinality(Below(S, y)) = Cardinality(Below(S, z)) => y = z
      BY Ranks
    <2>5. InOrder(S)[k] = x
      BY <2>3, <2>4
    <2> QED BY <2>1, <2>5
  <1>4. ASSUME NEW j \in 1..n, NEW k \in 1..n, InOrder(S)[j] = InOrder(S)[k]
        PROVE  j = k
    <2>1. j - 1 = k - 1
      BY <1>2, <1>4
    <2> QED BY <1>1, <2>1
  <1> QED BY <1>1, <1>2, <1>3, <1>4

LEMMA SetToSeqIs ==
    ASSUME NEW S, IsFiniteSet(S)
    PROVE  SetToSeq(S) \in Seq(S)
  <1>1. Cardinality(S) \in Nat /\ ExistsBijection(1..Cardinality(S), S)
    BY FS_CardinalityType
  <1>2. \E f \in [1..Cardinality(S) -> S] : IsInjective(f)
    BY <1>1 DEF ExistsBijection, Bijection, Injection, IsInjective
  <1>3. SetToSeq(S) \in [1..Cardinality(S) -> S]
    BY <1>2 DEF SetToSeq
  <1> QED BY <1>1, <1>3

-----------------------------------------------------------------------------
(* What the journal and the topology may hold.                             *)

Ids(kind) == CASE kind = "links" -> Links [] kind = "paths" -> Paths [] kind = "flows" -> Flows

ContentOf(kind) ==
    CASE kind = "links" -> Contents [] kind = "paths" -> Path [] kind = "flows" -> FlowBinding

TableBodies(kind) == [kind : {kind}, id : Ids(kind), content : ContentOf(kind)]

TableBody    == TableBodies("links") \cup TableBodies("paths") \cup TableBodies("flows")
SourceBody   == [kind : {"source"}, source : Sources]
EpochBody    == [kind : {"incarnation"}, source : Sources, epoch : Epochs]
EvidenceBody == [kind : {"evidence"}, item : EvidenceItem]
OtherBody    == SourceBody \cup EpochBody \cup EvidenceBody
Body         == TableBody \cup OtherBody

WholeRecord   == [kind : {"entry"}, body : Body] \cup {Session}
JournalRecord == WholeRecord \cup {Torn}

(* Declarations within the bounds of their tables.                         *)
Topologies ==
    {t \in TopologyRecord :
        /\ t.revision # NoRevision
        /\ \A kind \in TableKinds : /\ IsFiniteSet(DOMAIN t[kind])
                                    /\ Cardinality(DOMAIN t[kind]) <= Limit(kind)}

LEMMA TableIs ==
    ASSUME NEW t \in TopologyRecord, NEW kind \in TableKinds
    PROVE  /\ t[kind] \in PartialFunctions(Ids(kind), ContentOf(kind))
           /\ DOMAIN t[kind] \in SUBSET Ids(kind)
           /\ \A id \in DOMAIN t[kind] : t[kind][id] \in ContentOf(kind)
           /\ Ids(kind) \in SUBSET Nat
           /\ Limit(kind) \in Nat
  <1>1. /\ Links \in SUBSET Nat /\ Paths \in SUBSET Nat /\ Flows \in SUBSET Nat
        /\ MaxLinks \in Nat /\ MaxPaths \in Nat /\ MaxFlows \in Nat
    BY GenerationAssumption, TopologyAssumption
  <1>2. t[kind] \in PartialFunctions(Ids(kind), ContentOf(kind))
    BY DEF TopologyRecord, TableKinds, Ids, ContentOf
  <1>3. Ids(kind) \in SUBSET Nat /\ Limit(kind) \in Nat
    BY <1>1 DEF TableKinds, Ids, Limit
  <1> QED BY <1>2, <1>3, PartialIs

LEMMA EmptyIsTopology == EmptyTopology \in Topologies
  <1>1. EmptyTopology \in TopologyRecord
    <2>1. \A S, T : NoEntities \in PartialFunctions(S, T)
      <3>1. NoEntities \in [{} -> {}]
        BY DEF NoEntities
      <3> QED BY <3>1 DEF PartialFunctions, NoEntities
    <2> QED BY <2>1 DEF EmptyTopology, TopologyRecord, Revisions
  <1>2. \A kind \in TableKinds : EmptyTopology[kind] = NoEntities
    BY DEF EmptyTopology, TableKinds
  <1>3. DOMAIN NoEntities = {} /\ IsFiniteSet({}) /\ Cardinality({}) = 0
    BY NothingIsFinite, FS_EmptySet
  <1>4. \A kind \in TableKinds : Limit(kind) \in Nat
    BY <1>1, TableIs
  <1>5. EmptyTopology.revision # NoRevision
    BY DEF EmptyTopology, NoRevision
  <1>6. \A kind \in TableKinds : 0 <= Limit(kind)
    BY <1>4
  <1> QED BY <1>1, <1>2, <1>3, <1>5, <1>6 DEF Topologies

LEMMA BodyKinds ==
    /\ \A b \in TableBody : b.kind \in TableKinds /\ b \in TableBodies(b.kind)
    /\ \A b \in OtherBody : b.kind \notin TableKinds
  <1>1. \A kind \in TableKinds : \A b \in TableBodies(kind) : b.kind = kind
    BY DEF TableBodies
  <1>2. \A b \in TableBody : \E kind \in TableKinds : b \in TableBodies(kind)
    BY DEF TableBody, TableKinds
  <1>3. \A b \in OtherBody : b.kind \in {"source", "incarnation", "evidence"}
    BY DEF OtherBody, SourceBody, EpochBody, EvidenceBody
  <1> QED BY <1>1, <1>2, <1>3 DEF TableKinds

LEMMA EntriesAre ==
    ASSUME NEW bodies \in Seq(Body)
    PROVE  /\ Entries(bodies) \in Seq(WholeRecord)
           /\ Len(Entries(bodies)) = Len(bodies)
           /\ \A k \in 1..Len(bodies) : Entries(bodies)[k] = Entry(bodies[k])
  <1>1. /\ Len(bodies) \in Nat /\ DOMAIN bodies = 1..Len(bodies)
        /\ \A k \in 1..Len(bodies) : bodies[k] \in Body
    OBVIOUS
  <1>2. \A b \in Body : Entry(b) \in WholeRecord
    BY DEF Entry, WholeRecord
  <1>3. Entries(bodies) = [k \in 1..Len(bodies) |-> Entry(bodies[k])]
    BY <1>1 DEF Entries
  <1>4. Entries(bodies) \in [1..Len(bodies) -> WholeRecord]
    BY <1>1, <1>2, <1>3
  <1> QED BY <1>1, <1>3, <1>4

-----------------------------------------------------------------------------
(* What is written.                                                        *)

(* Each entity of a table is written once, as it is declared.              *)
LEMMA TableRecordsAre ==
    ASSUME NEW t \in Topologies, NEW kind \in TableKinds, NEW s, s = TableRecords(t, kind)
    PROVE  /\ s \in Seq(TableBodies(kind))
           /\ \A k \in 1..Len(s) : /\ s[k].kind = kind /\ s[k].id \in DOMAIN t[kind]
                                   /\ s[k].content = t[kind][s[k].id]
           /\ \A id \in DOMAIN t[kind] : \E k \in 1..Len(s) : s[k].id = id
           /\ \A j, k \in 1..Len(s) : s[j].id = s[k].id => j = k
  <1> DEFINE ids == DOMAIN t[kind]
             n   == Cardinality(ids)
             b(k) == TableRecord(kind, InOrder(ids)[k], t[kind][InOrder(ids)[k]])
  <1>1. /\ ids \in SUBSET Ids(kind) /\ Ids(kind) \in SUBSET Nat
        /\ \A id \in ids : t[kind][id] \in ContentOf(kind)
        /\ IsFiniteSet(ids)
    BY TableIs DEF Topologies
  <1>2. /\ n \in Nat
        /\ \A k \in 1..n : InOrder(ids)[k] \in ids
        /\ \A x \in ids : \E k \in 1..n : InOrder(ids)[k] = x
        /\ \A j, k \in 1..n : InOrder(ids)[j] = InOrder(ids)[k] => j = k
    <2> HIDE DEF ids
    <2> QED BY <1>1, InOrderIs
  <1>3. s = [k \in 1..n |-> b(k)]
    BY DEF TableRecords
  <1> HIDE DEF ids
  <1>4. ASSUME NEW k \in 1..n
        PROVE  /\ b(k) \in TableBodies(kind)
               /\ b(k).kind = kind /\ b(k).id = InOrder(ids)[k]
               /\ b(k).content = t[kind][InOrder(ids)[k]]
    <2>1. InOrder(ids)[k] \in Ids(kind) /\ t[kind][InOrder(ids)[k]] \in ContentOf(kind)
      BY <1>1, <1>2
    <2> QED BY <2>1 DEF TableRecord, TableBodies
  <1> HIDE DEF b
  <1>5. s \in [1..n -> TableBodies(kind)]
    BY <1>3, <1>4
  <1>6. s \in Seq(TableBodies(kind)) /\ Len(s) = n
    BY <1>2, <1>5
  <1>7. \A k \in 1..n : s[k] = b(k)
    BY <1>3
  <1> HIDE DEF n
  <1>8. \A k \in 1..Len(s) : /\ s[k].kind = kind /\ s[k].id = InOrder(ids)[k]
                             /\ s[k].id \in ids
                             /\ s[k].content = t[kind][s[k].id]
    BY <1>2, <1>4, <1>6, <1>7
  <1>9. \A id \in ids : \E k \in 1..Len(s) : s[k].id = id
    BY <1>2, <1>6, <1>8
  <1>10. \A j, k \in 1..Len(s) : s[j].id = s[k].id => j = k
    BY <1>2, <1>6, <1>8
  <1> QED BY <1>6, <1>8, <1>9, <1>10 DEF ids

(* Every entity once, among all the tables.                                *)
ListsAll(s, t) ==
    /\ \A k \in 1..Len(s) : /\ s[k].id \in DOMAIN t[s[k].kind]
                            /\ s[k].content = t[s[k].kind][s[k].id]
    /\ \A kind \in TableKinds : \A id \in DOMAIN t[kind] :
          \E k \in 1..Len(s) : s[k].kind = kind /\ s[k].id = id
    /\ \A j, k \in 1..Len(s) :
          s[j].kind = s[k].kind /\ s[j].id = s[k].id => j = k

LEMMA TopologyRecordsAre ==
    ASSUME NEW t \in Topologies, NEW s, s = TopologyRecords(t)
    PROVE  s \in Seq(TableBody) /\ ListsAll(s, t)
  <1> DEFINE a == TableRecords(t, "links")
             b == TableRecords(t, "paths")
             c == TableRecords(t, "flows")
             OfTable(r, kind) ==
                 /\ r \in Seq(TableBodies(kind))
                 /\ \A k \in 1..Len(r) : /\ r[k].kind = kind /\ r[k].id \in DOMAIN t[kind]
                                         /\ r[k].content = t[kind][r[k].id]
                 /\ \A id \in DOMAIN t[kind] : \E k \in 1..Len(r) : r[k].id = id
                 /\ \A j, k \in 1..Len(r) : r[j].id = r[k].id => j = k
  <1>1. OfTable(a, "links") /\ OfTable(b, "paths") /\ OfTable(c, "flows")
    <2>1. ASSUME NEW kind \in TableKinds, NEW r, r = TableRecords(t, kind)
          PROVE  OfTable(r, kind)
      BY <2>1, TableRecordsAre
    <2> HIDE DEF OfTable
    <2> QED BY <2>1 DEF TableKinds
  <1>2. s = (a \o b) \o c
    BY DEF TopologyRecords
  <1> HIDE DEF a, b, c
  <1>11. ASSUME NEW r, NEW kind, OfTable(r, kind)
         PROVE  /\ r \in Seq(TableBodies(kind))
                /\ \A k \in 1..Len(r) : r[k].kind = kind /\ r[k].id \in DOMAIN t[kind]
                                        /\ r[k].content = t[kind][r[k].id]
                /\ \A id \in DOMAIN t[kind] : \E k \in 1..Len(r) : r[k].id = id
                /\ \A j, k \in 1..Len(r) : r[j].id = r[k].id => j = k
    BY <1>11
  <1> HIDE DEF OfTable
  <1>12. /\ a \in Seq(TableBodies("links"))
         /\ b \in Seq(TableBodies("paths"))
         /\ c \in Seq(TableBodies("flows"))
    BY <1>1, <1>11
  <1>13. /\ \A k \in 1..Len(a) : a[k].kind = "links" /\ a[k].id \in DOMAIN t["links"]
                                 /\ a[k].content = t["links"][a[k].id]
         /\ \A k \in 1..Len(b) : b[k].kind = "paths" /\ b[k].id \in DOMAIN t["paths"]
                                 /\ b[k].content = t["paths"][b[k].id]
         /\ \A k \in 1..Len(c) : c[k].kind = "flows" /\ c[k].id \in DOMAIN t["flows"]
                                 /\ c[k].content = t["flows"][c[k].id]
    <2>1. OfTable(a, "links") => \A k \in 1..Len(a) :
             a[k].kind = "links" /\ a[k].id \in DOMAIN t["links"]
             /\ a[k].content = t["links"][a[k].id]
      BY <1>11
    <2>2. OfTable(b, "paths") => \A k \in 1..Len(b) :
             b[k].kind = "paths" /\ b[k].id \in DOMAIN t["paths"]
             /\ b[k].content = t["paths"][b[k].id]
      BY <1>11
    <2>3. OfTable(c, "flows") => \A k \in 1..Len(c) :
             c[k].kind = "flows" /\ c[k].id \in DOMAIN t["flows"]
             /\ c[k].content = t["flows"][c[k].id]
      BY <1>11
    <2> QED BY <1>1, <2>1, <2>2, <2>3
  <1>14. /\ \A id \in DOMAIN t["links"] : \E k \in 1..Len(a) : a[k].id = id
         /\ \A id \in DOMAIN t["paths"] : \E k \in 1..Len(b) : b[k].id = id
         /\ \A id \in DOMAIN t["flows"] : \E k \in 1..Len(c) : c[k].id = id
    BY <1>1, <1>11
  <1>15. /\ \A j, k \in 1..Len(a) : a[j].id = a[k].id => j = k
         /\ \A j, k \in 1..Len(b) : b[j].id = b[k].id => j = k
         /\ \A j, k \in 1..Len(c) : c[j].id = c[k].id => j = k
    BY <1>1, <1>11
  <1>3. a \in Seq(TableBody) /\ b \in Seq(TableBody) /\ c \in Seq(TableBody)
    <2>1. \A kind \in TableKinds : TableBodies(kind) \subseteq TableBody
      BY DEF TableKinds, TableBody
    <2> QED BY <1>12, <2>1, SeqMonotonic DEF TableKinds
  <1> DEFINE l == Len(a)
             m == l + Len(b)
             n == m + Len(c)
  <1>4. /\ l \in Nat /\ m \in Nat /\ n \in Nat /\ l <= m /\ m <= n
        /\ Len(b) = m - l /\ Len(c) = n - m
        /\ s \in Seq(TableBody) /\ Len(s) = n
    BY <1>2, <1>3, ConcatProperties
  <1>5. /\ \A k \in 1..l : s[k] = a[k] /\ k \in 1..Len(a)
        /\ \A k \in (l + 1)..m : s[k] = b[k - l] /\ k - l \in 1..Len(b)
        /\ \A k \in (m + 1)..n : s[k] = c[k - m] /\ k - m \in 1..Len(c)
    BY <1>2, <1>3, ConcatProperties
  <1>6. /\ \A k \in 1..Len(a) : k \in 1..n /\ s[k] = a[k]
        /\ \A k \in 1..Len(b) : l + k \in 1..n /\ s[l + k] = b[k]
        /\ \A k \in 1..Len(c) : m + k \in 1..n /\ s[m + k] = c[k]
    BY <1>2, <1>3, ConcatProperties
  <1> HIDE DEF l, m, n
  <1>7. ASSUME NEW k \in 1..n
        PROVE  /\ s[k].kind = IF k <= l THEN "links" ELSE IF k <= m THEN "paths" ELSE "flows"
               /\ s[k].id \in DOMAIN t[s[k].kind] /\ s[k].content = t[s[k].kind][s[k].id]
    <2>1. CASE k <= l
      <3>1. k \in 1..l
        BY <1>4, <2>1
      <3> QED BY <1>13, <1>5, <2>1, <3>1
    <2>2. CASE ~(k <= l) /\ k <= m
      <3>1. k \in (l + 1)..m
        BY <1>4, <2>2
      <3>2. s[k] = b[k - l] /\ k - l \in 1..Len(b)
        BY <1>5, <3>1
      <3> QED BY <1>13, <2>2, <3>2
    <2>3. CASE ~(k <= l) /\ ~(k <= m)
      <3>1. k \in (m + 1)..n
        BY <1>4, <2>3
      <3>2. s[k] = c[k - m] /\ k - m \in 1..Len(c)
        BY <1>5, <3>1
      <3> QED BY <1>13, <2>3, <3>2, <1>4
    <2> QED BY <2>1, <2>2, <2>3
  <1>8. ASSUME NEW kind \in TableKinds, NEW id \in DOMAIN t[kind]
        PROVE  \E k \in 1..n : s[k].kind = kind /\ s[k].id = id
    <2>1. CASE kind = "links"
      <3>1. PICK k \in 1..Len(a) : a[k].id = id /\ a[k].kind = "links"
        <4>1. id \in DOMAIN t["links"]
          BY <2>1
        <4> QED BY <4>1, <1>13, <1>14
      <3> QED BY <1>6, <2>1, <3>1
    <2>2. CASE kind = "paths"
      <3>1. PICK k \in 1..Len(b) : b[k].id = id /\ b[k].kind = "paths"
        <4>1. id \in DOMAIN t["paths"]
          BY <2>2
        <4> QED BY <4>1, <1>13, <1>14
      <3>2. l + k \in 1..n /\ s[l + k] = b[k]
        BY <1>6
      <3> QED BY <2>2, <3>1, <3>2
    <2>3. CASE kind = "flows"
      <3>1. PICK k \in 1..Len(c) : c[k].id = id /\ c[k].kind = "flows"
        <4>1. id \in DOMAIN t["flows"]
          BY <2>3
        <4> QED BY <4>1, <1>13, <1>14
      <3>2. m + k \in 1..n /\ s[m + k] = c[k]
        BY <1>6
      <3> QED BY <2>3, <3>1, <3>2
    <2> QED BY <2>1, <2>2, <2>3 DEF TableKinds
  <1>9. ASSUME NEW j \in 1..n, NEW k \in 1..n, s[j].kind = s[k].kind, s[j].id = s[k].id
        PROVE  j = k
    <2>1. CASE j <= l
      <3>1. j \in 1..l /\ k \in 1..l
        BY <1>4, <1>7, <1>9, <2>1
      <3>2. a[j].id = a[k].id /\ j \in 1..Len(a) /\ k \in 1..Len(a)
        BY <1>5, <1>9, <3>1
      <3> QED BY <1>15, <3>2
    <2>2. CASE ~(j <= l) /\ j <= m
      <3>1. j \in (l + 1)..m /\ k \in (l + 1)..m
        BY <1>4, <1>7, <1>9, <2>2
      <3>2. b[j - l].id = b[k - l].id /\ j - l \in 1..Len(b) /\ k - l \in 1..Len(b)
        BY <1>5, <1>9, <3>1
      <3>3. j - l = k - l
        BY <1>15, <3>2
      <3> QED BY <1>4, <3>1, <3>3
    <2>3. CASE ~(j <= l) /\ ~(j <= m)
      <3>1. j \in (m + 1)..n /\ k \in (m + 1)..n
        BY <1>4, <1>7, <1>9, <2>3
      <3>2. c[j - m].id = c[k - m].id /\ j - m \in 1..Len(c) /\ k - m \in 1..Len(c)
        BY <1>5, <1>9, <3>1
      <3>3. j - m = k - m
        BY <1>15, <3>2
      <3> QED BY <1>4, <3>1, <3>3
    <2> QED BY <2>1, <2>2, <2>3
  <1> QED BY <1>4, <1>7, <1>8, <1>9 DEF ListsAll

(* Sequences of records one after the other are a sequence of records.     *)
LEMMA FlattenSeqIs ==
    ASSUME NEW T, NEW seqs \in Seq(Seq(T))
    PROVE  FlattenSeq(seqs) \in Seq(T)
  <1> DEFINE n  == Len(seqs)
             op == [x \in Seq(T) \X (1..n) |-> x[1] \o seqs[x[2]]]
             Recursion(f) ==
                 f = [i \in 1..n |-> IF i = 1 THEN seqs[i] ELSE f[i - 1] \o seqs[i]]
  <1>1. n \in Nat /\ \A i \in 1..n : seqs[i] \in Seq(T)
    OBVIOUS
  <1>2. CASE n = 0
    <2>1. FlattenSeq(seqs) = seqs /\ seqs = << >>
      BY <1>2 DEF FlattenSeq
    <2> QED BY <2>1
  <1>3. CASE n # 0
    <2>1. op \in [Seq(T) \X (1..n) -> Seq(T)]
      <3>1. ASSUME NEW x \in Seq(T), NEW i \in 1..n
            PROVE  x \o seqs[i] \in Seq(T)
        BY <1>1, ConcatProperties
      <3> HIDE DEF n
      <3> QED BY <3>1
    <2>2. << >> \in Seq(T)
      OBVIOUS
    <2>3. PICK f \in [0..n -> Seq(T)] : SolvesByPlace(f, n, << >>, op)
      <3> HIDE DEF op, n
      <3> QED BY <1>1, <2>1, <2>2, RecursionByPlace
    <2>4. ASSUME NEW i \in 1..n
          PROVE  f[i] = f[i - 1] \o seqs[i] /\ f[i] \in Seq(T) /\ f[i - 1] \in Seq(T)
      <3>1. i - 1 \in 0..n /\ i \in 0..n
        BY <1>1
      <3>2. f[i - 1] \in Seq(T) /\ f[i] \in Seq(T)
        BY <2>3, <3>1
      <3>3. f[i] = op[<<f[i - 1], i>>]
        BY <2>3 DEF SolvesByPlace
      <3> HIDE DEF n
      <3> QED BY <3>2, <3>3
    <2> DEFINE g == [i \in 1..n |-> f[i]]
    <2>5. g \in [1..n -> Seq(T)] /\ \A i \in 1..n : g[i] = f[i]
      BY <2>4
    <2>6. g[1] = seqs[1]
      <3>1. 1 \in 1..n /\ f[0] = << >> /\ 1 - 1 = 0
        BY <1>1, <1>3, <2>3 DEF SolvesByPlace
      <3>2. f[1] = << >> \o seqs[1]
        BY <3>1, <2>4
      <3>3. seqs[1] \in Seq(T) /\ g[1] = f[1]
        BY <1>1, <2>5, <3>1
      <3> HIDE DEF g, n
      <3> QED BY <3>2, <3>3
    <2>7. ASSUME NEW i \in 1..n, i # 1
          PROVE  g[i] = g[i - 1] \o seqs[i]
      <3>1. i - 1 \in 1..n
        BY <1>1, <2>7
      <3>2. g[i] = f[i] /\ g[i - 1] = f[i - 1]
        BY <2>5, <3>1
      <3>3. f[i] = f[i - 1] \o seqs[i]
        BY <2>4
      <3> QED BY <3>2, <3>3, Zenon
    <2> HIDE DEF g
    <2>8. g = [i \in 1..n |-> IF i = 1 THEN seqs[i] ELSE g[i - 1] \o seqs[i]]
      BY <2>5, <2>6, <2>7
    <2>9. Recursion(g)
      BY <2>8
    <2> DEFINE flatten == CHOOSE h : Recursion(h)
    <2>10. FlattenSeq(seqs) = flatten[n]
      BY <1>3 DEF FlattenSeq
    <2>11. Recursion(flatten)
      <3> HIDE DEF Recursion
      <3> QED BY <2>9
    <2> HIDE DEF flatten
    <2>12. \A i \in 1..n : flatten[i] = IF i = 1 THEN seqs[i] ELSE flatten[i - 1] \o seqs[i]
      BY <2>11
    <2> HIDE DEF Recursion
    <2> DEFINE Failing == {i \in 1..n : flatten[i] \notin Seq(T)}
    <2>13. Failing = {}
      <3> SUFFICES ASSUME Failing # {} PROVE FALSE
        OBVIOUS
      <3>1. PICK i \in Failing : i = 0 \/ (i - 1 \in Nat /\ i - 1 \notin Failing)
        <4>1. Failing \in SUBSET Nat
          OBVIOUS
        <4> HIDE DEF Failing
        <4> QED BY <4>1, LeastFailure
      <3>2. i # 1
        BY <2>12, <1>1
      <3>3. i - 1 \in 1..n /\ flatten[i - 1] \in Seq(T)
        BY <1>1, <3>1, <3>2
      <3>4. flatten[i] = flatten[i - 1] \o seqs[i]
        BY <2>12, <3>2
      <3>5. seqs[i] \in Seq(T) /\ flatten[i] \notin Seq(T)
        BY <1>1
      <3> HIDE DEF Failing, n
      <3> QED BY <3>3, <3>4, <3>5, ConcatProperties
    <2>14. n \in 1..n
      BY <1>1, <1>3
    <2>15. flatten[n] \in Seq(T)
      BY <2>13, <2>14
    <2> QED BY <2>10, <2>15
  <1> QED BY <1>2, <1>3

(* Sources and incarnations are written as such.                           *)
LEMMA RegistryRecordsAre ==
    ASSUME RegistryTypeOK, IsFiniteSet(sources)
    PROVE  RegistryRecords \in Seq(OtherBody)
  <1> DEFINE body  == [s \in sources |-> [kind |-> "source", source |-> s]]
             image == {[kind |-> "source", source |-> s] : s \in sources}
  <1>1. IsFiniteSet(image)
    <2>1. body \in Surjection(sources, image)
      BY DEF Surjection
    <2> HIDE DEF body, image
    <2> QED BY <2>1, FS_Surjection
  <1>2. image \subseteq SourceBody /\ image \subseteq OtherBody
    BY DEF RegistryTypeOK, SourceBody, OtherBody
  <1>3. SourceRecords \in Seq(image)
    <2>1. SourceRecords = SetToSeq(image)
      BY DEF SourceRecords
    <2> HIDE DEF image
    <2> QED BY <1>1, <2>1, SetToSeqIs
  <1> HIDE DEF image
  <1>4. SourceRecords \in Seq(OtherBody) /\ SourceRecords \in Seq(SourceBody)
    BY <1>2, <1>3, SeqMonotonic
  <1>5. ASSUME NEW s \in Sources
        PROVE  IncarnationRecords(s) \in Seq(OtherBody)
    <2> DEFINE list == incarnations[s]
    <2>1. list \in Seq(Incarnation) /\ Len(list) \in Nat /\ DOMAIN list = 1..Len(list)
          /\ \A k \in 1..Len(list) : list[k] \in Incarnation
      BY LenProperties DEF RegistryTypeOK
    <2> HIDE DEF list
    <2>2. \A k \in 1..Len(list) :
              [kind |-> "incarnation", source |-> s, epoch |-> list[k].epoch] \in OtherBody
      BY <2>1 DEF Incarnation, EpochBody, OtherBody
    <2>3. IncarnationRecords(s) =
              [k \in 1..Len(list) |->
                  [kind |-> "incarnation", source |-> s, epoch |-> list[k].epoch]]
      BY <2>1 DEF IncarnationRecords, list
    <2> QED BY <2>1, <2>2, <2>3
  <1> DEFINE lists == [k \in DOMAIN SourceRecords |-> IncarnationRecords(SourceRecords[k].source)]
  <1>6. lists \in Seq(Seq(OtherBody))
    <2>1. Len(SourceRecords) \in Nat /\ DOMAIN SourceRecords = 1..Len(SourceRecords)
          /\ \A k \in 1..Len(SourceRecords) : SourceRecords[k] \in SourceBody
      BY <1>4
    <2>2. \A b \in SourceBody : b.source \in Sources
      BY DEF SourceBody
    <2>3. \A k \in 1..Len(SourceRecords) :
              IncarnationRecords(SourceRecords[k].source) \in Seq(OtherBody)
      BY <1>5, <2>1, <2>2
    <2> QED BY <2>1, <2>3
  <1> HIDE DEF lists
  <1>7. FlattenSeq(lists) \in Seq(OtherBody)
    BY <1>6, FlattenSeqIs
  <1>8. RegistryRecords = SourceRecords \o FlattenSeq(lists)
    BY DEF RegistryRecords, lists
  <1> QED BY <1>4, <1>7, <1>8, ConcatProperties

LEMMA EvidenceRecordsAre ==
    ASSUME NEW items \in SUBSET EvidenceItem, IsFiniteSet(items)
    PROVE  SetToSeq({EvidenceRecord(item) : item \in items}) \in Seq(OtherBody)
  <1> DEFINE body  == [item \in items |-> EvidenceRecord(item)]
             image == {EvidenceRecord(item) : item \in items}
  <1>1. IsFiniteSet(image)
    <2>1. body \in Surjection(items, image)
      BY DEF Surjection
    <2> HIDE DEF body, image
    <2> QED BY <2>1, FS_Surjection
  <1>2. image \subseteq OtherBody
    BY DEF EvidenceRecord, EvidenceBody, OtherBody
  <1> HIDE DEF image
  <1>3. SetToSeq(image) \in Seq(OtherBody)
    BY <1>1, <1>2, SetToSeqIs, SeqMonotonic
  <1> QED BY <1>3 DEF image

-----------------------------------------------------------------------------
(* What a declaration does to the tables, made or read back.               *)

(* The same declaration, the revision of a path left aside.                *)
Alike(kind, a, b) == IF kind = "paths" THEN a.shape = b.shape ELSE a = b

LEMMA DeclaredTable ==
    ASSUME NEW t \in TopologyRecord, NEW kind \in TableKinds, NEW id \in Ids(kind),
           NEW c \in ContentOf(kind), NEW n, n = Declared(t, kind, id, c)
    PROVE  /\ n \in TopologyRecord /\ n.revision = t.revision + 1
           /\ n[kind] = Put(t[kind], id, c)
           /\ \A other \in TableKinds \ {kind} : n[other] = t[other]
  <1>1. Put(t[kind], id, c) \in PartialFunctions(Ids(kind), ContentOf(kind))
    <2>1. t[kind] \in PartialFunctions(Ids(kind), ContentOf(kind))
      BY TableIs
    <2> QED BY <2>1, PutIs
  <1>2. /\ t.links \in PartialFunctions(Links, Contents)
        /\ t.paths \in PartialFunctions(Paths, Path)
        /\ t.flows \in PartialFunctions(Flows, FlowBinding)
        /\ t.revision + 1 \in Revisions
    BY DEF TopologyRecord, Revisions
  <1>3. CASE kind = "links"
    <2>1. n = [links |-> Put(t.links, id, c), paths |-> t.paths, flows |-> t.flows,
               revision |-> t.revision + 1]
      BY <1>3, DeclaredIs
    <2>2. Put(t.links, id, c) \in PartialFunctions(Links, Contents)
      BY <1>1, <1>3 DEF Ids, ContentOf
    <2> QED BY <1>2, <1>3, <2>1, <2>2 DEF TopologyRecord, TableKinds
  <1>4. CASE kind = "paths"
    <2>1. n = [links |-> t.links, paths |-> Put(t.paths, id, c), flows |-> t.flows,
               revision |-> t.revision + 1]
      BY <1>4, DeclaredIs
    <2>2. Put(t.paths, id, c) \in PartialFunctions(Paths, Path)
      BY <1>1, <1>4 DEF Ids, ContentOf
    <2> QED BY <1>2, <1>4, <2>1, <2>2 DEF TopologyRecord, TableKinds
  <1>5. CASE kind = "flows"
    <2>1. n = [links |-> t.links, paths |-> t.paths, flows |-> Put(t.flows, id, c),
               revision |-> t.revision + 1]
      BY <1>5, DeclaredIs
    <2>2. Put(t.flows, id, c) \in PartialFunctions(Flows, FlowBinding)
      BY <1>1, <1>5 DEF Ids, ContentOf
    <2> QED BY <1>2, <1>5, <2>1, <2>2 DEF TopologyRecord, TableKinds
  <1> QED BY <1>3, <1>4, <1>5 DEF TableKinds

Upserted(t, kind, id, content, replace) ==
    IF kind = "paths" THEN UpsertPath(t, id, content, replace)
    ELSE Upsert(t, kind, id, content, replace)

(* Nothing but this entity may differ.                                     *)
OnlyTouches(t, n, kind, id) ==
    /\ \A other \in TableKinds \ {kind} : n[other] = t[other]
    /\ DOMAIN t[kind] \subseteq DOMAIN n[kind]
    /\ DOMAIN n[kind] \subseteq DOMAIN t[kind] \cup {id}
    /\ \A x \in DOMAIN t[kind] \ {id} : n[kind][x] = t[kind][x]

(* An accepted declaration stands in its table, takes a revision and       *)
(* leaves the other tables alone; one that may replace is refused only     *)
(* when the table is full of others.                                       *)
LEMMA UpsertIs ==
    ASSUME NEW t \in Topologies, NEW kind \in TableKinds, NEW id \in Ids(kind),
           NEW content \in ContentOf(kind), NEW replace \in BOOLEAN,
           NEW n, n = Upserted(t, kind, id, content, replace)
    PROVE  /\ n \in Topologies
           /\ OnlyTouches(t, n, kind, id)
           /\ n = t \/ n.revision = t.revision + 1
           /\ replace /\ (id \in DOMAIN t[kind] \/ Cardinality(DOMAIN t[kind]) < Limit(kind))
                 => id \in DOMAIN n[kind] /\ Alike(kind, n[kind][id], content)
  <1> DEFINE outcome == UpsertOutcome(t, kind, id, content, replace)
             stored  == IF kind = "paths"
                        THEN [content EXCEPT !.revision = PathRevision(t, outcome, content)]
                        ELSE content
             room    == id \in DOMAIN t[kind] \/ Cardinality(DOMAIN t[kind]) < Limit(kind)
  <1>1. t \in TopologyRecord /\ t.revision \in Nat /\ t.revision # NoRevision
        /\ IsFiniteSet(DOMAIN t[kind]) /\ Cardinality(DOMAIN t[kind]) <= Limit(kind)
        /\ Cardinality(DOMAIN t[kind]) \in Nat
        /\ Limit(kind) \in Nat
    BY TableIs, FS_CardinalityType DEF Topologies, TopologyRecord, Revisions
  <1>2. n = IF outcome \in Accepted THEN Declared(t, kind, id, stored) ELSE t
    BY DEF Upserted, UpsertPath, Upsert
  <1>3. stored \in ContentOf(kind) /\ Alike(kind, stored, content)
    <2>1. CASE kind = "paths"
      <3>1. content \in Path
        BY <2>1 DEF ContentOf
      <3>2. PathRevision(t, outcome, content) \in Revisions
        BY <1>1, <3>1 DEF PathRevision, Path, Revisions
      <3> QED BY <2>1, <3>1, <3>2 DEF Path, ContentOf, Alike
    <2>2. CASE kind # "paths"
      BY <2>2 DEF Alike
    <2> QED BY <2>1, <2>2
  <1>4. /\ outcome \in Accepted => room
        /\ replace /\ room /\ outcome \notin Accepted
              => id \in DOMAIN t[kind] /\ t[kind][id] = content
    BY DEF UpsertOutcome, Accepted
  <1> HIDE DEF outcome, stored
  <1>5. CASE outcome \notin Accepted
    <2>1. n = t
      BY <1>2, <1>5
    <2>2. Alike(kind, content, content)
      BY DEF Alike
    <2> QED BY <1>4, <1>5, <2>1, <2>2 DEF OnlyTouches
  <1>6. CASE outcome \in Accepted
    <2>1. n = Declared(t, kind, id, stored)
      BY <1>2, <1>6
    <2>2. /\ n \in TopologyRecord /\ n.revision = t.revision + 1
          /\ n[kind] = Put(t[kind], id, stored)
          /\ \A other \in TableKinds \ {kind} : n[other] = t[other]
      BY <1>1, <1>3, <2>1, DeclaredTable
    <2>3. /\ DOMAIN n[kind] = DOMAIN t[kind] \cup {id}
          /\ n[kind][id] = stored
          /\ \A x \in DOMAIN t[kind] \ {id} : n[kind][x] = t[kind][x]
      BY <2>2 DEF Put
    <2>4. IsFiniteSet(DOMAIN n[kind]) /\ Cardinality(DOMAIN n[kind]) <= Limit(kind)
      <3>1. CASE id \in DOMAIN t[kind]
        <4>1. DOMAIN n[kind] = DOMAIN t[kind]
          BY <2>3, <3>1
        <4> QED BY <1>1, <4>1
      <3>2. CASE id \notin DOMAIN t[kind]
        <4>1. /\ IsFiniteSet(DOMAIN t[kind] \cup {id})
              /\ Cardinality(DOMAIN t[kind] \cup {id}) = Cardinality(DOMAIN t[kind]) + 1
          BY <1>1, <3>2, FS_AddElement
        <4>2. Cardinality(DOMAIN t[kind]) < Limit(kind)
          BY <1>4, <1>6, <3>2
        <4> QED BY <1>1, <2>3, <4>1, <4>2
      <3> QED BY <3>1, <3>2
    <2>5. n.revision # NoRevision
      BY <1>1, <2>2 DEF NoRevision
    <2>6. \A other \in TableKinds : IsFiniteSet(DOMAIN n[other])
                               /\ Cardinality(DOMAIN n[other]) <= Limit(other)
      BY <2>2, <2>4 DEF Topologies
    <2>7. n \in Topologies
      BY <2>2, <2>5, <2>6 DEF Topologies
    <2>8. OnlyTouches(t, n, kind, id)
      BY <2>2, <2>3 DEF OnlyTouches
    <2> QED BY <1>3, <2>2, <2>3, <2>7, <2>8
  <1> QED BY <1>5, <1>6

-----------------------------------------------------------------------------
(* What is read back.                                                      *)

(* A reader stops before the first damaged record, and only there.         *)
LEMMA ReadableIs ==
    ASSUME NEW records \in Seq(JournalRecord)
    PROVE  \E n \in 0..Len(records) :
              /\ Readable(records) = SubSeq(records, 1, n)
              /\ Readable(records) \in Seq(WholeRecord) /\ Len(Readable(records)) = n
              /\ \A k \in 1..n : Readable(records)[k] = records[k] /\ records[k] # Torn
              /\ n < Len(records) => records[n + 1] = Torn
  <1> DEFINE torn == {k \in 1..Len(records) : records[k] = Torn}
             first == IF torn # {} THEN Min(torn) ELSE 0
             n == IF first = 0 THEN Len(records) ELSE first - 1
  <1>1. Readable(records) =
            IF first = 0 THEN records ELSE SubSeq(records, 1, first - 1)
    BY DEF Readable, SelectInSeq
  <1>2. Len(records) \in Nat
    OBVIOUS
  <1>3. /\ n \in 0..Len(records)
        /\ \A k \in 1..n : records[k] # Torn
        /\ n < Len(records) => records[n + 1] = Torn
    <2>1. CASE torn = {}
      BY <1>2, <2>1
    <2>2. CASE torn # {}
      <3>1. torn \in SUBSET Nat
        OBVIOUS
      <3>2. first \in torn /\ \A k \in torn : first <= k
        <4> HIDE DEF torn
        <4> QED BY <2>2, <3>1, MinIsLeast
      <3>3. /\ first - 1 \in 0..Len(records) /\ first # 0
            /\ records[first - 1 + 1] = Torn
        BY <3>2, <1>2
      <3>4. ASSUME NEW k \in 1..(first - 1)
            PROVE  records[k] # Torn
        <4>1. k \notin torn
          <5>1. first \in Nat /\ k \in Nat /\ k < first
            <6>1. first \in Nat
              BY <3>1, <3>2
            <6> HIDE DEF torn, first
            <6> QED BY <6>1
          <5> HIDE DEF torn, first
          <5> QED BY <3>2, <5>1
        <4>2. k \in 1..Len(records)
          BY <3>3, <1>2
        <4> QED BY <4>1, <4>2
      <3> QED BY <3>3, <3>4
    <2> QED BY <2>1, <2>2
  <1>4. Readable(records) = SubSeq(records, 1, n)
    <2>1. CASE first = 0
      <3>1. records = SubSeq(records, 1, Len(records))
        BY <1>2
      <3> HIDE DEF first
      <3> QED BY <1>1, <2>1, <3>1
    <2>2. CASE first # 0
      <3> HIDE DEF first
      <3> QED BY <1>1, <2>2
    <2> QED BY <2>1, <2>2
  <1> HIDE DEF n
  <1>5. /\ Len(Readable(records)) = n
        /\ \A k \in 1..n : Readable(records)[k] = records[k]
    BY <1>2, <1>3, <1>4
  <1>6. \A k \in 1..n : records[k] \in WholeRecord
    <2>1. \A k \in 1..n : k \in 1..Len(records) /\ records[k] # Torn
      BY <1>2, <1>3
    <2> QED BY <2>1 DEF JournalRecord
  <1>7. Readable(records) \in Seq(JournalRecord)
    BY <1>2, <1>3, <1>4
  <1>8. Readable(records) \in Seq(WholeRecord)
    BY <1>5, <1>6, <1>7
  <1> QED BY <1>3, <1>4, <1>5, <1>8

LEMMA UntornIsReadable ==
    ASSUME NEW records \in Seq(JournalRecord), Torn \notin Range(records)
    PROVE  Readable(records) = records
  <1>1. PICK n \in 0..Len(records) : /\ Readable(records) = SubSeq(records, 1, n)
                                     /\ n < Len(records) => records[n + 1] = Torn
    BY ReadableIs
  <1>2. n = Len(records)
    <2>1. ASSUME n < Len(records) PROVE FALSE
      <3>1. n + 1 \in DOMAIN records
        BY <2>1
      <3> QED BY <1>1, <2>1, <3>1 DEF Range
    <2> QED BY <2>1
  <1> QED BY <1>1, <1>2

(* What the loop of load may have made of any journal.                     *)
FiniteSources  == {S \in SUBSET Sources : IsFiniteSet(S)}
RecoveredItems ==
    {H \in SUBSET EvidenceItem :
        IsFiniteSet(H) /\ \A item \in H : item.observation.recovered}

ReadState ==
    [topology : Topologies, sources : FiniteSources,
     incarnations : [Sources -> Seq(Incarnation)], held : RecoveredItems,
     topology_restored : Nat, sources_restored : Nat, evidence_restored : Nat]

LEMMA RecoveredIs ==
    ASSUME NEW item \in EvidenceItem
    PROVE  AsRecovered(item) \in EvidenceItem /\ AsRecovered(item).observation.recovered
  <1> DEFINE o == [item.observation EXCEPT !.recovered = TRUE]
  <1>1. o \in LossObservation /\ o.recovered
    BY DEF EvidenceItem, LossObservation
  <1>2. AsRecovered(item) = [item EXCEPT !.observation = o]
    BY DEF AsRecovered
  <1> HIDE DEF o
  <1>3. [item EXCEPT !.observation = o] = [observation |-> o, saw |-> item.saw]
    BY DEF EvidenceItem
  <1> QED BY <1>1, <1>2, <1>3 DEF EvidenceItem

LEMMA NothingIsReadState == Nothing \in ReadState
  <1>1. [s \in Sources |-> << >>] \in [Sources -> Seq(Incarnation)]
    OBVIOUS
  <1>2. IsFiniteSet({})
    BY FS_EmptySet
  <1>3. {} \in FiniteSources /\ {} \in RecoveredItems
    BY <1>2 DEF FiniteSources, RecoveredItems
  <1> QED BY <1>1, <1>3, EmptyIsTopology DEF Nothing, ReadState

(* A table takes the record unless as many as may be loaded were; either   *)
(* way what it makes of the table is what a declaration would.             *)
LEMMA ReadTableIs ==
    ASSUME NEW st \in ReadState, NEW body \in TableBody, NEW n, n = ReadTable(st, body)
    PROVE  /\ n \in ReadState
           /\ n.topology_restored <= st.topology_restored + 1
           /\ st.topology_restored < MaxTopologyLoaded =>
                 n.topology = Upserted(st.topology, body.kind, body.id, body.content, TRUE)
  <1> DEFINE more == Upserted(st.topology, body.kind, body.id, body.content, TRUE)
             full == UpsertOutcome(st.topology, body.kind, body.id, body.content, TRUE)
                         = "CapacityExceeded"
  <1>1. st.topology \in Topologies /\ st.topology_restored \in Nat
    BY DEF ReadState
  <1>2. body.kind \in TableKinds /\ body.id \in Ids(body.kind)
        /\ body.content \in ContentOf(body.kind)
    BY BodyKinds DEF TableBodies
  <1>3. more = TopologyWith(st.topology, body)
    BY DEF TopologyWith, Upserted
  <1>4. more \in Topologies
    <2> DEFINE t == st.topology
               kind == body.kind
               id == body.id
               content == body.content
               replace == TRUE
    <2>1. /\ t \in Topologies /\ kind \in TableKinds /\ id \in Ids(kind)
          /\ content \in ContentOf(kind) /\ replace \in BOOLEAN
          /\ more = Upserted(t, kind, id, content, replace)
      BY <1>1, <1>2
    <2> HIDE DEF more, t, kind, id, content, replace
    <2> QED BY <2>1, UpsertIs
  <1>5. ASSUME full PROVE more = st.topology
    <2>1. /\ UpsertOutcome(st.topology, body.kind, body.id, body.content, TRUE) \notin Accepted
          /\ body.kind = "paths" =>
                UpsertOutcome(st.topology, "paths", body.id, body.content, TRUE) \notin Accepted
      BY <1>5 DEF Accepted
    <2> QED BY <2>1 DEF Upserted, UpsertPath, Upsert
  <1>6. n = IF st.topology_restored < MaxTopologyLoaded /\ ~full
            THEN [st EXCEPT !.topology = more,
                            !.topology_restored = st.topology_restored + 1]
            ELSE st
    BY <1>3, Zenon DEF ReadTable
  <1> HIDE DEF more, full
  <1>7. CASE st.topology_restored < MaxTopologyLoaded /\ ~full
    <2>1. n = [st EXCEPT !.topology = more, !.topology_restored = st.topology_restored + 1]
      BY <1>6, <1>7
    <2>2. st.topology_restored + 1 \in Nat
      BY <1>1
    <2>3. n \in ReadState /\ n.topology = more /\ n.topology_restored = st.topology_restored + 1
      BY <1>4, <2>1, <2>2 DEF ReadState
    <2> QED BY <1>1, <2>3 DEF more
  <1>8. CASE ~(st.topology_restored < MaxTopologyLoaded /\ ~full)
    <2>1. n = st
      BY <1>6, <1>8
    <2>2. st.topology_restored < MaxTopologyLoaded => more = st.topology
      BY <1>5, <1>8
    <2>3. n \in ReadState /\ n.topology_restored <= st.topology_restored + 1
      BY <1>1, <2>1
    <2>4. st.topology_restored < MaxTopologyLoaded => n.topology = more
      BY <2>1, <2>2
    <2> QED BY <2>3, <2>4 DEF more
  <1> QED BY <1>7, <1>8

LEMMA ReadSourceIs ==
    ASSUME NEW st \in ReadState, NEW s \in Sources, NEW n, n = ReadSource(st, s)
    PROVE  /\ n \in ReadState /\ n.topology = st.topology
           /\ n.topology_restored = st.topology_restored
  <1> DEFINE more == st.sources \cup {s}
  <1>1. more \in FiniteSources
    <2>1. st.sources \in FiniteSources
      BY DEF ReadState
    <2> QED BY <2>1, FS_AddElement DEF FiniteSources
  <1>2. n = st \/ n = [st EXCEPT !.sources = more, !.sources_restored = st.sources_restored + 1]
    BY DEF ReadSource
  <1> HIDE DEF more
  <1>3. CASE n = st
    BY <1>3
  <1>4. CASE n = [st EXCEPT !.sources = more, !.sources_restored = st.sources_restored + 1]
    <2>1. st.sources_restored + 1 \in Nat
      BY DEF ReadState
    <2>2. n \in ReadState
      BY <1>1, <1>4, <2>1 DEF ReadState
    <2>3. n.topology = st.topology /\ n.topology_restored = st.topology_restored
      BY <1>4 DEF ReadState
    <2> QED BY <2>2, <2>3
  <1> QED BY <1>2, <1>3, <1>4

LEMMA ReadIncarnationIs ==
    ASSUME NEW st \in ReadState, NEW s \in Sources, NEW e \in Epochs,
           NEW n, n = ReadIncarnation(st, s, e)
    PROVE  /\ n \in ReadState /\ n.topology = st.topology
           /\ n.topology_restored = st.topology_restored
  <1> DEFINE lists == IncarnationsWith(st.incarnations, s, e)
  <1>1. st.incarnations \in [Sources -> Seq(Incarnation)]
    BY DEF ReadState
  <1>2. lists \in [Sources -> Seq(Incarnation)]
    <2>1. Retired(e) \in Incarnation
      BY DEF Retired, Incarnation
    <2>2. Append(st.incarnations[s], Retired(e)) \in Seq(Incarnation)
      BY <1>1, <2>1, AppendProperties
    <2> QED BY <1>1, <2>2 DEF IncarnationsWith
  <1>3. n = st \/ n = [st EXCEPT !.incarnations = lists]
    BY DEF ReadIncarnation
  <1> HIDE DEF lists
  <1>4. n \in ReadState
    BY <1>2, <1>3 DEF ReadState
  <1>5. n.topology = st.topology /\ n.topology_restored = st.topology_restored
    BY <1>3 DEF ReadState
  <1> QED BY <1>4, <1>5

LEMMA ReadEvidenceIs ==
    ASSUME NEW st \in ReadState, NEW item \in EvidenceItem, NEW n, n = ReadEvidence(st, item)
    PROVE  /\ n \in ReadState /\ n.topology = st.topology
           /\ n.topology_restored = st.topology_restored
  <1> DEFINE more == st.held \cup {AsRecovered(item)}
  <1>1. more \in RecoveredItems
    <2>1. AsRecovered(item) \in EvidenceItem /\ AsRecovered(item).observation.recovered
      BY RecoveredIs
    <2>2. st.held \in RecoveredItems
      BY DEF ReadState
    <2> QED BY <2>1, <2>2, FS_AddElement DEF RecoveredItems
  <1>2. n = st \/ n = [st EXCEPT !.held = more, !.evidence_restored = st.evidence_restored + 1]
    BY DEF ReadEvidence, Restored
  <1> HIDE DEF more
  <1>3. CASE n = st
    BY <1>3
  <1>4. CASE n = [st EXCEPT !.held = more, !.evidence_restored = st.evidence_restored + 1]
    <2>1. st.evidence_restored + 1 \in Nat
      BY DEF ReadState
    <2>2. n \in ReadState
      BY <1>1, <1>4, <2>1 DEF ReadState
    <2>3. n.topology = st.topology /\ n.topology_restored = st.topology_restored
      BY <1>4 DEF ReadState
    <2> QED BY <2>2, <2>3
  <1> QED BY <1>2, <1>3, <1>4

LEMMA ReadRecordIs ==
    ASSUME NEW st \in ReadState, NEW b \in Body, NEW n, n = ReadRecord(st, b)
    PROVE  /\ n \in ReadState
           /\ n.topology_restored <= st.topology_restored + 1
           /\ b.kind \notin TableKinds => /\ n.topology = st.topology
                                         /\ n.topology_restored = st.topology_restored
           /\ b.kind \in TableKinds /\ st.topology_restored < MaxTopologyLoaded =>
                 n.topology = Upserted(st.topology, b.kind, b.id, b.content, TRUE)
  <1>1. st.topology_restored \in Nat
    BY DEF ReadState
  <1>2. CASE b \in TableBody
    <2>1. b.kind \in TableKinds
      BY <1>2, BodyKinds
    <2>2. n = ReadTable(st, b)
      BY <2>1 DEF ReadRecord, TableKinds
    <2> QED BY <1>2, <2>1, <2>2, ReadTableIs
  <1>3. CASE b \in SourceBody
    <2>1. b.kind = "source" /\ b.source \in Sources /\ b.kind \notin TableKinds
      BY <1>3 DEF SourceBody, TableKinds
    <2>2. n = ReadSource(st, b.source)
      BY <2>1 DEF ReadRecord, TableKinds
    <2> DEFINE from == b.source
    <2>3. from \in Sources /\ n = ReadSource(st, from)
      BY <2>1, <2>2
    <2> HIDE DEF from
    <2>4. /\ n \in ReadState /\ n.topology = st.topology
          /\ n.topology_restored = st.topology_restored
      BY <2>3, ReadSourceIs
    <2>5. n.topology_restored <= st.topology_restored + 1
      BY <1>1, <2>4
    <2> QED BY <2>1, <2>4, <2>5
  <1>4. CASE b \in EpochBody
    <2>1. /\ b.kind = "incarnation" /\ b.source \in Sources /\ b.epoch \in Epochs
          /\ b.kind \notin TableKinds
      BY <1>4 DEF EpochBody, TableKinds
    <2>2. n = ReadIncarnation(st, b.source, b.epoch)
      BY <2>1 DEF ReadRecord, TableKinds
    <2> DEFINE from  == b.source
               epoch == b.epoch
    <2>3. from \in Sources /\ epoch \in Epochs /\ n = ReadIncarnation(st, from, epoch)
      BY <2>1, <2>2
    <2> HIDE DEF from, epoch
    <2>4. /\ n \in ReadState /\ n.topology = st.topology
          /\ n.topology_restored = st.topology_restored
      BY <2>3, ReadIncarnationIs
    <2>5. n.topology_restored <= st.topology_restored + 1
      BY <1>1, <2>4
    <2> QED BY <2>1, <2>4, <2>5
  <1>5. CASE b \in EvidenceBody
    <2>1. b.kind = "evidence" /\ b.item \in EvidenceItem /\ b.kind \notin TableKinds
      BY <1>5 DEF EvidenceBody, TableKinds
    <2>2. n = ReadEvidence(st, b.item)
      BY <2>1 DEF ReadRecord, TableKinds
    <2> DEFINE one == b.item
    <2>3. one \in EvidenceItem /\ n = ReadEvidence(st, one)
      BY <2>1, <2>2
    <2> HIDE DEF one
    <2>4. /\ n \in ReadState /\ n.topology = st.topology
          /\ n.topology_restored = st.topology_restored
      BY <2>3, ReadEvidenceIs
    <2>5. n.topology_restored <= st.topology_restored + 1
      BY <1>1, <2>4
    <2> QED BY <2>1, <2>4, <2>5
  <1> QED BY <1>2, <1>3, <1>4, <1>5 DEF Body, OtherBody

(* The loop of load, place by place.                                       *)
ReadInto(st, record) == IF record.kind = "entry" THEN ReadRecord(st, record.body) ELSE st

LEMMA ReadIntoIs ==
    ASSUME NEW st \in ReadState, NEW r \in WholeRecord, NEW n, n = ReadInto(st, r)
    PROVE  /\ n \in ReadState
           /\ n.topology_restored <= st.topology_restored + (IF IsTable(r) THEN 1 ELSE 0)
           /\ (\A kind \in TableKinds : \A id : ~IsOf(r, kind, id)) => n.topology = st.topology
  <1>1. st.topology_restored \in Nat
    BY DEF ReadState
  <1>2. CASE r = Session
    <2>1. r.kind # "entry"
      BY <1>2 DEF Session
    <2> QED BY <1>1, <2>1 DEF ReadInto, IsTable
  <1>3. CASE r \in [kind : {"entry"}, body : Body]
    <2> DEFINE b == r.body
    <2>1. r.kind = "entry" /\ b \in Body /\ n = ReadRecord(st, b)
      BY <1>3 DEF ReadInto
    <2>2. /\ IsTable(r) <=> b.kind \in TableKinds
          /\ b.kind \in TableKinds => IsOf(r, b.kind, b.id)
      BY <2>1 DEF IsOf, IsTable
    <2> HIDE DEF b
    <2>3. /\ n \in ReadState
          /\ n.topology_restored <= st.topology_restored + 1
          /\ b.kind \notin TableKinds => /\ n.topology = st.topology
                                        /\ n.topology_restored = st.topology_restored
      BY <2>1, ReadRecordIs
    <2>4. n.topology_restored <= st.topology_restored + (IF IsTable(r) THEN 1 ELSE 0)
      BY <1>1, <2>2, <2>3
    <2> QED BY <2>2, <2>3, <2>4
  <1> QED BY <1>2, <1>3 DEF WholeRecord

(* A record of an entity declares it, while more may be loaded.            *)
LEMMA ReadIntoDeclares ==
    ASSUME NEW st \in ReadState, NEW r \in WholeRecord, NEW kind \in TableKinds, NEW id,
           IsOf(r, kind, id)
    PROVE  /\ id \in Ids(kind) /\ r.body.content \in ContentOf(kind) /\ IsTable(r)
           /\ st.topology_restored < MaxTopologyLoaded =>
                 ReadInto(st, r).topology = Upserted(st.topology, kind, id, r.body.content, TRUE)
  <1>1. /\ r.kind = "entry" /\ r.body \in Body /\ r.body.kind = kind /\ r.body.id = id
        /\ ReadInto(st, r) = ReadRecord(st, r.body)
    BY DEF WholeRecord, Session, IsOf, ReadInto
  <1>2. r.body \in TableBodies(kind) /\ IsTable(r)
    BY <1>1, BodyKinds DEF Body, IsTable
  <1>3. st.topology_restored < MaxTopologyLoaded =>
            ReadRecord(st, r.body).topology
                = Upserted(st.topology, kind, id, r.body.content, TRUE)
    BY <1>1, ReadRecordIs
  <1> QED BY <1>1, <1>2, <1>3 DEF TableBodies

(* The loop passes over what is beyond its bound.                          *)
ReadAt(st, record, k) == IF k <= MaxRecordsLoaded THEN ReadInto(st, record) ELSE st

LEMMA ReadBackIs ==
    ASSUME NEW records \in Seq(JournalRecord),
           NEW all, all = Readable(records), NEW n, n = Len(all)
    PROVE  \E f \in [0..n -> ReadState] :
              /\ f[0] = Nothing
              /\ \A k \in 1..n : f[k] = ReadAt(f[k - 1], all[k], k)
              /\ ReadBack(records) = f[n]
  <1> DEFINE op == [x \in ReadState \X (1..n) |-> ReadAt(x[1], all[x[2]], x[2])]
             Turn(before, k) == IF k <= MaxRecordsLoaded /\ all[k].kind = "entry"
                                THEN ReadRecord(before, all[k].body) ELSE before
             Recursion(f) ==
                 f = [k \in 0..n |-> IF k = 0 THEN Nothing
                                     ELSE IF k <= MaxRecordsLoaded /\ all[k].kind = "entry"
                                     THEN ReadRecord(f[k - 1], all[k].body)
                                     ELSE f[k - 1]]
  <1>1. n \in Nat /\ \A k \in 1..n : all[k] \in WholeRecord
    BY ReadableIs
  <1>2. ASSUME NEW st \in ReadState, NEW k \in 1..n
        PROVE  ReadAt(st, all[k], k) \in ReadState
    <2>1. ReadInto(st, all[k]) \in ReadState
      BY <1>1, ReadIntoIs
    <2> QED BY <2>1 DEF ReadAt
  <1>3. op \in [ReadState \X (1..n) -> ReadState]
    BY <1>2
  <1>4. PICK g \in [0..n -> ReadState] : SolvesByPlace(g, n, Nothing, op)
    <2> HIDE DEF op
    <2> QED BY <1>1, <1>3, NothingIsReadState, RecursionByPlace
  <1>5. ASSUME NEW k \in 1..n
        PROVE  g[k] = Turn(g[k - 1], k)
    <2>1. k - 1 \in 0..n
      BY <1>1
    <2>2. g[k - 1] \in ReadState /\ g[k] = op[<<g[k - 1], k>>]
      BY <1>4, <2>1 DEF SolvesByPlace
    <2>3. g[k] = ReadAt(g[k - 1], all[k], k)
      BY <2>2
    <2> QED BY <2>3 DEF ReadAt, ReadInto
  <1>6. Recursion(g)
    <2>1. g[0] = Nothing /\ \A k \in 0..n : k # 0 => k \in 1..n
      BY <1>1, <1>4 DEF SolvesByPlace
    <2> QED BY <1>4, <1>5, <2>1
  <1> DEFINE f == CHOOSE h : Recursion(h)
  <1>7. ReadBack(records) = f[n]
    BY DEF ReadBack
  <1>8. Recursion(f)
    <2> HIDE DEF Recursion
    <2> QED BY <1>6
  <1> HIDE DEF f
  <1>9. /\ DOMAIN f = 0..n /\ f[0] = Nothing
        /\ \A k \in 1..n : f[k] = ReadAt(f[k - 1], all[k], k)
    <2>1. \A k \in 0..n : f[k] = IF k = 0 THEN Nothing ELSE Turn(f[k - 1], k)
      BY <1>8
    <2>2. DOMAIN f = 0..n
      BY <1>8
    <2>3. 0 \in 0..n /\ \A k \in 1..n : k \in 0..n /\ k # 0
      BY <1>1
    <2>4. \A k \in 1..n : Turn(f[k - 1], k) = ReadAt(f[k - 1], all[k], k)
      BY DEF ReadAt, ReadInto
    <2> HIDE DEF Recursion, Turn
    <2> QED BY <2>1, <2>2, <2>3, <2>4
  <1>10. f = [k \in 0..n |-> f[k]]
    <2> DEFINE h == [k \in 0..n |-> IF k = 0 THEN Nothing ELSE Turn(f[k - 1], k)]
    <2>1. f = h
      BY <1>8
    <2>2. h = [k \in 0..n |-> h[k]]
      OBVIOUS
    <2> HIDE DEF h
    <2> QED BY <2>1, <2>2
  <1> HIDE DEF Recursion
  <1>11. \A k \in 0..n : f[k] \in ReadState
    <2> DEFINE Failing == {k \in 0..n : f[k] \notin ReadState}
    <2>1. SUFFICES ASSUME Failing # {} PROVE FALSE
      OBVIOUS
    <2>2. PICK k \in Failing : k = 0 \/ (k - 1 \in Nat /\ k - 1 \notin Failing)
      <3>1. Failing \in SUBSET Nat
        OBVIOUS
      <3> HIDE DEF Failing
      <3> QED BY <2>1, <3>1, LeastFailure
    <2>3. k # 0 /\ k \in 1..n
      BY <1>9, <2>2, NothingIsReadState
    <2>4. f[k - 1] \in ReadState
      BY <1>1, <2>2, <2>3
    <2> QED BY <1>2, <1>9, <2>2, <2>3, <2>4
  <1>12. f \in [0..n -> ReadState]
    BY <1>10, <1>11
  <1> QED BY <1>7, <1>9, <1>12

LEMMA ReadBackIsState ==
    ASSUME NEW records \in Seq(JournalRecord)
    PROVE  ReadBack(records) \in ReadState
  <1>1. Len(Readable(records)) \in Nat
    BY ReadableIs
  <1>2. PICK f \in [0..Len(Readable(records)) -> ReadState] :
            ReadBack(records) = f[Len(Readable(records))]
    BY ReadBackIs
  <1> QED BY <1>1, <1>2

(* Every entity these records declare is declared in t, and t declares     *)
(* nothing else and all of it as the last of its records does.             *)
NamedIn(t, records, n) ==
    \A k \in 1..n : \A kind \in TableKinds : \A id :
        IsOf(records[k], kind, id) => id \in DOMAIN t[kind]

LastIs(records, n, kind, id, k) ==
    IsOf(records[k], kind, id) /\ \A j \in (k + 1)..n : ~IsOf(records[j], kind, id)

SaidBy(t, records, n) ==
    \A kind \in TableKinds : \A id \in DOMAIN t[kind] :
        \E k \in 1..n : /\ LastIs(records, n, kind, id, k)
                        /\ Alike(kind, t[kind][id], records[k].body.content)

(* The records of the tables among the first ones.                         *)
TablePlaces(records, n) == {k \in 1..n : IsTable(records[k])}

LEMMA TablePlacesAre ==
    ASSUME NEW records, NEW n \in Nat
    PROVE  /\ IsFiniteSet(TablePlaces(records, n))
           /\ Cardinality(TablePlaces(records, n)) \in Nat
           /\ \A k \in 0..n :
                 Cardinality(TablePlaces(records, k)) <= Cardinality(TablePlaces(records, n))
           /\ n # 0 => Cardinality(TablePlaces(records, n))
                 = Cardinality(TablePlaces(records, n - 1))
                   + (IF IsTable(records[n]) THEN 1 ELSE 0)
  <1>1. ASSUME NEW m \in Nat
        PROVE  /\ IsFiniteSet(TablePlaces(records, m))
               /\ Cardinality(TablePlaces(records, m)) \in Nat
    <2>1. IsFiniteSet(1..m) /\ TablePlaces(records, m) \subseteq 1..m
      BY FS_Interval DEF TablePlaces
    <2> QED BY <2>1, FS_Subset, FS_CardinalityType
  <1>2. ASSUME NEW k \in 0..n
        PROVE  Cardinality(TablePlaces(records, k)) <= Cardinality(TablePlaces(records, n))
    <2>1. TablePlaces(records, k) \subseteq TablePlaces(records, n)
      BY DEF TablePlaces
    <2> QED BY <1>1, <2>1, FS_Subset
  <1>3. ASSUME n # 0
        PROVE  Cardinality(TablePlaces(records, n))
                 = Cardinality(TablePlaces(records, n - 1))
                   + (IF IsTable(records[n]) THEN 1 ELSE 0)
    <2>1. n - 1 \in Nat /\ n \in 1..n /\ n \notin 1..(n - 1)
      BY <1>3
    <2>2. \A k : k \in 1..n <=> k \in 1..(n - 1) \/ k = n
      BY <2>1
    <2>3. CASE IsTable(records[n])
      <3>1. TablePlaces(records, n) = TablePlaces(records, n - 1) \cup {n}
        BY <2>2, <2>3 DEF TablePlaces
      <3>2. n \notin TablePlaces(records, n - 1)
        BY <2>1 DEF TablePlaces
      <3>3. Cardinality(TablePlaces(records, n)) = Cardinality(TablePlaces(records, n - 1)) + 1
        BY <1>1, <2>1, <3>1, <3>2, FS_AddElement
      <3> QED BY <2>3, <3>3
    <2>4. CASE ~IsTable(records[n])
      <3>1. TablePlaces(records, n) = TablePlaces(records, n - 1)
        BY <2>2, <2>4 DEF TablePlaces
      <3>2. Cardinality(TablePlaces(records, n - 1)) \in Nat
        BY <1>1, <2>1
      <3> QED BY <2>4, <3>1, <3>2
    <2> QED BY <2>3, <2>4
  <1> QED BY <1>1, <1>2, <1>3

(* One record more, of an entity for which there is room, while more may   *)
(* be loaded.                                                              *)
LEMMA OneMoreRead ==
    ASSUME NEW all \in Seq(WholeRecord), NEW m \in 1..Len(all), NEW w \in Topologies,
           NamedIn(w, all, Len(all)),
           NEW st \in ReadState, NamedIn(st.topology, all, m - 1), SaidBy(st.topology, all, m - 1),
           IsTable(all[m]) => st.topology_restored < MaxTopologyLoaded,
           NEW next, next = ReadInto(st, all[m]).topology
    PROVE  NamedIn(next, all, m) /\ SaidBy(next, all, m)
  <1> DEFINE t == st.topology
  <1>1. m \in Nat /\ all[m] \in WholeRecord /\ Len(all) \in Nat /\ t \in Topologies
    BY DEF ReadState
  <1>2. (\A kind \in TableKinds : \A id : ~IsOf(all[m], kind, id)) => next = t
    BY <1>1, ReadIntoIs
  <1> HIDE DEF t
  <1>3. ASSUME NEW kind \in TableKinds, NEW id, id \in DOMAIN t[kind],
               ~IsOf(all[m], kind, id), id \in DOMAIN next[kind], next[kind][id] = t[kind][id]
        PROVE  \E k \in 1..m : /\ LastIs(all, m, kind, id, k)
                               /\ Alike(kind, next[kind][id], all[k].body.content)
    <2>1. PICK k \in 1..(m - 1) : /\ LastIs(all, m - 1, kind, id, k)
                                  /\ Alike(kind, t[kind][id], all[k].body.content)
      BY <1>3 DEF SaidBy, t
    <2>2. \A j \in (k + 1)..m : j \in (k + 1)..(m - 1) \/ j = m
      BY <1>1
    <2>3. LastIs(all, m, kind, id, k) /\ k \in 1..m
      BY <1>1, <1>3, <2>1, <2>2 DEF LastIs
    <2> QED BY <1>3, <2>1, <2>3
  <1>4. CASE \A kind \in TableKinds : \A id : ~IsOf(all[m], kind, id)
    <2>1. next = t
      BY <1>2, <1>4
    <2>2. SaidBy(next, all, m)
      BY <1>3, <1>4, <2>1 DEF SaidBy
    <2>3. \A k \in 1..m : k \in 1..(m - 1) \/ k = m
      BY <1>1
    <2>4. NamedIn(next, all, m)
      BY <1>4, <2>1, <2>3 DEF NamedIn, t
    <2> QED BY <2>2, <2>4
  <1>5. ASSUME NEW kind \in TableKinds, NEW id, IsOf(all[m], kind, id)
        PROVE  NamedIn(next, all, m) /\ SaidBy(next, all, m)
    <2> DEFINE c == all[m].body.content
    <2>1. id \in Ids(kind) /\ c \in ContentOf(kind) /\ next = Upserted(t, kind, id, c, TRUE)
      BY <1>1, <1>5, ReadIntoDeclares DEF t
    <2>2. \A other \in TableKinds : \A x : IsOf(all[m], other, x) => other = kind /\ x = id
      BY <1>5 DEF IsOf
    <2>3. id \in DOMAIN t[kind] \/ Cardinality(DOMAIN t[kind]) < Limit(kind)
      <3> SUFFICES ASSUME id \notin DOMAIN t[kind]
                   PROVE  Cardinality(DOMAIN t[kind]) < Limit(kind)
        OBVIOUS
      <3>1. DOMAIN t[kind] \cup {id} \subseteq DOMAIN w[kind]
        <4>1. id \in DOMAIN w[kind]
          BY <1>1, <1>5 DEF NamedIn
        <4>2. ASSUME NEW x \in DOMAIN t[kind]
              PROVE  x \in DOMAIN w[kind]
          <5>1. PICK k \in 1..(m - 1) : IsOf(all[k], kind, x)
            BY DEF SaidBy, LastIs, t
          <5>2. k \in 1..Len(all)
            BY <1>1
          <5> QED BY <5>1, <5>2 DEF NamedIn
        <4> QED BY <4>1, <4>2
      <3>2. /\ IsFiniteSet(DOMAIN t[kind]) /\ IsFiniteSet(DOMAIN w[kind])
            /\ Cardinality(DOMAIN w[kind]) <= Limit(kind)
            /\ Limit(kind) \in Nat
        <4>1. w \in TopologyRecord
          BY DEF Topologies
        <4> QED BY <1>1, <4>1, TableIs DEF Topologies
      <3>3. Cardinality(DOMAIN t[kind] \cup {id}) = Cardinality(DOMAIN t[kind]) + 1
        BY <3>2, FS_AddElement
      <3>4. Cardinality(DOMAIN t[kind] \cup {id}) <= Cardinality(DOMAIN w[kind])
        BY <3>1, <3>2, FS_Subset
      <3>5. Cardinality(DOMAIN t[kind]) \in Nat /\ Cardinality(DOMAIN w[kind]) \in Nat
        BY <3>2, FS_CardinalityType
      <3> QED BY <3>2, <3>3, <3>4, <3>5
    <2>4. /\ \A other \in TableKinds \ {kind} : next[other] = t[other]
          /\ DOMAIN t[kind] \subseteq DOMAIN next[kind]
          /\ DOMAIN next[kind] \subseteq DOMAIN t[kind] \cup {id}
          /\ \A x \in DOMAIN t[kind] \ {id} : next[kind][x] = t[kind][x]
          /\ id \in DOMAIN next[kind] /\ Alike(kind, next[kind][id], c)
      <3>1. c \in ContentOf(kind) /\ TRUE \in BOOLEAN
        BY <2>1
      <3> HIDE DEF c
      <3>2. OnlyTouches(t, next, kind, id)
        BY <1>1, <2>1, <3>1, UpsertIs
      <3>3. id \in DOMAIN next[kind] /\ Alike(kind, next[kind][id], c)
        BY <1>1, <2>1, <2>3, <3>1, UpsertIs
      <3> QED BY <3>2, <3>3 DEF OnlyTouches
    <2>5. SaidBy(next, all, m)
      <3> SUFFICES ASSUME NEW other \in TableKinds, NEW x \in DOMAIN next[other]
                   PROVE  \E k \in 1..m : /\ LastIs(all, m, other, x, k)
                                          /\ Alike(other, next[other][x], all[k].body.content)
        BY DEF SaidBy
      <3>1. CASE other = kind /\ x = id
        <4>1. m \in 1..m /\ LastIs(all, m, kind, id, m)
          BY <1>1, <1>5 DEF LastIs
        <4> QED BY <2>4, <3>1, <4>1
      <3>2. CASE ~(other = kind /\ x = id)
        <4>1. x \in DOMAIN t[other] /\ next[other][x] = t[other][x]
          BY <2>4, <3>2
        <4>2. ~IsOf(all[m], other, x)
          BY <2>2, <3>2
        <4> QED BY <1>3, <4>1, <4>2
      <3> QED BY <3>1, <3>2
    <2>6. NamedIn(next, all, m)
      <3> SUFFICES ASSUME NEW k \in 1..m, NEW other \in TableKinds, NEW x, IsOf(all[k], other, x)
                   PROVE  x \in DOMAIN next[other]
        BY DEF NamedIn
      <3>1. CASE k = m
        BY <2>2, <2>4, <3>1
      <3>2. CASE k # m
        <4>1. k \in 1..(m - 1)
          BY <1>1, <3>2
        <4>2. x \in DOMAIN t[other]
          BY <4>1 DEF NamedIn, t
        <4> QED BY <2>4, <4>2
      <3> QED BY <3>1, <3>2
    <2> QED BY <2>5, <2>6
  <1> QED BY <1>4, <1>5

(* What is read back from a journal that names no more than some tables    *)
(* have room for, and holds no more than is loaded, is what its last       *)
(* records say.                                                            *)
LEMMA ReadBackSays ==
    ASSUME NEW records \in Seq(JournalRecord),
           NEW all, all = Readable(records),
           NEW w \in Topologies, NamedIn(w, all, Len(all)), Loadable(records),
           NEW t, t = ReadBack(records).topology
    PROVE  t \in Topologies /\ NamedIn(t, all, Len(all)) /\ SaidBy(t, all, Len(all))
  <1> DEFINE n == Len(all)
  <1>1. n \in Nat /\ all \in Seq(WholeRecord)
    BY ReadableIs
  <1>2. PICK f \in [0..n -> ReadState] :
            /\ f[0] = Nothing
            /\ \A k \in 1..n : f[k] = ReadAt(f[k - 1], all[k], k)
            /\ ReadBack(records) = f[n]
    BY ReadBackIs
  <1> DEFINE tables(k) == Cardinality(TablePlaces(all, k))
             Right(k) == /\ NamedIn(f[k].topology, all, k) /\ SaidBy(f[k].topology, all, k)
                         /\ f[k].topology_restored <= tables(k)
             Failing  == {k \in 0..n : ~Right(k)}
  <1>3. /\ n <= MaxRecordsLoaded /\ tables(n) <= MaxTopologyLoaded
        /\ MaxRecordsLoaded \in Nat /\ MaxTopologyLoaded \in Nat
    <2>1. DOMAIN all = 1..n
      BY <1>1
    <2> QED BY <2>1, RecoveryAssumption DEF Loadable, TablePlaces
  <1>4. Right(0)
    <2>1. /\ f[0].topology = EmptyTopology /\ f[0].topology_restored = 0
          /\ \A kind \in TableKinds : DOMAIN EmptyTopology[kind] = {}
      BY <1>2, NothingIsFinite DEF Nothing, EmptyTopology, TableKinds
    <2>2. tables(0) \in Nat
      BY TablePlacesAre
    <2>3. NamedIn(f[0].topology, all, 0) /\ SaidBy(f[0].topology, all, 0)
      BY <2>1 DEF NamedIn, SaidBy
    <2> HIDE DEF tables
    <2> QED BY <2>1, <2>2, <2>3
  <1>5. ASSUME NEW k \in 1..n, Right(k - 1)
        PROVE  Right(k)
    <2>1. /\ k - 1 \in 0..n /\ f[k - 1] \in ReadState
          /\ f[k] = ReadInto(f[k - 1], all[k]) /\ f[k] \in ReadState
      <3>1. k - 1 \in 0..n /\ k \in 0..n /\ k <= MaxRecordsLoaded
        BY <1>1, <1>3
      <3>2. f[k] = ReadAt(f[k - 1], all[k], k)
        BY <1>2
      <3>3. f[k] = ReadInto(f[k - 1], all[k])
        BY <3>1, <3>2 DEF ReadAt
      <3> QED BY <1>2, <3>1, <3>3
    <2>2. /\ tables(k) \in Nat /\ tables(k - 1) \in Nat /\ tables(k) <= tables(n)
          /\ tables(k) = tables(k - 1) + (IF IsTable(all[k]) THEN 1 ELSE 0)
      <3>1. k \in Nat /\ k - 1 \in Nat /\ k # 0 /\ k \in 0..n
        BY <1>1
      <3>2. tables(k) <= tables(n)
        BY <1>1, <3>1, TablePlacesAre
      <3>3. tables(k) = tables(k - 1) + (IF IsTable(all[k]) THEN 1 ELSE 0)
        BY <3>1, TablePlacesAre
      <3> QED BY <3>1, <3>2, <3>3, TablePlacesAre
    <2> HIDE DEF tables
    <2>3. /\ f[k - 1].topology_restored \in Nat /\ f[k].topology_restored \in Nat
          /\ f[k - 1].topology_restored <= tables(k - 1)
      BY <1>5, <2>1 DEF ReadState
    <2>4. tables(n) \in Nat
      BY <1>1, TablePlacesAre DEF tables
    <2>5. IsTable(all[k]) => f[k - 1].topology_restored < MaxTopologyLoaded
      BY <1>3, <2>2, <2>3, <2>4
    <2>6. NamedIn(f[k].topology, all, k) /\ SaidBy(f[k].topology, all, k)
      BY <1>1, <1>5, <2>1, <2>5, OneMoreRead
    <2>7. f[k].topology_restored
              <= f[k - 1].topology_restored + (IF IsTable(all[k]) THEN 1 ELSE 0)
      <3>1. all[k] \in WholeRecord
        BY <1>1
      <3> QED BY <2>1, <3>1, ReadIntoIs
    <2>8. f[k].topology_restored <= tables(k)
      BY <2>2, <2>3, <2>7
    <2> QED BY <2>6, <2>8
  <1>6. Failing = {}
    <2> SUFFICES ASSUME Failing # {} PROVE FALSE
      OBVIOUS
    <2> HIDE DEF Right
    <2>1. PICK k \in Failing : k = 0 \/ (k - 1 \in Nat /\ k - 1 \notin Failing)
      <3>1. Failing \in SUBSET Nat
        OBVIOUS
      <3> HIDE DEF Failing
      <3> QED BY <3>1, LeastFailure
    <2>2. k \in 1..n /\ Right(k - 1)
      BY <1>1, <1>4, <2>1
    <2> QED BY <1>5, <2>2
  <1>7. Right(n) /\ f[n] \in ReadState
    <2> HIDE DEF Right
    <2> QED BY <1>1, <1>2, <1>6
  <1> HIDE DEF tables
  <1> QED BY <1>2, <1>7 DEF ReadState

-----------------------------------------------------------------------------
(* What the records of a journal say of the tables.                        *)

(* A record of no entity.                                                  *)
NamesNothing(r) == \A kind \in TableKinds : \A id : ~IsOf(r, kind, id)

LEMMA SessionsNameNothing == NamesNothing(Session) /\ NamesNothing(Torn) /\ Session # Torn
  <1>1. Session.kind = "session" /\ Torn.kind = "torn"
    BY DEF Session, Torn
  <1> QED BY <1>1 DEF NamesNothing, IsOf

LEMMA OthersNameNothing ==
    ASSUME NEW b \in OtherBody
    PROVE  NamesNothing(Entry(b)) /\ Entry(b) \in WholeRecord
  <1>1. Entry(b).body.kind \notin TableKinds
    BY BodyKinds DEF Entry
  <1> QED BY <1>1 DEF NamesNothing, IsOf, Entry, WholeRecord, Body

LEMMA WholeIsNotTorn == \A r \in WholeRecord : r # Torn /\ r \in JournalRecord
  <1>1. \A r \in WholeRecord : r.kind \in {"entry", "session"}
    BY DEF WholeRecord, Session
  <1>2. Torn.kind = "torn"
    BY DEF Torn
  <1> QED BY <1>1, <1>2 DEF JournalRecord

(* Records of no entity, behind the others, change nothing of what is said.*)
LEMMA LongerSays ==
    ASSUME NEW records, NEW m \in Nat, NEW longer, NEW n \in Nat, m <= n,
           \A k \in 1..m : longer[k] = records[k],
           \A k \in (m + 1)..n : NamesNothing(longer[k]),
           NEW t
    PROVE  /\ NamedIn(t, records, m) <=> NamedIn(t, longer, n)
           /\ SaidBy(t, records, m) <=> SaidBy(t, longer, n)
  <1>1. \A k \in 1..n : k \in 1..m \/ k \in (m + 1)..n
    OBVIOUS
  <1>2. \A k \in 1..m : k \in 1..n
    OBVIOUS
  <1>3. NamedIn(t, records, m) <=> NamedIn(t, longer, n)
    BY <1>1, <1>2 DEF NamedIn, NamesNothing
  <1>4. ASSUME NEW kind \in TableKinds, NEW id, NEW k \in 1..m
        PROVE  LastIs(records, m, kind, id, k) <=> LastIs(longer, n, kind, id, k)
    <2>1. /\ \A j \in (k + 1)..n : j \in (k + 1)..m \/ j \in (m + 1)..n
          /\ \A j \in (k + 1)..m : j \in (k + 1)..n /\ j \in 1..m
      OBVIOUS
    <2>2. \A j \in (m + 1)..n : ~IsOf(longer[j], kind, id)
      BY DEF NamesNothing
    <2> QED BY <2>1, <2>2 DEF LastIs
  <1>5. ASSUME NEW kind \in TableKinds, NEW id, NEW k \in 1..n, LastIs(longer, n, kind, id, k)
        PROVE  k \in 1..m
    BY <1>1, <1>5 DEF LastIs, NamesNothing
  <1>6. ASSUME SaidBy(t, records, m)
        PROVE  SaidBy(t, longer, n)
    <2> SUFFICES ASSUME NEW kind \in TableKinds, NEW id \in DOMAIN t[kind]
                 PROVE  \E k \in 1..n : /\ LastIs(longer, n, kind, id, k)
                                        /\ Alike(kind, t[kind][id], longer[k].body.content)
      BY DEF SaidBy
    <2>1. PICK k \in 1..m : /\ LastIs(records, m, kind, id, k)
                            /\ Alike(kind, t[kind][id], records[k].body.content)
      BY <1>6 DEF SaidBy
    <2> QED BY <1>2, <1>4, <2>1
  <1>7. ASSUME SaidBy(t, longer, n)
        PROVE  SaidBy(t, records, m)
    <2> SUFFICES ASSUME NEW kind \in TableKinds, NEW id \in DOMAIN t[kind]
                 PROVE  \E k \in 1..m : /\ LastIs(records, m, kind, id, k)
                                        /\ Alike(kind, t[kind][id], records[k].body.content)
      BY DEF SaidBy
    <2>1. PICK k \in 1..n : /\ LastIs(longer, n, kind, id, k)
                            /\ Alike(kind, t[kind][id], longer[k].body.content)
      BY <1>7 DEF SaidBy
    <2>2. k \in 1..m
      BY <1>5, <2>1
    <2> QED BY <1>4, <2>1, <2>2
  <1> QED BY <1>3, <1>6, <1>7

(* Once the tables are written, what is said is what is declared, and they *)
(* name no more than was named.                                            *)
LEMMA WritingSays ==
    ASSUME NEW t \in Topologies, NEW records, NEW m \in Nat,
           NEW longer, NEW n, n = m + Len(TopologyRecords(t)),
           \A k \in 1..m : longer[k] = records[k],
           \A k \in 1..Len(TopologyRecords(t)) : longer[m + k] = Entry(TopologyRecords(t)[k])
    PROVE  /\ NamedIn(t, records, m) => NamedIn(t, longer, n)
           /\ SaidBy(t, longer, n)
  <1> DEFINE s == TopologyRecords(t)
  <1>1. /\ Len(s) \in Nat
        /\ \A k \in 1..Len(s) : /\ s[k].id \in DOMAIN t[s[k].kind]
                                /\ s[k].content = t[s[k].kind][s[k].id]
        /\ \A kind \in TableKinds : \A id \in DOMAIN t[kind] :
              \E k \in 1..Len(s) : s[k].kind = kind /\ s[k].id = id
        /\ \A j, k \in 1..Len(s) :
              s[j].kind = s[k].kind /\ s[j].id = s[k].id => j = k
    <2>1. s \in Seq(TableBody) /\ ListsAll(s, t)
      BY TopologyRecordsAre
    <2> HIDE DEF s
    <2> QED BY <2>1 DEF ListsAll
  <1> HIDE DEF s
  <1>2. n = m + Len(s) /\ n \in Nat
    BY <1>1 DEF s
  <1>3. ASSUME NEW k \in 1..Len(s)
        PROVE  /\ m + k \in 1..n /\ longer[m + k] = Entry(s[k])
               /\ \A kind, id : IsOf(longer[m + k], kind, id) <=> s[k].kind = kind /\ s[k].id = id
               /\ longer[m + k].body.content = s[k].content
    <2>1. longer[m + k] = Entry(s[k])
      BY DEF s
    <2> QED BY <1>2, <1>1, <2>1 DEF Entry, IsOf
  <1>4. \A k \in 1..n : k \in 1..m \/ (k - m \in 1..Len(s) /\ m + (k - m) = k)
    BY <1>1, <1>2
  <1>5. ASSUME NamedIn(t, records, m)
        PROVE  NamedIn(t, longer, n)
    <2> SUFFICES ASSUME NEW k \in 1..n, NEW kind \in TableKinds, NEW id, IsOf(longer[k], kind, id)
                 PROVE  id \in DOMAIN t[kind]
      BY DEF NamedIn
    <2>1. CASE k \in 1..m
      BY <1>5, <2>1 DEF NamedIn
    <2>2. CASE k - m \in 1..Len(s) /\ m + (k - m) = k
      <3>1. s[k - m].kind = kind /\ s[k - m].id = id
        BY <1>3, <2>2
      <3> QED BY <1>1, <2>2, <3>1
    <2> QED BY <1>4, <2>1, <2>2
  <1>6. SaidBy(t, longer, n)
    <2> SUFFICES ASSUME NEW kind \in TableKinds, NEW id \in DOMAIN t[kind]
                 PROVE  \E k \in 1..n : /\ LastIs(longer, n, kind, id, k)
                                        /\ Alike(kind, t[kind][id], longer[k].body.content)
      BY DEF SaidBy
    <2>1. PICK k \in 1..Len(s) : s[k].kind = kind /\ s[k].id = id
      BY <1>1
    <2>2. /\ m + k \in 1..n /\ IsOf(longer[m + k], kind, id)
          /\ longer[m + k].body.content = t[kind][id]
      BY <1>1, <1>3, <2>1
    <2>3. ASSUME NEW j \in (m + k + 1)..n, IsOf(longer[j], kind, id)
          PROVE  FALSE
      <3>1. j - m \in 1..Len(s) /\ m + (j - m) = j /\ j - m # k
        BY <1>1, <1>2
      <3>2. s[j - m].kind = kind /\ s[j - m].id = id
        BY <1>3, <2>3, <3>1
      <3> QED BY <1>1, <2>1, <3>1, <3>2
    <2>4. LastIs(longer, n, kind, id, m + k)
      BY <2>2, <2>3 DEF LastIs
    <2>5. Alike(kind, t[kind][id], longer[m + k].body.content)
      BY <2>2 DEF Alike
    <2> QED BY <2>2, <2>4, <2>5
  <1> QED BY <1>5, <1>6

-----------------------------------------------------------------------------
(* What is readable of a journal that grew or was cut.                     *)

ReadableNames(t, records) == NamedIn(t, Readable(records), Len(Readable(records)))

AppendedTo(records, more, after) ==
    /\ after \in Seq(JournalRecord) /\ Len(after) = Len(records) + Len(more)
    /\ \A k \in 1..Len(records) : after[k] = records[k]
    /\ \A k \in 1..Len(more) : after[Len(records) + k] = more[k]
    /\ Torn \in Range(after) <=> Torn \in Range(records)
    /\ Torn \in Range(records) => Readable(after) = Readable(records)

LEMMA AppendedIs ==
    ASSUME NEW records \in Seq(JournalRecord), NEW more \in Seq(WholeRecord)
    PROVE  AppendedTo(records, more, records \o more)
  <1> DEFINE after == records \o more
  <1> DEFINE l == Len(records)
             m == Len(more)
  <1>1. /\ l \in Nat /\ m \in Nat /\ more \in Seq(JournalRecord)
        /\ \A k \in 1..m : more[k] # Torn
    <2>1. \A k \in 1..m : more[k] \in WholeRecord
      OBVIOUS
    <2>2. WholeRecord \subseteq JournalRecord
      BY WholeIsNotTorn
    <2> QED BY <2>1, <2>2, WholeIsNotTorn, SeqMonotonic
  <1>2. /\ after \in Seq(JournalRecord) /\ Len(after) = l + m
        /\ \A k \in 1..l : after[k] = records[k]
        /\ \A k \in 1..m : after[l + k] = more[k]
    BY <1>1, ConcatProperties
  <1> HIDE DEF l, m, after
  <1>3. DOMAIN records = 1..l /\ DOMAIN after = 1..(l + m)
    BY <1>2 DEF l
  <1>4. Torn \in Range(after) <=> Torn \in Range(records)
    <2>1. \A k \in 1..l : k \in 1..(l + m)
      BY <1>1
    <2>2. ASSUME NEW k \in 1..(l + m), after[k] = Torn
          PROVE  k \in 1..l /\ records[k] = Torn
      <3>1. CASE k \in 1..l
        BY <1>2, <2>2, <3>1
      <3>2. CASE k \notin 1..l
        <4>1. k - l \in 1..m /\ l + (k - l) = k
          BY <1>1, <3>2
        <4> QED BY <1>1, <1>2, <2>2, <4>1
      <3> QED BY <3>1, <3>2
    <2> QED BY <1>2, <1>3, <2>1, <2>2 DEF Range
  <1>5. ASSUME Torn \in Range(records)
        PROVE  Readable(after) = Readable(records)
    <2>1. PICK d \in 1..l : records[d] = Torn
      BY <1>3, <1>5 DEF Range
    <2>2. PICK n \in 0..l : /\ Readable(records) = SubSeq(records, 1, n)
                            /\ Readable(records) \in Seq(WholeRecord) /\ Len(Readable(records)) = n
                            /\ \A k \in 1..n : Readable(records)[k] = records[k] /\ records[k] # Torn
                            /\ n < l => records[n + 1] = Torn
      BY ReadableIs DEF l
    <2>3. PICK i \in 0..(l + m) :
              /\ Readable(after) \in Seq(WholeRecord) /\ Len(Readable(after)) = i
              /\ \A k \in 1..i : Readable(after)[k] = after[k] /\ after[k] # Torn
              /\ i < l + m => after[i + 1] = Torn
      BY <1>2, ReadableIs
    <2>4. n < l /\ records[n + 1] = Torn /\ n + 1 \in 1..l
      <3>1. d \notin 1..n
        BY <2>1, <2>2
      <3>2. n < l /\ n + 1 \in 1..l
        BY <1>1, <3>1
      <3> QED BY <2>2, <3>2
    <2>5. i <= n
      <3> SUFFICES ASSUME ~(i <= n) PROVE FALSE
        OBVIOUS
      <3>1. n + 1 \in 1..i
        BY <1>1
      <3> QED BY <1>2, <2>3, <2>4, <3>1
    <2>6. i = n
      <3> SUFFICES ASSUME i < n PROVE FALSE
        BY <1>1, <2>5
      <3>1. i + 1 \in 1..n /\ i + 1 \in 1..l /\ i < l + m
        BY <1>1
      <3> QED BY <1>2, <2>2, <2>3, <3>1
    <2>7. \A k \in 1..n : k \in 1..l
      BY <1>1
    <2>8. \A k \in 1..n : Readable(after)[k] = Readable(records)[k]
      BY <1>2, <2>2, <2>3, <2>6, <2>7
    <2> QED BY <2>2, <2>3, <2>6, <2>8, SeqEqual
  <1>6. AppendedTo(records, more, after)
    BY <1>2, <1>4, <1>5 DEF l, m, AppendedTo
  <1> QED BY <1>6 DEF after

(* Of a journal that was cut, with or without half a record, no more is    *)
(* readable than before.                                                   *)
LEMMA CutIs ==
    ASSUME NEW records \in Seq(JournalRecord), NEW l \in 0..Len(records), NEW after,
           \/ after = SubSeq(records, 1, l)
           \/ after = Append(SubSeq(records, 1, l), Torn)
    PROVE  /\ after \in Seq(JournalRecord)
           /\ \A w : ReadableNames(w, records) => ReadableNames(w, after)
  <1> DEFINE cut == SubSeq(records, 1, l)
  <1>1. /\ Len(records) \in Nat /\ l \in Nat /\ cut \in Seq(JournalRecord) /\ Len(cut) = l
        /\ \A k \in 1..l : cut[k] = records[k]
    OBVIOUS
  <1>2. after = cut \/ after = Append(cut, Torn)
    OBVIOUS
  <1> HIDE DEF cut
  <1>3. /\ after \in Seq(JournalRecord) /\ Len(after) \in l..(l + 1)
        /\ \A k \in 1..l : after[k] = records[k]
        /\ l < Len(after) => after[l + 1] = Torn
    <2>1. Torn \in JournalRecord
      BY DEF JournalRecord
    <2>2. CASE after = cut
      BY <1>1, <2>2
    <2>3. CASE after = Append(cut, Torn)
      BY <1>1, <2>1, <2>3, AppendProperties
    <2> QED BY <1>2, <2>2, <2>3
  <1>4. PICK n \in 0..Len(records) :
            /\ Len(Readable(records)) = n
            /\ \A k \in 1..n : Readable(records)[k] = records[k] /\ records[k] # Torn
            /\ n < Len(records) => records[n + 1] = Torn
    BY ReadableIs
  <1>5. PICK i \in 0..Len(after) :
            /\ Len(Readable(after)) = i
            /\ \A k \in 1..i : Readable(after)[k] = after[k] /\ after[k] # Torn
    BY <1>3, ReadableIs
  <1>6. i <= l
    <2> SUFFICES ASSUME ~(i <= l) PROVE FALSE
      OBVIOUS
    <2>1. l + 1 \in 1..i /\ l < Len(after)
      BY <1>1, <1>3
    <2> QED BY <1>3, <1>5, <2>1
  <1>7. i <= n
    <2> SUFFICES ASSUME ~(i <= n) PROVE FALSE
      OBVIOUS
    <2>1. n + 1 \in 1..i /\ n + 1 \in 1..l /\ n < Len(records)
      BY <1>1, <1>6
    <2> QED BY <1>3, <1>4, <1>5, <2>1
  <1>8. \A k \in 1..i : k \in 1..n /\ Readable(after)[k] = Readable(records)[k]
    <2>1. \A k \in 1..i : k \in 1..n /\ k \in 1..l
      BY <1>1, <1>6, <1>7
    <2> QED BY <1>3, <1>4, <1>5, <2>1
  <1>9. ASSUME NEW w, ReadableNames(w, records)
        PROVE  ReadableNames(w, after)
    BY <1>4, <1>5, <1>8, <1>9 DEF ReadableNames, NamedIn
  <1> QED BY <1>3, <1>9

(* Of a journal no part of which is left out, none of the beginning is.    *)
LEMMA PrefixLoadable ==
    ASSUME NEW records \in Seq(JournalRecord), NEW longer \in Seq(JournalRecord),
           Len(records) <= Len(longer),
           \A k \in 1..Len(records) : longer[k] = records[k],
           Loadable(longer)
    PROVE  Loadable(records)
  <1> DEFINE a == Readable(records)
             b == Readable(longer)
  <1>1. PICK m \in 0..Len(records) :
            /\ a \in Seq(WholeRecord) /\ Len(a) = m
            /\ \A k \in 1..m : a[k] = records[k] /\ records[k] # Torn
    BY ReadableIs
  <1>2. PICK n \in 0..Len(longer) :
            /\ b \in Seq(WholeRecord) /\ Len(b) = n
            /\ \A k \in 1..n : b[k] = longer[k]
            /\ n < Len(longer) => longer[n + 1] = Torn
    BY ReadableIs
  <1>3. Len(records) \in Nat /\ Len(longer) \in Nat
    OBVIOUS
  <1>4. m <= n
    <2> SUFFICES ASSUME ~(m <= n) PROVE FALSE
      OBVIOUS
    <2>1. n + 1 \in 1..m /\ n + 1 \in 1..Len(records) /\ n < Len(longer)
      BY <1>3
    <2> HIDE DEF a, b
    <2> QED BY <1>1, <1>2, <2>1
  <1>5. Len(b) <= MaxRecordsLoaded /\ Cardinality(TablePlaces(b, n)) <= MaxTopologyLoaded
    <2>1. DOMAIN b = 1..n
      BY <1>2
    <2> QED BY <1>2, <2>1 DEF Loadable, TablePlaces
  <1>10. Len(a) <= MaxRecordsLoaded /\ Cardinality(TablePlaces(a, m)) <= MaxTopologyLoaded
            => Loadable(records)
    <2>1. DOMAIN a = 1..m
      BY <1>1
    <2> QED BY <2>1 DEF Loadable, TablePlaces
  <1> HIDE DEF a, b
  <1>6. TablePlaces(a, m) \subseteq TablePlaces(b, n)
    <2>1. ASSUME NEW k \in 1..m
          PROVE  k \in 1..n /\ a[k] = b[k]
      <3>1. k \in 1..n /\ k \in 1..Len(records)
        BY <1>3, <1>4
      <3> QED BY <1>1, <1>2, <3>1
    <2> QED BY <2>1 DEF TablePlaces
  <1>7. m \in Nat /\ n \in Nat
    BY <1>3
  <1>8. Cardinality(TablePlaces(a, m)) <= Cardinality(TablePlaces(b, n))
    <2>1. IsFiniteSet(TablePlaces(b, n))
      BY <1>7, TablePlacesAre
    <2> QED BY <1>6, <2>1, FS_Subset
  <1>9. Len(a) <= MaxRecordsLoaded /\ Cardinality(TablePlaces(a, m)) <= MaxTopologyLoaded
    <2>1. /\ Cardinality(TablePlaces(a, m)) \in Nat /\ Cardinality(TablePlaces(b, n)) \in Nat
          /\ MaxRecordsLoaded \in Nat /\ MaxTopologyLoaded \in Nat
      BY <1>7, TablePlacesAre, RecoveryAssumption
    <2> QED BY <1>1, <1>2, <1>4, <1>5, <1>7, <1>8, <2>1
  <1> QED BY <1>9, <1>10

-----------------------------------------------------------------------------
(* The inductive invariant, in parts.                                      *)

MemoryInv ==
    /\ WorldInv /\ GenerationsInv /\ RegistryTypeOK
    /\ topology \in Topologies
    /\ IsFiniteSet(sources) /\ IsFiniteSet(held)
    /\ held \subseteq EvidenceItem /\ accepted \subseteq EvidenceItem

JournalInv ==
    /\ file \in Seq(JournalRecord)
    /\ flushed \in 0..Len(file)
    /\ stream \in {"good", "none"}
    /\ up => stream = "good"

ProcessInv ==
    /\ up \in BOOLEAN /\ raced \in BOOLEAN
    /\ lives \in 1..MaxLives
    /\ persistStep \in PersistSteps
    /\ "revision" \in DOMAIN persisted
    /\ persisted.revision \in 0..topology.revision
    /\ ~up => persisted = NothingPersisted /\ persistStep = "idle"

(* What is measured is never marked; what is held and not marked was let   *)
(* in by this process, which then holds no marked copy of it.              *)
EvidenceInv ==
    /\ \A item \in sent : ~item.observation.recovered
    /\ \A item \in held :
          \/ item.observation.recovered
          \/ item \in accepted /\ AsRecovered(item) \notin held

(* Unless a load would leave out part of what is on disk, some tables      *)
(* within their bounds declare all that is readable; while a process runs, *)
(* its own do.                                                             *)
NamedWithin == \E w \in Topologies : ReadableNames(w, file) /\ (up => w = topology)

CapacityInv == Loadable(OnDisk) => NamedWithin

(* The journal says what is declared as soon as the tables are written,    *)
(* and as long as persist remembers their revision.                        *)
Noted == persistStep \in {"written", "compacted"} \/ persisted.revision = topology.revision

SaysInv ==
    up /\ ~raced /\ Torn \notin Range(file) /\ Noted => SaidBy(topology, file, Len(file))

RecoveryInv ==
    MemoryInv /\ JournalInv /\ ProcessInv /\ EvidenceInv /\ CapacityInv /\ SaysInv

LEMMA BeginningIs ==
    ASSUME NEW records \in Seq(JournalRecord), NEW n \in 0..Len(records),
           NEW cut, cut = SubSeq(records, 1, n)
    PROVE  /\ cut \in Seq(JournalRecord) /\ Len(cut) = n
           /\ \A k \in 1..n : cut[k] = records[k]
  OBVIOUS

(* What is on disk stays there: if a load leaves none of it out later, it  *)
(* would leave none of it out now.                                         *)
LEMMA LoadableBefore ==
    ASSUME JournalInv, file' \in Seq(JournalRecord),
           flushed' \in flushed..Len(file'),
           \A k \in 1..flushed : file'[k] = file[k],
           Loadable(OnDisk)'
    PROVE  Loadable(OnDisk)
  <1>1. /\ file \in Seq(JournalRecord) /\ Len(file) \in Nat /\ Len(file') \in Nat
        /\ flushed \in 0..Len(file) /\ flushed' \in 0..Len(file') /\ flushed <= flushed'
    BY DEF JournalInv
  <1> DEFINE before == SubSeq(file, 1, flushed)
             after  == SubSeq(file', 1, flushed')
  <1>2. /\ before \in Seq(JournalRecord) /\ Len(before) = flushed
        /\ \A k \in 1..flushed : before[k] = file[k]
    BY <1>1, BeginningIs
  <1>3. /\ after \in Seq(JournalRecord) /\ Len(after) = flushed'
        /\ \A k \in 1..flushed' : after[k] = file'[k]
    <2> DEFINE records == file'
               n == flushed'
    <2>1. records \in Seq(JournalRecord) /\ n \in 0..Len(records) /\ after = SubSeq(records, 1, n)
      BY <1>1
    <2> HIDE DEF records, n, after
    <2>2. /\ after \in Seq(JournalRecord) /\ Len(after) = n
          /\ \A k \in 1..n : after[k] = records[k]
      BY <2>1, BeginningIs
    <2> QED BY <2>2 DEF records, n
  <1>4. OnDisk = before /\ OnDisk' = after
    BY DEF OnDisk
  <1> HIDE DEF before, after
  <1>5. \A k \in 1..flushed : k \in 1..flushed' /\ after[k] = before[k]
    BY <1>1, <1>2, <1>3
  <1> QED BY <1>1, <1>2, <1>3, <1>4, <1>5, PrefixLoadable

(* Of a journal that a load reads in full it reads what is on disk in full.*)
LEMMA LoadableOnDisk ==
    ASSUME JournalInv, Loadable(file)
    PROVE  Loadable(OnDisk)
  <1>1. /\ file \in Seq(JournalRecord) /\ Len(file) \in Nat /\ flushed \in 0..Len(file)
    BY DEF JournalInv
  <1> DEFINE disk == SubSeq(file, 1, flushed)
  <1>2. /\ disk \in Seq(JournalRecord) /\ Len(disk) = flushed
        /\ \A k \in 1..flushed : file[k] = disk[k]
    BY <1>1
  <1>3. OnDisk = disk
    BY DEF OnDisk
  <1> HIDE DEF disk
  <1> QED BY <1>1, <1>2, <1>3, PrefixLoadable

LEMMA RecoveryInitHolds == RecoveryInit => RecoveryInv
  <1> SUFFICES ASSUME RecoveryInit PROVE RecoveryInv
    OBVIOUS
  <1>1. /\ topology = EmptyTopology /\ held = {} /\ sent = {} /\ now = 1 /\ sources = {}
        /\ accepted = {} /\ recorded = {} /\ dropped = {} /\ uncounted = {}
        /\ flowGenerations = NoEntities /\ pathGenerations = NoEntities
        /\ file = <<Session>> /\ flushed = 1 /\ stream = "good" /\ up = TRUE /\ lives = 1
        /\ persistStep = "idle" /\ persisted = NothingPersisted /\ raced = FALSE
    BY DEF RecoveryInit, RegistryInit, NothingHeld, GenerationInit
  <1>2. WorldInv
    BY <1>1, EmptyIsTopology, EvidenceAssumption DEF WorldInv, Topologies
  <1>3. GenerationsInv
    BY <1>1, NothingIsFinite, FS_EmptySet DEF GenerationsInv, EmptyTopology
  <1>4. RegistryTypeOK
    <2> DEFINE NoFence == [high_water |-> 0, seen |-> << >>]
    <2>1. /\ sources = {} /\ incarnations = [s \in Sources |-> << >>]
          /\ fence = [s \in Sources |-> [e \in Epochs |-> NoFence]]
          /\ admitted = [s \in Sources |-> [e \in Epochs |-> << >>]]
      BY DEF RecoveryInit, RegistryInit
    <2>2. NoFence \in SequenceState
      BY RegistryAssumption DEF SequenceState
    <2> HIDE DEF NoFence
    <2>3. fence \in [Sources -> [Epochs -> SequenceState]]
      BY <2>1, <2>2
    <2>4. incarnations \in [Sources -> Seq(Incarnation)]
      BY <2>1
    <2>5. admitted \in [Sources -> [Epochs -> Seq(SequenceNumbers)]]
      BY <2>1
    <2> QED BY <2>1, <2>3, <2>4, <2>5 DEF RegistryTypeOK
  <1>5. MemoryInv
    BY <1>1, <1>2, <1>3, <1>4, EmptyIsTopology, FS_EmptySet DEF MemoryInv
  <1>6. JournalInv
    <2>1. Session \in JournalRecord
      BY DEF JournalRecord, WholeRecord
    <2> QED BY <1>1, <2>1 DEF JournalInv
  <1>7. ProcessInv
    <2>1. persisted.revision = 0 /\ topology.revision = 1
      BY <1>1 DEF NothingPersisted, EmptyTopology, NoRevision
    <2>2. up \in BOOLEAN /\ raced \in BOOLEAN /\ up
      BY <1>1
    <2>3. persistStep \in PersistSteps /\ lives \in 1..MaxLives
      BY <1>1, RecoveryAssumption DEF PersistSteps
    <2>4. persisted.revision \in 0..topology.revision
      BY <2>1
    <2>5. "revision" \in DOMAIN persisted
      BY <1>1 DEF NothingPersisted
    <2> QED BY <1>1, <2>2, <2>3, <2>4, <2>5 DEF ProcessInv
  <1>8. EvidenceInv
    BY <1>1 DEF EvidenceInv
  <1>9. CapacityInv
    <2>1. PICK n \in 0..Len(file) :
              /\ Len(Readable(file)) = n
              /\ \A k \in 1..n : Readable(file)[k] = file[k]
      BY <1>6, ReadableIs DEF JournalInv
    <2>2. \A k \in 1..n : Readable(file)[k] = Session
      BY <1>1, <2>1
    <2>3. ReadableNames(topology, file)
      BY <2>1, <2>2, SessionsNameNothing DEF ReadableNames, NamedIn, NamesNothing
    <2> QED BY <1>1, <2>3, EmptyIsTopology DEF CapacityInv, NamedWithin
  <1>10. SaysInv
    <2>1. persistStep = "idle" /\ persisted.revision = 0 /\ topology.revision = 1
      BY <1>1 DEF NothingPersisted, EmptyTopology, NoRevision
    <2>2. ~Noted
      BY <2>1 DEF Noted
    <2> QED BY <2>2 DEF SaysInv
  <1> QED BY <1>5, <1>6, <1>7, <1>8, <1>9, <1>10 DEF RecoveryInv

-----------------------------------------------------------------------------
(* What the steps of one process change.                                   *)

(* What an operator declares keeps the tables within their bounds.         *)
LEMMA HappenDeclares ==
    ASSUME MemoryInv, DeclareLink \/ DeclarePath \/ DeclareFlow
    PROVE  /\ topology' \in Topologies
           /\ topology'.revision = topology.revision + 1
           /\ \A kind \in TableKinds : DOMAIN topology[kind] \subseteq DOMAIN topology'[kind]
           /\ uncounted' \subseteq Revisions
           /\ UNCHANGED <<registryVars, generationVars, worldVars, held, historyVars>>
  <1>1. ASSUME NEW kind \in TableKinds, NEW id \in Ids(kind), NEW content \in ContentOf(kind),
               NEW replace \in BOOLEAN,
               Declare(Upserted(topology, kind, id, content, replace))
        PROVE  /\ topology' \in Topologies
               /\ topology'.revision = topology.revision + 1
               /\ \A other \in TableKinds : DOMAIN topology[other] \subseteq DOMAIN topology'[other]
               /\ uncounted' \subseteq Revisions
               /\ UNCHANGED <<registryVars, generationVars, worldVars, held, historyVars>>
    <2>1. /\ topology' = Upserted(topology, kind, id, content, replace) /\ topology' # topology
          /\ uncounted' = uncounted \cup Uncounted(topology, topology')
          /\ UNCHANGED <<registryVars, generationVars, worldVars, held, historyVars>>
      BY <1>1 DEF Declare
    <2>2. topology \in Topologies
      BY DEF MemoryInv
    <2>3. topology' \in Topologies /\ topology'.revision = topology.revision + 1
      BY <2>1, <2>2, UpsertIs
    <2>4. OnlyTouches(topology, topology', kind, id)
      BY <2>1, <2>2, UpsertIs
    <2>5. \A other \in TableKinds : DOMAIN topology[other] \subseteq DOMAIN topology'[other]
      BY <2>4 DEF OnlyTouches
    <2>6. uncounted' \subseteq Revisions
      <3> DEFINE next == topology'
      <3>1. next \in TopologyRecord
        BY <2>3 DEF Topologies
      <3> HIDE DEF next
      <3>2. Uncounted(topology, next) \subseteq Revisions
        BY <3>1, UncountedIs
      <3> QED BY <2>1, <3>2 DEF MemoryInv, WorldInv, next
    <2> QED BY <2>1, <2>3, <2>5, <2>6
  <1>2. /\ \A p \in DOMAIN topology.paths : p \in Paths /\ topology.paths[p].revision \in Revisions
        /\ \A p : OwnRevision(topology.paths, p, "revision") \subseteq Revisions
        /\ \A f : OwnRevision(topology.flows, f, "binding_revision") \subseteq Revisions
        /\ OwnNumbers \subseteq Revisions /\ NoRevision \in Revisions
    <2>1. \A p \in DOMAIN topology.paths : p \in Paths /\ topology.paths[p] \in Path
      BY PartialIs DEF MemoryInv, WorldInv, TopologyRecord
    <2>2. WorldInv
      BY DEF MemoryInv
    <2> QED BY <2>1, <2>2, OwnRevisionIs, EvidenceAssumption DEF Path, NoRevision, Revisions
  <1>3. CASE DeclareLink
    <2>1. PICK l \in Links, c \in Contents, replace \in BOOLEAN :
              Declare(Upsert(topology, "links", l, c, replace))
      BY <1>3 DEF DeclareLink
    <2>2. /\ "links" \in TableKinds /\ l \in Ids("links") /\ c \in ContentOf("links")
          /\ Upsert(topology, "links", l, c, replace) = Upserted(topology, "links", l, c, replace)
      BY DEF TableKinds, Ids, ContentOf, Upserted
    <2> QED BY <1>1, <2>1, <2>2
  <1>4. CASE DeclarePath
    <2>1. PICK p \in Paths, s \in Shapes, replace \in BOOLEAN :
              \E r \in {NoRevision} \cup OwnNumbers
                       \cup OwnRevision(topology.paths, p, "revision") :
                  Declare(UpsertPath(topology, p, [shape |-> s, revision |-> r], replace))
      BY <1>4, Zenon DEF DeclarePath
    <2>2. PICK r \in {NoRevision} \cup OwnNumbers
                     \cup OwnRevision(topology.paths, p, "revision") :
              Declare(UpsertPath(topology, p, [shape |-> s, revision |-> r], replace))
      BY <2>1
    <2> DEFINE path == [shape |-> s, revision |-> r]
    <2>3. r \in Revisions
      BY <1>2, <2>2
    <2>4. /\ "paths" \in TableKinds /\ p \in Ids("paths") /\ path \in ContentOf("paths")
          /\ UpsertPath(topology, p, path, replace) = Upserted(topology, "paths", p, path, replace)
      BY <2>3 DEF TableKinds, Ids, ContentOf, Upserted, Path
    <2>5. Declare(UpsertPath(topology, p, path, replace))
      BY <2>2
    <2> HIDE DEF path
    <2> QED BY <1>1, <2>4, <2>5
  <1>5. CASE DeclareFlow
    <2>1. PICK f \in Flows, p \in DOMAIN topology.paths, replace \in BOOLEAN :
              \E r \in {topology.paths[p].revision} \cup OwnNumbers
                       \cup OwnRevision(topology.flows, f, "binding_revision") :
                  Declare(Upsert(topology, "flows", f,
                                 [path |-> p, binding_revision |-> r], replace))
      BY <1>5, Zenon DEF DeclareFlow
    <2>2. PICK r \in {topology.paths[p].revision} \cup OwnNumbers
                     \cup OwnRevision(topology.flows, f, "binding_revision") :
              Declare(Upsert(topology, "flows", f,
                             [path |-> p, binding_revision |-> r], replace))
      BY <2>1
    <2> DEFINE b == [path |-> p, binding_revision |-> r]
    <2>3. r \in Revisions /\ p \in Paths
      BY <1>2, <2>2
    <2>4. /\ "flows" \in TableKinds /\ f \in Ids("flows") /\ b \in ContentOf("flows")
          /\ Upsert(topology, "flows", f, b, replace) = Upserted(topology, "flows", f, b, replace)
      BY <2>3 DEF TableKinds, Ids, ContentOf, Upserted, FlowBinding
    <2>5. Declare(Upsert(topology, "flows", f, b, replace))
      BY <2>2
    <2> HIDE DEF b
    <2> QED BY <1>1, <2>4, <2>5
  <1> QED BY <1>3, <1>4, <1>5

(* A measurement is not marked as recovered.                               *)
LEMMA MeasureSends ==
    ASSUME WorldInv, Measure
    PROVE  \E item \in EvidenceItem :
              /\ sent' = sent \cup {item}
              /\ item.observation.observed_at \in Instants
              /\ ~item.observation.recovered
  <1>1. PICK subject \in SubjectRef, s \in Sources, e \in Epochs, g \in Generations,
             at \in Instants :
             \E r \in {NoRevision} \cup {topology.paths[v[1]].revision : v \in SeenAt(subject)} :
                 sent' = sent \cup
                     {[observation |->
                         [subject |-> subject, source |-> s, epoch |-> e, generation |-> g,
                          topology_revision |-> r, observed_at |-> at, received_at |-> now,
                          recovered |-> FALSE],
                       saw |-> SeenAt(subject)]}
    BY DEF Measure
  <1>2. PICK r \in {NoRevision} \cup {topology.paths[v[1]].revision : v \in SeenAt(subject)} :
             sent' = sent \cup
                 {[observation |->
                     [subject |-> subject, source |-> s, epoch |-> e, generation |-> g,
                      topology_revision |-> r, observed_at |-> at, received_at |-> now,
                      recovered |-> FALSE],
                   saw |-> SeenAt(subject)]}
    BY <1>1
  <1> DEFINE o    == [subject |-> subject, source |-> s, epoch |-> e, generation |-> g,
                      topology_revision |-> r, observed_at |-> at, received_at |-> now,
                      recovered |-> FALSE]
             item == [observation |-> o, saw |-> SeenAt(subject)]
  <1>3. r \in Revisions
    <2>1. ASSUME NEW v \in SeenAt(subject), r = topology.paths[v[1]].revision
          PROVE  r \in Revisions
      <3>1. topology.paths \in PartialFunctions(Paths, Path)
        BY DEF WorldInv, TopologyRecord
      <3>2. topology.paths[v[1]] \in Path
        BY <3>1, PartialIs, SeenIs
      <3> QED BY <2>1, <3>2 DEF Path
    <2> QED BY <2>1 DEF NoRevision, Revisions
  <1>4. o \in LossObservation /\ o.observed_at \in Instants /\ ~o.recovered
    BY <1>3 DEF LossObservation, WorldInv
  <1>5. item.observation = o /\ item.saw = SeenAt(subject) /\ sent' = sent \cup {item}
    BY <1>2
  <1> HIDE DEF o
  <1>6. item \in EvidenceItem
    BY <1>4, SeenIs DEF EvidenceItem
  <1> HIDE DEF item
  <1> QED BY <1>4, <1>5, <1>6

(* Administration of the registry keeps the registry's types.              *)
LEMMA AdministerKeepsTypes ==
    ASSUME RegistryTypeOK, IsFiniteSet(sources), Administer
    PROVE  RegistryTypeOK' /\ IsFiniteSet(sources')
  <1> USE DEF RegistryTypeOK
  <1>1. PICK s \in Sources :
            \/ RegisterSource(s)
            \/ \E e \in Epochs :
                  \/ ActivateIncarnation(s, e)
                  \/ ActivateWithKnownEpoch(s, e)
                  \/ RestoreIncarnation(s, e)
                  \/ RetireIncarnation(s, e)
    BY DEF Administer
  <1>2. CASE RegisterSource(s)
    BY <1>2, FS_AddElement DEF RegisterSource
  <1>3. ASSUME NEW e \in Epochs, ActivateIncarnation(s, e)
        PROVE  RegistryTypeOK' /\ IsFiniteSet(sources')
    <2>1. Activated(incarnations[s], e) \in Seq(Incarnation)
      <3>1. incarnations[s] \in Seq(Incarnation) /\ Len(incarnations[s]) \in Nat
            /\ DOMAIN incarnations[s] = 1..Len(incarnations[s])
            /\ \A i \in 1..Len(incarnations[s]) : incarnations[s][i] \in Incarnation
        BY LenProperties
      <3>2. \A i \in 1..Len(incarnations[s]) : Retired(incarnations[s][i].epoch) \in Incarnation
        BY <3>1 DEF Retired, Incarnation
      <3>3. AllRetired(incarnations[s]) \in Seq(Incarnation)
        BY <3>1, <3>2 DEF AllRetired
      <3>4. Live(e) \in Incarnation
        BY DEF Live, Incarnation
      <3> QED BY <3>3, <3>4, AppendProperties DEF Activated
    <2> QED BY <1>3, <2>1 DEF ActivateIncarnation
  <1>4. ASSUME NEW e \in Epochs, ActivateWithKnownEpoch(s, e)
        PROVE  RegistryTypeOK' /\ IsFiniteSet(sources')
    <2>1. ASSUME NEW k
          PROVE  Reactivated(incarnations[s], k) \in Seq(Incarnation)
      <3> DEFINE list == incarnations[s]
      <3>1. list \in Seq(Incarnation) /\ Len(list) \in Nat /\ DOMAIN list = 1..Len(list)
            /\ \A i \in 1..Len(list) : list[i] \in Incarnation
        BY LenProperties
      <3> HIDE DEF list
      <3>2. \A i \in 1..Len(list) : Retired(list[i].epoch) \in Incarnation
                                    /\ Live(list[i].epoch) \in Incarnation
        BY <3>1 DEF Retired, Live, Incarnation
      <3>3. Reactivated(list, k) \in Seq(Incarnation)
        BY <3>1, <3>2 DEF Reactivated
      <3> QED BY <3>3 DEF list
    <2> QED BY <1>4, <2>1 DEF ActivateWithKnownEpoch
  <1>5. ASSUME NEW e \in Epochs, RestoreIncarnation(s, e)
        PROVE  RegistryTypeOK' /\ IsFiniteSet(sources')
    <2>1. Retired(e) \in Incarnation
      BY DEF Retired, Incarnation
    <2> QED BY <1>5, <2>1, AppendProperties DEF RestoreIncarnation
  <1>6. ASSUME NEW e \in Epochs, RetireIncarnation(s, e)
        PROVE  RegistryTypeOK' /\ IsFiniteSet(sources')
    <2>1. Retired(e) \in Incarnation
      BY DEF Retired, Incarnation
    <2>2. PositionOf(s, e) \in DOMAIN incarnations[s]
      BY <1>6 DEF RetireIncarnation, KnownEpoch, PositionOf
    <2>3. [incarnations[s] EXCEPT ![PositionOf(s, e)] = Retired(e)] \in Seq(Incarnation)
      BY <2>1, <2>2, ExceptSeq, LenProperties
    <2> QED BY <1>6, <2>3 DEF RetireIncarnation
  <1> QED BY <1>1, <1>2, <1>3, <1>4, <1>5, <1>6

-----------------------------------------------------------------------------
(* Steps that leave the tables alone, and what they write.                 *)

ReadableSays(t, records) == SaidBy(t, Readable(records), Len(Readable(records)))

(* A journal that grew by records of no entity says what it said.          *)
SaysAsMuch(before, after) ==
    \A t : /\ ReadableNames(t, before) <=> ReadableNames(t, after)
           /\ ReadableSays(t, before) <=> ReadableSays(t, after)

LEMMA GrownSays ==
    ASSUME NEW records \in Seq(JournalRecord), NEW more \in Seq(WholeRecord),
           \A k \in 1..Len(more) : NamesNothing(more[k]),
           NEW after, after = records \o more
    PROVE  /\ after \in Seq(JournalRecord) /\ Len(records) <= Len(after)
           /\ Torn \in Range(after) <=> Torn \in Range(records)
           /\ SaysAsMuch(records, after)
  <1>1. /\ after \in Seq(JournalRecord) /\ Len(after) = Len(records) + Len(more)
        /\ \A k \in 1..Len(records) : after[k] = records[k]
        /\ \A k \in 1..Len(more) : after[Len(records) + k] = more[k]
        /\ Torn \in Range(after) <=> Torn \in Range(records)
        /\ Torn \in Range(records) => Readable(after) = Readable(records)
    BY AppendedIs DEF AppendedTo
  <1>2. Len(records) \in Nat /\ Len(more) \in Nat /\ Len(after) \in Nat
    BY <1>1
  <1>3. CASE Torn \in Range(records)
    BY <1>1, <1>2, <1>3 DEF SaysAsMuch, ReadableNames, ReadableSays
  <1>4. CASE Torn \notin Range(records)
    <2>1. Readable(records) = records /\ Readable(after) = after
      BY <1>1, <1>4, UntornIsReadable
    <2>2. ASSUME NEW k \in (Len(records) + 1)..Len(after)
          PROVE  NamesNothing(after[k])
      <3>1. k - Len(records) \in 1..Len(more) /\ Len(records) + (k - Len(records)) = k
        BY <1>1, <1>2
      <3> QED BY <1>1, <3>1
    <2>3. Len(records) <= Len(after)
      BY <1>1, <1>2
    <2>4. ASSUME NEW t
          PROVE  /\ NamedIn(t, records, Len(records)) <=> NamedIn(t, after, Len(after))
                 /\ SaidBy(t, records, Len(records)) <=> SaidBy(t, after, Len(after))
      BY <1>1, <1>2, <2>2, <2>3, LongerSays
    <2> QED BY <1>1, <1>2, <2>1, <2>3, <2>4 DEF SaysAsMuch, ReadableNames, ReadableSays
  <1> QED BY <1>3, <1>4

LEMMA NamelessEntries ==
    ASSUME NEW bodies \in Seq(OtherBody)
    PROVE  /\ bodies \in Seq(Body) /\ Entries(bodies) \in Seq(WholeRecord)
           /\ \A k \in 1..Len(Entries(bodies)) : NamesNothing(Entries(bodies)[k])
  <1>1. bodies \in Seq(Body)
    BY SeqMonotonic DEF Body
  <1>2. /\ Entries(bodies) \in Seq(WholeRecord)
        /\ Len(Entries(bodies)) = Len(bodies)
        /\ \A k \in 1..Len(bodies) : Entries(bodies)[k] = Entry(bodies[k])
    BY <1>1, EntriesAre
  <1>3. \A k \in 1..Len(bodies) : bodies[k] \in OtherBody
    OBVIOUS
  <1> QED BY <1>1, <1>2, <1>3, OthersNameNothing

(* What the invariant says of the journal, of what is declared and of what *)
(* persist remembers survives a step that changes none of the latter and   *)
(* writes of no entity.                                                    *)
DeclarationsInv == JournalInv /\ CapacityInv /\ SaysInv

LEMMA NamelessStep ==
    ASSUME DeclarationsInv, NEW more \in Seq(WholeRecord),
           \A k \in 1..Len(more) : NamesNothing(more[k]),
           \/ file' = file
           \/ file' = file \o more,
           flushed' = flushed \/ flushed' = Len(file'), stream' = stream,
           UNCHANGED <<up, topology>>,
           raced' = raced, Noted' => Noted
    PROVE  DeclarationsInv'
  <1>1. /\ file' \in Seq(JournalRecord) /\ Len(file) <= Len(file')
        /\ Torn \in Range(file') <=> Torn \in Range(file)
        /\ SaysAsMuch(file, file')
    <2>1. CASE file' = file
      BY <2>1 DEF DeclarationsInv, JournalInv, SaysAsMuch
    <2>2. CASE file' = file \o more
      BY <2>2, GrownSays DEF DeclarationsInv, JournalInv
    <2> QED BY <2>1, <2>2
  <1>2. JournalInv'
    <2>1. Len(file) \in Nat /\ Len(file') \in Nat
      BY <1>1 DEF DeclarationsInv, JournalInv
    <2>2. flushed' \in 0..Len(file')
      BY <1>1, <2>1 DEF DeclarationsInv, JournalInv
    <2> QED BY <1>1, <2>2 DEF DeclarationsInv, JournalInv
  <1>3. CapacityInv'
    <2>1. \A k \in 1..flushed : file'[k] = file[k]
      <3>1. CASE file' = file
        BY <3>1
      <3>2. CASE file' = file \o more
        <4>1. AppendedTo(file, more, file')
          BY <3>2, AppendedIs DEF DeclarationsInv, JournalInv
        <4>2. \A k \in 1..flushed : k \in 1..Len(file)
          BY DEF DeclarationsInv, JournalInv
        <4> QED BY <4>1, <4>2 DEF AppendedTo
      <3> QED BY <3>1, <3>2
    <2>2. flushed' \in flushed..Len(file')
      <3>1. Len(file) \in Nat /\ Len(file') \in Nat
        BY <1>1 DEF DeclarationsInv, JournalInv
      <3> QED BY <1>1, <3>1 DEF DeclarationsInv, JournalInv
    <2>3. ASSUME Loadable(OnDisk)'
          PROVE  NamedWithin'
      <3>1. Loadable(OnDisk)
        BY <1>1, <2>1, <2>2, <2>3, LoadableBefore DEF DeclarationsInv
      <3>2. PICK w \in Topologies : ReadableNames(w, file) /\ (up => w = topology)
        BY <3>1 DEF DeclarationsInv, CapacityInv, NamedWithin
      <3>3. ReadableNames(w, file')
        BY <1>1, <3>2 DEF SaysAsMuch
      <3> QED BY <3>2, <3>3 DEF NamedWithin
    <2> QED BY <2>3 DEF CapacityInv
  <1>4. SaysInv'
    <2>1. SUFFICES ASSUME up, ~raced, Torn \notin Range(file'), Noted'
                   PROVE  SaidBy(topology, file', Len(file'))
      BY DEF SaysInv
    <2>2. SaidBy(topology, file, Len(file))
      BY <1>1, <2>1 DEF DeclarationsInv, SaysInv
    <2>3. Readable(file) = file /\ Readable(file') = file'
      BY <1>1, <2>1, UntornIsReadable DEF DeclarationsInv, JournalInv
    <2>4. ReadableSays(topology, file)
      BY <2>2, <2>3 DEF ReadableSays
    <2>5. ReadableSays(topology, file')
      BY <1>1, <2>4 DEF SaysAsMuch
    <2> QED BY <2>3, <2>5 DEF ReadableSays
  <1> QED BY <1>2, <1>3, <1>4 DEF DeclarationsInv

(* Persist writes the tables behind what the journal holds.                *)
LEMMA TopologyWritten ==
    ASSUME DeclarationsInv, up, topology \in Topologies,
           file' = file \o Entries(TopologyRecords(topology)), flushed' = flushed,
           stream' = stream, UNCHANGED <<up, topology>>
    PROVE  DeclarationsInv'
  <1> DEFINE bodies == TopologyRecords(topology)
  <1>1. /\ bodies \in Seq(Body) /\ Len(bodies) \in Nat
        /\ Entries(bodies) \in Seq(WholeRecord) /\ Len(Entries(bodies)) = Len(bodies)
        /\ \A k \in 1..Len(bodies) : Entries(bodies)[k] = Entry(bodies[k])
    <2>1. bodies \in Seq(TableBody)
      BY TopologyRecordsAre
    <2> HIDE DEF bodies
    <2>2. bodies \in Seq(Body)
      BY <2>1, SeqMonotonic DEF Body
    <2> QED BY <2>2, EntriesAre
  <1>2. file \in Seq(JournalRecord) /\ Len(file) \in Nat /\ flushed \in 0..Len(file)
    BY DEF DeclarationsInv, JournalInv
  <1>3. AppendedTo(file, Entries(bodies), file')
    BY <1>1, <1>2, AppendedIs
  <1>4. /\ file' \in Seq(JournalRecord) /\ Len(file') = Len(file) + Len(bodies)
        /\ \A k \in 1..Len(file) : file'[k] = file[k]
        /\ \A k \in 1..Len(bodies) : file'[Len(file) + k] = Entry(bodies[k])
        /\ Torn \in Range(file') <=> Torn \in Range(file)
        /\ Torn \in Range(file) => Readable(file') = Readable(file)
    BY <1>1, <1>3 DEF AppendedTo
  <1>5. JournalInv'
    <2>1. flushed' \in 0..Len(file')
      BY <1>1, <1>2, <1>4
    <2> QED BY <1>4, <2>1 DEF DeclarationsInv, JournalInv
  <1>6. ASSUME Loadable(OnDisk)'
        PROVE  ReadableNames(topology, file)
    <2>1. /\ \A k \in 1..flushed : k \in 1..Len(file)
          /\ flushed' \in flushed..Len(file')
      BY <1>1, <1>2, <1>4
    <2>2. Loadable(OnDisk)
      BY <1>4, <1>6, <2>1, LoadableBefore DEF DeclarationsInv
    <2> QED BY <2>2 DEF DeclarationsInv, CapacityInv, NamedWithin
  <1>7. CASE Torn \in Range(file)
    <2>1. ReadableNames(topology, file) => ReadableNames(topology, file')
      BY <1>4, <1>7 DEF ReadableNames
    <2>2. CapacityInv'
      BY <1>6, <2>1 DEF CapacityInv, NamedWithin
    <2>3. SaysInv'
      BY <1>4, <1>7 DEF SaysInv
    <2> QED BY <1>5, <2>2, <2>3 DEF DeclarationsInv
  <1>8. CASE Torn \notin Range(file)
    <2>1. Readable(file) = file /\ Readable(file') = file'
      BY <1>2, <1>4, <1>8, UntornIsReadable
    <2>2. /\ NamedIn(topology, file, Len(file)) => NamedIn(topology, file', Len(file'))
          /\ SaidBy(topology, file', Len(file'))
      <3>1. Len(file') = Len(file) + Len(TopologyRecords(topology))
        BY <1>4
      <3>2. /\ \A k \in 1..Len(file) : file'[k] = file[k]
            /\ \A k \in 1..Len(TopologyRecords(topology)) :
                  file'[Len(file) + k] = Entry(TopologyRecords(topology)[k])
        BY <1>4
      <3> HIDE DEF bodies
      <3> QED BY <1>2, <3>1, <3>2, WritingSays
    <2>3. CapacityInv'
      BY <1>6, <2>1, <2>2 DEF CapacityInv, NamedWithin, ReadableNames
    <2>4. SaysInv'
      BY <2>2 DEF SaysInv
    <2> QED BY <1>5, <2>3, <2>4 DEF DeclarationsInv
  <1> QED BY <1>7, <1>8

(* A compaction writes the tables first.                                   *)
LEMMA SnapshotIs ==
    ASSUME MemoryInv, NEW s, s = TopologyRecords(topology)
    PROVE  /\ Snapshot \in Seq(Body) /\ s \in Seq(TableBody) /\ Len(s) <= Len(Snapshot)
           /\ \A k \in 1..Len(s) : Snapshot[k] = s[k]
           /\ \A k \in (Len(s) + 1)..Len(Snapshot) : Snapshot[k] \in OtherBody
  <1> DEFINE r == RegistryRecords
             e == SetToSeq({EvidenceRecord(item) : item \in held})
  <1>1. s \in Seq(TableBody) /\ r \in Seq(OtherBody) /\ e \in Seq(OtherBody)
    BY TopologyRecordsAre, RegistryRecordsAre, EvidenceRecordsAre DEF MemoryInv
  <1>2. Snapshot = (s \o r) \o e
    BY DEF Snapshot
  <1> HIDE DEF r, e
  <1>3. /\ Len(s) \in Nat /\ Len(r) \in Nat /\ Len(e) \in Nat
        /\ s \in Seq(Body) /\ r \in Seq(Body) /\ e \in Seq(Body)
    BY <1>1, SeqMonotonic DEF Body
  <1>4. /\ s \o r \in Seq(Body) /\ Len(s \o r) = Len(s) + Len(r)
        /\ \A k \in 1..Len(s) : (s \o r)[k] = s[k]
        /\ \A k \in 1..Len(r) : (s \o r)[Len(s) + k] = r[k]
    BY <1>3, ConcatProperties
  <1>5. /\ Snapshot \in Seq(Body) /\ Len(Snapshot) = Len(s) + Len(r) + Len(e)
        /\ \A k \in 1..(Len(s) + Len(r)) : Snapshot[k] = (s \o r)[k]
        /\ \A k \in 1..Len(e) : Snapshot[Len(s) + Len(r) + k] = e[k]
    BY <1>2, <1>3, <1>4, ConcatProperties
  <1>6. ASSUME NEW k \in 1..Len(s)
        PROVE  Snapshot[k] = s[k]
    <2>1. k \in 1..(Len(s) + Len(r))
      BY <1>3
    <2> QED BY <1>4, <1>5, <2>1
  <1>7. ASSUME NEW k \in (Len(s) + 1)..Len(Snapshot)
        PROVE  Snapshot[k] \in OtherBody
    <2>1. CASE k <= Len(s) + Len(r)
      <3>1. /\ k \in 1..(Len(s) + Len(r))
            /\ k - Len(s) \in 1..Len(r) /\ Len(s) + (k - Len(s)) = k
        BY <1>3, <2>1
      <3> DEFINE i == k - Len(s)
      <3>2. i \in 1..Len(r) /\ Len(s) + i = k
        BY <3>1
      <3> HIDE DEF i
      <3>3. Snapshot[k] = (s \o r)[k] /\ (s \o r)[Len(s) + i] = r[i]
        BY <1>4, <1>5, <3>1, <3>2
      <3>4. Snapshot[k] = r[i]
        BY <3>2, <3>3
      <3>5. r[i] \in OtherBody
        BY <1>1, <3>2
      <3> QED BY <3>4, <3>5
    <2>2. CASE ~(k <= Len(s) + Len(r))
      <3> DEFINE j == k - (Len(s) + Len(r))
      <3>1. j \in 1..Len(e) /\ Len(s) + Len(r) + j = k
        BY <1>3, <1>5, <2>2
      <3> HIDE DEF j
      <3>2. Snapshot[k] = e[j]
        BY <1>5, <3>1
      <3> QED BY <1>1, <3>1, <3>2
    <2> QED BY <2>1, <2>2
  <1>8. Len(s) <= Len(Snapshot)
    BY <1>3, <1>5
  <1> QED BY <1>1, <1>5, <1>6, <1>7, <1>8

(* A compaction leaves a journal that says what is declared.               *)
LEMMA Compacted ==
    ASSUME MemoryInv, file' = <<Session>> \o Entries(Snapshot), flushed' = Len(file'),
           stream' = "good", UNCHANGED <<up, topology>>
    PROVE  DeclarationsInv'
  <1> DEFINE s == TopologyRecords(topology)
  <1>1. /\ Snapshot \in Seq(Body) /\ s \in Seq(TableBody) /\ Len(s) <= Len(Snapshot)
        /\ \A k \in 1..Len(s) : Snapshot[k] = s[k]
        /\ \A k \in (Len(s) + 1)..Len(Snapshot) : Snapshot[k] \in OtherBody
    BY SnapshotIs
  <1>2. /\ Len(s) \in Nat /\ Len(Snapshot) \in Nat
        /\ Entries(Snapshot) \in Seq(WholeRecord) /\ Len(Entries(Snapshot)) = Len(Snapshot)
        /\ \A k \in 1..Len(Snapshot) : Entries(Snapshot)[k] = Entry(Snapshot[k])
    BY <1>1, EntriesAre
  <1>3. /\ <<Session>> \in Seq(WholeRecord) /\ <<Session>> \in Seq(JournalRecord)
        /\ Len(<<Session>>) = 1 /\ <<Session>>[1] = Session
    BY DEF WholeRecord, JournalRecord
  <1>4. AppendedTo(<<Session>>, Entries(Snapshot), file')
    BY <1>2, <1>3, AppendedIs
  <1> DEFINE top == <<Session>>
  <1>5. top \in Seq(JournalRecord) /\ Len(top) = 1 /\ top[1] = Session
    BY <1>3
  <1>6. AppendedTo(top, Entries(Snapshot), file')
    BY <1>4
  <1> HIDE DEF top
  <1>7. /\ file' \in Seq(JournalRecord) /\ Len(file') = 1 + Len(Snapshot)
        /\ file'[1] = Session
        /\ \A k \in 1..Len(Snapshot) : file'[1 + k] = Entry(Snapshot[k])
    BY <1>2, <1>5, <1>6 DEF AppendedTo
  <1>8. Torn \notin Range(file')
    <2>1. \A k \in 1..1 : top[k] # Torn
      BY <1>5, SessionsNameNothing
    <2>2. DOMAIN top = 1..1
      BY <1>5
    <2>3. Torn \notin Range(top)
      BY <2>1, <2>2 DEF Range
    <2> QED BY <1>6, <2>3 DEF AppendedTo
  <1>9. Readable(file') = file'
    BY <1>7, <1>8, UntornIsReadable
  <1> DEFINE n == 1 + Len(s)
  <1>10. NamedIn(topology, file', n) /\ SaidBy(topology, file', n)
    <2>1. topology \in Topologies
      BY DEF MemoryInv
    <2>2. NamedIn(topology, top, 1)
      <3>1. \A k \in 1..1 : top[k] = Session
        BY <1>5
      <3> QED BY <3>1, SessionsNameNothing DEF NamedIn, NamesNothing
    <2>3. \A k \in 1..1 : file'[k] = top[k]
      BY <1>5, <1>7
    <2>4. \A k \in 1..Len(s) : file'[1 + k] = Entry(s[k])
      <3>1. \A k \in 1..Len(s) : k \in 1..Len(Snapshot)
        BY <1>1, <1>2
      <3> QED BY <1>1, <1>7, <3>1
    <2>5. n = 1 + Len(TopologyRecords(topology))
      OBVIOUS
    <2>6. \A k \in 1..Len(TopologyRecords(topology)) :
              file'[1 + k] = Entry(TopologyRecords(topology)[k])
      BY <2>4
    <2> DEFINE longer == file'
               t == topology
               m == 1
    <2>7. /\ t \in Topologies /\ m \in Nat /\ n = m + Len(TopologyRecords(t))
          /\ \A k \in 1..m : longer[k] = top[k]
          /\ \A k \in 1..Len(TopologyRecords(t)) : longer[m + k] = Entry(TopologyRecords(t)[k])
      BY <2>1, <2>3, <2>5, <2>6
    <2> HIDE DEF s, n, longer, t, m
    <2>8. (NamedIn(t, top, m) => NamedIn(t, longer, n)) /\ SaidBy(t, longer, n)
      BY <2>7, WritingSays
    <2> QED BY <2>2, <2>8 DEF longer, t, m
  <1>11. NamedIn(topology, file', Len(file')) /\ SaidBy(topology, file', Len(file'))
    <2>1. n \in Nat /\ Len(file') \in Nat /\ n <= Len(file')
      BY <1>1, <1>2, <1>7
    <2>2. \A k \in (n + 1)..Len(file') : NamesNothing(file'[k])
      <3>1. ASSUME NEW k \in (n + 1)..Len(file')
            PROVE  NamesNothing(file'[k])
        <4>1. /\ k - 1 \in (Len(s) + 1)..Len(Snapshot) /\ k - 1 \in 1..Len(Snapshot)
              /\ 1 + (k - 1) = k
          BY <1>2, <1>7
        <4>2. file'[k] = Entry(Snapshot[k - 1]) /\ Snapshot[k - 1] \in OtherBody
          BY <1>1, <1>7, <4>1
        <4> QED BY <4>2, OthersNameNothing
      <3> QED BY <3>1
    <2>3. \A k \in 1..n : file'[k] = file'[k]
      OBVIOUS
    <2> HIDE DEF s, n
    <2> QED BY <1>10, <2>1, <2>2, <2>3, LongerSays
  <1>12. JournalInv'
    BY <1>2, <1>7 DEF JournalInv
  <1>13. CapacityInv'
    <2>1. topology' \in Topologies
      BY DEF MemoryInv
    <2>2. ReadableNames(topology', file')
      BY <1>9, <1>11 DEF ReadableNames
    <2> QED BY <2>1, <2>2 DEF CapacityInv, NamedWithin
  <1>14. SaysInv'
    BY <1>11 DEF SaysInv
  <1> QED BY <1>12, <1>13, <1>14 DEF DeclarationsInv

(* What a process that ends leaves of the journal names no more entities.  *)
LEMMA CrashLeaves ==
    ASSUME DeclarationsInv, LoseTail, ~up'
    PROVE  DeclarationsInv'
  <1>1. file \in Seq(JournalRecord) /\ Len(file) \in Nat /\ flushed \in 0..Len(file)
    BY DEF DeclarationsInv, JournalInv
  <1>2. PICK l \in flushed..Len(file) :
            /\ \/ file' = SubSeq(file, 1, l)
               \/ file' = Append(SubSeq(file, 1, l), Torn)
            /\ flushed' = Len(file')
    BY DEF LoseTail, TailSettles
  <1>3. l \in 0..Len(file)
    BY <1>1
  <1>4. /\ file' \in Seq(JournalRecord)
        /\ \A w : ReadableNames(w, file) => ReadableNames(w, file')
    BY <1>1, <1>2, <1>3, CutIs
  <1>5. stream' = "none"
    BY DEF LoseTail
  <1>6. JournalInv'
    BY <1>2, <1>4, <1>5 DEF JournalInv
  <1>7. CapacityInv'
    <2>1. \A k \in 1..flushed : file'[k] = file[k]
      <3> DEFINE cut == SubSeq(file, 1, l)
      <3>1. /\ cut \in Seq(JournalRecord) /\ Len(cut) = l
            /\ \A k \in 1..l : cut[k] = file[k]
        BY <1>1, <1>3, BeginningIs
      <3>2. file' = cut \/ file' = Append(cut, Torn)
        BY <1>2
      <3> HIDE DEF cut
      <3>3. Torn \in JournalRecord
        BY DEF JournalRecord
      <3>4. \A k \in 1..l : file'[k] = cut[k]
        BY <3>1, <3>2, <3>3, AppendProperties
      <3>5. \A k \in 1..flushed : k \in 1..l
        BY <1>1
      <3> QED BY <3>1, <3>4, <3>5
    <2>2. flushed' \in flushed..Len(file')
      <3> DEFINE cut == SubSeq(file, 1, l)
      <3>1. cut \in Seq(JournalRecord) /\ Len(cut) = l
        BY <1>1, <1>3, BeginningIs
      <3>2. file' = cut \/ file' = Append(cut, Torn)
        BY <1>2
      <3> HIDE DEF cut
      <3>3. Torn \in JournalRecord
        BY DEF JournalRecord
      <3>4. Len(file') \in {l, l + 1}
        BY <3>1, <3>2, <3>3, AppendProperties
      <3> QED BY <1>1, <1>2, <3>4
    <2>3. ASSUME Loadable(OnDisk)'
          PROVE  NamedWithin'
      <3>1. Loadable(OnDisk)
        BY <1>4, <2>1, <2>2, <2>3, LoadableBefore DEF DeclarationsInv
      <3> QED BY <1>4, <3>1 DEF DeclarationsInv, CapacityInv, NamedWithin
    <2> QED BY <2>3 DEF CapacityInv
  <1>8. SaysInv'
    BY DEF SaysInv
  <1> QED BY <1>6, <1>7, <1>8 DEF DeclarationsInv

(* A process that starts declares what is readable of the journal, unless  *)
(* the bounds of the load leave some of it out.                            *)
LEMMA BootReads ==
    ASSUME DeclarationsInv, OpenFlushed, up', topology' = ReadBack(file').topology,
           persistStep' = "idle", persisted'.revision = NoRevision
    PROVE  /\ DeclarationsInv'
           /\ topology' \in Topologies
           /\ Loadable(file') =>
                 ReadableNames(topology', file) /\ ReadableSays(topology', file)
  <1>1. file \in Seq(JournalRecord) /\ file' = Append(file, Session)
    BY DEF DeclarationsInv, JournalInv, OpenFlushed
  <1> DEFINE more == <<Session>>
  <1>2. /\ more \in Seq(WholeRecord) /\ file' = file \o more
        /\ \A k \in 1..Len(more) : NamesNothing(more[k])
    <2>1. more \in Seq(WholeRecord) /\ Len(more) = 1 /\ more[1] = Session
      BY DEF WholeRecord
    <2>2. \A k \in 1..Len(more) : more[k] = Session
      BY <2>1
    <2>3. file' = file \o more
      <3>1. Session \in JournalRecord
        BY DEF JournalRecord, WholeRecord
      <3> QED BY <1>1, <3>1, AppendIsConcat
    <2> QED BY <2>1, <2>2, <2>3, SessionsNameNothing
  <1> HIDE DEF more
  <1>3. file' \in Seq(JournalRecord) /\ SaysAsMuch(file, file')
    BY <1>1, <1>2, GrownSays
  <1>4. topology' \in Topologies
    BY <1>3, ReadBackIsState DEF ReadState
  <1>5. JournalInv'
    <2>1. flushed' = Len(file') /\ stream' = "good"
      BY DEF OpenFlushed
    <2> QED BY <1>3, <2>1 DEF JournalInv
  <1>6. OnDisk' = file'
    <2> DEFINE records == file'
    <2>1. records \in Seq(JournalRecord) /\ OnDisk' = SubSeq(records, 1, Len(records))
      BY <1>3 DEF OpenFlushed, OnDisk
    <2> HIDE DEF records
    <2>2. SubSeq(records, 1, Len(records)) = records
      BY <2>1
    <2> QED BY <2>1, <2>2 DEF records
  <1>7. ASSUME Loadable(file')
        PROVE  ReadableNames(topology', file') /\ ReadableSays(topology', file')
    <2>1. Loadable(OnDisk)
      <3>1. Loadable(OnDisk)'
        BY <1>6, <1>7
      <3>2. AppendedTo(file, more, file')
        BY <1>1, <1>2, AppendedIs
      <3>3. /\ flushed \in 0..Len(file) /\ flushed' = Len(file')
            /\ Len(file) \in Nat /\ Len(more) \in Nat
        BY <1>2 DEF DeclarationsInv, JournalInv, OpenFlushed
      <3>4. \A k \in 1..flushed : file'[k] = file[k]
        <4>1. \A k \in 1..flushed : k \in 1..Len(file)
          BY <3>3
        <4> QED BY <3>2, <4>1 DEF AppendedTo
      <3>5. flushed' \in flushed..Len(file')
        BY <3>2, <3>3 DEF AppendedTo
      <3> QED BY <1>3, <3>1, <3>4, <3>5, LoadableBefore DEF DeclarationsInv
    <2>2. PICK w \in Topologies : ReadableNames(w, file)
      BY <2>1 DEF DeclarationsInv, CapacityInv, NamedWithin
    <2>3. ReadableNames(w, file')
      BY <1>3, <2>2 DEF SaysAsMuch
    <2> DEFINE records == file'
               t == topology'
    <2>4. /\ records \in Seq(JournalRecord) /\ t = ReadBack(records).topology
          /\ ReadableNames(w, records) /\ Loadable(records)
      BY <1>3, <1>7, <2>3
    <2> HIDE DEF records, t
    <2>5. ReadableNames(t, records) /\ ReadableSays(t, records)
      BY <2>4, ReadBackSays DEF ReadableNames, ReadableSays
    <2> QED BY <2>5 DEF records, t
  <1>8. CapacityInv'
    BY <1>4, <1>6, <1>7 DEF CapacityInv, NamedWithin
  <1>9. SaysInv'
    <2>1. persisted'.revision # topology'.revision
      BY <1>4 DEF Topologies
    <2> QED BY <2>1 DEF SaysInv, Noted
  <1>10. Loadable(file') => ReadableNames(topology', file) /\ ReadableSays(topology', file)
    BY <1>3, <1>7 DEF SaysAsMuch
  <1> QED BY <1>4, <1>5, <1>8, <1>9, <1>10 DEF DeclarationsInv

-----------------------------------------------------------------------------
(* Every step keeps the invariant.                                         *)

MemoryStays == UNCHANGED <<evidenceVars, accepted>>

LEMMA MemoryKept ==
    ASSUME MemoryInv, EvidenceInv, MemoryStays
    PROVE  MemoryInv' /\ EvidenceInv'
  <1>1. /\ UNCHANGED <<sources, incarnations, fence, admitted>>
        /\ UNCHANGED <<flowGenerations, pathGenerations, topology, now, sent, held>>
        /\ UNCHANGED <<recorded, dropped, uncounted, accepted>>
    BY DEF MemoryStays, evidenceVars, registryVars, generationVars, worldVars, historyVars
  <1>2. WorldInv' /\ GenerationsInv' /\ RegistryTypeOK'
    BY <1>1 DEF MemoryInv, WorldInv, GenerationsInv, RegistryTypeOK
  <1>3. MemoryInv'
    BY <1>1, <1>2 DEF MemoryInv
  <1>4. EvidenceInv'
    BY <1>1 DEF EvidenceInv
  <1> QED BY <1>3, <1>4

LEMMA HappensKeeps ==
    ASSUME RecoveryInv, Happens
    PROVE  RecoveryInv'
  <1>1. /\ MemoryInv /\ DeclarationsInv /\ ProcessInv /\ EvidenceInv
        /\ up /\ Happen /\ UNCHANGED <<journalVars, up, lives, persistStep, persisted, accepted>>
        /\ raced' = (raced \/ (persistStep \in {"written", "compacted"} /\ topology' # topology))
    BY DEF RecoveryInv, DeclarationsInv, Happens
  <1>2. UNCHANGED <<file, flushed, stream>>
    BY <1>1 DEF journalVars
  <1>3. ASSUME UNCHANGED <<registryVars, generationVars, topology, uncounted, held, historyVars>>,
               now' \in Instants, sent' \subseteq EvidenceItem,
               \A item \in sent' : /\ item.observation.observed_at \in Instants
                                   /\ ~item.observation.recovered
        PROVE  RecoveryInv'
    <2>1. /\ UNCHANGED <<sources, incarnations, fence, admitted>>
          /\ UNCHANGED <<flowGenerations, pathGenerations, topology, held, recorded, dropped>>
      BY <1>3 DEF registryVars, generationVars, historyVars
    <2>2. WorldInv' /\ GenerationsInv' /\ RegistryTypeOK'
      BY <1>1, <1>3, <2>1 DEF MemoryInv, WorldInv, GenerationsInv, RegistryTypeOK
    <2>3. MemoryInv' /\ EvidenceInv'
      BY <1>1, <1>3, <2>1, <2>2 DEF MemoryInv, EvidenceInv
    <2>4. raced' = raced
      BY <1>1, <2>1 DEF ProcessInv
    <2>5. ProcessInv'
      BY <1>1, <2>1, <2>4 DEF ProcessInv
    <2>6. JournalInv' /\ CapacityInv'
      BY <1>1, <1>2, <2>1 DEF DeclarationsInv, JournalInv, CapacityInv, NamedWithin, OnDisk
    <2>7. SaysInv'
      BY <1>1, <1>2, <2>1, <2>4 DEF DeclarationsInv, SaysInv, Noted
    <2> QED BY <2>3, <2>5, <2>6, <2>7 DEF RecoveryInv
  <1>4. CASE Tick
    <2>1. now' \in Instants
      BY <1>1, <1>4, EvidenceAssumption, GenerationAssumption DEF Tick, MemoryInv, WorldInv
    <2> QED BY <1>1, <1>3, <1>4, <2>1 DEF Tick, MemoryInv, WorldInv, GenerationsInv, EvidenceInv
  <1>5. CASE Measure
    <2>1. PICK item \in EvidenceItem : /\ sent' = sent \cup {item}
                                       /\ item.observation.observed_at \in Instants
                                       /\ ~item.observation.recovered
      BY <1>1, <1>5, MeasureSends DEF MemoryInv
    <2>2. UNCHANGED <<registryVars, generationVars, topology, uncounted, now, held, historyVars>>
      BY <1>5 DEF Measure
    <2> QED BY <1>1, <1>3, <2>1, <2>2 DEF MemoryInv, WorldInv, GenerationsInv, EvidenceInv
  <1>6. CASE DeclareLink \/ DeclarePath \/ DeclareFlow
    <2>1. /\ topology' \in Topologies
          /\ topology'.revision = topology.revision + 1
          /\ \A kind \in TableKinds : DOMAIN topology[kind] \subseteq DOMAIN topology'[kind]
          /\ uncounted' \subseteq Revisions
          /\ UNCHANGED <<registryVars, generationVars, worldVars, held, historyVars>>
      BY <1>1, <1>6, HappenDeclares
    <2>2. /\ UNCHANGED <<sources, incarnations, fence, admitted, now, sent>>
          /\ UNCHANGED <<flowGenerations, pathGenerations, held, recorded, dropped>>
      BY <2>1 DEF registryVars, generationVars, worldVars, historyVars
    <2>3. topology.revision \in Nat
      BY <1>1 DEF MemoryInv, WorldInv, TopologyRecord, Revisions
    <2>4. MemoryInv' /\ EvidenceInv'
      <3>1. topology' \in TopologyRecord /\ IsFiniteSet(DOMAIN topology'.flows)
        BY <2>1 DEF Topologies, TableKinds
      <3>2. WorldInv' /\ GenerationsInv' /\ RegistryTypeOK'
        BY <1>1, <2>1, <2>2, <3>1 DEF MemoryInv, WorldInv, GenerationsInv, RegistryTypeOK
      <3> QED BY <1>1, <2>1, <2>2, <3>2 DEF MemoryInv, EvidenceInv
    <2>5. ProcessInv'
      <3>1. persisted'.revision \in 0..topology'.revision
        BY <1>1, <2>1, <2>3 DEF ProcessInv
      <3>2. raced' \in BOOLEAN
        BY <1>1
      <3> QED BY <1>1, <3>1, <3>2 DEF ProcessInv
    <2>6. CapacityInv'
      <3>1. OnDisk' = OnDisk
        BY <1>2 DEF OnDisk
      <3>2. ASSUME Loadable(OnDisk)
            PROVE  ReadableNames(topology', file)
        <4>1. ReadableNames(topology, file)
          BY <1>1, <3>2 DEF DeclarationsInv, CapacityInv, NamedWithin
        <4> QED BY <2>1, <4>1 DEF ReadableNames, NamedIn
      <3> QED BY <1>2, <2>1, <3>1, <3>2 DEF CapacityInv, NamedWithin
    <2>7. SaysInv'
      <3>1. topology' # topology /\ persisted.revision # topology'.revision
        BY <1>1, <2>1, <2>3 DEF ProcessInv
      <3>2. raced' \/ ~Noted'
        BY <1>1, <3>1 DEF Noted
      <3> QED BY <3>2 DEF SaysInv
    <2>8. JournalInv'
      BY <1>1, <1>2 DEF DeclarationsInv, JournalInv
    <2> QED BY <2>4, <2>5, <2>6, <2>7, <2>8 DEF RecoveryInv
  <1> QED BY <1>1, <1>4, <1>5, <1>6 DEF Happen

LEMMA AdministeredKeeps ==
    ASSUME RecoveryInv, Administered
    PROVE  RecoveryInv'
  <1>1. /\ UNCHANGED <<flowGenerations, pathGenerations, topology, now, sent, held>>
        /\ UNCHANGED <<recorded, dropped, uncounted, file, flushed, stream>>
        /\ UNCHANGED <<up, lives, persistStep, persisted, accepted, raced>>
    BY DEF Administered, generationVars, worldVars, historyVars, journalVars, processVars
  <1>2. RegistryTypeOK' /\ IsFiniteSet(sources')
    BY AdministerKeepsTypes DEF RecoveryInv, MemoryInv, Administered
  <1>3. WorldInv' /\ GenerationsInv'
    BY <1>1 DEF RecoveryInv, MemoryInv, WorldInv, GenerationsInv
  <1>4. MemoryInv' /\ EvidenceInv'
    BY <1>1, <1>2, <1>3 DEF RecoveryInv, MemoryInv, EvidenceInv
  <1>5. JournalInv' /\ ProcessInv'
    BY <1>1 DEF RecoveryInv, JournalInv, ProcessInv
  <1>6. CapacityInv' /\ SaysInv'
    BY <1>1 DEF RecoveryInv, CapacityInv, NamedWithin, OnDisk, SaysInv, Noted
  <1> QED BY <1>4, <1>5, <1>6 DEF RecoveryInv

LEMMA IngestedKeeps ==
    ASSUME RecoveryInv, NEW item \in sent, Ingested(item)
    PROVE  RecoveryInv'
  <1>1. /\ MemoryInv /\ DeclarationsInv /\ ProcessInv /\ EvidenceInv /\ up
        /\ Deliver(item) /\ UNCHANGED <<up, lives, persistStep, persisted, raced>>
    BY DEF RecoveryInv, DeclarationsInv, Ingested
  <1>2. /\ UNCHANGED <<sources, incarnations, fence, admitted, topology, uncounted, now, sent>>
        /\ held' = IF Enters(item) THEN held \cup {item} ELSE held
    BY <1>1 DEF Deliver, registryVars, worldVars
  <1>3. item \in EvidenceItem /\ ~item.observation.recovered
    BY <1>1 DEF MemoryInv, WorldInv, EvidenceInv
  <1>4. accepted' = IF Enters(item) THEN accepted \cup {item} ELSE accepted
    BY DEF Ingested
  <1>5. MemoryInv'
    <2>1. GenerationsInv'
      BY <1>1, DeliveryKeepsTables DEF MemoryInv
    <2>2. WorldInv' /\ RegistryTypeOK'
      BY <1>1, <1>2 DEF MemoryInv, WorldInv, RegistryTypeOK
    <2>3. IsFiniteSet(held')
      BY <1>1, <1>2, FS_AddElement DEF MemoryInv
    <2>4. held' \subseteq EvidenceItem /\ accepted' \subseteq EvidenceItem
      BY <1>1, <1>2, <1>3, <1>4 DEF MemoryInv
    <2> QED BY <1>1, <1>2, <2>1, <2>2, <2>3, <2>4 DEF MemoryInv
  <1>6. EvidenceInv'
    <2>1. \A x \in sent' : ~x.observation.recovered
      BY <1>1, <1>2 DEF EvidenceInv
    <2>2. ASSUME NEW x \in held', ~x.observation.recovered
          PROVE  x \in accepted' /\ AsRecovered(x) \notin held'
      <3>1. x \in EvidenceItem
        BY <1>5 DEF MemoryInv
      <3>2. AsRecovered(x) # item
        BY <1>3, <3>1, RecoveredIs
      <3>3. CASE x \in held
        BY <1>1, <1>2, <1>4, <2>2, <3>2, <3>3 DEF EvidenceInv
      <3>4. CASE x \notin held
        <4>1. Enters(item) /\ x = item
          BY <1>2, <3>4
        <4>2. ~Known(held, item)
          BY <4>1 DEF Enters
        <4>3. AsRecovered(item) \notin held
          BY <4>2 DEF Known
        <4> QED BY <1>2, <1>4, <3>2, <4>1, <4>3
      <3> QED BY <3>3, <3>4
    <2> QED BY <2>1, <2>2 DEF EvidenceInv
  <1>7. DeclarationsInv'
    <2> DEFINE bodies == <<EvidenceRecord(item)>>
               more   == Entries(bodies)
    <2>1. bodies \in Seq(OtherBody)
      <3>1. EvidenceRecord(item) \in OtherBody
        BY <1>3 DEF EvidenceRecord, OtherBody, EvidenceBody
      <3> QED BY <3>1
    <2>2. more \in Seq(WholeRecord) /\ \A k \in 1..Len(more) : NamesNothing(more[k])
      <3> HIDE DEF bodies
      <3> QED BY <2>1, NamelessEntries
    <2>3. /\ file' = file \/ file' = file \o more
          /\ flushed' = flushed /\ stream' = stream
      BY DEF Ingested, Written, AppendAll, journalVars
    <2>4. Noted' => Noted
      BY <1>1, <1>2 DEF Noted
    <2> HIDE DEF more
    <2> QED BY <1>1, <1>2, <2>2, <2>3, <2>4, NamelessStep
  <1>8. ProcessInv'
    BY <1>1, <1>2 DEF ProcessInv
  <1> QED BY <1>5, <1>6, <1>7, <1>8 DEF RecoveryInv, DeclarationsInv

(* A step of persist that writes of no entity, or nothing.                 *)
LEMMA PersistStepKeeps ==
    ASSUME RecoveryInv, UNCHANGED <<evidenceVars, up, lives, accepted>>, raced' = raced,
           NEW bodies \in Seq(OtherBody),
           \/ file' = file
           \/ file' = file \o Entries(bodies),
           flushed' = flushed \/ flushed' = Len(file'), stream' = stream,
           persistStep' \in PersistSteps, up,
           "revision" \in DOMAIN persisted',
           persisted'.revision \in {persisted.revision, topology.revision},
           Noted' => Noted
    PROVE  RecoveryInv'
  <1>1. topology' = topology /\ topology.revision \in Nat
    BY DEF evidenceVars, RecoveryInv, MemoryInv, WorldInv, TopologyRecord, Revisions
  <1>2. MemoryInv' /\ EvidenceInv'
    BY MemoryKept DEF MemoryStays, RecoveryInv
  <1>3. DeclarationsInv'
    <2> DEFINE more == Entries(bodies)
    <2>1. more \in Seq(WholeRecord) /\ \A k \in 1..Len(more) : NamesNothing(more[k])
      BY NamelessEntries
    <2>2. file' = file \/ file' = file \o more
      OBVIOUS
    <2>3. DeclarationsInv
      BY DEF RecoveryInv, DeclarationsInv
    <2> HIDE DEF more
    <2> QED BY <1>1, <2>1, <2>2, <2>3, NamelessStep
  <1>4. ProcessInv'
    <2>1. persisted'.revision \in 0..topology'.revision
      BY <1>1 DEF RecoveryInv, ProcessInv
    <2> QED BY <2>1 DEF RecoveryInv, ProcessInv
  <1> QED BY <1>2, <1>3, <1>4 DEF RecoveryInv, DeclarationsInv

LEMMA PersistTopologyKeeps ==
    ASSUME RecoveryInv, PersistTopology
    PROVE  RecoveryInv'
  <1>1. /\ up /\ persistStep = "idle"
        /\ UNCHANGED <<evidenceVars, up, lives, persisted, accepted>>
    BY DEF PersistTopology
  <1>2. topology' = topology /\ topology \in Topologies
    BY <1>1 DEF evidenceVars, RecoveryInv, MemoryInv
  <1>3. CASE topology.revision # persisted.revision
    <2>1. /\ AppendAll(TopologyRecords(topology))
          /\ persistStep' = "written" /\ raced' = FALSE
      BY <1>3 DEF PersistTopology, Written
    <2>2. MemoryInv' /\ EvidenceInv'
      BY <1>1, MemoryKept DEF MemoryStays, RecoveryInv
    <2>3. DeclarationsInv'
      <3>1. stream = "good" /\ DeclarationsInv
        BY <1>1 DEF RecoveryInv, DeclarationsInv, JournalInv
      <3>2. /\ file' = file \o Entries(TopologyRecords(topology))
            /\ flushed' = flushed /\ stream' = stream
        BY <2>1, <3>1 DEF AppendAll
      <3> QED BY <1>1, <1>2, <3>1, <3>2, TopologyWritten
    <2>4. ProcessInv'
      BY <1>1, <1>2, <2>1 DEF RecoveryInv, ProcessInv, PersistSteps
    <2> QED BY <2>2, <2>3, <2>4 DEF RecoveryInv, DeclarationsInv
  <1>4. CASE topology.revision = persisted.revision
    <2>1. /\ persistStep' = "noted" /\ raced' = raced
          /\ file' = file /\ flushed' = flushed /\ stream' = stream
      BY <1>4 DEF PersistTopology, journalVars
    <2>2. Noted' => Noted
      BY <1>1, <1>2, <1>4 DEF Noted
    <2>3. << >> \in Seq(OtherBody)
      OBVIOUS
    <2>4. /\ persistStep' \in PersistSteps /\ "revision" \in DOMAIN persisted'
          /\ persisted'.revision = persisted.revision
      BY <1>1, <2>1 DEF PersistSteps, RecoveryInv, ProcessInv
    <2> QED BY <1>1, <2>1, <2>2, <2>3, <2>4, PersistStepKeeps
  <1> QED BY <1>3, <1>4

LEMMA PersistNotesKeeps ==
    ASSUME RecoveryInv, PersistNotes
    PROVE  RecoveryInv'
  <1>1. /\ up /\ persistStep = "written" /\ persistStep' = "noted" /\ raced' = raced
        /\ UNCHANGED <<evidenceVars, up, lives, accepted>>
        /\ file' = file /\ flushed' = flushed /\ stream' = stream
        /\ persisted' = [persisted EXCEPT !.revision = topology.revision]
    BY DEF PersistNotes, journalVars
  <1>2. "revision" \in DOMAIN persisted' /\ persisted'.revision = topology.revision
    BY <1>1 DEF RecoveryInv, ProcessInv
  <1>3. persistStep' \in PersistSteps /\ (Noted' => Noted)
    BY <1>1 DEF PersistSteps, Noted
  <1>4. << >> \in Seq(OtherBody)
    OBVIOUS
  <1> QED BY <1>1, <1>2, <1>3, <1>4, PersistStepKeeps

LEMMA PersistSourcesKeeps ==
    ASSUME RecoveryInv, PersistSources
    PROVE  RecoveryInv'
  <1>1. /\ up /\ persistStep = "noted" /\ persistStep' = "sourced" /\ raced' = raced
        /\ UNCHANGED <<evidenceVars, up, lives, accepted>>
        /\ topology' = topology
    BY DEF PersistSources, evidenceVars
  <1>2. /\ file' = file \/ file' = file \o Entries(RegistryRecords)
        /\ flushed' = flushed /\ stream' = stream
    BY DEF PersistSources, Written, AppendAll, journalVars
  <1>3. \/ persisted' = persisted
        \/ persisted' = [persisted EXCEPT !.sources = Counts.sources,
                                          !.incarnations = Counts.incarnations]
    BY DEF PersistSources
  <1>4. "revision" \in DOMAIN persisted' /\ persisted'.revision = persisted.revision
    BY <1>3 DEF RecoveryInv, ProcessInv
  <1>5. persistStep' \in PersistSteps /\ (Noted' => Noted)
    BY <1>1, <1>4 DEF PersistSteps, Noted
  <1>6. RegistryRecords \in Seq(OtherBody)
    BY RegistryRecordsAre DEF RecoveryInv, MemoryInv
  <1> QED BY <1>1, <1>2, <1>4, <1>5, <1>6, PersistStepKeeps

LEMMA PersistCompactsKeeps ==
    ASSUME RecoveryInv, PersistCompacts
    PROVE  RecoveryInv'
  <1>1. /\ up /\ persistStep' = "compacted" /\ raced' = FALSE
        /\ UNCHANGED <<evidenceVars, up, lives, persisted, accepted>>
        /\ file' = <<Session>> \o Entries(Snapshot) /\ flushed' = Len(file')
        /\ stream' = "good"
    BY DEF PersistCompacts, Compact
  <1>2. topology' = topology
    BY <1>1 DEF evidenceVars
  <1>3. MemoryInv' /\ EvidenceInv'
    BY <1>1, MemoryKept DEF MemoryStays, RecoveryInv
  <1>4. DeclarationsInv'
    BY <1>1, <1>2, Compacted DEF RecoveryInv
  <1>5. ProcessInv'
    BY <1>1, <1>2 DEF RecoveryInv, ProcessInv, PersistSteps
  <1> QED BY <1>3, <1>4, <1>5 DEF RecoveryInv, DeclarationsInv

LEMMA PersistEndsKeeps ==
    ASSUME RecoveryInv, PersistEnds
    PROVE  RecoveryInv'
  <1>1. /\ up /\ persistStep' = "idle" /\ raced' = raced
        /\ UNCHANGED <<evidenceVars, up, lives, accepted>>
        /\ topology' = topology
    BY DEF PersistEnds, evidenceVars
  <1>2. /\ file' = file /\ stream' = stream
        /\ flushed' = flushed \/ flushed' = Len(file')
    BY DEF PersistEnds, Flush
  <1>3. \/ persistStep = "sourced" /\ persisted' = persisted
        \/ /\ persistStep = "compacted"
           /\ persisted' = [persisted EXCEPT !.revision = topology.revision]
    BY DEF PersistEnds
  <1>4. /\ "revision" \in DOMAIN persisted'
        /\ \/ persisted'.revision = persisted.revision
           \/ persistStep = "compacted" /\ persisted'.revision = topology.revision
    BY <1>3 DEF RecoveryInv, ProcessInv
  <1>5. persistStep' \in PersistSteps /\ (Noted' => Noted)
    BY <1>1, <1>4 DEF PersistSteps, Noted
  <1>6. << >> \in Seq(OtherBody)
    OBVIOUS
  <1> QED BY <1>1, <1>2, <1>4, <1>5, <1>6, PersistStepKeeps

LEMMA ProcessEndsKeeps ==
    ASSUME RecoveryInv, ProcessEnds
    PROVE  RecoveryInv'
  <1>1. /\ up' = FALSE /\ sources' = {} /\ incarnations' = [s \in Sources |-> << >>]
        /\ UNCHANGED <<fence, admitted, now, sent, lives>>
        /\ flowGenerations' = NoEntities /\ pathGenerations' = NoEntities
        /\ topology' = EmptyTopology /\ uncounted' = {}
        /\ held' = {} /\ recorded' = {} /\ dropped' = {}
        /\ persistStep' = "idle" /\ persisted' = NothingPersisted
        /\ accepted' = {} /\ raced' = FALSE
    BY DEF ProcessEnds, worldVars
  <1>2. topology' \in Topologies
    BY <1>1, EmptyIsTopology
  <1>3. MemoryInv'
    <2>1. WorldInv'
      BY <1>1, <1>2 DEF RecoveryInv, MemoryInv, WorldInv, Topologies
    <2>2. GenerationsInv'
      BY <1>1, NothingIsFinite, FS_EmptySet
         DEF RecoveryInv, MemoryInv, GenerationsInv, EmptyTopology
    <2>3. RegistryTypeOK'
      <3>1. incarnations' \in [Sources -> Seq(Incarnation)]
        BY <1>1
      <3> QED BY <1>1, <3>1 DEF RecoveryInv, MemoryInv, RegistryTypeOK
    <2> QED BY <1>1, <1>2, <2>1, <2>2, <2>3, FS_EmptySet DEF MemoryInv
  <1>4. EvidenceInv'
    BY <1>1 DEF RecoveryInv, EvidenceInv
  <1>5. DeclarationsInv'
    BY <1>1, CrashLeaves DEF RecoveryInv, DeclarationsInv, ProcessEnds
  <1>6. ProcessInv'
    <2>1. persisted'.revision = 0 /\ topology'.revision = 1 /\ "revision" \in DOMAIN persisted'
      BY <1>1 DEF NothingPersisted, EmptyTopology, NoRevision
    <2>2. persisted'.revision \in 0..topology'.revision
      BY <2>1
    <2> QED BY <1>1, <2>1, <2>2 DEF RecoveryInv, ProcessInv, PersistSteps
  <1> QED BY <1>3, <1>4, <1>5, <1>6 DEF RecoveryInv, DeclarationsInv

LEMMA BootKeeps ==
    ASSUME RecoveryInv, Boot
    PROVE  /\ RecoveryInv'
           /\ Loadable(file') =>
                 ReadableNames(topology', file) /\ ReadableSays(topology', file)
  <1>1. /\ ~up /\ lives < MaxLives /\ OpenFlushed /\ up' = TRUE /\ lives' = lives + 1
        /\ topology' = ReadBack(file').topology /\ sources' = ReadBack(file').sources
        /\ incarnations' = ReadBack(file').incarnations /\ held' = ReadBack(file').held
        /\ uncounted' = {topology'.paths[p].revision : p \in DOMAIN topology'.paths}
        /\ UNCHANGED <<fence, admitted, flowGenerations, pathGenerations, now, sent>>
        /\ UNCHANGED <<recorded, dropped, persistStep, persisted, accepted, raced>>
    BY DEF Boot, generationVars, worldVars, historyVars
  <1>2. /\ DeclarationsInv' /\ topology' \in Topologies
        /\ Loadable(file') =>
              ReadableNames(topology', file) /\ ReadableSays(topology', file)
    <2>1. persistStep' = "idle" /\ persisted'.revision = NoRevision
      BY <1>1 DEF RecoveryInv, ProcessInv, NothingPersisted
    <2> QED BY <1>1, <2>1, BootReads DEF RecoveryInv, DeclarationsInv
  <1>3. ReadBack(file') \in ReadState
    BY <1>2, ReadBackIsState DEF DeclarationsInv, JournalInv
  <1>4. /\ sources' \in SUBSET Sources /\ incarnations' \in [Sources -> Seq(Incarnation)]
        /\ held' \in SUBSET EvidenceItem /\ IsFiniteSet(sources') /\ IsFiniteSet(held')
        /\ \A item \in held' : item.observation.recovered
    BY <1>1, <1>3 DEF ReadState, FiniteSources, RecoveredItems
  <1>5. MemoryInv'
    <2>1. topology' \in TopologyRecord /\ IsFiniteSet(DOMAIN topology'.flows)
      BY <1>2 DEF Topologies, TableKinds
    <2>2. uncounted' \subseteq Revisions
      <3> DEFINE t == topology'
      <3>1. /\ t.paths \in PartialFunctions(Paths, Path)
            /\ uncounted' = {t.paths[p].revision : p \in DOMAIN t.paths}
        BY <1>1, <2>1 DEF TopologyRecord
      <3> HIDE DEF t
      <3>2. \A p \in DOMAIN t.paths : t.paths[p] \in Path
        BY <3>1, PartialIs
      <3> QED BY <3>1, <3>2 DEF Path
    <2>3. WorldInv' /\ GenerationsInv' /\ RegistryTypeOK'
      BY <1>1, <1>4, <2>1, <2>2
         DEF RecoveryInv, MemoryInv, WorldInv, GenerationsInv, RegistryTypeOK
    <2> QED BY <1>1, <1>2, <1>4, <2>3 DEF RecoveryInv, MemoryInv
  <1>6. EvidenceInv'
    BY <1>1, <1>4 DEF RecoveryInv, EvidenceInv
  <1>7. ProcessInv'
    <2>1. persisted.revision = 0 /\ topology'.revision \in Nat
      BY <1>1, <1>2
         DEF RecoveryInv, ProcessInv, NothingPersisted, NoRevision, Topologies,
             TopologyRecord, Revisions
    <2>2. persisted'.revision \in 0..topology'.revision
      BY <1>1, <2>1
    <2>3. lives' \in 1..MaxLives
      BY <1>1, RecoveryAssumption DEF RecoveryInv, ProcessInv
    <2> QED BY <1>1, <2>2, <2>3 DEF RecoveryInv, ProcessInv
  <1> QED BY <1>2, <1>5, <1>6, <1>7 DEF RecoveryInv, DeclarationsInv

LEMMA RecoveryStays == RecoveryInv /\ [RecoveryNext]_recoveryVars => RecoveryInv'
  <1> SUFFICES ASSUME RecoveryInv, [RecoveryNext]_recoveryVars
               PROVE  RecoveryInv'
    OBVIOUS
  <1>1. CASE Happens
    BY <1>1, HappensKeeps
  <1>2. CASE Administered
    BY <1>2, AdministeredKeeps
  <1>3. ASSUME NEW item \in sent, Ingested(item)
        PROVE  RecoveryInv'
    BY <1>3, IngestedKeeps
  <1>4. CASE PersistTopology \/ PersistNotes \/ PersistSources
    BY <1>4, PersistTopologyKeeps, PersistNotesKeeps, PersistSourcesKeeps
  <1>5. CASE PersistCompacts \/ PersistEnds
    BY <1>5, PersistCompactsKeeps, PersistEndsKeeps
  <1>6. CASE ProcessEnds \/ Boot
    BY <1>6, ProcessEndsKeeps, BootKeeps
  <1>7. CASE UNCHANGED recoveryVars
    <2>1. /\ UNCHANGED <<evidenceVars, accepted, file, flushed, stream>>
          /\ UNCHANGED <<up, lives, persistStep, persisted, raced, topology>>
      BY <1>7 DEF recoveryVars, journalVars, processVars, evidenceVars
    <2>2. MemoryInv' /\ EvidenceInv'
      BY <2>1, MemoryKept DEF MemoryStays, RecoveryInv
    <2>3. JournalInv' /\ ProcessInv'
      BY <2>1 DEF RecoveryInv, JournalInv, ProcessInv
    <2>4. CapacityInv' /\ SaysInv'
      BY <2>1 DEF RecoveryInv, CapacityInv, NamedWithin, OnDisk, SaysInv, Noted
    <2> QED BY <2>2, <2>3, <2>4 DEF RecoveryInv
  <1> QED BY <1>1, <1>2, <1>3, <1>4, <1>5, <1>6, <1>7 DEF RecoveryNext

LEMMA RecoveryHolds == RecoverySpec => []RecoveryInv
  BY RecoveryInitHolds, RecoveryStays, PTL DEF RecoverySpec

-----------------------------------------------------------------------------
(* What the invariant means.                                               *)

LEMMA LastIsOne ==
    ASSUME NEW records, NEW n \in Nat, NEW kind, NEW id, NEW j \in 1..n, NEW k \in 1..n,
           LastIs(records, n, kind, id, j), LastIs(records, n, kind, id, k)
    PROVE  j = k
  <1>1. j < k => k \in (j + 1)..n
    OBVIOUS
  <1>2. k < j => j \in (k + 1)..n
    OBVIOUS
  <1>3. ~(j < k) /\ ~(k < j)
    BY <1>1, <1>2 DEF LastIs
  <1> QED BY <1>3

(* The same records say the same, whichever tables they are said of.       *)
LEMMA SameDeclarations ==
    ASSUME NEW t \in Topologies, NEW u \in Topologies, NEW records, NEW n \in Nat,
           NamedIn(t, records, n), SaidBy(t, records, n),
           NamedIn(u, records, n), SaidBy(u, records, n)
    PROVE  Declarations(t) = Declarations(u)
  <1>1. ASSUME NEW kind \in TableKinds
        PROVE  /\ DOMAIN t[kind] = DOMAIN u[kind]
               /\ \A id \in DOMAIN t[kind] :
                     \E content : /\ Alike(kind, t[kind][id], content)
                                  /\ Alike(kind, u[kind][id], content)
    <2>1. DOMAIN t[kind] \subseteq DOMAIN u[kind]
      BY DEF SaidBy, NamedIn, LastIs
    <2>2. DOMAIN u[kind] \subseteq DOMAIN t[kind]
      BY DEF SaidBy, NamedIn, LastIs
    <2>3. ASSUME NEW id \in DOMAIN t[kind]
          PROVE  \E content : /\ Alike(kind, t[kind][id], content)
                              /\ Alike(kind, u[kind][id], content)
      <3>1. PICK j \in 1..n : /\ LastIs(records, n, kind, id, j)
                              /\ Alike(kind, t[kind][id], records[j].body.content)
        BY DEF SaidBy
      <3>2. PICK k \in 1..n : /\ LastIs(records, n, kind, id, k)
                              /\ Alike(kind, u[kind][id], records[k].body.content)
        BY <2>1 DEF SaidBy
      <3>3. j = k
        BY <3>1, <3>2, LastIsOne
      <3> QED BY <3>1, <3>2, <3>3
    <2> QED BY <2>1, <2>2, <2>3
  <1>2. \A kind \in TableKinds : /\ t[kind] \in PartialFunctions(Ids(kind), ContentOf(kind))
                            /\ u[kind] \in PartialFunctions(Ids(kind), ContentOf(kind))
    BY TableIs DEF Topologies
  <1>3. ASSUME NEW kind \in TableKinds, kind # "paths"
        PROVE  t[kind] = u[kind]
    <2>1. \A id \in DOMAIN t[kind] : t[kind][id] = u[kind][id]
      BY <1>1, <1>3 DEF Alike
    <2>2. /\ t[kind] = [id \in DOMAIN t[kind] |-> t[kind][id]]
          /\ u[kind] = [id \in DOMAIN u[kind] |-> u[kind][id]]
      BY <1>2 DEF PartialFunctions
    <2> QED BY <1>1, <2>1, <2>2
  <1>4. t.links = u.links /\ t.flows = u.flows
    BY <1>3 DEF TableKinds
  <1>5. DOMAIN t.paths = DOMAIN u.paths
    BY <1>1 DEF TableKinds
  <1>6. \A p \in DOMAIN t.paths : t.paths[p].shape = u.paths[p].shape
    BY <1>1 DEF TableKinds, Alike
  <1>7. [p \in DOMAIN t.paths |-> t.paths[p].shape] = [p \in DOMAIN u.paths |-> u.paths[p].shape]
    BY <1>5, <1>6
  <1> QED BY <1>4, <1>7 DEF Declarations

(* What is said is said by the record LastOf picks.                        *)
LEMMA SaidByLast ==
    ASSUME NEW t, NEW records \in Seq(WholeRecord), NEW kind \in TableKinds,
           NamedIn(t, records, Len(records)), SaidBy(t, records, Len(records))
    PROVE  /\ DOMAIN t[kind] = EntitiesIn(records, kind)
           /\ \A id \in DOMAIN t[kind] : Alike(kind, t[kind][id], LastOf(records, kind, id))
  <1> DEFINE n == Len(records)
  <1>1. n \in Nat /\ DOMAIN records = 1..n
    OBVIOUS
  <1> HIDE DEF n
  <1>2. \A id : id \in EntitiesIn(records, kind) <=> \E k \in 1..n : IsOf(records[k], kind, id)
    BY <1>1 DEF EntitiesIn, IsOf, Range
  <1>3. DOMAIN t[kind] = EntitiesIn(records, kind)
    <2>1. \A id \in DOMAIN t[kind] : id \in EntitiesIn(records, kind)
      BY <1>2 DEF SaidBy, LastIs, n
    <2>2. \A id \in EntitiesIn(records, kind) : id \in DOMAIN t[kind]
      BY <1>2 DEF NamedIn, n
    <2> QED BY <2>1, <2>2
  <1>4. ASSUME NEW id \in DOMAIN t[kind]
        PROVE  Alike(kind, t[kind][id], LastOf(records, kind, id))
    <2> DEFINE S == {k \in DOMAIN records : IsOf(records[k], kind, id)}
    <2>1. PICK k \in 1..n : /\ LastIs(records, n, kind, id, k)
                            /\ Alike(kind, t[kind][id], records[k].body.content)
      BY DEF SaidBy, n
    <2>2. k \in S
      BY <1>1, <2>1 DEF LastIs
    <2>3. S \in SUBSET Nat /\ IsFiniteSet(S)
      <3>1. S \subseteq 1..n
        BY <1>1
      <3>2. IsFiniteSet(1..n)
        BY <1>1, FS_Interval
      <3>3. IsFiniteSet(S)
        BY <3>1, <3>2, FS_Subset
      <3> QED BY <3>1, <3>3
    <2>4. \A j \in S : j \in 1..n /\ IsOf(records[j], kind, id)
      BY <1>1
    <2> HIDE DEF S
    <2>5. Max(S) \in S /\ Max(S) >= k
      BY <2>2, <2>3, MaxIsGreatest
    <2>6. Max(S) = k
      <3> SUFFICES ASSUME Max(S) # k PROVE FALSE
        OBVIOUS
      <3>1. Max(S) \in 1..n /\ IsOf(records[Max(S)], kind, id)
        BY <2>4, <2>5
      <3>2. Max(S) \in (k + 1)..n
        BY <1>1, <2>5, <3>1
      <3> QED BY <2>1, <3>1, <3>2 DEF LastIs
    <2>7. LastOf(records, kind, id) = records[k].body.content
      BY <2>6 DEF LastOf, S
    <2> QED BY <2>1, <2>7
  <1> QED BY <1>3, <1>4

-----------------------------------------------------------------------------
(* The theorems.                                                           *)

(* However often a process ends in the middle of persist and whatever the  *)
(* crash leaves of its journal, what the next one reads back               *)
(* (persist.cpp:1016, load) is within the bounds and types of its tables   *)
(* and lists, and the revision persist remembers as written was reached.   *)
THEOREM RecoveryTyped == RecoverySpec => []RecoveryTypeOK
  <1>1. ASSUME RecoveryInv
        PROVE  RecoveryTypeOK
    <2>1. GenerationTypeOK
      <3>1. \A S : /\ FiniteWindows \subseteq Windows
                   /\ PartialFunctions(S, FiniteWindows) \subseteq PartialFunctions(S, Windows)
        BY DEF FiniteWindows, PartialFunctions
      <3> QED BY <1>1, <3>1
              DEF RecoveryInv, MemoryInv, GenerationsInv, Tables, GenerationTypeOK
    <2>2. TopologyTypeOK
      <3>1. \A S, T, f : f \in PartialFunctions(S, T) => TableOK(f, S, T)
        BY DEF PartialFunctions, TableOK
      <3> QED BY <1>1, <3>1
              DEF RecoveryInv, MemoryInv, WorldInv, TopologyRecord, TopologyTypeOK
    <2>3. EvidenceTypeOK
      BY <1>1, <2>1, <2>2 DEF RecoveryInv, MemoryInv, WorldInv, GenerationsInv, EvidenceTypeOK
    <2>4. \A k \in DOMAIN file : file[k].kind \in {"session", "torn", "entry"}
      <3>1. \A r \in JournalRecord : r.kind \in {"session", "torn", "entry"}
        BY DEF JournalRecord, WholeRecord, Session, Torn
      <3>2. \A k \in DOMAIN file : file[k] \in JournalRecord
        BY <1>1 DEF RecoveryInv, JournalInv
      <3> QED BY <3>1, <3>2
    <2> QED BY <1>1, <2>3, <2>4 DEF RecoveryInv, MemoryInv, JournalInv, ProcessInv, RecoveryTypeOK
  <1> QED BY <1>1, RecoveryHolds, PTL

(* freshness refuses a recovered record before it asks anything else       *)
(* (freshness.cpp:80), restore marks all that load hands it                *)
(* (store.cpp:167), and the store takes no second copy of what it knows:   *)
(* what is admitted came through the door of this very process.            *)
THEOREM NothingRevived == RecoverySpec => []RestartRevivesNothing
  <1>1. ASSUME RecoveryInv
        PROVE  RestartRevivesNothing
    <2> SUFFICES ASSUME NEW item \in held, Admits(item.observation, now)
                 PROVE  AsRecovered(item) \notin held /\ item \in accepted
      BY DEF RestartRevivesNothing
    <2>1. ~item.observation.recovered
      BY DEF Admits, StaleReason
    <2> QED BY <1>1, <2>1 DEF RecoveryInv, EvidenceInv
  <1> QED BY <1>1, RecoveryHolds, PTL

(* persist writes every table before it takes note of their revision       *)
(* (engine.cpp:793), and no other record names an entity: unless a         *)
(* declaration raced the note, a crash tore the journal or the journal     *)
(* outgrew the bounds of a load (persist.cpp:1103, 1164), reading it back  *)
(* declares what is declared.                                              *)
THEOREM NotedRecovers == RecoverySpec => []NotedIsRecoverable
  <1>1. ASSUME RecoveryInv
        PROVE  NotedIsRecoverable
    <2> SUFFICES ASSUME persisted.revision = topology.revision, ~raced,
                        Torn \notin Range(file), Loadable(file)
                 PROVE  Declarations(ReadBack(file).topology) = Declarations(topology)
      BY DEF NotedIsRecoverable
    <2>1. /\ topology \in Topologies
          /\ file \in Seq(JournalRecord) /\ Len(file) \in Nat
      BY <1>1 DEF RecoveryInv, MemoryInv, JournalInv
    <2>2. up
      BY <1>1, <2>1 DEF RecoveryInv, ProcessInv, NothingPersisted, NoRevision, Topologies
    <2>3. Readable(file) = file
      BY <2>1, UntornIsReadable
    <2>4. NamedIn(topology, file, Len(file))
      <3>1. Loadable(OnDisk)
        BY <1>1, LoadableOnDisk DEF RecoveryInv
      <3> QED BY <1>1, <2>2, <2>3, <3>1 DEF RecoveryInv, CapacityInv, NamedWithin, ReadableNames
    <2>5. SaidBy(topology, file, Len(file))
      BY <1>1, <2>2 DEF RecoveryInv, SaysInv, Noted
    <2> DEFINE t == ReadBack(file).topology
    <2>6. t \in Topologies /\ NamedIn(t, file, Len(file)) /\ SaidBy(t, file, Len(file))
      BY <2>1, <2>3, <2>4, ReadBackSays
    <2> HIDE DEF t
    <2>7. Declarations(t) = Declarations(topology)
      BY <2>1, <2>4, <2>5, <2>6, SameDeclarations
    <2> QED BY <2>7 DEF t
  <1> QED BY <1>1, RecoveryHolds, PTL

(* load replaces what an earlier record declared (persist.cpp:1196 to      *)
(* 1226, upsert with replace) and stops at the first record it cannot      *)
(* verify; while its bounds leave no record of a table out                 *)
(* (persist.cpp:1103, 1164), the tables have room for all that was         *)
(* written: each entity is declared as the last of its readable records    *)
(* declares it, and no other is.                                           *)
THEOREM LastDeclared == RecoverySpec => RecoveryIsLastDeclared
  <1> DEFINE Restarts ==
        up' /\ ~up /\ Loadable(file') =>
            LET records == Readable(file)
                last(kind) == [id \in EntitiesIn(records, kind) |-> LastOf(records, kind, id)]
            IN  Declarations(topology') =
                    [links |-> last("links"), flows |-> last("flows"),
                     paths |-> [p \in EntitiesIn(records, "paths") |-> last("paths")[p].shape]]
  <1>1. ASSUME RecoveryInv, [RecoveryNext]_recoveryVars
        PROVE  Restarts
    <2> SUFFICES ASSUME up', ~up, Loadable(file') PROVE Restarts
      OBVIOUS
    <2>1. Boot
      BY <1>1
         DEF RecoveryNext, Happens, Administered, Ingested, PersistTopology, PersistNotes,
             PersistSources, PersistCompacts, PersistEnds, ProcessEnds, recoveryVars, processVars
    <2> DEFINE records == Readable(file)
               t == topology'
    <2>2. RecoveryInv' /\ ReadableNames(topology', file) /\ ReadableSays(topology', file)
      BY <1>1, <2>1, BootKeeps
    <2>3. t \in Topologies
      BY <2>2 DEF RecoveryInv, MemoryInv
    <2>4. NamedIn(t, records, Len(records)) /\ SaidBy(t, records, Len(records))
      BY <2>2 DEF ReadableNames, ReadableSays
    <2>5. records \in Seq(WholeRecord)
      BY <1>1, ReadableIs DEF RecoveryInv, JournalInv
    <2> HIDE DEF records, t
    <2>6. \A kind \in TableKinds :
              /\ DOMAIN t[kind] = EntitiesIn(records, kind)
              /\ \A id \in DOMAIN t[kind] : Alike(kind, t[kind][id], LastOf(records, kind, id))
      BY <2>4, <2>5, SaidByLast
    <2>7. \A kind \in TableKinds : t[kind] \in PartialFunctions(Ids(kind), ContentOf(kind))
      BY <2>3, TableIs DEF Topologies
    <2> DEFINE last(kind) == [id \in EntitiesIn(records, kind) |-> LastOf(records, kind, id)]
    <2>8. ASSUME NEW kind \in TableKinds, kind # "paths"
          PROVE  t[kind] = last(kind)
      <3>1. t[kind] = [id \in DOMAIN t[kind] |-> t[kind][id]]
        BY <2>7 DEF PartialFunctions
      <3>2. \A id \in DOMAIN t[kind] : t[kind][id] = LastOf(records, kind, id)
        BY <2>6, <2>8 DEF Alike
      <3> QED BY <2>6, <3>1, <3>2
    <2>9. t.links = last("links") /\ t.flows = last("flows")
      BY <2>8 DEF TableKinds
    <2>10. [p \in DOMAIN t.paths |-> t.paths[p].shape]
              = [p \in EntitiesIn(records, "paths") |-> last("paths")[p].shape]
      <3>1. DOMAIN t.paths = EntitiesIn(records, "paths")
        BY <2>6 DEF TableKinds
      <3>2. \A p \in DOMAIN t.paths : t.paths[p].shape = LastOf(records, "paths", p).shape
        BY <2>6 DEF TableKinds, Alike
      <3> QED BY <3>1, <3>2
    <2>11. Declarations(t) =
              [links |-> last("links"), flows |-> last("flows"),
               paths |-> [p \in EntitiesIn(records, "paths") |-> last("paths")[p].shape]]
      BY <2>9, <2>10 DEF Declarations
    <2> QED BY <2>11 DEF records, t
  <1> QED BY <1>1, RecoveryHolds, PTL DEF RecoverySpec, RecoveryIsLastDeclared

==============================================================================
