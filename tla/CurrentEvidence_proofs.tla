------------------------ MODULE CurrentEvidence_proofs ------------------------
(***************************************************************************)
(* What makes evidence current, for every number of sources, flows, paths, *)
(* instants and declarations, whatever the policy and however late the     *)
(* evidence comes.                                                         *)
(***************************************************************************)
EXTENDS CurrentEvidence, FiniteSetTheorems, WellFoundedInduction, TLAPS

-----------------------------------------------------------------------------
(* The inductive invariant of FreshSawThisShape, in parts.                 *)

TopologyRecord ==
    [links : PartialFunctions(Links, Contents), paths : PartialFunctions(Paths, Path),
     flows : PartialFunctions(Flows, FlowBinding), revision : Revisions]

WorldInv ==
    /\ topology \in TopologyRecord
    /\ now \in Instants
    /\ sent \subseteq EvidenceItem
    /\ uncounted \subseteq Revisions

(* Revisions that were counted out name declarations of paths: none is     *)
(* that of two paths, none is yet to come.  Flows run over declared paths. *)
RevisionsInv ==
    /\ topology.revision # NoRevision
    /\ \A p \in DOMAIN topology.paths :
          topology.paths[p].revision \in 1..topology.revision \cup uncounted
    /\ \A p, q \in DOMAIN topology.paths :
          topology.paths[p].revision = topology.paths[q].revision
              => p = q \/ topology.paths[p].revision \in uncounted
    /\ \A f \in DOMAIN topology.flows : topology.flows[f].path \in DOMAIN topology.paths

SubjectDeclared(subject) ==
    \/ subject.kind = "path" /\ subject.id \in DOMAIN topology.paths
    \/ subject.kind = "flow" /\ subject.id \in DOMAIN topology.flows

(* A cited revision that was counted out still says what was seen:         *)
(* whatever path has it now is the path that was seen, in the shape it was *)
(* seen in.                                                                *)
Cites(item) == item.observation.topology_revision \notin {NoRevision} \cup uncounted

CitedIsSeen(item) ==
    LET o == item.observation
    IN  /\ o.topology_revision <= topology.revision
        /\ SubjectDeclared(o.subject)
        /\ \E p \in Paths, s \in Shapes :
              /\ item.saw = {<<p, s>>}
              /\ o.subject.kind = "path" => p = o.subject.id
              /\ \A q \in DOMAIN topology.paths :
                    topology.paths[q].revision = o.topology_revision
                        => q = p /\ topology.paths[q].shape = s

CitationsInv ==
    \A item \in sent : Cites(item) => CitedIsSeen(item)

IInv == WorldInv /\ held \subseteq sent /\ RevisionsInv /\ CitationsInv

-----------------------------------------------------------------------------
(* Sets of identities, and recursion over them.                            *)

(* Every set of naturals that is not empty has a least element.            *)
LEMMA Least ==
    ASSUME NEW T \in SUBSET Nat, T # {}
    PROVE  \E x \in T : \A y \in T : x <= y
  <1>1. PICK x \in T : \A y \in T : ~ (<<y, x>> \in OpToRel(<, Nat))
    BY NatLessThanWellFounded, WFMin, Zenon
  <1>2. ASSUME NEW y \in T
        PROVE  x <= y
    <2>1. x \in Nat /\ y \in Nat
      OBVIOUS
    <2>2. ~ (y < x)
      BY <1>1, <2>1 DEF OpToRel
    <2> QED BY <2>1, <2>2
  <1> QED BY <1>2

LEMMA MinIsLeast ==
    ASSUME NEW T \in SUBSET Nat, T # {}
    PROVE  Min(T) \in T /\ \A y \in T : Min(T) <= y
  BY Least DEF Min

(* Of what is true of some number, the least one where it is.              *)
LEMMA LeastFailure ==
    ASSUME NEW Failing \in SUBSET Nat, Failing # {}
    PROVE  \E n \in Failing : n = 0 \/ (n - 1 \in Nat /\ n - 1 \notin Failing)
  <1>1. PICK n \in Failing : \A m \in Failing : n <= m
    BY Least
  <1> QED BY <1>1

(* A finite set of naturals has an upper bound: otherwise it would be one  *)
(* of least cardinality, but without one of its elements it has a bound.   *)
LEMMA FiniteIsBounded ==
    ASSUME NEW T \in SUBSET Nat, IsFiniteSet(T)
    PROVE  \E b \in Nat : \A y \in T : y <= b
  <1> DEFINE Bounded(S) == \E b \in Nat : \A y \in S : y <= b
             Failing    == {n \in Nat : \E S \in SUBSET Nat : /\ IsFiniteSet(S)
                                                              /\ Cardinality(S) = n
                                                              /\ ~Bounded(S)}
  <1>1. SUFFICES ASSUME ~Bounded(T) PROVE FALSE
    OBVIOUS
  <1> HIDE DEF Bounded
  <1>2. Failing # {}
    BY <1>1, FS_CardinalityType
  <1>3. PICK n \in Failing : n = 0 \/ (n - 1 \in Nat /\ n - 1 \notin Failing)
    <2> HIDE DEF Failing
    <2>1. Failing \in SUBSET Nat
      BY DEF Failing
    <2> QED BY <1>2, <2>1, LeastFailure
  <1>4. PICK S \in SUBSET Nat : IsFiniteSet(S) /\ Cardinality(S) = n /\ ~Bounded(S)
    BY <1>3
  <1>5. PICK x \in S : TRUE
    <2>1. Bounded({})
      BY DEF Bounded
    <2> QED BY <1>4, <2>1
  <1>6. IsFiniteSet(S \ {x}) /\ Cardinality(S \ {x}) = n - 1
    BY <1>4, <1>5, FS_RemoveElement
  <1>7. n # 0
    BY <1>4, <1>5, FS_EmptySet
  <1>8. Bounded(S \ {x})
    BY <1>3, <1>6, <1>7
  <1>9. PICK b \in Nat : \A y \in S \ {x} : y <= b
    BY <1>8 DEF Bounded
  <1>10. \A y \in S : y <= b + x
    BY <1>9
  <1>11. b + x \in Nat
    OBVIOUS
  <1> QED BY <1>4, <1>10, <1>11 DEF Bounded

LEMMA MaxIsGreatest ==
    ASSUME NEW T \in SUBSET Nat, IsFiniteSet(T), T # {}
    PROVE  Max(T) \in T /\ \A y \in T : Max(T) >= y
  <1>1. PICK b \in Nat : \A y \in T : y <= b
    BY FiniteIsBounded
  <1> DEFINE below == {b - y : y \in T}
  <1>2. below \in SUBSET Nat /\ below # {}
    <2>1. \A y \in T : y \in Nat /\ b - y \in Nat
      BY <1>1
    <2> QED BY <2>1
  <1>3. PICK m \in below : \A k \in below : m <= k
    <2> HIDE DEF below
    <2> QED BY <1>2, Least
  <1>4. PICK x \in T : m = b - x
    OBVIOUS
  <1>5. ASSUME NEW y \in T
        PROVE  x >= y
    <2>1. b - y \in below
      OBVIOUS
    <2>2. m <= b - y
      BY <2>1, <1>3
    <2> QED BY <1>4, <2>2
  <1> QED BY <1>5 DEF Max

(* A recursion over the parts of a finite set, each from the part without  *)
(* its greatest element, has a solution.                                   *)
SolvesByMax(f, entities, base, op) ==
    \A some \in SUBSET entities :
        f[some] = IF some = {} THEN base ELSE op[<<f[some \ {Max(some)}], Max(some)>>]

LEMMA RecursionByMax ==
    ASSUME NEW entities \in SUBSET Nat, IsFiniteSet(entities),
           NEW T, NEW base \in T, NEW op \in [T \X entities -> T]
    PROVE  \E f \in [SUBSET entities -> T] : SolvesByMax(f, entities, base, op)
  <1> DEFINE Below(n) == {e \in entities : e < n}
             Solves(f, n) ==
                 \A some \in SUBSET Below(n) :
                     f[some] = IF some = {} THEN base
                               ELSE op[<<f[some \ {Max(some)}], Max(some)>>]
             Failing == {n \in Nat : ~\E f \in [SUBSET Below(n) -> T] : Solves(f, n)}
  <1>1. ASSUME NEW some \in SUBSET entities, some # {}
        PROVE  Max(some) \in some /\ \A y \in some : Max(some) >= y
    BY <1>1, MaxIsGreatest, FS_Subset
  <1>2. \E f \in [SUBSET Below(0) -> T] : Solves(f, 0)
    <2> DEFINE f == [some \in SUBSET Below(0) |-> base]
    <2>1. Below(0) = {}
      <3>1. \A e \in entities : ~(e < 0)
        <4>1. \A e \in entities : e \in Nat
          OBVIOUS
        <4>2. \A e \in Nat : ~(e < 0)
          OBVIOUS
        <4> QED BY <4>1, <4>2
      <3> QED BY <3>1
    <2>2. f \in [SUBSET Below(0) -> T]
      OBVIOUS
    <2>3. ASSUME NEW some \in SUBSET Below(0)
          PROVE  some = {} /\ f[some] = base
      <3>1. some = {}
        BY <2>1
      <3>2. f[some] = base
        OBVIOUS
      <3> QED BY <3>1, <3>2
    <2> HIDE DEF f
    <2> QED BY <2>2, <2>3
  <1>3. ASSUME NEW n \in Nat, NEW f \in [SUBSET Below(n) -> T], Solves(f, n)
        PROVE  \E g \in [SUBSET Below(n + 1) -> T] : Solves(g, n + 1)
    <2>1. CASE n \notin entities
      <3>1. Below(n + 1) = Below(n)
        <4>1. \A e \in entities : e \in Nat /\ e # n
          BY <2>1
        <4>2. \A e \in entities : e < n + 1 <=> e < n
          BY <4>1
        <4> QED BY <4>2
      <3> QED BY <3>1, <1>3
    <2>2. CASE n \in entities
      <3> DEFINE g == [some \in SUBSET Below(n + 1) |->
                          IF n \in some THEN op[<<f[some \ {n}], n>>] ELSE f[some]]
      <3>1. ASSUME NEW some \in SUBSET Below(n + 1)
            PROVE  /\ n \in some => /\ some \ {n} \in SUBSET Below(n)
                                    /\ Max(some) = n
                   /\ n \notin some => some \in SUBSET Below(n)
        <4>1. \A y \in some : y \in Nat /\ y <= n
          OBVIOUS
        <4>2. ASSUME n \in some
              PROVE  Max(some) = n
          <5>1. /\ Max(some) \in some /\ Max(some) >= n
            <6>1. some \in SUBSET entities /\ some # {}
              BY <4>2
            <6> HIDE DEF Below
            <6> QED BY <4>2, <6>1, <1>1
          <5>2. Max(some) \in Nat /\ Max(some) <= n
            BY <4>1, <5>1
          <5> QED BY <5>1, <5>2
        <4> QED BY <4>1, <4>2
      <3>2. g \in [SUBSET Below(n + 1) -> T]
        <4>1. ASSUME NEW some \in SUBSET Below(n + 1)
              PROVE  g[some] \in T
          <5>1. CASE n \in some
            <6>1. f[some \ {n}] \in T
              BY <3>1, <5>1
            <6> QED BY <2>2, <5>1, <6>1
          <5>2. CASE n \notin some
            BY <3>1, <5>2
          <5> QED BY <5>1, <5>2
        <4> QED BY <4>1
      <3>3. ASSUME NEW some \in SUBSET Below(n + 1)
            PROVE  g[some] = IF some = {} THEN base
                             ELSE op[<<g[some \ {Max(some)}], Max(some)>>]
        <4>1. CASE n \in some
          <5>1. some \ {n} \in SUBSET Below(n + 1) /\ n \notin some \ {n}
            OBVIOUS
          <5>2. g[some \ {n}] = f[some \ {n}]
            BY <5>1
          <5>3. g[some] = op[<<f[some \ {n}], n>>]
            BY <4>1
          <5>4. Max(some) = n
            BY <3>1, <4>1
          <5> HIDE DEF g, Below
          <5> QED BY <4>1, <5>2, <5>3, <5>4
        <4>2. CASE n \notin some /\ some # {}
          <5>1. some \in SUBSET Below(n)
            BY <3>1, <4>2
          <5>2. some \ {Max(some)} \in SUBSET Below(n + 1) /\ n \notin some \ {Max(some)}
            BY <4>2
          <5>3. g[some \ {Max(some)}] = f[some \ {Max(some)}]
            BY <5>2
          <5>4. g[some] = f[some]
            BY <4>2
          <5>5. f[some] = op[<<f[some \ {Max(some)}], Max(some)>>]
            BY <1>3, <5>1, <4>2
          <5> HIDE DEF g, Below, Solves
          <5> QED BY <4>2, <5>3, <5>4, <5>5
        <4>3. CASE some = {}
          <5>1. {} \in SUBSET Below(n) /\ g[{}] = f[{}]
            OBVIOUS
          <5>2. f[{}] = base
            BY <1>3, <5>1
          <5> HIDE DEF g, Below, Solves
          <5> QED BY <4>3, <5>1, <5>2
        <4> QED BY <4>1, <4>2, <4>3
      <3> HIDE DEF g
      <3>4. Solves(g, n + 1)
        BY <3>3
      <3> QED BY <3>2, <3>4
    <2> QED BY <2>1, <2>2
  <1>4. Failing = {}
    <2> SUFFICES ASSUME Failing # {} PROVE FALSE
      OBVIOUS
    <2> HIDE DEF Solves, Below
    <2>1. PICK n \in Failing : n = 0 \/ (n - 1 \in Nat /\ n - 1 \notin Failing)
      <3>1. Failing \in SUBSET Nat
        OBVIOUS
      <3> HIDE DEF Failing
      <3> QED BY <3>1, LeastFailure
    <2>2. n # 0
      BY <1>2
    <2>3. \E f \in [SUBSET Below(n - 1) -> T] : Solves(f, n - 1)
      BY <2>1, <2>2
    <2>4. \E g \in [SUBSET Below((n - 1) + 1) -> T] : Solves(g, (n - 1) + 1)
      BY <2>1, <2>2, <2>3, <1>3
    <2>5. (n - 1) + 1 = n
      OBVIOUS
    <2> QED BY <2>4, <2>5
  <1>5. PICK b \in Nat : \A y \in entities : y <= b
    BY FiniteIsBounded
  <1>6. Below(b + 1) = entities
    <2>1. \A e \in entities : e \in Nat /\ e < b + 1
      BY <1>5
    <2> QED BY <2>1
  <1>7. PICK f \in [SUBSET Below(b + 1) -> T] : Solves(f, b + 1)
    <2>1. b + 1 \in Nat
      OBVIOUS
    <2> HIDE DEF Solves, Below
    <2> QED BY <1>4, <2>1
  <1>8. f \in [SUBSET entities -> T]
    BY <1>6
  <1>9. \A some \in SUBSET entities :
            f[some] = IF some = {} THEN base ELSE op[<<f[some \ {Max(some)}], Max(some)>>]
    BY <1>6, <1>7
  <1>10. SolvesByMax(f, entities, base, op)
    BY <1>9, Zenon DEF SolvesByMax
  <1> QED BY <1>8, <1>10

-----------------------------------------------------------------------------
(* What declarations do to the tables.                                     *)

LEMMA PutIs ==
    ASSUME NEW S, NEW T, NEW f \in PartialFunctions(S, T), NEW x \in S, NEW v \in T
    PROVE  /\ Put(f, x, v) \in PartialFunctions(S, T)
           /\ DOMAIN Put(f, x, v) = DOMAIN f \cup {x}
           /\ Put(f, x, v)[x] = v
           /\ \A y \in DOMAIN f \ {x} : Put(f, x, v)[y] = f[y]
  <1>1. PICK D \in SUBSET S : f \in [D -> T]
    BY DEF PartialFunctions
  <1>2. Put(f, x, v) \in [D \cup {x} -> T]
    BY <1>1 DEF Put
  <1>3. D \cup {x} \in SUBSET S
    BY <1>1
  <1>4. Put(f, x, v) \in PartialFunctions(S, T)
    BY <1>2, <1>3, Zenon DEF PartialFunctions
  <1> QED BY <1>1, <1>4 DEF Put

LEMMA PartialIs ==
    ASSUME NEW S, NEW T, NEW f \in PartialFunctions(S, T)
    PROVE  /\ DOMAIN f \subseteq S
           /\ \A x \in DOMAIN f : f[x] \in T
  BY DEF PartialFunctions

LEMMA FieldAndRevision ==
    ASSUME NEW a, NEW b, NEW c, NEW d, NEW x, NEW r,
           NEW t, t = [links |-> a, paths |-> b, flows |-> c, revision |-> d]
    PROVE  /\ [[t EXCEPT !["links"] = x] EXCEPT !.revision = r] =
                  [links |-> x, paths |-> b, flows |-> c, revision |-> r]
           /\ [[t EXCEPT !["paths"] = x] EXCEPT !.revision = r] =
                  [links |-> a, paths |-> x, flows |-> c, revision |-> r]
           /\ [[t EXCEPT !["flows"] = x] EXCEPT !.revision = r] =
                  [links |-> a, paths |-> b, flows |-> x, revision |-> r]
  <1> DEFINE l == [t EXCEPT !["links"] = x]
             p == [t EXCEPT !["paths"] = x]
             f == [t EXCEPT !["flows"] = x]
  <1>1. l = [links |-> x, paths |-> b, flows |-> c, revision |-> d]
    OBVIOUS
  <1>2. p = [links |-> a, paths |-> x, flows |-> c, revision |-> d]
    OBVIOUS
  <1>3. f = [links |-> a, paths |-> b, flows |-> x, revision |-> d]
    OBVIOUS
  <1> HIDE DEF l, p, f
  <1>4. [l EXCEPT !.revision = r] = [links |-> x, paths |-> b, flows |-> c, revision |-> r]
    BY <1>1
  <1>5. [p EXCEPT !.revision = r] = [links |-> a, paths |-> x, flows |-> c, revision |-> r]
    BY <1>2
  <1>6. [f EXCEPT !.revision = r] = [links |-> a, paths |-> b, flows |-> x, revision |-> r]
    BY <1>3
  <1> QED BY <1>4, <1>5, <1>6, Zenon DEF l, p, f

LEMMA DeclaredIs ==
    ASSUME NEW t \in TopologyRecord, NEW id, NEW c
    PROVE  /\ Declared(t, "links", id, c) =
                  [links |-> Put(t.links, id, c), paths |-> t.paths, flows |-> t.flows,
                   revision |-> t.revision + 1]
           /\ Declared(t, "paths", id, c) =
                  [links |-> t.links, paths |-> Put(t.paths, id, c), flows |-> t.flows,
                   revision |-> t.revision + 1]
           /\ Declared(t, "flows", id, c) =
                  [links |-> t.links, paths |-> t.paths, flows |-> Put(t.flows, id, c),
                   revision |-> t.revision + 1]
  <1> DEFINE r == t.revision + 1
             PutIn(kind) == Put(t[kind], id, c)
  <1>1. t = [links |-> t.links, paths |-> t.paths, flows |-> t.flows, revision |-> t.revision]
    BY DEF TopologyRecord
  <1>2. /\ Declared(t, "links", id, c) =
              [[t EXCEPT !["links"] = PutIn("links")] EXCEPT !.revision = r]
        /\ Declared(t, "paths", id, c) =
              [[t EXCEPT !["paths"] = PutIn("paths")] EXCEPT !.revision = r]
        /\ Declared(t, "flows", id, c) =
              [[t EXCEPT !["flows"] = PutIn("flows")] EXCEPT !.revision = r]
    BY DEF Declared
  <1>3. /\ PutIn("links") = Put(t.links, id, c)
        /\ PutIn("paths") = Put(t.paths, id, c)
        /\ PutIn("flows") = Put(t.flows, id, c)
    OBVIOUS
  <1> HIDE DEF r, PutIn
  <1>4. /\ Declared(t, "links", id, c) =
              [links |-> Put(t.links, id, c), paths |-> t.paths, flows |-> t.flows,
               revision |-> r]
        /\ Declared(t, "paths", id, c) =
              [links |-> t.links, paths |-> Put(t.paths, id, c), flows |-> t.flows,
               revision |-> r]
        /\ Declared(t, "flows", id, c) =
              [links |-> t.links, paths |-> t.paths, flows |-> Put(t.flows, id, c),
               revision |-> r]
    BY <1>1, <1>2, <1>3, FieldAndRevision, Zenon
  <1> QED BY <1>4, Zenon DEF r

(* The tables after a declaration of each kind, accepted or not.           *)
LEMMA LinkDeclared ==
    ASSUME WorldInv, NEW l \in Links, NEW c \in Contents, NEW replace \in BOOLEAN,
           NEW next, next = Upsert(topology, "links", l, c, replace), next # topology
    PROVE  /\ next \in TopologyRecord
           /\ next.revision = topology.revision + 1
           /\ next.paths = topology.paths /\ next.flows = topology.flows
  <1>1. next = Declared(topology, "links", l, c)
    BY DEF Upsert
  <1>2. Put(topology.links, l, c) \in PartialFunctions(Links, Contents)
    BY PutIs DEF WorldInv, TopologyRecord
  <1> QED BY <1>1, <1>2, DeclaredIs DEF WorldInv, TopologyRecord, Revisions

LEMMA FlowDeclared ==
    ASSUME WorldInv, NEW f \in Flows, NEW b \in FlowBinding, NEW replace \in BOOLEAN,
           NEW next, next = Upsert(topology, "flows", f, b, replace), next # topology
    PROVE  /\ next \in TopologyRecord
           /\ next.revision = topology.revision + 1
           /\ next.paths = topology.paths /\ next.flows = Put(topology.flows, f, b)
  <1>1. next = Declared(topology, "flows", f, b)
    BY DEF Upsert
  <1>2. Put(topology.flows, f, b) \in PartialFunctions(Flows, FlowBinding)
    BY PutIs DEF WorldInv, TopologyRecord
  <1> QED BY <1>1, <1>2, DeclaredIs DEF WorldInv, TopologyRecord, Revisions

(* A path that enters without a revision, or replaces another, gets one    *)
(* that no path had before; one that enters with a number keeps it.        *)
LEMMA PathDeclared ==
    ASSUME WorldInv, NEW p \in Paths, NEW s \in Shapes, NEW replace \in BOOLEAN,
           NEW r \in Revisions,
           r \in {NoRevision} \cup OwnNumbers \cup OwnRevision(topology.paths, p, "revision"),
           NEW next,
           next = UpsertPath(topology, p, [shape |-> s, revision |-> r], replace),
           next # topology
    PROVE  /\ next \in TopologyRecord
           /\ next.revision = topology.revision + 1
           /\ next.flows = topology.flows
           /\ \E n \in Revisions :
                 /\ next.paths = Put(topology.paths, p, [shape |-> s, revision |-> n])
                 /\ n = topology.revision + 1 \/ n \in Uncounted(topology, next)
  <1> DEFINE path    == [shape |-> s, revision |-> r]
             outcome == UpsertOutcome(topology, "paths", p, path, replace)
             n       == PathRevision(topology, outcome, path)
             stored  == [shape |-> s, revision |-> n]
  <1>1. /\ outcome \in Accepted
        /\ next = Declared(topology, "paths", p,
                           [path EXCEPT !.revision = PathRevision(topology, outcome, path)])
    BY DEF UpsertPath
  <1>2. outcome = "Replaced" \/ p \notin DOMAIN topology.paths
    BY <1>1 DEF UpsertOutcome, Accepted, WorldInv, TopologyRecord
  <1>3. n = topology.revision + 1 \/ p \notin DOMAIN topology.paths
    BY <1>2 DEF PathRevision
  <1>4. n \in Revisions
    BY DEF PathRevision, WorldInv, TopologyRecord, Revisions
  <1>5. next = Declared(topology, "paths", p, stored)
    BY <1>1
  <1>6. stored \in Path
    BY <1>4 DEF Path
  <1>7. /\ Put(topology.paths, p, stored) \in PartialFunctions(Paths, Path)
        /\ DOMAIN Put(topology.paths, p, stored) = DOMAIN topology.paths \cup {p}
        /\ Put(topology.paths, p, stored)[p] = stored
    <2>1. topology.paths \in PartialFunctions(Paths, Path)
      BY DEF WorldInv, TopologyRecord
    <2> HIDE DEF path, outcome, n, stored
    <2>2. Put(topology.paths, p, stored) \in PartialFunctions(Paths, Path)
      BY <1>6, <2>1, PutIs
    <2>3. /\ DOMAIN Put(topology.paths, p, stored) = DOMAIN topology.paths \cup {p}
          /\ Put(topology.paths, p, stored)[p] = stored
      BY DEF Put
    <2> QED BY <2>2, <2>3
  <1>8. stored.revision = n
    OBVIOUS
  <1> HIDE DEF path, outcome, stored, n
  <1>9. /\ next \in TopologyRecord
        /\ next.revision = topology.revision + 1
        /\ next.flows = topology.flows
        /\ next.paths = Put(topology.paths, p, stored)
    BY <1>5, <1>7, DeclaredIs DEF WorldInv, TopologyRecord, Revisions
  <1>10. n = topology.revision + 1 \/ n \in Uncounted(topology, next)
    <2> SUFFICES ASSUME n # topology.revision + 1
                 PROVE  n \in Uncounted(topology, next)
      OBVIOUS
    <2>1. p \in DOMAIN next.paths \ DOMAIN topology.paths /\ next.paths[p].revision = n
      BY <1>3, <1>7, <1>8, <1>9
    <2> QED BY <2>1, <1>9 DEF Uncounted
  <1> QED BY <1>4, <1>9, <1>10 DEF stored

-----------------------------------------------------------------------------
(* The steps.                                                              *)

(* What a declaration changes: a path gets a new revision or one that does *)
(* not count, a flow a path that is declared, and nobody loses anything.   *)
Declaration ==
    /\ topology' \in TopologyRecord
    /\ topology'.revision = topology.revision + 1
    /\ uncounted \subseteq uncounted' /\ uncounted' \subseteq Revisions
    /\ \/ topology'.paths = topology.paths
       \/ \E p \in Paths, s \in Shapes, n \in Revisions :
             /\ topology'.paths = Put(topology.paths, p, [shape |-> s, revision |-> n])
             /\ n = topology.revision + 1 \/ n \in uncounted'
    /\ \/ topology'.flows = topology.flows
       \/ \E f \in Flows, b \in FlowBinding :
             /\ b.path \in DOMAIN topology.paths
             /\ topology'.flows = Put(topology.flows, f, b)
    /\ UNCHANGED <<now, sent, held>>

(* The revisions paths and flows have are numbers.                         *)
LEMMA OwnRevisionIs ==
    ASSUME WorldInv
    PROVE  /\ \A p : OwnRevision(topology.paths, p, "revision") \subseteq Revisions
           /\ \A f : OwnRevision(topology.flows, f, "binding_revision") \subseteq Revisions
  <1>1. \A x \in DOMAIN topology.paths : topology.paths[x]["revision"] \in Revisions
    <2>1. \A x \in DOMAIN topology.paths : topology.paths[x] \in Path
      BY PartialIs DEF WorldInv, TopologyRecord
    <2> QED BY <2>1 DEF Path
  <1>2. \A x \in DOMAIN topology.flows : topology.flows[x]["binding_revision"] \in Revisions
    <2>1. \A x \in DOMAIN topology.flows : topology.flows[x] \in FlowBinding
      BY PartialIs DEF WorldInv, TopologyRecord
    <2> QED BY <2>1 DEF FlowBinding
  <1> QED BY <1>1, <1>2 DEF OwnRevision

LEMMA UncountedIs ==
    ASSUME NEW before, NEW after \in TopologyRecord
    PROVE  Uncounted(before, after) \subseteq Revisions
  <1>1. \A x \in DOMAIN after.paths : after.paths[x].revision \in Revisions
    <2>1. \A x \in DOMAIN after.paths : after.paths[x] \in Path
      BY PartialIs DEF TopologyRecord
    <2> QED BY <2>1 DEF Path
  <1> QED BY <1>1 DEF Uncounted

LEMMA Declares ==
    ASSUME IInv, DeclareLink \/ DeclarePath \/ DeclareFlow
    PROVE  Declaration
  <1> USE DEF IInv
  <1>0. uncounted' = uncounted \cup Uncounted(topology, topology') /\ uncounted \subseteq Revisions
    BY DEF DeclareLink, DeclarePath, DeclareFlow, Declare, WorldInv
  <1>1. CASE DeclareLink
    <2>1. PICK l \in Links, c \in Contents, replace \in BOOLEAN :
              Declare(Upsert(topology, "links", l, c, replace))
      BY <1>1 DEF DeclareLink
    <2>2. /\ topology' = Upsert(topology, "links", l, c, replace) /\ topology' # topology
          /\ UNCHANGED <<now, sent, held>>
      BY <2>1 DEF Declare, worldVars
    <2>3. /\ topology' \in TopologyRecord /\ topology'.revision = topology.revision + 1
          /\ UNCHANGED <<topology.paths, topology.flows>>
      BY <2>2, LinkDeclared
    <2> QED BY <1>0, <2>2, <2>3, UncountedIs DEF Declaration
  <1>2. CASE DeclarePath
    <2>1. PICK p \in Paths, s \in Shapes, replace \in BOOLEAN :
              \E r \in {NoRevision} \cup OwnNumbers
                       \cup OwnRevision(topology.paths, p, "revision") :
                  Declare(UpsertPath(topology, p, [shape |-> s, revision |-> r], replace))
      BY <1>2, Zenon DEF DeclarePath
    <2>2. PICK r \in {NoRevision} \cup OwnNumbers
                     \cup OwnRevision(topology.paths, p, "revision") :
              Declare(UpsertPath(topology, p, [shape |-> s, revision |-> r], replace))
      BY <2>1
    <2>3. r \in Revisions
      <3>1. NoRevision \in Revisions
        BY DEF NoRevision, Revisions
      <3> QED BY <3>1, OwnRevisionIs, EvidenceAssumption
    <2>4. /\ topology' = UpsertPath(topology, p, [shape |-> s, revision |-> r], replace)
          /\ topology' # topology
          /\ UNCHANGED <<now, sent, held>>
      BY <2>2 DEF Declare, worldVars
    <2> DEFINE next == topology'
    <2>5. next = UpsertPath(topology, p, [shape |-> s, revision |-> r], replace)
          /\ next # topology
      BY <2>4
    <2> HIDE DEF next
    <2>6. /\ next \in TopologyRecord
          /\ next.revision = topology.revision + 1
          /\ next.flows = topology.flows
          /\ \E n \in Revisions :
                /\ next.paths = Put(topology.paths, p, [shape |-> s, revision |-> n])
                /\ n = topology.revision + 1 \/ n \in Uncounted(topology, next)
      BY <2>2, <2>3, <2>5, PathDeclared
    <2>7. Uncounted(topology, next) \subseteq Revisions
      BY <2>6, UncountedIs
    <2> QED BY <1>0, <2>4, <2>6, <2>7 DEF Declaration, next
  <1>3. CASE DeclareFlow
    <2>1. PICK f \in Flows, p \in DOMAIN topology.paths, replace \in BOOLEAN :
              \E r \in {topology.paths[p].revision} \cup OwnNumbers
                       \cup OwnRevision(topology.flows, f, "binding_revision") :
                  Declare(Upsert(topology, "flows", f,
                                 [path |-> p, binding_revision |-> r], replace))
      BY <1>3, Zenon DEF DeclareFlow
    <2>2. PICK r \in {topology.paths[p].revision} \cup OwnNumbers
                     \cup OwnRevision(topology.flows, f, "binding_revision") :
              Declare(Upsert(topology, "flows", f,
                             [path |-> p, binding_revision |-> r], replace))
      BY <2>1
    <2> DEFINE b == [path |-> p, binding_revision |-> r]
    <2>3. p \in Paths /\ topology.paths[p].revision \in Revisions
      <3>1. topology.paths \in PartialFunctions(Paths, Path)
        BY DEF WorldInv, TopologyRecord
      <3>2. p \in Paths /\ topology.paths[p] \in Path
        BY <3>1, PartialIs
      <3> QED BY <3>2 DEF Path
    <2>4. r \in Revisions
      BY <2>3, OwnRevisionIs, EvidenceAssumption
    <2>5. b \in FlowBinding /\ b.path \in DOMAIN topology.paths
      BY <2>3, <2>4 DEF FlowBinding
    <2>6. /\ topology' = Upsert(topology, "flows", f, b, replace) /\ topology' # topology
          /\ UNCHANGED <<now, sent, held>>
      BY <2>2 DEF Declare, worldVars
    <2> HIDE DEF b
    <2>7. /\ topology' \in TopologyRecord /\ topology'.revision = topology.revision + 1
          /\ topology'.paths = topology.paths
          /\ topology'.flows = Put(topology.flows, f, b)
      BY <2>5, <2>6, FlowDeclared
    <2>8. Uncounted(topology, topology') \subseteq Revisions
      BY <2>7, UncountedIs
    <2> QED BY <1>0, <2>5, <2>6, <2>7, <2>8 DEF Declaration
  <1> QED BY <1>1, <1>2, <1>3

(* A new revision is larger than any that was given or cited.              *)
LEMMA DeclarationKeeps ==
    ASSUME IInv, Declaration
    PROVE  IInv'
  <1> DEFINE revised == topology.revision + 1
  <1>1. /\ topology.revision \in Nat /\ topology.paths \in PartialFunctions(Paths, Path)
        /\ topology.flows \in PartialFunctions(Flows, FlowBinding)
    BY DEF IInv, WorldInv, TopologyRecord, Revisions
  <1>2. topology' \in TopologyRecord /\ topology'.revision = revised
    BY DEF Declaration
  <1>3. WorldInv'
    BY <1>2 DEF IInv, WorldInv, Declaration
  <1>4. /\ DOMAIN topology.paths \subseteq DOMAIN topology'.paths
        /\ \A q \in DOMAIN topology'.paths :
              \/ topology'.paths[q].revision = revised
              \/ topology'.paths[q].revision \in uncounted'
              \/ q \in DOMAIN topology.paths /\ topology'.paths[q] = topology.paths[q]
        /\ \A q, r \in DOMAIN topology'.paths :
              topology'.paths[q].revision = revised /\ topology'.paths[r].revision = revised
                  => q = r \/ revised \in uncounted'
    <2>1. \A q \in DOMAIN topology.paths :
              topology.paths[q].revision = revised => revised \in uncounted'
      BY <1>1 DEF IInv, RevisionsInv, Declaration
    <2>2. CASE topology'.paths = topology.paths
      BY <2>1, <2>2
    <2>3. ASSUME NEW p \in Paths, NEW s \in Shapes, NEW n \in Revisions,
                 topology'.paths = Put(topology.paths, p, [shape |-> s, revision |-> n]),
                 n = revised \/ n \in uncounted'
          PROVE  <1>4!1 /\ <1>4!2 /\ <1>4!3
      <3> DEFINE new == [shape |-> s, revision |-> n]
      <3>1. /\ DOMAIN topology'.paths = DOMAIN topology.paths \cup {p}
            /\ topology'.paths[p] = new
            /\ \A q \in DOMAIN topology.paths \ {p} : topology'.paths[q] = topology.paths[q]
        <4>1. topology'.paths = Put(topology.paths, p, new)
          BY <2>3
        <4> HIDE DEF new
        <4> QED BY <4>1, Zenon DEF Put
      <3>2. new.revision = revised \/ new.revision \in uncounted'
        BY <2>3
      <3> HIDE DEF new
      <3> QED BY <2>1, <3>1, <3>2
    <2> QED BY <2>2, <2>3 DEF Declaration
  <1>5. /\ DOMAIN topology.flows \subseteq DOMAIN topology'.flows
        /\ \A f \in DOMAIN topology'.flows : topology'.flows[f].path \in DOMAIN topology.paths
    <2>1. \A f \in DOMAIN topology.flows : topology.flows[f].path \in DOMAIN topology.paths
      BY DEF IInv, RevisionsInv
    <2>2. ASSUME NEW f \in Flows, NEW b \in FlowBinding, b.path \in DOMAIN topology.paths,
                 topology'.flows = Put(topology.flows, f, b)
          PROVE  <1>5!1 /\ <1>5!2
      BY <2>1, <2>2 DEF Put
    <2> QED BY <2>1, <2>2 DEF Declaration
  <1>6. RevisionsInv'
    <2>1. topology'.revision # NoRevision
      BY <1>1, <1>2 DEF NoRevision
    <2>2. ASSUME NEW q \in DOMAIN topology'.paths
          PROVE  topology'.paths[q].revision \in 1..topology'.revision \cup uncounted'
      BY <1>1, <1>2, <1>4 DEF IInv, RevisionsInv, Declaration
    <2>3. ASSUME NEW q \in DOMAIN topology'.paths, NEW r \in DOMAIN topology'.paths,
                 topology'.paths[q].revision = topology'.paths[r].revision,
                 topology'.paths[q].revision \notin uncounted'
          PROVE  q = r
      <3>1. CASE topology'.paths[q].revision = revised
        BY <3>1, <2>3, <1>4
      <3>2. CASE topology'.paths[q].revision # revised
        <4>1. /\ q \in DOMAIN topology.paths /\ topology'.paths[q] = topology.paths[q]
              /\ r \in DOMAIN topology.paths /\ topology'.paths[r] = topology.paths[r]
          BY <3>2, <2>3, <1>4
        <4>2. topology.paths[q].revision \notin uncounted
          BY <4>1, <2>3 DEF Declaration
        <4> QED BY <4>1, <4>2, <2>3 DEF IInv, RevisionsInv
      <3> QED BY <3>1, <3>2
    <2> QED BY <2>1, <2>2, <2>3, <1>4, <1>5 DEF RevisionsInv
  <1>7. ASSUME NEW item \in sent, Cites(item)'
        PROVE  CitedIsSeen(item)'
    <2> DEFINE o == item.observation
    <2>1. CitedIsSeen(item) /\ o.topology_revision \notin uncounted'
      BY <1>7 DEF IInv, CitationsInv, Cites, Declaration
    <2>2. o.topology_revision \in Nat
      BY DEF IInv, WorldInv, EvidenceItem, LossObservation, Revisions
    <2>3. o.topology_revision <= topology'.revision /\ o.topology_revision < revised
      BY <2>1, <2>2, <1>1, <1>2 DEF CitedIsSeen
    <2>4. SubjectDeclared(o.subject)'
      BY <2>1, <1>4, <1>5 DEF CitedIsSeen, SubjectDeclared
    <2>5. PICK p \in Paths, s \in Shapes :
              /\ item.saw = {<<p, s>>}
              /\ o.subject.kind = "path" => p = o.subject.id
              /\ \A q \in DOMAIN topology.paths :
                    topology.paths[q].revision = o.topology_revision
                        => q = p /\ topology.paths[q].shape = s
      BY <2>1 DEF CitedIsSeen
    <2>6. \A q \in DOMAIN topology'.paths :
              topology'.paths[q].revision = o.topology_revision
                  => q = p /\ topology'.paths[q].shape = s
      BY <2>1, <2>2, <2>3, <2>5, <1>1, <1>4
    <2> QED BY <2>3, <2>4, <2>5, <2>6 DEF CitedIsSeen
  <1>8. CitationsInv'
    BY <1>7 DEF Declaration, CitationsInv
  <1>9. held' \subseteq sent'
    BY DEF IInv, Declaration
  <1> QED BY <1>3, <1>6, <1>8, <1>9 DEF IInv

(* What there is to see of a subject is one path at most, in one shape.    *)
LEMMA SeenIs ==
    ASSUME WorldInv, NEW subject \in SubjectRef
    PROVE  /\ SeenAt(subject) \subseteq Paths \X Shapes
           /\ \A v \in SeenAt(subject) :
                 /\ v[1] \in DOMAIN topology.paths
                 /\ v = <<v[1], topology.paths[v[1]].shape>>
                 /\ SeenAt(subject) = {v}
                 /\ SubjectDeclared(subject)
                 /\ subject.kind = "path" => v[1] = subject.id
                 /\ subject.kind = "flow" => v[1] = topology.flows[subject.id].path
  <1>1. \A p \in DOMAIN topology.paths : p \in Paths /\ topology.paths[p].shape \in Shapes
    <2>1. topology.paths \in PartialFunctions(Paths, Path)
      BY DEF WorldInv, TopologyRecord
    <2>2. \A p \in DOMAIN topology.paths : p \in Paths /\ topology.paths[p] \in Path
      BY <2>1, PartialIs
    <2> QED BY <2>2 DEF Path
  <1>2. /\ subject.kind = "path" => PathOf(subject) = {subject.id}
        /\ subject.kind = "flow" =>
              \A p \in PathOf(subject) : /\ subject.id \in DOMAIN topology.flows
                                        /\ p = topology.flows[subject.id].path
        /\ subject.kind \notin {"path", "flow"} => PathOf(subject) = {}
    <2>1. \A x : topology.flows[x]["path"] = topology.flows[x].path
      OBVIOUS
    <2> QED BY <2>1 DEF PathOf, OwnRevision
  <1>3. ASSUME NEW v \in SeenAt(subject)
        PROVE  /\ v[1] \in DOMAIN topology.paths
               /\ v = <<v[1], topology.paths[v[1]].shape>>
               /\ v[1] \in PathOf(subject)
    BY DEF SeenAt
  <1>4. ASSUME NEW v \in SeenAt(subject), NEW w \in SeenAt(subject)
        PROVE  v = w
    <2>1. v[1] = w[1]
      BY <1>2, <1>3, <1>4
    <2> QED BY <2>1, <1>3, <1>4
  <1>5. ASSUME NEW v \in SeenAt(subject)
        PROVE  /\ SubjectDeclared(subject)
               /\ subject.kind = "path" => v[1] = subject.id
               /\ subject.kind = "flow" => v[1] = topology.flows[subject.id].path
    <2>1. CASE subject.kind = "path"
      BY <2>1, <1>2, <1>3, <1>5 DEF SubjectDeclared
    <2>2. CASE subject.kind = "flow"
      BY <2>2, <1>2, <1>3, <1>5 DEF SubjectDeclared
    <2>3. CASE subject.kind \notin {"path", "flow"}
      BY <2>3, <1>2, <1>3, <1>5
    <2> QED BY <2>1, <2>2, <2>3
  <1>6. \A v \in SeenAt(subject) : SeenAt(subject) = {v}
    BY <1>4
  <1>7. SeenAt(subject) \subseteq Paths \X Shapes
    BY <1>1, <1>3
  <1> QED BY <1>3, <1>5, <1>6, <1>7

LEMMA MeasureKeeps ==
    ASSUME IInv, Measure
    PROVE  IInv'
  <1>1. PICK subject \in SubjectRef, s \in Sources, e \in Epochs, g \in Generations,
             at \in Instants :
             \E r \in {NoRevision} \cup {topology.paths[v[1]].revision : v \in SeenAt(subject)} :
                 sent' = sent \cup
                     {[observation |->
                         [subject |-> subject, source |-> s, epoch |-> e, generation |-> g,
                          topology_revision |-> r, observed_at |-> at, received_at |-> now,
                          recovered |-> FALSE],
                       saw |-> SeenAt(subject)]}
    BY DEF Measure
  <1>2. PICK r \in {NoRevision} \cup {topology.paths[v[1]].revision : v \in SeenAt(subject)} :
             sent' = sent \cup
                 {[observation |->
                     [subject |-> subject, source |-> s, epoch |-> e, generation |-> g,
                      topology_revision |-> r, observed_at |-> at, received_at |-> now,
                      recovered |-> FALSE],
                   saw |-> SeenAt(subject)]}
    BY <1>1
  <1> DEFINE o    == [subject |-> subject, source |-> s, epoch |-> e, generation |-> g,
                      topology_revision |-> r, observed_at |-> at, received_at |-> now,
                      recovered |-> FALSE]
             item == [observation |-> o, saw |-> SeenAt(subject)]
  <1>3. UNCHANGED <<topology, uncounted, now, held>> /\ sent' = sent \cup {item}
    BY <1>2 DEF Measure
  <1>4. r = NoRevision \/ \E v \in SeenAt(subject) : r = topology.paths[v[1]].revision
    OBVIOUS
  <1>5. r \in Revisions
    <2>1. NoRevision \in Revisions
      BY DEF NoRevision, Revisions
    <2>2. ASSUME NEW v \in SeenAt(subject), r = topology.paths[v[1]].revision
          PROVE  r \in Revisions
      <3>1. topology.paths \in PartialFunctions(Paths, Path)
        BY DEF IInv, WorldInv, TopologyRecord
      <3>2. topology.paths[v[1]] \in Path
        BY <3>1, PartialIs, SeenIs DEF IInv
      <3> QED BY <2>2, <3>2 DEF Path
    <2> QED BY <2>1, <2>2, <1>4
  <1>6. o \in LossObservation
    BY <1>5 DEF LossObservation, IInv, WorldInv
  <1>7. item \in EvidenceItem
    BY <1>6, SeenIs DEF EvidenceItem, IInv
  <1>8. ASSUME r # NoRevision, r \notin uncounted
        PROVE  CitedIsSeen(item)
    <2>1. PICK v \in SeenAt(subject) : r = topology.paths[v[1]].revision
      BY <1>4, <1>8
    <2>2. /\ v[1] \in Paths /\ v[1] \in DOMAIN topology.paths
          /\ topology.paths[v[1]].shape \in Shapes
          /\ SeenAt(subject) = {<<v[1], topology.paths[v[1]].shape>>}
          /\ SubjectDeclared(subject)
          /\ subject.kind = "path" => v[1] = subject.id
      <3>1. /\ v \in Paths \X Shapes /\ v[1] \in DOMAIN topology.paths
            /\ v = <<v[1], topology.paths[v[1]].shape>> /\ SeenAt(subject) = {v}
            /\ SubjectDeclared(subject)
            /\ subject.kind = "path" => v[1] = subject.id
        BY SeenIs DEF IInv
      <3> QED BY <3>1
    <2>3. r <= topology.revision
      BY <1>8, <2>1, <2>2 DEF IInv, RevisionsInv, WorldInv, TopologyRecord, Revisions
    <2>4. \A q \in DOMAIN topology.paths : topology.paths[q].revision = r => q = v[1]
      BY <1>8, <2>1, <2>2 DEF IInv, RevisionsInv
    <2>5. /\ item.observation.topology_revision = r /\ item.observation.subject = subject
          /\ item.saw = SeenAt(subject)
      OBVIOUS
    <2> HIDE DEF item, o
    <2> QED BY <2>2, <2>3, <2>4, <2>5 DEF CitedIsSeen
  <1>9. item.observation.topology_revision = r
    OBVIOUS
  <1> HIDE DEF item
  <1>10. WorldInv'
    BY <1>3, <1>7 DEF IInv, WorldInv
  <1>11. RevisionsInv'
    BY <1>3 DEF IInv, RevisionsInv
  <1>12. ASSUME NEW i \in sent', Cites(i)'
         PROVE  CitedIsSeen(i)'
    <2>1. Cites(i)
      BY <1>3, <1>12 DEF Cites
    <2>2. CitedIsSeen(i)
      BY <1>3, <1>8, <1>9, <2>1 DEF IInv, CitationsInv, Cites
    <2> QED BY <2>2, <1>3 DEF CitedIsSeen, SubjectDeclared
  <1>13. CitationsInv'
    BY <1>12 DEF CitationsInv
  <1>14. held' \subseteq sent'
    BY <1>3 DEF IInv
  <1> QED BY <1>10, <1>11, <1>13, <1>14 DEF IInv

LEMMA InitHolds == Init => IInv
  <1> SUFFICES ASSUME Init PROVE IInv
    OBVIOUS
  <1>1. NoEntities \in [{} -> {}]
    BY DEF NoEntities
  <1>2. \A S, T : NoEntities \in PartialFunctions(S, T)
    BY <1>1 DEF PartialFunctions, NoEntities
  <1>3. topology = EmptyTopology /\ held = {} /\ sent = {} /\ now = 1 /\ uncounted = {}
    BY DEF Init, NothingHeld
  <1>4. EmptyTopology \in TopologyRecord
    BY <1>2 DEF EmptyTopology, TopologyRecord, Revisions
  <1>5. now \in Instants
    BY <1>3, EvidenceAssumption
  <1> QED BY <1>1, <1>3, <1>4, <1>5
          DEF IInv, WorldInv, RevisionsInv, CitationsInv, EmptyTopology, NoRevision

LEMMA NextKeeps == IInv /\ [Next]_evidenceVars => IInv'
  <1> SUFFICES ASSUME IInv, [Next]_evidenceVars PROVE IInv'
    OBVIOUS
  <1>1. ASSUME UNCHANGED <<topology, uncounted, sent, held>>, now' \in Instants
        PROVE  IInv'
    BY <1>1
       DEF IInv, WorldInv, RevisionsInv, CitationsInv, Cites, CitedIsSeen, SubjectDeclared
  <1>2. CASE Tick
    <2>1. now' \in Instants
      BY <1>2, EvidenceAssumption, GenerationAssumption DEF Tick, IInv, WorldInv
    <2> QED BY <1>2, <1>1, <2>1 DEF Tick
  <1>3. CASE DeclareLink \/ DeclarePath \/ DeclareFlow
    BY <1>3, Declares, DeclarationKeeps
  <1>4. CASE Measure
    BY <1>4, MeasureKeeps
  <1>5. ASSUME NEW item \in sent, Deliver(item)
        PROVE  IInv'
    <2>1. held' \subseteq sent
      BY <1>5 DEF Deliver, IInv, WorldInv
    <2> QED BY <1>5, <2>1
            DEF Deliver, worldVars, IInv, WorldInv, RevisionsInv, CitationsInv, Cites,
                CitedIsSeen, SubjectDeclared
  <1>6. CASE UNCHANGED evidenceVars
    BY <1>6, <1>1 DEF evidenceVars, worldVars, IInv, WorldInv
  <1> QED BY <1>2, <1>3, <1>4, <1>5, <1>6 DEF Next, Happen

LEMMA InvHolds == Spec => []IInv
  BY InitHolds, NextKeeps, PTL DEF Spec

(* What freshness compares is enough to know the shape: for a path its     *)
(* revision, for a flow the revision of the path it runs over.             *)
LEMMA AdmittedIsSeen ==
    ASSUME IInv, ~Policy.ignore_topology_revision
    PROVE  FreshSawThisShape
  <1> SUFFICES ASSUME NEW item \in held,
                      Admits(item.observation, now),
                      Cites(item)
               PROVE  item.saw = SeenAt(item.observation.subject)
    BY DEF FreshSawThisShape, Cites
  <1> DEFINE o == item.observation
  <1>1. item \in EvidenceItem /\ o.subject \in SubjectRef /\ CitedIsSeen(item)
    BY DEF IInv, WorldInv, CitationsInv, EvidenceItem, LossObservation
  <1>2. ~TopologyRevised(o)
    BY DEF Admits, StaleReason
  <1> USE DEF Cites
  <1>3. PICK p \in Paths, s \in Shapes :
            /\ item.saw = {<<p, s>>}
            /\ o.subject.kind = "path" => p = o.subject.id
            /\ \A q \in DOMAIN topology.paths :
                  topology.paths[q].revision = o.topology_revision
                      => q = p /\ topology.paths[q].shape = s
    BY <1>1 DEF CitedIsSeen
  <1>4. \E q \in PathOf(o.subject) \cap DOMAIN topology.paths :
            topology.paths[q].revision = o.topology_revision
    <2>1. CASE o.subject.kind = "path"
      <3>1. o.subject.id \in DOMAIN topology.paths
        BY <2>1, <1>1 DEF CitedIsSeen, SubjectDeclared
      <3> QED BY <2>1, <3>1, <1>2 DEF TopologyRevised, PathRevised, PathOf
    <2>2. CASE o.subject.kind = "flow"
      <3> DEFINE q == topology.flows[o.subject.id].path
      <3>1. o.subject.id \in DOMAIN topology.flows
        BY <2>2, <1>1 DEF CitedIsSeen, SubjectDeclared
      <3>2. q \in DOMAIN topology.paths
        BY <3>1 DEF IInv, RevisionsInv
      <3>3. topology.paths[q].revision = o.topology_revision
        BY <2>2, <3>1, <3>2, <1>2 DEF TopologyRevised, PathRevised
      <3>4. q \in PathOf(o.subject)
        <4>1. topology.flows[o.subject.id]["path"] = q
          OBVIOUS
        <4> QED BY <2>2, <3>1, <4>1 DEF PathOf, OwnRevision
      <3> QED BY <3>2, <3>3, <3>4
    <2> QED BY <2>1, <2>2, <1>1 DEF CitedIsSeen, SubjectDeclared
  <1>5. PICK q \in PathOf(o.subject) \cap DOMAIN topology.paths :
            topology.paths[q].revision = o.topology_revision
    BY <1>4
  <1> DEFINE v == <<q, topology.paths[q].shape>>
  <1>6. v \in SeenAt(o.subject)
    BY DEF SeenAt
  <1>7. v = <<p, s>>
    BY <1>3, <1>5
  <1> QED BY <1>1, <1>3, <1>6, <1>7, SeenIs DEF IInv

(* Under a policy that asks for the topology, as the default one does,     *)
(* evidence that cites a revision the registry counted out is admitted     *)
(* only while its subject runs over the path its source saw, in the shape  *)
(* it saw, however often paths were replaced and declared back, flows      *)
(* rebound and other paths given numbers by hand (freshness.cpp:189,       *)
(* topology.cpp:310).                                                      *)
THEOREM FreshIsSeen ==
    ASSUME ~Policy.ignore_topology_revision
    PROVE  Spec => []FreshSawThisShape
  <1>1. IInv => FreshSawThisShape
    BY AdmittedIsSeen
  <1> QED BY <1>1, InvHolds, PTL

-----------------------------------------------------------------------------
(* The generation tables.                                                  *)

FiniteWindows == {w \in Windows : IsFiniteSet(DOMAIN w)}

(* What a table of the entities S may be: finite, and within its bound.    *)
Tables(S) ==
    {t \in PartialFunctions(S, FiniteWindows) :
        IsFiniteSet(DOMAIN t) /\ Cardinality(DOMAIN t) <= MaxEntities}

LEMMA MaxOfTwo ==
    ASSUME NEW m \in Nat, NEW n \in Nat
    PROVE  Max({m, n}) = IF m >= n THEN m ELSE n
  <1>1. IsFiniteSet({m, n})
    <2>1. IsFiniteSet({m}) /\ IsFiniteSet({m} \cup {n})
      BY FS_Singleton, FS_AddElement
    <2>2. {m} \cup {n} = {m, n}
      OBVIOUS
    <2> QED BY <2>1, <2>2
  <1>2. /\ Max({m, n}) \in {m, n}
        /\ \A y \in {m, n} : Max({m, n}) >= y
    BY <1>1, MaxIsGreatest
  <1> QED BY <1>2

LEMMA MinOfTwo ==
    ASSUME NEW m \in Nat, NEW n \in Nat
    PROVE  Min({m, n}) = IF m <= n THEN m ELSE n
  <1>1. /\ Min({m, n}) \in {m, n}
        /\ \A y \in {m, n} : Min({m, n}) <= y
    BY MinIsLeast
  <1> QED BY <1>1

(* What an observation makes of a window: the earlier start, the later end.*)
WindowFrom(windows, g, at) ==
    IF g \in DOMAIN windows
    THEN [first_seen |-> IF windows[g].first_seen <= at THEN windows[g].first_seen ELSE at,
          last_seen  |-> IF windows[g].last_seen >= at THEN windows[g].last_seen ELSE at]
    ELSE [first_seen |-> at, last_seen |-> at]

LEMMA WindowsWithIs ==
    ASSUME NEW w \in FiniteWindows, NEW g \in Generations, NEW at \in Instants
    PROVE  /\ WindowsWith(w, g, at) \in FiniteWindows
           /\ DOMAIN WindowsWith(w, g, at) = DOMAIN w \cup {g}
           /\ WindowsWith(w, g, at)[g] = WindowFrom(w, g, at)
           /\ \A h \in DOMAIN w \ {g} : WindowsWith(w, g, at)[h] = w[h]
  <1> DEFINE new == IF g \in DOMAIN w THEN Widened(w[g], at)
                    ELSE [first_seen |-> at, last_seen |-> at]
  <1>1. /\ w \in PartialFunctions(Generations, GenerationRecord)
        /\ IsFiniteSet(DOMAIN w)
    BY DEF FiniteWindows, Windows
  <1>2. at \in Nat /\ \A i \in Instants : i \in Nat
    BY GenerationAssumption
  <1>3. new = WindowFrom(w, g, at) /\ new \in GenerationRecord
    <2>1. CASE g \in DOMAIN w
      <3>1. w[g] \in GenerationRecord
        BY <1>1, <2>1, PartialIs
      <3>2. w[g].first_seen \in Instants /\ w[g].last_seen \in Instants
        BY <3>1 DEF GenerationRecord
      <3>3. /\ Min({w[g].first_seen, at}) = IF w[g].first_seen <= at THEN w[g].first_seen ELSE at
            /\ Max({w[g].last_seen, at}) = IF w[g].last_seen >= at THEN w[g].last_seen ELSE at
        BY <1>2, <3>2, MinOfTwo, MaxOfTwo
      <3> QED BY <2>1, <3>2, <3>3 DEF Widened, WindowFrom, GenerationRecord
    <2>2. CASE g \notin DOMAIN w
      BY <2>2 DEF WindowFrom, GenerationRecord
    <2> QED BY <2>1, <2>2
  <1> HIDE DEF new
  <1>4. WindowsWith(w, g, at) = Put(w, g, new)
    BY DEF WindowsWith, new
  <1>5. /\ Put(w, g, new) \in PartialFunctions(Generations, GenerationRecord)
        /\ DOMAIN Put(w, g, new) = DOMAIN w \cup {g}
        /\ Put(w, g, new)[g] = new
        /\ \A h \in DOMAIN w \ {g} : Put(w, g, new)[h] = w[h]
    <2>1. ASSUME NEW v \in GenerationRecord
          PROVE  /\ Put(w, g, v) \in PartialFunctions(Generations, GenerationRecord)
                 /\ DOMAIN Put(w, g, v) = DOMAIN w \cup {g}
                 /\ Put(w, g, v)[g] = v
                 /\ \A h \in DOMAIN w \ {g} : Put(w, g, v)[h] = w[h]
      BY <1>1, PutIs
    <2> QED BY <2>1, <1>3
  <1>6. IsFiniteSet(DOMAIN w \cup {g})
    BY <1>1, FS_AddElement
  <1> QED BY <1>3, <1>4, <1>5, <1>6 DEF FiniteWindows, Windows

LEMMA NothingIsFinite ==
    /\ NoEntities \in FiniteWindows
    /\ \A S : NoEntities \in Tables(S)
    /\ DOMAIN NoEntities = {}
  <1>1. DOMAIN NoEntities = {} /\ \A T : NoEntities \in [{} -> T]
    BY DEF NoEntities
  <1>2. \A S, T : NoEntities \in PartialFunctions(S, T)
    BY <1>1 DEF PartialFunctions
  <1>3. IsFiniteSet({}) /\ Cardinality({}) = 0 /\ 0 <= MaxEntities
    BY FS_EmptySet, GenerationAssumption
  <1> QED BY <1>1, <1>2, <1>3 DEF Tables, FiniteWindows, Windows

(* An observation of an entity: a full table makes room for it, and what   *)
(* stays in the table stays as it was.                                     *)
LEMMA ObservedIs ==
    ASSUME NEW S \in SUBSET Nat, NEW t \in Tables(S), NEW e \in S,
           NEW g \in Generations, NEW at \in Instants,
           NEW n, n = ObservedIn(t, e, g, at)
    PROVE  /\ n \in Tables(S)
           /\ e \in DOMAIN n /\ DOMAIN n \subseteq DOMAIN t \cup {e}
           /\ n[e] = WindowsWith(WindowsOf(t, e), g, at)
           /\ \A x \in DOMAIN n \ {e} : n[x] = t[x]
           /\ Cardinality(DOMAIN t \cup {e}) <= MaxEntities => DOMAIN n = DOMAIN t \cup {e}
  <1> DEFINE kept == DOMAIN t \ Dropped(t, e)
             rest == Restrict(t, kept)
             new  == WindowsWith(WindowsOf(t, e), g, at)
  <1>1. /\ t \in PartialFunctions(S, FiniteWindows)
        /\ IsFiniteSet(DOMAIN t) /\ Cardinality(DOMAIN t) <= MaxEntities
        /\ Cardinality(DOMAIN t) \in Nat /\ MaxEntities \in Nat \ {0}
    BY FS_CardinalityType, GenerationAssumption DEF Tables
  <1>2. rest \in PartialFunctions(S, FiniteWindows) /\ DOMAIN rest = kept
        /\ \A x \in kept : rest[x] = t[x]
    <2>1. PICK D \in SUBSET S : t \in [D -> FiniteWindows]
      BY <1>1 DEF PartialFunctions
    <2>2. rest = [x \in kept |-> t[x]] /\ kept \in SUBSET S
      BY <2>1 DEF Restrict
    <2>3. rest \in [kept -> FiniteWindows]
      BY <2>1, <2>2
    <2> QED BY <2>2, <2>3 DEF PartialFunctions
  <1>3. new \in FiniteWindows
    <2>1. WindowsOf(t, e) \in FiniteWindows
      BY <1>1, PartialIs, NothingIsFinite DEF WindowsOf
    <2> QED BY <2>1, WindowsWithIs
  <1> HIDE DEF rest, new
  <1>4. /\ n = Put(rest, e, new)
        /\ n \in PartialFunctions(S, FiniteWindows)
        /\ DOMAIN n = kept \cup {e}
        /\ n[e] = new
        /\ \A x \in kept \ {e} : n[x] = t[x]
    <2>1. n = Put(rest, e, new)
      BY DEF ObservedIn, rest, new
    <2> QED BY <2>1, <1>2, <1>3, PutIs
  <1>5. IsFiniteSet(kept \cup {e}) /\ Cardinality(kept \cup {e}) <= MaxEntities
    <2>1. CASE e \in DOMAIN t
      <3>1. kept \cup {e} = DOMAIN t
        BY <2>1 DEF Dropped
      <3> QED BY <1>1, <3>1
    <2>2. CASE e \notin DOMAIN t /\ Cardinality(DOMAIN t) < MaxEntities
      <3>1. kept = DOMAIN t
        BY <2>2 DEF Dropped
      <3>2. /\ IsFiniteSet(DOMAIN t \cup {e})
            /\ Cardinality(DOMAIN t \cup {e}) = Cardinality(DOMAIN t) + 1
        BY <1>1, <2>2, FS_AddElement
      <3> QED BY <1>1, <2>2, <3>1, <3>2
    <2>3. CASE e \notin DOMAIN t /\ ~(Cardinality(DOMAIN t) < MaxEntities)
      <3> DEFINE low == Min(DOMAIN t)
      <3>1. kept = DOMAIN t \ {low}
        BY <2>3 DEF Dropped
      <3>2. DOMAIN t # {} /\ DOMAIN t \in SUBSET Nat
        <4>1. DOMAIN t # {}
          BY <1>1, <2>3, FS_EmptySet
        <4>2. DOMAIN t \subseteq S
          BY <1>1, PartialIs
        <4> QED BY <4>1, <4>2
      <3>3. low \in DOMAIN t
        BY <3>2, MinIsLeast
      <3> HIDE DEF low, kept
      <3>4. IsFiniteSet(kept) /\ Cardinality(kept) = Cardinality(DOMAIN t) - 1
        <4>1. /\ IsFiniteSet(DOMAIN t \ {low})
              /\ Cardinality(DOMAIN t \ {low}) = Cardinality(DOMAIN t) - 1
          BY <1>1, <3>3, FS_RemoveElement
        <4> QED BY <3>1, <4>1
      <3>5. /\ IsFiniteSet(kept \cup {e})
            /\ Cardinality(kept \cup {e}) = Cardinality(kept) + 1
        BY <2>3, <3>1, <3>4, FS_AddElement
      <3> QED BY <1>1, <3>4, <3>5
    <2> QED BY <2>1, <2>2, <2>3
  <1>6. ASSUME Cardinality(DOMAIN t \cup {e}) <= MaxEntities
        PROVE  kept = DOMAIN t
    <2>1. CASE e \in DOMAIN t
      BY <2>1 DEF Dropped
    <2>2. CASE e \notin DOMAIN t
      <3>1. Cardinality(DOMAIN t \cup {e}) = Cardinality(DOMAIN t) + 1
        BY <1>1, <2>2, FS_AddElement
      <3> QED BY <1>1, <1>6, <2>2, <3>1 DEF Dropped
    <2> QED BY <2>1, <2>2
  <1>7. n \in Tables(S)
    BY <1>4, <1>5 DEF Tables
  <1>8. \A x \in DOMAIN n \ {e} : n[x] = t[x]
    BY <1>4
  <1> HIDE DEF kept
  <1> QED BY <1>4, <1>6, <1>7, <1>8 DEF new, kept

(* What becomes of a table t when these entities are recorded: as long as  *)
(* there is room for all of them nothing is dropped, and each is widened.  *)
RecordedSo(t, entities, g, at, n) ==
    /\ DOMAIN n \subseteq DOMAIN t \cup entities
    /\ Cardinality(DOMAIN t \cup entities) <= MaxEntities =>
          /\ DOMAIN n = DOMAIN t \cup entities
          /\ \A x \in DOMAIN n :
                n[x] = IF x \in entities THEN WindowsWith(WindowsOf(t, x), g, at) ELSE t[x]

LEMMA OneMoreRecorded ==
    ASSUME NEW S \in SUBSET Nat, NEW t \in Tables(S), NEW m \in Tables(S),
           NEW some \in SUBSET S, IsFiniteSet(some), NEW e \in S, e \notin some,
           NEW g \in Generations, NEW at \in Instants,
           RecordedSo(t, some, g, at, m)
    PROVE  RecordedSo(t, some \cup {e}, g, at, ObservedIn(m, e, g, at))
  <1> DEFINE n    == ObservedIn(m, e, g, at)
             more == some \cup {e}
  <1>1. /\ e \in DOMAIN n /\ DOMAIN n \subseteq DOMAIN m \cup {e}
        /\ n[e] = WindowsWith(WindowsOf(m, e), g, at)
        /\ \A x \in DOMAIN n \ {e} : n[x] = m[x]
        /\ Cardinality(DOMAIN m \cup {e}) <= MaxEntities => DOMAIN n = DOMAIN m \cup {e}
    <2>1. n = ObservedIn(m, e, g, at)
      OBVIOUS
    <2> HIDE DEF n
    <2> QED BY <2>1, ObservedIs
  <1>2. DOMAIN n \subseteq DOMAIN t \cup more
    BY <1>1 DEF RecordedSo
  <1>3. ASSUME Cardinality(DOMAIN t \cup more) <= MaxEntities
        PROVE  /\ DOMAIN n = DOMAIN t \cup more
               /\ \A x \in DOMAIN n :
                     n[x] = IF x \in more THEN WindowsWith(WindowsOf(t, x), g, at) ELSE t[x]
    <2>1. IsFiniteSet(DOMAIN t) /\ IsFiniteSet(more)
      BY FS_AddElement DEF Tables
    <2>2. IsFiniteSet(DOMAIN t \cup more)
      BY <2>1, FS_Union
    <2>3. /\ Cardinality(DOMAIN t \cup some) <= Cardinality(DOMAIN t \cup more)
          /\ Cardinality(DOMAIN t \cup some) \in Nat /\ Cardinality(DOMAIN t \cup more) \in Nat
      <3>1. DOMAIN t \cup some \subseteq DOMAIN t \cup more
        OBVIOUS
      <3> HIDE DEF more
      <3>2. /\ IsFiniteSet(DOMAIN t \cup some)
            /\ Cardinality(DOMAIN t \cup some) <= Cardinality(DOMAIN t \cup more)
        BY <2>2, <3>1, FS_Subset
      <3> QED BY <2>2, <3>2, FS_CardinalityType
    <2>4. Cardinality(DOMAIN t \cup some) <= MaxEntities
      BY <1>3, <2>3, GenerationAssumption
    <2>5. /\ DOMAIN m = DOMAIN t \cup some
          /\ \A x \in DOMAIN m :
                m[x] = IF x \in some THEN WindowsWith(WindowsOf(t, x), g, at) ELSE t[x]
      BY <2>4 DEF RecordedSo
    <2>6. DOMAIN n = DOMAIN t \cup more
      <3>1. DOMAIN m \cup {e} = DOMAIN t \cup more
        BY <2>5
      <3> HIDE DEF more, n
      <3> QED BY <1>1, <1>3, <3>1
    <2>7. WindowsOf(m, e) = WindowsOf(t, e)
      BY <2>5 DEF WindowsOf
    <2> HIDE DEF n
    <2> QED BY <1>1, <2>5, <2>6, <2>7
  <1> HIDE DEF n, more
  <1> QED BY <1>2, <1>3 DEF RecordedSo, n, more

(* All of them, one by one.                                                *)
LEMMA RecordAllIs ==
    ASSUME NEW S \in SUBSET Nat, NEW t \in Tables(S),
           NEW entities \in SUBSET S, IsFiniteSet(entities),
           NEW o, o.generation \in Generations, o.observed_at \in Instants
    PROVE  /\ RecordAll(t, entities, o) \in Tables(S)
           /\ RecordedSo(t, entities, o.generation, o.observed_at, RecordAll(t, entities, o))
           /\ entities = {} => RecordAll(t, entities, o) = t
           /\ \A e : entities = {e} =>
                 RecordAll(t, entities, o) = ObservedIn(t, e, o.generation, o.observed_at)
  <1> DEFINE g  == o.generation
             at == o.observed_at
             op == [x \in Tables(S) \X entities |-> ObservedIn(x[1], x[2], g, at)]
             Recursion(f) ==
                 f = [some \in SUBSET entities |->
                        IF some = {} THEN t
                        ELSE ObservedIn(f[some \ {Max(some)}], Max(some), g, at)]
  <1> HIDE DEF g, at
  <1>1. g \in Generations /\ at \in Instants
    BY DEF g, at
  <1>2. ASSUME NEW some \in SUBSET entities, some # {}
        PROVE  Max(some) \in some
    BY <1>2, MaxIsGreatest, FS_Subset
  <1>3. op \in [Tables(S) \X entities -> Tables(S)]
    <2>1. ASSUME NEW m \in Tables(S), NEW e \in entities
          PROVE  ObservedIn(m, e, g, at) \in Tables(S)
      BY <1>1, ObservedIs
    <2> QED BY <2>1
  <1>4. \E f : f \in [SUBSET entities -> Tables(S)] /\ Recursion(f)
    <2>1. PICK f \in [SUBSET entities -> Tables(S)] : SolvesByMax(f, entities, t, op)
      <3>1. entities \in SUBSET Nat
        OBVIOUS
      <3> HIDE DEF op
      <3> QED BY <1>3, <3>1, RecursionByMax
    <2>2. ASSUME NEW some \in SUBSET entities, some # {}
          PROVE  f[some] = ObservedIn(f[some \ {Max(some)}], Max(some), g, at)
      <3>1. f[some \ {Max(some)}] \in Tables(S) /\ Max(some) \in entities
        BY <1>2, <2>2
      <3>2. f[some] = op[<<f[some \ {Max(some)}], Max(some)>>]
        BY <2>1, <2>2 DEF SolvesByMax
      <3> QED BY <3>1, <3>2
    <2>3. \A some \in SUBSET entities :
              f[some] = IF some = {} THEN t
                        ELSE ObservedIn(f[some \ {Max(some)}], Max(some), g, at)
      BY <2>1, <2>2 DEF SolvesByMax
    <2> QED BY <2>3
  <1> DEFINE f == CHOOSE f : Recursion(f)
  <1>5. RecordAll(t, entities, o) = f[entities]
    BY DEF RecordAll, g, at
  <1>6. Recursion(f)
    <2> HIDE DEF Recursion
    <2> QED BY <1>4
  <1> HIDE DEF f, op
  <1>7. /\ f[{}] = t
        /\ \A some \in SUBSET entities :
              some # {} => f[some] = ObservedIn(f[some \ {Max(some)}], Max(some), g, at)
    BY <1>6
  <1> HIDE DEF Recursion
  <1> DEFINE Right(some) == f[some] \in Tables(S) /\ RecordedSo(t, some, g, at, f[some])
             Failing == {k \in Nat : \E some \in SUBSET entities :
                                        Cardinality(some) = k /\ ~Right(some)}
  <1>8. Right({})
    <2>1. RecordedSo(t, {}, g, at, t)
      BY DEF RecordedSo
    <2> QED BY <1>7, <2>1
  <1>9. ASSUME NEW some \in SUBSET entities, some # {}, Right(some \ {Max(some)})
        PROVE  Right(some)
    <2> DEFINE e    == Max(some)
               less == some \ {e}
    <2>1. e \in some /\ e \in S /\ less \in SUBSET S /\ IsFiniteSet(less)
      <3>1. e \in some
        BY <1>2, <1>9
      <3>2. less \in SUBSET entities
        OBVIOUS
      <3> HIDE DEF e, less
      <3> QED BY <3>1, <3>2, FS_Subset
    <2>2. f[some] = ObservedIn(f[less], e, g, at)
      BY <1>7, <1>9
    <2>3. f[less] \in Tables(S) /\ RecordedSo(t, less, g, at, f[less])
      BY <1>9
    <2>4. e \notin less /\ less \cup {e} = some
      BY <2>1
    <2> HIDE DEF e, less
    <2>5. f[some] \in Tables(S)
      <3>1. ASSUME NEW m \in Tables(S)
            PROVE  ObservedIn(m, e, g, at) \in Tables(S)
        BY <1>1, <2>1, ObservedIs
      <3> QED BY <2>2, <2>3, <3>1
    <2>6. RecordedSo(t, some, g, at, f[some])
      <3>1. ASSUME NEW m \in Tables(S), RecordedSo(t, less, g, at, m)
            PROVE  RecordedSo(t, less \cup {e}, g, at, ObservedIn(m, e, g, at))
        BY <1>1, <2>1, <2>4, <3>1, OneMoreRecorded
      <3> QED BY <2>2, <2>3, <2>4, <3>1
    <2> QED BY <2>5, <2>6
  <1>10. Failing = {}
    <2> SUFFICES ASSUME Failing # {} PROVE FALSE
      OBVIOUS
    <2> HIDE DEF Right
    <2>1. PICK k \in Failing : k = 0 \/ (k - 1 \in Nat /\ k - 1 \notin Failing)
      <3>1. Failing \in SUBSET Nat
        OBVIOUS
      <3> HIDE DEF Failing
      <3> QED BY <3>1, LeastFailure
    <2>2. PICK some \in SUBSET entities : Cardinality(some) = k /\ ~Right(some)
      OBVIOUS
    <2>3. some # {} /\ IsFiniteSet(some)
      BY <1>8, <2>2, FS_Subset
    <2>4. k # 0
      BY <2>2, <2>3, FS_EmptySet
    <2>5. Max(some) \in some /\ Cardinality(some \ {Max(some)}) = k - 1
      BY <1>2, <2>2, <2>3, FS_RemoveElement
    <2>6. some \ {Max(some)} \in SUBSET entities
      OBVIOUS
    <2>7. Right(some \ {Max(some)})
      BY <2>1, <2>4, <2>5, <2>6
    <2> QED BY <1>9, <2>2, <2>3, <2>7
  <1>11. Right(entities)
    <2>1. Cardinality(entities) \in Nat
      BY FS_CardinalityType
    <2> HIDE DEF Right
    <2> QED BY <1>10, <2>1
  <1>12. ASSUME NEW e, entities = {e}
         PROVE  f[entities] = ObservedIn(t, e, g, at)
    <2>1. Max({e}) = e
      BY <1>2, <1>12
    <2>2. {e} \ {e} = {}
      OBVIOUS
    <2> QED BY <1>7, <1>12, <2>1, <2>2
  <1> QED BY <1>5, <1>7, <1>11, <1>12 DEF g, at

(* The same of one observation, by itself.                                 *)
LEMMA OneObserved ==
    ASSUME NEW S \in SUBSET Nat, NEW m \in Tables(S), NEW e \in S,
           NEW g \in Generations, NEW at \in Instants
    PROVE  /\ ObservedIn(m, e, g, at)[e] = WindowsWith(WindowsOf(m, e), g, at)
           /\ \A y \in DOMAIN ObservedIn(m, e, g, at) \ {e} : ObservedIn(m, e, g, at)[y] = m[y]
  <1> DEFINE n == ObservedIn(m, e, g, at)
  <1>1. /\ e \in DOMAIN n /\ DOMAIN n \subseteq DOMAIN m \cup {e}
        /\ n[e] = WindowsWith(WindowsOf(m, e), g, at)
        /\ \A x \in DOMAIN n \ {e} : n[x] = m[x]
        /\ Cardinality(DOMAIN m \cup {e}) <= MaxEntities => DOMAIN n = DOMAIN m \cup {e}
    <2>1. n = ObservedIn(m, e, g, at)
      OBVIOUS
    <2> HIDE DEF n
    <2> QED BY <2>1, ObservedIs
  <1> QED BY <1>1

(* What recording leaves of an entity that does not count as dropped: it   *)
(* is in the table, widened if it is concerned and otherwise as before.    *)
LEMMA Survivors ==
    ASSUME NEW S \in SUBSET Nat, NEW t \in Tables(S),
           NEW entities \in SUBSET S, IsFiniteSet(entities),
           NEW o, o.generation \in Generations, o.observed_at \in Instants,
           NEW n, n = RecordAll(t, entities, o),
           NEW kind, NEW x \in DOMAIN t \cup entities,
           [kind |-> kind, id |-> x] \notin Gone(kind, t, n, entities)
    PROVE  /\ x \in DOMAIN n
           /\ n[x] = IF x \in entities
                     THEN WindowsWith(WindowsOf(t, x), o.generation, o.observed_at)
                     ELSE t[x]
  <1> DEFINE all  == DOMAIN t \cup entities
             lost == all \ DOMAIN n
  <1>1. /\ n \in Tables(S)
        /\ RecordedSo(t, entities, o.generation, o.observed_at, n)
        /\ entities = {} => n = t
        /\ \A e : entities = {e} => n = ObservedIn(t, e, o.generation, o.observed_at)
    BY RecordAllIs
  <1>2. x \notin lost /\ (lost = {} \/ Cardinality(entities) <= 1)
    <2>1. x \notin IF lost # {} /\ Cardinality(entities) > 1 THEN all ELSE lost
      BY DEF Gone
    <2>2. Cardinality(entities) \in Nat
      BY FS_CardinalityType
    <2> QED BY <2>1, <2>2
  <1>3. x \in DOMAIN n
    BY <1>2
  <1>4. CASE lost = {}
    <2>1. DOMAIN n = all
      BY <1>1, <1>4 DEF RecordedSo
    <2>2. Cardinality(DOMAIN n) <= MaxEntities
      BY <1>1 DEF Tables
    <2>3. Cardinality(DOMAIN t \cup entities) <= MaxEntities
      BY <2>1, <2>2
    <2> QED BY <1>1, <1>3, <2>3 DEF RecordedSo
  <1>5. CASE Cardinality(entities) <= 1
    <2>1. entities = {} \/ \E e : entities = {e}
      <3>1. Cardinality(entities) \in {0, 1}
        BY <1>5, FS_CardinalityType
      <3> QED BY <3>1, FS_EmptySet, FS_Singleton
    <2>2. CASE entities = {}
      BY <1>1, <1>3, <2>2
    <2>3. ASSUME NEW e, entities = {e}
          PROVE  n[x] = IF x \in entities
                        THEN WindowsWith(WindowsOf(t, x), o.generation, o.observed_at)
                        ELSE t[x]
      <3>1. e \in S /\ n = ObservedIn(t, e, o.generation, o.observed_at)
        BY <1>1, <2>3
      <3>2. /\ ObservedIn(t, e, o.generation, o.observed_at)[e] =
                  WindowsWith(WindowsOf(t, e), o.generation, o.observed_at)
            /\ \A y \in DOMAIN ObservedIn(t, e, o.generation, o.observed_at) \ {e} :
                  ObservedIn(t, e, o.generation, o.observed_at)[y] = t[y]
        BY <3>1, OneObserved
      <3>3. /\ n[e] = WindowsWith(WindowsOf(t, e), o.generation, o.observed_at)
            /\ \A y \in DOMAIN n \ {e} : n[y] = t[y]
        BY <3>1, <3>2
      <3> QED BY <1>3, <2>3, <3>3
    <2> QED BY <1>3, <2>1, <2>2, <2>3
  <1> QED BY <1>2, <1>4, <1>5

-----------------------------------------------------------------------------
(* The inductive invariant of ArrivalOrderCannotMatter.                    *)

(* The subjects that have a table, and the table they have.                *)
Entity == {r \in SubjectRef : r.kind \in {"flow", "path"}}

GenerationsInv ==
    /\ flowGenerations \in Tables(Flows)
    /\ pathGenerations \in Tables(Paths)
    /\ IsFiniteSet(DOMAIN topology.flows)
    /\ \A item \in sent : item.observation.observed_at \in Instants
    /\ recorded \subseteq Recording
    /\ \A q \in recorded : q.subject \in Entity
    /\ dropped \subseteq SubjectRef

TableOf(r) == IF r.kind = "flow" THEN flowGenerations ELSE pathGenerations

(* A window spans these instants, and begins and ends with two of them.    *)
Spans(window, instants) ==
    /\ {window.first_seen, window.last_seen} \subseteq instants
    /\ \A i \in instants : window.first_seen <= i /\ i <= window.last_seen

(* The windows are those of these instants, of which each generation has   *)
(* its own.                                                                *)
WindowsSpan(windows, instants) ==
    /\ DOMAIN windows = {g \in Generations : instants[g] # {}}
    /\ \A g \in DOMAIN windows : Spans(windows[g], instants[g])

InstantsOf(r) == [g \in Generations |-> RecordedAt(r, g)]

WasRecorded(r) == \E q \in recorded : q.subject = r

(* A table holds of an entity what was recorded of it, and no more.        *)
Reflects(table, r) ==
    /\ r.id \in DOMAIN table <=> WasRecorded(r)
    /\ r.id \in DOMAIN table => WindowsSpan(table[r.id], InstantsOf(r))

RecordingsInv == \A r \in Entity \ dropped : Reflects(TableOf(r), r)

(* To widen the window of a generation is to record one more instant.      *)
LEMMA WideningSpans ==
    ASSUME NEW w \in FiniteWindows, NEW g \in Generations, NEW at \in Instants,
           NEW before \in [Generations -> SUBSET Instants], WindowsSpan(w, before),
           NEW after, after = [before EXCEPT ![g] = before[g] \cup {at}]
    PROVE  WindowsSpan(WindowsWith(w, g, at), after)
  <1> DEFINE n == WindowsWith(w, g, at)
  <1>1. /\ DOMAIN n = DOMAIN w \cup {g}
        /\ n[g] = WindowFrom(w, g, at)
        /\ \A h \in DOMAIN w \ {g} : n[h] = w[h]
    BY WindowsWithIs
  <1>2. /\ after[g] = before[g] \cup {at}
        /\ \A h \in Generations \ {g} : after[h] = before[h]
    OBVIOUS
  <1>3. DOMAIN w = {h \in Generations : before[h] # {}}
    BY DEF WindowsSpan
  <1> HIDE DEF n
  <1>4. DOMAIN n = {h \in Generations : after[h] # {}}
    BY <1>1, <1>2, <1>3
  <1>5. Spans(n[g], after[g])
    <2>1. before[g] \in SUBSET Nat /\ at \in Nat
      BY GenerationAssumption
    <2>2. CASE g \in DOMAIN w
      <3>1. Spans(w[g], before[g])
        BY <2>2 DEF WindowsSpan
      <3>2. n[g] = [first_seen |-> IF w[g].first_seen <= at THEN w[g].first_seen ELSE at,
                    last_seen  |-> IF w[g].last_seen >= at THEN w[g].last_seen ELSE at]
        BY <1>1, <2>2 DEF WindowFrom
      <3> QED BY <1>2, <2>1, <3>1, <3>2 DEF Spans
    <2>3. CASE g \notin DOMAIN w
      <3>1. after[g] = {at}
        BY <1>2, <1>3, <2>3
      <3>2. n[g] = [first_seen |-> at, last_seen |-> at]
        BY <1>1, <2>3 DEF WindowFrom
      <3> QED BY <2>1, <3>1, <3>2 DEF Spans
    <2> QED BY <2>2, <2>3
  <1>6. ASSUME NEW h \in DOMAIN n \ {g}
        PROVE  Spans(n[h], after[h])
    <2>1. h \in DOMAIN w \ {g} /\ h \in Generations
      BY <1>1, <1>3
    <2>2. Spans(w[h], before[h])
      BY <2>1 DEF WindowsSpan
    <2> QED BY <1>1, <1>2, <2>1, <2>2
  <1> QED BY <1>4, <1>5, <1>6 DEF WindowsSpan, n

(* The entities that a piece of evidence concerns: finitely many, because  *)
(* finitely many flows are declared.                                       *)
LEMMA ConcernedIs ==
    ASSUME GenerationsInv, WorldInv, NEW o, o.subject \in SubjectRef
    PROVE  /\ Shows(o.subject) \subseteq Entity
           /\ Concerned("flow", o) \in SUBSET Flows /\ IsFiniteSet(Concerned("flow", o))
           /\ Concerned("path", o) \in SUBSET Paths /\ IsFiniteSet(Concerned("path", o))
           /\ \A r \in Entity : r \in Shows(o.subject) <=> r.id \in Concerned(r.kind, o)
  <1> DEFINE subject == o.subject
             over    == FlowsOver(topology, subject.id)
  <1>1. /\ subject \in Entity \/ subject.kind = "place"
        /\ \A r \in SubjectRef : r = [kind |-> r.kind, id |-> r.id]
        /\ \A r \in Entity : r \in SubjectRef /\ (r.kind = "flow" \/ r.kind = "path")
        /\ \A r \in SubjectRef : r.kind = "flow" => r.id \in Flows
        /\ \A r \in SubjectRef : r.kind = "path" => r.id \in Paths
        /\ \A f \in Flows : FlowRef(f) \in Entity /\ FlowRef(f).id = f /\ FlowRef(f).kind = "flow"
    BY DEF SubjectRef, Entity, FlowRef
  <1>2. over \in SUBSET Flows /\ IsFiniteSet(over)
    <2>1. DOMAIN topology.flows \subseteq Flows
      BY PartialIs DEF WorldInv, TopologyRecord
    <2>2. over \subseteq DOMAIN topology.flows
      BY DEF FlowsOver
    <2>3. IsFiniteSet(DOMAIN topology.flows)
      BY DEF GenerationsInv
    <2> HIDE DEF over
    <2> QED BY <2>1, <2>2, <2>3, FS_Subset
  <1> HIDE DEF over
  <1>3. Shows(subject) = IF subject.kind = "place" THEN {FlowRef(f) : f \in over} ELSE {subject}
    BY DEF Shows, over
  <1>4. Shows(subject) \subseteq Entity
    BY <1>1, <1>2, <1>3
  <1>5. \A kind : \A r \in Entity : r.kind = kind => (r \in Shows(subject) <=> r.id \in Concerned(kind, o))
    <2>1. ASSUME NEW r \in Entity, NEW q \in Shows(subject), q.kind = r.kind, q.id = r.id
          PROVE  q = r
      BY <1>1, <1>4, <2>1
    <2> QED BY <2>1 DEF Concerned
  <1>6. \A kind, x : x \in Concerned(kind, o) => \E r \in Shows(subject) : r.kind = kind /\ r.id = x
    BY DEF Concerned
  <1>7. Concerned("flow", o) \in SUBSET Flows /\ Concerned("path", o) \in SUBSET Paths
    BY <1>1, <1>4, <1>6
  <1>8. ASSUME NEW kind
        PROVE  IsFiniteSet(Concerned(kind, o))
    <2>1. CASE subject.kind = "place"
      <3>1. Concerned(kind, o) \subseteq over
        BY <1>1, <1>2, <1>3, <1>6, <2>1
      <3> QED BY <1>2, <3>1, FS_Subset
    <2>2. CASE subject.kind # "place"
      <3>1. Concerned(kind, o) \subseteq {subject.id}
        BY <1>3, <1>6, <2>2
      <3>2. IsFiniteSet({subject.id})
        BY FS_Singleton
      <3> HIDE DEF subject
      <3> QED BY <3>1, <3>2, FS_Subset
    <2> QED BY <2>1, <2>2
  <1> QED BY <1>1, <1>4, <1>5, <1>7, <1>8

(* What is recorded of an entity when evidence comes in.                   *)
LEMMA RecordedAfter ==
    ASSUME NEW o, RecordGenerations(o), NEW r,
           o.generation \in Generations, o.observed_at \in Instants, recorded \subseteq Recording
    PROVE  /\ WasRecorded(r)' <=> WasRecorded(r) \/ r \in Shows(o.subject)
           /\ InstantsOf(r) \in [Generations -> SUBSET Instants]
           /\ InstantsOf(r)' = IF r \in Shows(o.subject)
                               THEN [InstantsOf(r) EXCEPT
                                        ![o.generation] = InstantsOf(r)[o.generation]
                                                              \cup {o.observed_at}]
                               ELSE InstantsOf(r)
  <1> DEFINE new == {[subject |-> s, generation |-> o.generation, at |-> o.observed_at] :
                        s \in Shows(o.subject)}
  <1>1. recorded' = recorded \cup new
    BY DEF RecordGenerations
  <1>2. /\ \A q \in new : /\ q.subject \in Shows(o.subject)
                          /\ q.generation = o.generation /\ q.at = o.observed_at
        /\ \A s \in Shows(o.subject) :
              \E q \in new : q.subject = s /\ q.generation = o.generation /\ q.at = o.observed_at
    <2>1. ASSUME NEW s \in Shows(o.subject)
          PROVE  \E q \in new : /\ q.subject = s
                                /\ q.generation = o.generation /\ q.at = o.observed_at
      <3> DEFINE q == [subject |-> s, generation |-> o.generation, at |-> o.observed_at]
      <3>1. q \in new /\ q.subject = s /\ q.generation = o.generation /\ q.at = o.observed_at
        OBVIOUS
      <3> HIDE DEF q, new
      <3> QED BY <3>1
    <2>2. ASSUME NEW q \in new
          PROVE  /\ q.subject \in Shows(o.subject)
                 /\ q.generation = o.generation /\ q.at = o.observed_at
      OBVIOUS
    <2> HIDE DEF new
    <2> QED BY <2>1, <2>2
  <1> HIDE DEF new
  <1>3. WasRecorded(r)' <=> WasRecorded(r) \/ r \in Shows(o.subject)
    BY <1>1, <1>2 DEF WasRecorded
  <1>4. \A g : RecordedAt(r, g) \subseteq Instants
    BY DEF RecordedAt, Recording
  <1>5. ASSUME NEW g \in Generations
        PROVE  RecordedAt(r, g)' = RecordedAt(r, g) \cup
                   (IF r \in Shows(o.subject) /\ g = o.generation THEN {o.observed_at} ELSE {})
    <2>1. \A t : t \in RecordedAt(r, g) <=> \E q \in recorded :
              q.subject = r /\ q.generation = g /\ q.at = t
      BY DEF RecordedAt
    <2>2. \A t : t \in RecordedAt(r, g)' <=> \E q \in recorded' :
              q.subject = r /\ q.generation = g /\ q.at = t
      BY DEF RecordedAt
    <2> QED BY <1>1, <1>2, <2>1, <2>2
  <1>6. /\ InstantsOf(r) = [g \in Generations |-> RecordedAt(r, g)]
        /\ InstantsOf(r)' = [g \in Generations |-> RecordedAt(r, g)']
    BY DEF InstantsOf
  <1>7. InstantsOf(r) \in [Generations -> SUBSET Instants]
    BY <1>4, <1>6
  <1>8. CASE r \notin Shows(o.subject)
    BY <1>3, <1>5, <1>6, <1>7, <1>8
  <1>9. CASE r \in Shows(o.subject)
    <2> DEFINE f == [InstantsOf(r) EXCEPT
                        ![o.generation] = InstantsOf(r)[o.generation] \cup {o.observed_at}]
    <2>1. \A g \in Generations : InstantsOf(r)[g] = RecordedAt(r, g)
      BY <1>6
    <2>2. /\ f \in [Generations -> SUBSET Instants]
          /\ \A g \in Generations :
                f[g] = IF g = o.generation THEN InstantsOf(r)[g] \cup {o.observed_at}
                       ELSE InstantsOf(r)[g]
      BY <1>7
    <2> HIDE DEF f
    <2>3. f = [g \in Generations |-> f[g]]
      BY <2>2
    <2>4. \A g \in Generations : RecordedAt(r, g)' = f[g]
      BY <1>5, <1>9, <2>1, <2>2
    <2>5. InstantsOf(r)' = f
      BY <1>6, <2>3, <2>4
    <2> QED BY <1>3, <1>7, <1>9, <2>5 DEF f
  <1> QED BY <1>8, <1>9

(* The table keeps reflecting an entity that does not count as dropped.    *)
LEMMA ReflectionKeeps ==
    ASSUME NEW S \in SUBSET Nat, NEW t \in Tables(S),
           NEW entities \in SUBSET S, IsFiniteSet(entities),
           NEW o, o.generation \in Generations, o.observed_at \in Instants,
           NEW n, n = RecordAll(t, entities, o),
           NEW kind, NEW r, r = [kind |-> kind, id |-> r.id], r \notin Gone(kind, t, n, entities),
           r \in Shows(o.subject) <=> r.id \in entities,
           recorded \subseteq Recording, RecordGenerations(o),
           Reflects(t, r)
    PROVE  /\ r.id \in DOMAIN n <=> WasRecorded(r)'
           /\ r.id \in DOMAIN n => WindowsSpan(n[r.id], InstantsOf(r)')
  <1> DEFINE x  == r.id
             g  == o.generation
             at == o.observed_at
  <1>1. /\ WasRecorded(r)' <=> WasRecorded(r) \/ x \in entities
        /\ InstantsOf(r) \in [Generations -> SUBSET Instants]
        /\ InstantsOf(r)' = IF x \in entities
                            THEN [InstantsOf(r) EXCEPT ![g] = InstantsOf(r)[g] \cup {at}]
                            ELSE InstantsOf(r)
    BY RecordedAfter
  <1>2. /\ x \in DOMAIN t <=> WasRecorded(r)
        /\ x \in DOMAIN t => WindowsSpan(t[x], InstantsOf(r))
    BY DEF Reflects
  <1>3. n \in Tables(S) /\ RecordedSo(t, entities, g, at, n)
    BY RecordAllIs
  <1>4. CASE x \notin DOMAIN t \cup entities
    <2>1. x \notin DOMAIN n
      BY <1>3, <1>4 DEF RecordedSo
    <2> QED BY <1>1, <1>2, <1>4, <2>1
  <1>5. CASE x \in DOMAIN t \cup entities
    <2>1. /\ x \in DOMAIN n
          /\ n[x] = IF x \in entities THEN WindowsWith(WindowsOf(t, x), g, at) ELSE t[x]
      <3>1. ASSUME NEW y \in DOMAIN t \cup entities,
                   [kind |-> kind, id |-> y] \notin Gone(kind, t, n, entities)
            PROVE  /\ y \in DOMAIN n
                   /\ n[y] = IF y \in entities THEN WindowsWith(WindowsOf(t, y), g, at) ELSE t[y]
        BY <3>1, Survivors
      <3>2. [kind |-> kind, id |-> x] \notin Gone(kind, t, n, entities)
        OBVIOUS
      <3> HIDE DEF x, g, at
      <3> QED BY <1>5, <3>1, <3>2
    <2>2. WindowsOf(t, x) \in FiniteWindows /\ WindowsSpan(WindowsOf(t, x), InstantsOf(r))
      <3>1. CASE x \in DOMAIN t
        BY <1>2, <3>1, PartialIs DEF WindowsOf, Tables
      <3>2. CASE x \notin DOMAIN t
        <4>1. \A h \in Generations : InstantsOf(r)[h] = {}
          BY <1>2, <3>2 DEF InstantsOf, RecordedAt, WasRecorded
        <4>2. WindowsSpan(NoEntities, InstantsOf(r))
          BY <4>1, NothingIsFinite DEF WindowsSpan
        <4> QED BY <3>2, <4>2, NothingIsFinite DEF WindowsOf
      <3> QED BY <3>1, <3>2
    <2>3. CASE x \in entities
      <3>1. ASSUME NEW w \in FiniteWindows, WindowsSpan(w, InstantsOf(r))
            PROVE  WindowsSpan(WindowsWith(w, g, at), InstantsOf(r)')
        BY <1>1, <2>3, <3>1, WideningSpans
      <3> QED BY <1>1, <2>1, <2>2, <2>3, <3>1
    <2>4. CASE x \notin entities
      BY <1>1, <1>2, <1>5, <2>1, <2>4
    <2> QED BY <2>3, <2>4
  <1> QED BY <1>4, <1>5

RecordsInv == WorldInv /\ GenerationsInv /\ RecordingsInv

LEMMA DeliveryKeepsTables ==
    ASSUME WorldInv, GenerationsInv, NEW item \in sent, Deliver(item)
    PROVE  GenerationsInv'
  <1> DEFINE o == item.observation
             F == Concerned("flow", o)
             P == Concerned("path", o)
  <1>1. /\ WorldInv /\ GenerationsInv
        /\ RecordGenerations(o) /\ UNCHANGED <<topology, sent>>
    BY DEF Deliver, worldVars
  <1>2. /\ o.subject \in SubjectRef /\ o.generation \in Generations /\ o.observed_at \in Instants
    BY <1>1 DEF WorldInv, GenerationsInv, EvidenceItem, LossObservation
  <1>3. /\ Shows(o.subject) \subseteq Entity
        /\ F \in SUBSET Flows /\ IsFiniteSet(F) /\ P \in SUBSET Paths /\ IsFiniteSet(P)
        /\ \A r \in Entity : r \in Shows(o.subject) <=> r.id \in Concerned(r.kind, o)
    BY <1>1, <1>2, ConcernedIs
  <1>4. /\ flowGenerations' = RecordAll(flowGenerations, F, o)
        /\ pathGenerations' = RecordAll(pathGenerations, P, o)
        /\ recorded' = recorded \cup {[subject |-> r, generation |-> o.generation,
                                       at |-> o.observed_at] : r \in Shows(o.subject)}
        /\ dropped' = dropped \cup Gone("flow", flowGenerations, flowGenerations', F)
                              \cup Gone("path", pathGenerations, pathGenerations', P)
    BY <1>1 DEF RecordGenerations
  <1> HIDE DEF F, P, o
  <1>5. /\ Flows \in SUBSET Nat /\ Paths \in SUBSET Nat
        /\ flowGenerations \in Tables(Flows) /\ pathGenerations \in Tables(Paths)
        /\ recorded \subseteq Recording
    BY <1>1, GenerationAssumption DEF GenerationsInv
  <1>6. flowGenerations' \in Tables(Flows) /\ RecordedSo(flowGenerations, F, o.generation, o.observed_at, flowGenerations')
    BY <1>2, <1>3, <1>4, <1>5, RecordAllIs
  <1>7. pathGenerations' \in Tables(Paths) /\ RecordedSo(pathGenerations, P, o.generation, o.observed_at, pathGenerations')
    BY <1>2, <1>3, <1>4, <1>5, RecordAllIs
  <1>8. recorded' \subseteq Recording /\ \A q \in recorded' : q.subject \in Entity
    <2>1. \A r \in Entity : r \in SubjectRef
      BY DEF Entity
    <2> QED BY <1>1, <1>2, <1>3, <1>4, <2>1 DEF GenerationsInv, Recording
  <1>9. /\ Gone("flow", flowGenerations, flowGenerations', F) \subseteq SubjectRef
        /\ Gone("path", pathGenerations, pathGenerations', P) \subseteq SubjectRef
    <2>1. DOMAIN flowGenerations \cup F \subseteq Flows /\ DOMAIN pathGenerations \cup P \subseteq Paths
      BY <1>3, <1>5, PartialIs DEF Tables
    <2>2. /\ \A f \in Flows : [kind |-> "flow", id |-> f] \in SubjectRef
          /\ \A p \in Paths : [kind |-> "path", id |-> p] \in SubjectRef
      BY DEF SubjectRef
    <2> QED BY <2>1, <2>2 DEF Gone
  <1>10. dropped' \subseteq SubjectRef
    BY <1>1, <1>4, <1>9 DEF GenerationsInv
  <1> QED BY <1>1, <1>6, <1>7, <1>8, <1>10 DEF GenerationsInv

LEMMA DeliveryKeeps ==
    ASSUME RecordsInv, NEW item \in sent, Deliver(item)
    PROVE  GenerationsInv' /\ RecordingsInv'
  <1> DEFINE o == item.observation
             F == Concerned("flow", o)
             P == Concerned("path", o)
  <1>1. /\ WorldInv /\ GenerationsInv /\ RecordingsInv
        /\ RecordGenerations(o) /\ UNCHANGED <<topology, sent>>
    BY DEF RecordsInv, Deliver, worldVars
  <1>2. /\ o.subject \in SubjectRef /\ o.generation \in Generations /\ o.observed_at \in Instants
    BY <1>1 DEF WorldInv, GenerationsInv, EvidenceItem, LossObservation
  <1>3. /\ Shows(o.subject) \subseteq Entity
        /\ F \in SUBSET Flows /\ IsFiniteSet(F) /\ P \in SUBSET Paths /\ IsFiniteSet(P)
        /\ \A r \in Entity : r \in Shows(o.subject) <=> r.id \in Concerned(r.kind, o)
    BY <1>1, <1>2, ConcernedIs
  <1>4. /\ flowGenerations' = RecordAll(flowGenerations, F, o)
        /\ pathGenerations' = RecordAll(pathGenerations, P, o)
        /\ recorded' = recorded \cup {[subject |-> r, generation |-> o.generation,
                                       at |-> o.observed_at] : r \in Shows(o.subject)}
        /\ dropped' = dropped \cup Gone("flow", flowGenerations, flowGenerations', F)
                              \cup Gone("path", pathGenerations, pathGenerations', P)
    BY <1>1 DEF RecordGenerations
  <1> HIDE DEF F, P, o
  <1>5. /\ Flows \in SUBSET Nat /\ Paths \in SUBSET Nat
        /\ flowGenerations \in Tables(Flows) /\ pathGenerations \in Tables(Paths)
        /\ recorded \subseteq Recording
    BY <1>1, GenerationAssumption DEF GenerationsInv
  <1>6. GenerationsInv'
    BY DeliveryKeepsTables DEF RecordsInv
  <1>7. ASSUME NEW r \in Entity \ dropped'
        PROVE  Reflects(TableOf(r), r)'
    <2>1. /\ r \in Entity \ dropped /\ Reflects(TableOf(r), r)
          /\ r = [kind |-> r.kind, id |-> r.id]
          /\ r.kind = "flow" \/ r.kind = "path"
      BY <1>1, <1>4 DEF RecordingsInv, Entity, SubjectRef
    <2>2. CASE r.kind = "flow"
      <3>1. /\ r.id \in DOMAIN flowGenerations' <=> WasRecorded(r)'
            /\ r.id \in DOMAIN flowGenerations' => WindowsSpan(flowGenerations'[r.id], InstantsOf(r)')
        <4>1. r = [kind |-> "flow", id |-> r.id]
          BY <2>1, <2>2
        <4>2. r \notin Gone("flow", flowGenerations, flowGenerations', F)
          BY <1>4
        <4>3. r \in Shows(o.subject) <=> r.id \in F
          BY <1>3, <2>2 DEF F
        <4>4. Reflects(flowGenerations, r)
          BY <2>1, <2>2 DEF TableOf
        <4> QED BY <1>1, <1>2, <1>3, <1>4, <1>5, <4>1, <4>2, <4>3, <4>4, ReflectionKeeps DEF o
      <3> QED BY <2>2, <3>1 DEF Reflects, TableOf
    <2>3. CASE r.kind = "path"
      <3>1. /\ r.id \in DOMAIN pathGenerations' <=> WasRecorded(r)'
            /\ r.id \in DOMAIN pathGenerations' => WindowsSpan(pathGenerations'[r.id], InstantsOf(r)')
        <4>1. r = [kind |-> "path", id |-> r.id]
          BY <2>1, <2>3
        <4>2. r \notin Gone("path", pathGenerations, pathGenerations', P)
          BY <1>4
        <4>3. r \in Shows(o.subject) <=> r.id \in P
          BY <1>3, <2>3 DEF P
        <4>4. Reflects(pathGenerations, r)
          BY <2>1, <2>3 DEF TableOf
        <4> QED BY <1>1, <1>2, <1>3, <1>4, <1>5, <4>1, <4>2, <4>3, <4>4, ReflectionKeeps DEF o
      <3> QED BY <2>3, <3>1 DEF Reflects, TableOf
    <2> QED BY <2>1, <2>2, <2>3
  <1> QED BY <1>6, <1>7 DEF RecordingsInv

LEMMA RecordsInit == Init => RecordsInv
  <1> SUFFICES ASSUME Init PROVE RecordsInv
    OBVIOUS
  <1>1. WorldInv
    BY InitHolds DEF IInv
  <1>2. /\ flowGenerations = NoEntities /\ pathGenerations = NoEntities
        /\ topology.flows = NoEntities /\ sent = {} /\ recorded = {} /\ dropped = {}
    BY DEF Init, NothingHeld, GenerationInit, EmptyTopology
  <1>3. GenerationsInv
    BY <1>2, NothingIsFinite, FS_EmptySet DEF GenerationsInv
  <1>4. RecordingsInv
    BY <1>2, NothingIsFinite DEF RecordingsInv, Reflects, TableOf, WasRecorded
  <1> QED BY <1>1, <1>3, <1>4 DEF RecordsInv

LEMMA RecordsNext == IInv /\ RecordsInv /\ [Next]_evidenceVars => RecordsInv'
  <1> SUFFICES ASSUME IInv, RecordsInv, [Next]_evidenceVars PROVE RecordsInv'
    OBVIOUS
  <1>1. WorldInv'
    BY NextKeeps DEF IInv
  <1>2. ASSUME UNCHANGED <<generationVars, historyVars>>, IsFiniteSet(DOMAIN topology'.flows),
               \A item \in sent' : item.observation.observed_at \in Instants
        PROVE  RecordsInv'
    <2>1. GenerationsInv'
      BY <1>2 DEF RecordsInv, GenerationsInv, generationVars, historyVars
    <2>2. UNCHANGED <<flowGenerations, pathGenerations, recorded, dropped>>
      BY <1>2 DEF generationVars, historyVars
    <2>3. ASSUME NEW r \in Entity \ dropped
          PROVE  Reflects(TableOf(r), r)'
      <3>1. Reflects(TableOf(r), r)
        BY <2>3 DEF RecordsInv, RecordingsInv
      <3>2. TableOf(r)' = TableOf(r) /\ (WasRecorded(r)' <=> WasRecorded(r))
        BY <2>2 DEF TableOf, WasRecorded
      <3>3. InstantsOf(r)' = InstantsOf(r)
        BY <2>2 DEF InstantsOf, RecordedAt
      <3> QED BY <3>1, <3>2, <3>3 DEF Reflects
    <2>4. RecordingsInv'
      BY <2>2, <2>3 DEF RecordingsInv
    <2> QED BY <1>1, <2>1, <2>4 DEF RecordsInv
  <1>3. /\ IsFiniteSet(DOMAIN topology.flows)
        /\ \A item \in sent : item.observation.observed_at \in Instants
    BY DEF RecordsInv, GenerationsInv
  <1>4. CASE Tick
    BY <1>2, <1>3, <1>4 DEF Tick
  <1>5. CASE DeclareLink \/ DeclarePath \/ DeclareFlow
    <2>1. UNCHANGED <<generationVars, historyVars, sent>>
      BY <1>5 DEF DeclareLink, DeclarePath, DeclareFlow, Declare, worldVars
    <2>2. IsFiniteSet(DOMAIN topology'.flows)
      <3>1. \/ topology'.flows = topology.flows
            \/ \E f \in Flows, b \in FlowBinding : topology'.flows = Put(topology.flows, f, b)
        BY <1>5, Declares DEF Declaration
      <3>2. ASSUME NEW f, NEW b, topology'.flows = Put(topology.flows, f, b)
            PROVE  IsFiniteSet(DOMAIN topology'.flows)
        <4>1. DOMAIN topology'.flows = DOMAIN topology.flows \cup {f}
          BY <3>2 DEF Put
        <4> QED BY <1>3, <4>1, FS_AddElement
      <3> QED BY <1>3, <3>1, <3>2
    <2> QED BY <1>2, <1>3, <2>1, <2>2
  <1>6. CASE Measure
    <2>1. UNCHANGED <<topology, generationVars, historyVars>>
      BY <1>6 DEF Measure
    <2>2. ASSUME NEW item \in sent'
          PROVE  item.observation.observed_at \in Instants
      BY <1>3, <1>6 DEF Measure
    <2> QED BY <1>2, <1>3, <2>1, <2>2
  <1>7. ASSUME NEW item \in sent, Deliver(item)
        PROVE  RecordsInv'
    BY <1>1, <1>7, DeliveryKeeps DEF RecordsInv
  <1>8. CASE UNCHANGED evidenceVars
    BY <1>2, <1>3, <1>8 DEF evidenceVars, worldVars
  <1> QED BY <1>4, <1>5, <1>6, <1>7, <1>8 DEF Next, Happen

LEMMA RecordsHold == Spec => []RecordsInv
  <1>1. IInv /\ RecordsInv /\ [Next]_evidenceVars => (IInv /\ RecordsInv)'
    BY NextKeeps, RecordsNext
  <1>2. Init => IInv /\ RecordsInv
    BY InitHolds, RecordsInit
  <1> QED BY <1>1, <1>2, PTL DEF Spec

-----------------------------------------------------------------------------
(* The generation that is current.                                         *)

(* Of the generations that started, one outranks all the others: among     *)
(* those that cover the instant, or among all if none does, the largest of *)
(* those that started last.                                                *)
LEMMA OneOutranks ==
    ASSUME NEW w \in FiniteWindows, NEW at \in Nat, Started(w, at) # {}
    PROVE  \E g \in Started(w, at) : \A h \in Started(w, at) \ {g} : Outranks(w, at, g, h)
  <1> DEFINE St       == Started(w, at)
             covering == {g \in St : Covers(w[g], at)}
             best     == IF covering # {} THEN covering ELSE St
             starts   == {w[g].first_seen : g \in best}
  <1>1. /\ IsFiniteSet(DOMAIN w) /\ St \subseteq DOMAIN w
        /\ \A g \in DOMAIN w : g \in Nat /\ w[g].first_seen \in Nat /\ w[g].last_seen \in Nat
    <2>1. w \in PartialFunctions(Generations, GenerationRecord) /\ IsFiniteSet(DOMAIN w)
      BY DEF FiniteWindows, Windows
    <2>2. \A g \in DOMAIN w : g \in Generations /\ w[g] \in GenerationRecord
      BY <2>1, PartialIs
    <2> QED BY <2>1, <2>2, GenerationAssumption DEF GenerationRecord, Started
  <1>2. best \subseteq St /\ best # {}
    OBVIOUS
  <1>3. \A g \in best, h \in St : \/ Covers(w[g], at) /\ ~Covers(w[h], at)
                                  \/ h \in best /\ (Covers(w[g], at) <=> Covers(w[h], at))
    OBVIOUS
  <1> HIDE DEF St, covering, best
  <1>4. IsFiniteSet(best) /\ IsFiniteSet(starts)
    <2>1. IsFiniteSet(best)
      BY <1>1, <1>2, FS_Subset
    <2> DEFINE first == [g \in best |-> w[g].first_seen]
    <2>2. first \in Surjection(best, starts)
      BY DEF Surjection
    <2> HIDE DEF first, starts
    <2> QED BY <2>1, <2>2, FS_Surjection
  <1>5. starts \in SUBSET Nat /\ starts # {}
    BY <1>1, <1>2
  <1>6. Max(starts) \in starts /\ \A s \in starts : Max(starts) >= s
    <2> HIDE DEF starts
    <2> QED BY <1>4, <1>5, MaxIsGreatest
  <1> DEFINE last   == Max(starts)
             latest == {g \in best : w[g].first_seen = last}
  <1> HIDE DEF last
  <1>7. /\ latest \in SUBSET Nat /\ latest # {} /\ IsFiniteSet(latest)
        /\ \A g \in best : last >= w[g].first_seen
    <2>1. latest \in SUBSET Nat /\ latest # {}
      BY <1>1, <1>2, <1>6 DEF last
    <2>2. latest \subseteq best
      OBVIOUS
    <2>3. IsFiniteSet(latest)
      <3> HIDE DEF latest
      <3> QED BY <1>4, <2>2, FS_Subset
    <2>4. \A g \in best : last >= w[g].first_seen
      BY <1>6 DEF last
    <2> QED BY <2>1, <2>3, <2>4
  <1>8. Max(latest) \in latest /\ \A g \in latest : Max(latest) >= g
    <2> HIDE DEF latest
    <2> QED BY <1>7, MaxIsGreatest
  <1> DEFINE g == Max(latest)
  <1> HIDE DEF g
  <1>9. /\ g \in best /\ g \in St /\ w[g].first_seen = last
        /\ \A h \in best : w[h].first_seen = last => g >= h
    BY <1>2, <1>8 DEF g
  <1>10. ASSUME NEW h \in St \ {g}
         PROVE  Outranks(w, at, g, h)
    <2>1. CASE Covers(w[g], at) /\ ~Covers(w[h], at)
      BY <2>1 DEF Outranks
    <2>2. CASE h \in best /\ (Covers(w[g], at) <=> Covers(w[h], at))
      <3>1. /\ g \in Nat /\ h \in Nat /\ h # g
            /\ w[g].first_seen \in Nat /\ w[h].first_seen \in Nat
        BY <1>1, <1>2, <1>9, <2>2
      <3>2. w[g].first_seen >= w[h].first_seen /\ (w[h].first_seen = w[g].first_seen => g >= h)
        BY <1>7, <1>9, <2>2
      <3> QED BY <2>2, <3>1, <3>2 DEF Outranks
    <2> QED BY <1>3, <1>9, <2>1, <2>2
  <1> QED BY <1>9, <1>10 DEF St

LEMMA CurrentAtIs ==
    ASSUME NEW w \in FiniteWindows, NEW at \in Nat, NEW g, Started(w, at) # {}
    PROVE  g = CurrentAt(w, at) <=>
               /\ g \in Started(w, at)
               /\ \A h \in Started(w, at) \ {g} : Outranks(w, at, g, h)
  <1> DEFINE Best(x) == /\ x \in Started(w, at)
                        /\ \A h \in Started(w, at) \ {x} : Outranks(w, at, x, h)
  <1>1. Best(CurrentAt(w, at))
    BY OneOutranks DEF CurrentAt
  <1>2. ASSUME NEW x, NEW y, Best(x), Best(y)
        PROVE  x = y
    <2>1. \A h \in Started(w, at) : /\ h \in Nat /\ w[h].first_seen \in Nat
      <3>1. w \in PartialFunctions(Generations, GenerationRecord)
        BY DEF FiniteWindows, Windows
      <3>2. \A h \in DOMAIN w : h \in Generations /\ w[h] \in GenerationRecord
        BY <3>1, PartialIs
      <3> QED BY <3>2, GenerationAssumption DEF GenerationRecord, Started
    <2>2. SUFFICES ASSUME x # y PROVE FALSE
      OBVIOUS
    <2>3. Outranks(w, at, x, y) /\ Outranks(w, at, y, x)
      BY <1>2, <2>2
    <2> QED BY <1>2, <2>1, <2>3 DEF Outranks
  <1> QED BY <1>1, <1>2

(* What a window says of its instants.                                     *)
LEMMA SpannedIs ==
    ASSUME NEW w \in FiniteWindows, NEW r, recorded \subseteq Recording,
           WindowsSpan(w, InstantsOf(r)), NEW at \in Instants, NEW h \in Generations
    PROVE  /\ h \in Started(w, at) <=> \E t \in RecordedAt(r, h) : t <= at
           /\ h \in DOMAIN w => (Covers(w[h], at) <=> \E t \in RecordedAt(r, h) : t >= at)
           /\ h \in DOMAIN w => w[h].first_seen = Min(RecordedAt(r, h))
  <1>1. RecordedAt(r, h) \in SUBSET Nat /\ at \in Nat
    BY GenerationAssumption DEF RecordedAt, Recording
  <1>2. InstantsOf(r)[h] = RecordedAt(r, h)
    BY DEF InstantsOf
  <1>3. CASE h \notin DOMAIN w
    <2>1. RecordedAt(r, h) = {}
      BY <1>2, <1>3 DEF WindowsSpan
    <2> QED BY <1>3, <2>1 DEF Started
  <1>4. CASE h \in DOMAIN w
    <2>1. /\ RecordedAt(r, h) # {}
          /\ w[h].first_seen \in RecordedAt(r, h) /\ w[h].last_seen \in RecordedAt(r, h)
          /\ \A i \in RecordedAt(r, h) : w[h].first_seen <= i /\ i <= w[h].last_seen
      BY <1>2, <1>4 DEF WindowsSpan, Spans
    <2>2. /\ Min(RecordedAt(r, h)) \in RecordedAt(r, h)
          /\ \A i \in RecordedAt(r, h) : Min(RecordedAt(r, h)) <= i
      BY <1>1, <2>1, MinIsLeast
    <2>3. w[h].first_seen = Min(RecordedAt(r, h))
      BY <1>1, <2>1, <2>2
    <2>4. w[h].first_seen <= at <=> \E t \in RecordedAt(r, h) : t <= at
      BY <1>1, <2>1
    <2>5. w[h].last_seen >= at <=> \E t \in RecordedAt(r, h) : t >= at
      BY <1>1, <2>1
    <2> QED BY <1>4, <2>3, <2>4, <2>5 DEF Started, Covers
  <1> QED BY <1>3, <1>4

LEMMA OrderCannotMatter == RecordsInv => ArrivalOrderCannotMatter
  <1> SUFFICES ASSUME RecordsInv,
                      NEW r \in {q.subject : q \in recorded} \ dropped,
                      NEW g \in Generations, NEW at \in Instants
               PROVE  Correlated(TableOf(r), r.id, g, at) = "Current"
                          <=> IsCurrentByRecordings(r, g, at)
    BY DEF ArrivalOrderCannotMatter, TableOf
  <1> DEFINE w == TableOf(r)[r.id]
  <1>1. /\ r \in Entity \ dropped /\ WasRecorded(r) /\ recorded \subseteq Recording
        /\ flowGenerations \in Tables(Flows) /\ pathGenerations \in Tables(Paths)
    BY DEF RecordsInv, GenerationsInv, WasRecorded
  <1>2. Reflects(TableOf(r), r)
    BY <1>1 DEF RecordsInv, RecordingsInv
  <1>3. r.id \in DOMAIN TableOf(r) /\ WindowsSpan(w, InstantsOf(r))
    BY <1>1, <1>2 DEF Reflects
  <1>4. w \in FiniteWindows
    BY <1>1, <1>3, PartialIs DEF TableOf, Tables
  <1> HIDE DEF w
  <1>5. at \in Nat
    BY GenerationAssumption
  <1>6. Correlated(TableOf(r), r.id, g, at) = "Current"
            <=> /\ g \in Started(w, at)
                /\ \A h \in Started(w, at) \ {g} : Outranks(w, at, g, h)
    <2>1. CASE Started(w, at) = {}
      BY <1>3, <2>1 DEF Correlated, w
    <2>2. CASE Started(w, at) # {}
      <3>1. g = CurrentAt(w, at) <=> /\ g \in Started(w, at)
                                     /\ \A h \in Started(w, at) \ {g} : Outranks(w, at, g, h)
        BY <1>4, <1>5, <2>2, CurrentAtIs
      <3>2. Correlated(TableOf(r), r.id, g, at) =
                IF g = CurrentAt(w, at) THEN "Current" ELSE "Superseded"
        BY <1>3, <2>2 DEF Correlated, w
      <3> QED BY <3>1, <3>2
    <2> QED BY <2>1, <2>2
  <1> DEFINE early(h) == \E t \in RecordedAt(r, h) : t <= at
             late(h)  == \E t \in RecordedAt(r, h) : t >= at
             start(h) == Min(RecordedAt(r, h))
             Above(h) == \/ late(g) /\ ~late(h)
                         \/ /\ late(g) \/ ~late(h)
                            /\ start(g) > start(h) \/ (start(g) = start(h) /\ g > h)
  <1>7. IsCurrentByRecordings(r, g, at) <=>
            early(g) /\ \A h \in Generations \ {g} : early(h) => Above(h)
    BY DEF IsCurrentByRecordings
  <1>8. ASSUME NEW h \in Generations
        PROVE  /\ h \in Started(w, at) <=> early(h)
               /\ h \in DOMAIN w => (Covers(w[h], at) <=> late(h))
               /\ h \in DOMAIN w => w[h].first_seen = start(h)
    BY <1>1, <1>3, <1>4, SpannedIs
  <1> HIDE DEF early, late, start
  <1>9. Started(w, at) \subseteq DOMAIN w /\ DOMAIN w \subseteq Generations
    <2>1. w \in PartialFunctions(Generations, GenerationRecord)
      BY <1>4 DEF FiniteWindows, Windows
    <2> QED BY <2>1, PartialIs DEF Started
  <1>10. ASSUME g \in Started(w, at), NEW h \in Started(w, at)
         PROVE  Outranks(w, at, g, h) <=> Above(h)
    BY <1>8, <1>9, <1>10 DEF Outranks
  <1> HIDE DEF Above
  <1> QED BY <1>6, <1>7, <1>8, <1>9, <1>10

(* What correlate says of a generation at an instant follows from the set  *)
(* of what was recorded of the entity, as long as the bounded table never  *)
(* dropped it: in whatever order the evidence came, however late and       *)
(* however often, and of however many generations (generation.cpp:49).     *)
THEOREM OrderOfArrivalCannotMatter == Spec => []ArrivalOrderCannotMatter
  BY RecordsHold, OrderCannotMatter, PTL

-----------------------------------------------------------------------------
(* The types.                                                              *)

LEMMA RegistryTyped == Init => RegistryTypeOK
  <1> SUFFICES ASSUME Init PROVE RegistryTypeOK
    OBVIOUS
  <1> DEFINE NoFence == [high_water |-> 0, seen |-> << >>]
  <1>1. /\ sources = Sources
        /\ incarnations \in [Sources -> {<<Live(e)>> : e \in Epochs}]
        /\ fence = [s \in Sources |-> [e \in Epochs |-> NoFence]]
        /\ admitted = [s \in Sources |-> [e \in Epochs |-> << >>]]
    BY DEF Init
  <1>2. \A e \in Epochs : <<Live(e)>> \in Seq(Incarnation)
    <2>1. \A e \in Epochs : Live(e) \in Incarnation
      BY DEF Live, Incarnation
    <2> QED BY <2>1
  <1>3. incarnations \in [Sources -> Seq(Incarnation)]
    BY <1>1, <1>2
  <1>4. NoFence \in SequenceState
    BY RegistryAssumption DEF SequenceState
  <1> HIDE DEF NoFence
  <1>5. fence \in [Sources -> [Epochs -> SequenceState]]
    BY <1>1, <1>4
  <1>6. admitted \in [Sources -> [Epochs -> Seq(SequenceNumbers)]]
    BY <1>1
  <1> QED BY <1>1, <1>3, <1>5, <1>6 DEF RegistryTypeOK

LEMMA RegistryStays == RegistryTypeOK /\ [Next]_evidenceVars => RegistryTypeOK'
  <1> SUFFICES ASSUME RegistryTypeOK, [Next]_evidenceVars PROVE RegistryTypeOK'
    OBVIOUS
  <1>1. UNCHANGED registryVars
    BY DEF Next, Happen, Tick, DeclareLink, DeclarePath, DeclareFlow, Declare, Measure, Deliver,
           evidenceVars
  <1> QED BY <1>1 DEF RegistryTypeOK, registryVars

(* The tables keep within their bounds and types, whatever is declared,    *)
(* measured and delivered: a full table of generations makes room before a *)
(* new entity enters (generation.cpp:40), and every accepted declaration   *)
(* takes the next revision (topology.cpp:308).                             *)
THEOREM TypeCorrect == Spec => []TypeOK
  <1>1. IInv /\ RecordsInv /\ RegistryTypeOK => TypeOK
    <2> SUFFICES ASSUME IInv, RecordsInv, RegistryTypeOK PROVE TypeOK
      OBVIOUS
    <2>1. GenerationTypeOK
      <3>1. \A S : FiniteWindows \subseteq Windows /\ PartialFunctions(S, FiniteWindows) \subseteq PartialFunctions(S, Windows)
        BY DEF FiniteWindows, PartialFunctions
      <3> QED BY <3>1 DEF RecordsInv, GenerationsInv, Tables, GenerationTypeOK
    <2>2. TopologyTypeOK
      <3>1. \A S, T, f : f \in PartialFunctions(S, T) => TableOK(f, S, T)
        BY DEF PartialFunctions, TableOK
      <3> QED BY <3>1 DEF IInv, WorldInv, TopologyRecord, TopologyTypeOK
    <2>3. /\ now \in Instants /\ sent \subseteq EvidenceItem /\ held \subseteq EvidenceItem
          /\ recorded \subseteq Recording /\ dropped \subseteq SubjectRef
          /\ uncounted \subseteq Revisions
      BY DEF IInv, WorldInv, RecordsInv, GenerationsInv
    <2> QED BY <2>1, <2>2, <2>3 DEF TypeOK, EvidenceTypeOK
  <1>2. Spec => []RegistryTypeOK
    BY RegistryTyped, RegistryStays, PTL DEF Spec
  <1> QED BY <1>1, <1>2, InvHolds, RecordsHold, PTL

==============================================================================
