----------------------------- MODULE Verdict_proofs -----------------------------
(***************************************************************************)
(* What a verdict rests on and what it rules out, for every policy, any    *)
(* evidence and every state of the registries behind a context.            *)
(*                                                                         *)
(* First the classifier and the localizer, for any sequence of             *)
(* observations; then what a derivation is made of; then the answers, by   *)
(* an invariant of the specification and one theorem per property.         *)
(***************************************************************************)
EXTENDS Verdict, FiniteSetTheorems, SequenceTheorems, WellFoundedInduction, TLAPS

-----------------------------------------------------------------------------
(* Absence, and silence.                                                   *)

(* The ladder names an absence of loss only where no counter of drops      *)
(* advanced.                                                               *)
LEMMA LadderHearsCounters ==
    ASSUME NEW tally, VerdictClass(tally) = "NoLossObserved"
    PROVE  ~tally.direct_positive
  <1>1. Unspoken(tally) # "NoLossObserved"
    BY DEF Unspoken
  <1> QED BY <1>1 DEF VerdictClass

(* What the classifier says without asking the ladder is no absence of     *)
(* loss.                                                                   *)
LEMMA AbsenceComesFromTheLadder ==
    ASSUME NEW observations, NEW context,
           AssertsAbsence(Classify(observations, context).klass)
    PROVE  VerdictClass(Tally(Admissible(observations, context))) = "NoLossObserved"
  BY DEF Classify, ClassifyBy, Judged, Conclusion, Judgement, AssertsAbsence

(* Classifier::classify reports an absence of loss only where no           *)
(* admissible counter of drops advanced.                                   *)
THEOREM AbsenceHearsCounters ==
    ASSUME NEW observations, NEW context,
           AssertsAbsence(Classify(observations, context).klass)
    PROVE  \A o \in ToSet(Admissible(observations, context)) : ~(IsDirect(o) /\ o.lost > 0)
  <1>1. ~Tally(Admissible(observations, context)).direct_positive
    BY AbsenceComesFromTheLadder, LadderHearsCounters
  <1> QED BY <1>1 DEF Tally

(* A conclusion from nothing counts nothing.                               *)
LEMMA ConclusionFromNothing ==
    ASSUME NEW tally, NEW claims, NEW conflict, NEW klass, NEW score
    PROVE  LET said == Conclusion(<< >>, tally, claims, conflict, klass, score)
           IN  said.klass = klass /\ said.lost = 0 /\ said.offered = 0
  BY DEF Conclusion

(* A judgement with nothing admissible says so and counts nothing.         *)
LEMMA JudgedByNothing ==
    ASSUME NEW observations, NEW context, NEW tally, NEW claims, NEW conflict
    PROVE  LET said == Judged(observations, context, << >>, tally, claims, conflict)
           IN  /\ said.klass \in {"AbsentEvidence", "StaleEvidence"}
               /\ said.lost = 0 /\ said.offered = 0
  <1> DEFINE klass == Judgement(observations, << >>, tally, conflict)
             score == Score(ConfidenceTerms(observations, context, tally, klass,
                                            {c \in claims : c.fresh}, conflict), klass)
  <1>1. Judged(observations, context, << >>, tally, claims, conflict)
            = Conclusion(<< >>, tally, claims, conflict, klass, score)
    BY Zenon DEF Judged
  <1>2. klass \in {"AbsentEvidence", "StaleEvidence"}
    BY DEF Judgement
  <1> HIDE DEF klass, score
  <1> QED BY <1>1, <1>2, ConclusionFromNothing

(* Stale evidence cannot be promoted into loss (classify.hpp:259): where   *)
(* nothing is admissible, Classifier::classify says that there is no       *)
(* evidence or that it is stale, and counts nothing.                       *)
THEOREM NothingFreshNothingSaid ==
    ASSUME NEW observations, NEW context, Admissible(observations, context) = << >>
    PROVE  /\ Classify(observations, context).klass \in {"AbsentEvidence", "StaleEvidence"}
           /\ Classify(observations, context).lost = 0
           /\ Classify(observations, context).offered = 0
  <1>1. PICK tally, claims, conflict :
            Classify(observations, context)
                = Judged(observations, context, << >>, tally, claims, conflict)
    BY Zenon DEF Classify, ClassifyBy
  <1> QED BY <1>1, JudgedByNothing

-----------------------------------------------------------------------------
(* Folds.  A fold over a sequence is a recursion over sets of positions,   *)
(* each from the set without its greatest; on prefixes that is one step    *)
(* from each position to the next.                                         *)

(* Every set of naturals that is not empty has a least element.            *)
LEMMA Least ==
    ASSUME NEW T \in SUBSET Nat, T # {}
    PROVE  \E x \in T : \A y \in T : x <= y
  <1>1. PICK x \in T : \A y \in T : ~ (<<y, x>> \in OpToRel(<, Nat))
    BY NatLessThanWellFounded, WFMin, Zenon
  <1>2. ASSUME NEW y \in T
        PROVE  x <= y
    <2>1. x \in Nat /\ y \in Nat
      OBVIOUS
    <2>2. ~ (y < x)
      BY <1>1, <2>1 DEF OpToRel
    <2> QED BY <2>1, <2>2
  <1> QED BY <1>2

(* So a set of naturals with 0 and the successor of each of its elements   *)
(* below n has n.                                                          *)
LEMMA ReachesEach ==
    ASSUME NEW n \in Nat, NEW Holds,
           0 \in Holds, \A k \in 1..n : k - 1 \in Holds => k \in Holds
    PROVE  \A k \in 0..n : k \in Holds
  <1> DEFINE Failing == {k \in 0..n : k \notin Holds}
  <1>1. SUFFICES ASSUME Failing # {} PROVE FALSE
    OBVIOUS
  <1>2. PICK k \in Failing : \A j \in Failing : k <= j
    <2>1. Failing \in SUBSET Nat
      OBVIOUS
    <2> HIDE DEF Failing
    <2> QED BY <1>1, <2>1, Least
  <1>3. k \in 1..n /\ k - 1 \in 0..n /\ k - 1 < k
    BY <1>2
  <1>4. k - 1 \in Holds
    BY <1>2, <1>3
  <1> QED BY <1>2, <1>3, <1>4

(* The greatest of a set of positions.                                     *)
LEMMA GreatestIs ==
    ASSUME NEW s \in SUBSET Nat, NEW m \in s, \A y \in s : y <= m
    PROVE  Max(s) = m
  <1>1. \A x \in s : (\A y \in s : x >= y) => x = m
    BY SMT
  <1>2. \A y \in s : m >= y
    BY SMT
  <1> QED BY <1>1, <1>2 DEF Max

(* Positions, if any, have a greatest.                                     *)
LEMMA PositionsHaveGreatest ==
    ASSUME NEW n \in Nat, NEW s \in SUBSET (1..n), s # {}
    PROVE  Max(s) \in s
  <1> DEFINE Above == {k \in 0..n : \A y \in s : y <= k}
  <1>1. n \in Above /\ Above \in SUBSET Nat
    OBVIOUS
  <1>2. PICK m \in Above : \A k \in Above : m <= k
    <2> HIDE DEF Above
    <2> QED BY <1>1, Least
  <1>3. m \in s
    <2> SUFFICES ASSUME m \notin s PROVE FALSE
      OBVIOUS
    <2>1. \A y \in s : y <= m - 1 /\ y >= 1
      <3>1. m \in Nat /\ \A y \in s : y \in Nat /\ y >= 1 /\ y <= m /\ y # m
        BY <1>2
      <3> QED BY <3>1
    <2>2. m \in Nat /\ m <= n /\ m >= 1
      <3>1. PICK y \in s : TRUE
        OBVIOUS
      <3> QED BY <1>2, <2>1, <3>1
    <2>3. m - 1 \in Above /\ ~ (m <= m - 1)
      BY <2>1, <2>2
    <2> HIDE DEF Above
    <2> QED BY <1>2, <2>3
  <1>4. Max(s) = m
    BY <1>2, <1>3, GreatestIs
  <1> QED BY <1>3, <1>4

(* The recursion has a solution.                                           *)
FoldsBy(f, n, base, op) ==
    \A s \in SUBSET (1..n) :
        f[s] = IF s = {} THEN base ELSE op[<<f[s \ {Max(s)}], Max(s)>>]

FoldExistsTo(n, T, base, op) == \E f \in [SUBSET (1..n) -> T] : FoldsBy(f, n, base, op)

(* It has one for any base and step over a set of values.                  *)
LEMMA FoldExists ==
    ASSUME NEW n \in Nat, NEW T, NEW base \in T, NEW op \in [T \X Nat -> T]
    PROVE  FoldExistsTo(n, T, base, op)
  <1> DEFINE Holds == {k \in Nat : FoldExistsTo(k, T, base, op)}
  <1>1. 0 \in Holds
    <2> DEFINE f == [s \in SUBSET (1..0) |-> base]
    <2>1. f \in [SUBSET (1..0) -> T] /\ \A s \in SUBSET (1..0) : f[s] = base /\ s = {}
      OBVIOUS
    <2> QED BY <2>1 DEF FoldExistsTo, FoldsBy
  <1>2. ASSUME NEW k \in 1..n, k - 1 \in Holds
        PROVE  k \in Holds
    <2>1. PICK f \in [SUBSET (1..(k - 1)) -> T] : FoldsBy(f, k - 1, base, op)
      BY <1>2 DEF FoldExistsTo
    <2> DEFINE g == [s \in SUBSET (1..k) |->
                        IF k \in s THEN op[<<f[s \ {k}], k>>] ELSE f[s]]
    <2>2. ASSUME NEW s \in SUBSET (1..k)
          PROVE  /\ s \ {k} \in SUBSET (1..(k - 1))
                 /\ k \notin s => s \in SUBSET (1..(k - 1))
                 /\ k \in s => Max(s) = k
      <3>1. \A y \in s : y \in Nat /\ y <= k
        OBVIOUS
      <3>2. k \in s => Max(s) = k
        BY <3>1, GreatestIs
      <3> QED BY <3>1, <3>2
    <2>3. g \in [SUBSET (1..k) -> T]
      <3>1. ASSUME NEW s \in SUBSET (1..k)
            PROVE  g[s] \in T
        <4>1. f[s \ {k}] \in T /\ (k \notin s => f[s] \in T)
          BY <2>2
        <4> QED BY <4>1
      <3> QED BY <3>1
    <2>4. ASSUME NEW s \in SUBSET (1..k)
          PROVE  g[s] = IF s = {} THEN base ELSE op[<<g[s \ {Max(s)}], Max(s)>>]
      <3>1. CASE k \in s
        <4>1. g[s] = op[<<f[s \ {k}], k>>]
          BY <3>1
        <4>2. g[s \ {k}] = f[s \ {k}]
          OBVIOUS
        <4>3. Max(s) = k /\ s # {}
          BY <2>2, <3>1
        <4> HIDE DEF g
        <4> QED BY <4>1, <4>2, <4>3
      <3>2. CASE k \notin s
        <4>1. s \in SUBSET (1..(k - 1))
          BY <2>2, <3>2
        <4>2. g[s] = f[s] /\ g[s \ {Max(s)}] = f[s \ {Max(s)}]
          BY <3>2
        <4> HIDE DEF g
        <4> QED BY <2>1, <4>1, <4>2 DEF FoldsBy
      <3> QED BY <3>1, <3>2
    <2> HIDE DEF g
    <2>5. FoldsBy(g, k, base, op)
      BY <2>4 DEF FoldsBy
    <2> QED BY <2>3, <2>5 DEF FoldExistsTo
  <1>3. n \in 0..n
    OBVIOUS
  <1> HIDE DEF Holds
  <1>4. n \in Holds
    BY <1>1, <1>2, <1>3, ReachesEach
  <1> QED BY <1>4 DEF Holds

(* A prefix without its last position.                                     *)
LEMMA FirstPositions ==
    ASSUME NEW n \in Nat, NEW k \in 1..n
    PROVE  1..k \in (SUBSET (1..n)) \ {{}} /\ Max(1..k) = k /\ (1..k) \ {k} = 1..(k - 1)
  <1>1. k \in 1..k /\ 1..k \in SUBSET Nat /\ \A y \in 1..k : y <= k
    OBVIOUS
  <1>2. Max(1..k) = k
    BY <1>1, GreatestIs
  <1>3. (1..k) \ {k} = 1..(k - 1)
    OBVIOUS
  <1>4. 1..k \in (SUBSET (1..n)) \ {{}}
    BY <1>1
  <1> QED BY <1>2, <1>3, <1>4

(* Selection, position by position.                                        *)
SelectsBy(g, sequence, wanted) ==
    /\ g[0] = << >>
    /\ \A k \in 1..Len(sequence) :
          g[k] = IF sequence[k] \in wanted THEN Append(g[k - 1], sequence[k]) ELSE g[k - 1]

(* The fold that selects does so.                                          *)
LEMMA AmongBySteps ==
    ASSUME NEW S, NEW sequence \in Seq(S), NEW wanted
    PROVE  \E g : SelectsBy(g, sequence, wanted) /\ Among(sequence, wanted) = g[Len(sequence)]
  <1> DEFINE n == Len(sequence)
             T == Seq(S)
             step(kept, x) == IF x \in wanted THEN Append(kept, x) ELSE kept
             op == [p \in T \X Nat |-> IF p[2] \in 1..n THEN step(p[1], sequence[p[2]])
                                       ELSE p[1]]
             Recursion(h) ==
                 h = [s \in SUBSET DOMAIN sequence |->
                        IF s = {} THEN << >> ELSE step(h[s \ {Max(s)}], sequence[Max(s)])]
             iter == CHOOSE h : Recursion(h)
  <1>1. n \in Nat /\ DOMAIN sequence = 1..n /\ \A k \in 1..n : sequence[k] \in S
    BY LenProperties
  <1>2. Among(sequence, wanted) = iter[DOMAIN sequence]
    BY DEF Among, FoldLeft, MapThenFoldSet
  <1>3. op \in [T \X Nat -> T]
    BY <1>1, AppendProperties
  <1>4. ASSUME NEW kept \in T, NEW k \in 1..n
        PROVE  op[<<kept, k>>] = step(kept, sequence[k])
    OBVIOUS
  <1> HIDE DEF op, n
  <1>5. \E h : Recursion(h)
    <2>1. << >> \in T
      OBVIOUS
    <2>2. PICK h \in [SUBSET (1..n) -> T] : FoldsBy(h, n, << >>, op)
      BY <1>1, <1>3, <2>1, FoldExists DEF FoldExistsTo
    <2>3. ASSUME NEW s \in SUBSET (1..n), s # {}
          PROVE  h[s] = step(h[s \ {Max(s)}], sequence[Max(s)])
      <3>1. Max(s) \in 1..n
        BY <1>1, <2>3, PositionsHaveGreatest
      <3>2. h[s \ {Max(s)}] \in T
        OBVIOUS
      <3>3. h[s] = op[<<h[s \ {Max(s)}], Max(s)>>]
        BY <2>2, <2>3 DEF FoldsBy
      <3> HIDE DEF step, T
      <3> QED BY <1>4, <3>1, <3>2, <3>3
    <2>4. h[{}] = << >>
      BY <2>2 DEF FoldsBy
    <2> HIDE DEF step
    <2>5. Recursion(h)
      BY <1>1, <2>3, <2>4
    <2> QED BY <2>5
  <1>6. Recursion(iter)
    <2> HIDE DEF Recursion
    <2> QED BY <1>5
  <1> HIDE DEF iter
  <1> DEFINE g == [k \in 0..n |-> iter[1..k]]
  <1>7. \A s \in SUBSET (1..n) :
            iter[s] = IF s = {} THEN << >> ELSE step(iter[s \ {Max(s)}], sequence[Max(s)])
    <2> HIDE DEF step
    <2> QED BY <1>1, <1>6
  <1>8. g[0] = << >>
    <2>1. 1..0 = {} /\ {} \in SUBSET (1..n) /\ 0 \in 0..n
      BY <1>1
    <2> QED BY <1>7, <2>1
  <1>9. ASSUME NEW k \in 1..n
        PROVE  g[k] = step(g[k - 1], sequence[k])
    <2>1. g[k] = iter[1..k] /\ g[k - 1] = iter[1..(k - 1)]
      BY <1>1
    <2>2. 1..k \in (SUBSET (1..n)) \ {{}} /\ Max(1..k) = k /\ (1..k) \ {k} = 1..(k - 1)
      BY <1>1, FirstPositions
    <2>3. iter[1..k] = step(iter[(1..k) \ {Max(1..k)}], sequence[Max(1..k)])
      <3> HIDE DEF step
      <3> QED BY <1>7, <2>2
    <2>4. iter[1..k] = step(iter[1..(k - 1)], sequence[k])
      <3> HIDE DEF step
      <3> QED BY <2>2, <2>3
    <2> HIDE DEF g, step
    <2> QED BY <2>1, <2>4
  <1>10. Among(sequence, wanted) = g[n]
    BY <1>1, <1>2
  <1> HIDE DEF g
  <1> QED BY <1>8, <1>9, <1>10 DEF SelectsBy, n

(* A selection keeps the elements that are wanted, and no other.           *)
LEMMA AmongIs ==
    ASSUME NEW S, NEW sequence \in Seq(S), NEW wanted
    PROVE  /\ Among(sequence, wanted) \in Seq(S)
           /\ ToSet(Among(sequence, wanted)) = ToSet(sequence) \cap wanted
  <1>1. PICK g : SelectsBy(g, sequence, wanted) /\ Among(sequence, wanted) = g[Len(sequence)]
    BY AmongBySteps
  <1> DEFINE n == Len(sequence)
             Upto(k) == {sequence[i] : i \in 1..k}
             Right(k) == g[k] \in Seq(S) /\ ToSet(g[k]) = Upto(k) \cap wanted
             Holds == {k \in 0..n : Right(k)}
  <1>2. n \in Nat /\ DOMAIN sequence = 1..n /\ \A k \in 1..n : sequence[k] \in S
    BY LenProperties
  <1>3. Right(0)
    BY <1>1 DEF SelectsBy, ToSet
  <1>4. ASSUME NEW k \in 1..n, Right(k - 1)
        PROVE  Right(k)
    <2>1. Upto(k) = Upto(k - 1) \cup {sequence[k]}
      <3>1. \A i \in 1..k : i \in 1..(k - 1) \/ i = k
        OBVIOUS
      <3>2. \A i \in 1..(k - 1) : i \in 1..k
        OBVIOUS
      <3> QED BY <3>1, <3>2
    <2>2. g[k] = IF sequence[k] \in wanted THEN Append(g[k - 1], sequence[k]) ELSE g[k - 1]
      BY <1>1 DEF SelectsBy
    <2>3. ASSUME NEW w \in Seq(S), NEW x \in S
          PROVE  Append(w, x) \in Seq(S) /\ ToSet(Append(w, x)) = ToSet(w) \cup {x}
      <3>1. /\ Append(w, x) \in Seq(S) /\ Len(w) \in Nat /\ DOMAIN w = 1..Len(w)
            /\ DOMAIN Append(w, x) = 1..(Len(w) + 1)
            /\ Append(w, x)[Len(w) + 1] = x
            /\ \A i \in 1..Len(w) : Append(w, x)[i] = w[i]
        BY AppendProperties, LenProperties
      <3> DEFINE longer == Append(w, x)
      <3>2. \A i \in DOMAIN longer : i \in DOMAIN w \/ i = Len(w) + 1
        BY <3>1
      <3>3. Len(w) + 1 \in DOMAIN longer /\ \A i \in DOMAIN w : i \in DOMAIN longer
        BY <3>1
      <3> HIDE DEF longer
      <3> QED BY <3>1, <3>2, <3>3 DEF ToSet, longer
    <2>4. CASE sequence[k] \in wanted
      <3>1. g[k] = Append(g[k - 1], sequence[k])
        BY <2>2, <2>4
      <3> HIDE DEF Upto
      <3> QED BY <1>2, <1>4, <2>1, <2>3, <2>4, <3>1
    <2>5. CASE sequence[k] \notin wanted
      <3>1. g[k] = g[k - 1]
        BY <2>2, <2>5
      <3> HIDE DEF Upto
      <3> QED BY <1>4, <2>1, <2>5, <3>1
    <2> QED BY <2>4, <2>5
  <1>5. 0 \in Holds /\ \A k \in 1..n : k - 1 \in Holds => k \in Holds
    <2> HIDE DEF Right
    <2> QED BY <1>2, <1>3, <1>4
  <1>6. Right(n)
    <2>1. n \in 0..n
      BY <1>2
    <2>2. n \in Holds
      <3> HIDE DEF Holds
      <3> QED BY <1>2, <1>5, <2>1, ReachesEach
    <2> HIDE DEF Right
    <2> QED BY <2>2
  <1> QED BY <1>1, <1>2, <1>6 DEF ToSet

-----------------------------------------------------------------------------
(* The totals.                                                             *)

(* What is assumed of observations: they count in natural numbers.         *)
Counting(S) == \A o \in S : o.lost \in Nat /\ o.offered \in Nat

TotalsType == [lost : Words, offered : Words, saturated : BOOLEAN]

Totals(observations) == FoldLeft(Totalled, NoTotals, observations)

(* One observation added to the totals: still words; saturation stays, and *)
(* comes with the top; anything else that is lost is lost by a valid       *)
(* observation.                                                            *)
LEMMA TotalledIs ==
    ASSUME NEW t \in TotalsType, NEW o,
           o.lost \in Nat, o.offered \in Nat
    PROVE  /\ Totalled(t, o) \in TotalsType
           /\ t.saturated /\ t.lost = Top =>
                 Totalled(t, o).saturated /\ Totalled(t, o).lost = Top
           /\ Totalled(t, o).saturated /\ ~t.saturated => Totalled(t, o).lost = Top
           /\ ~Totalled(t, o).saturated /\ Totalled(t, o).lost # t.lost =>
                 o.validity = "Valid" /\ o.lost > 0
  <1> DEFINE after == Totalled(t, o)
  <1>1. /\ t.lost \in Words /\ t.offered \in Words /\ t.saturated \in BOOLEAN
        /\ Word \in Nat /\ Word > 0 /\ Top \in Words
        /\ \A x \in Words : x \in Nat /\ x <= Top
        /\ t = [lost |-> t.lost, offered |-> t.offered, saturated |-> t.saturated]
    BY ArithmeticAssumption DEF TotalsType, ArithmeticAssumption, Words, Top
  <1>2. ASSUME NEW a \in Words, NEW b \in Nat
        PROVE  /\ ~ Overflows(a, b) => a + b \in Words
               /\ SaturatingSum(a, b) = IF Overflows(a, b) THEN Top ELSE a + b
               /\ a = Top /\ ~ Overflows(a, b) => b = 0
               /\ Overflows(a, b) \in BOOLEAN
    BY <1>1 DEF Overflows, SaturatingSum, Words, Top
  <1>3. CASE IsDirect(o)
    <2>1. after = [lost |-> SaturatingSum(t.lost, o.lost), offered |-> t.offered,
                   saturated |-> t.saturated \/ Overflows(t.lost, o.lost)]
      BY <1>1, <1>3 DEF Totalled
    <2>2. o.validity = "Valid"
      BY <1>3 DEF IsDirect
    <2> HIDE DEF after
    <2>3. CASE Overflows(t.lost, o.lost)
      <3>1. after = [lost |-> Top, offered |-> t.offered, saturated |-> TRUE]
        BY <1>1, <1>2, <2>1, <2>3
      <3> QED BY <1>1, <3>1 DEF TotalsType, after
    <2>4. CASE ~Overflows(t.lost, o.lost)
      <3>1. after = [lost |-> t.lost + o.lost, offered |-> t.offered, saturated |-> t.saturated]
        BY <1>1, <1>2, <2>1, <2>4
      <3>2. t.lost + o.lost \in Words /\ (t.lost = Top => o.lost = 0) /\ t.lost \in Nat
        BY <1>1, <1>2, <2>4
      <3> QED BY <1>1, <2>2, <3>1, <3>2 DEF TotalsType, after
    <2> QED BY <2>3, <2>4
  <1>4. CASE ~IsDirect(o) /\ ~(IsRatio(o) /\ o.ratio_defined)
    <2>1. after = t
      BY <1>4 DEF Totalled
    <2> QED BY <2>1
  <1>5. CASE ~IsDirect(o) /\ IsRatio(o) /\ o.ratio_defined
    <2>1. o.validity = "Valid"
      BY <1>5 DEF IsRatio
    <2>2. CASE Overflows(t.lost, o.lost) \/ Overflows(t.offered, o.offered)
      <3>1. after = [lost |-> Top, offered |-> Top, saturated |-> TRUE]
        BY <1>5, <2>2 DEF Totalled
      <3> HIDE DEF after
      <3> QED BY <1>1, <3>1 DEF TotalsType, after
    <2>3. CASE ~Overflows(t.lost, o.lost) /\ ~Overflows(t.offered, o.offered)
      <3>1. after = [lost |-> t.lost + o.lost, offered |-> t.offered + o.offered,
                     saturated |-> t.saturated]
        BY <1>1, <1>5, <2>3 DEF Totalled
      <3>2. /\ t.lost + o.lost \in Words /\ (t.lost = Top => o.lost = 0) /\ t.lost \in Nat
            /\ t.offered + o.offered \in Words
        BY <1>1, <1>2, <2>3
      <3> HIDE DEF after
      <3> QED BY <1>1, <2>1, <3>1, <3>2 DEF TotalsType, after
    <2> QED BY <2>2, <2>3
  <1> QED BY <1>3, <1>4, <1>5

(* Adding up, position by position.                                        *)
TotalsBy(g, observations) ==
    /\ g[0] = NoTotals
    /\ \A k \in 1..Len(observations) : g[k] = Totalled(g[k - 1], observations[k])

(* The totals are added up so.                                             *)
LEMMA TotalsBySteps ==
    ASSUME NEW S, Counting(S), NEW observations \in Seq(S)
    PROVE  \E g : TotalsBy(g, observations) /\ Totals(observations) = g[Len(observations)]
  <1> DEFINE n == Len(observations)
             T == TotalsType
             op == [p \in T \X Nat |-> IF p[2] \in 1..n
                                       THEN Totalled(p[1], observations[p[2]]) ELSE p[1]]
             Recursion(h) ==
                 h = [s \in SUBSET DOMAIN observations |->
                        IF s = {} THEN NoTotals
                        ELSE Totalled(h[s \ {Max(s)}], observations[Max(s)])]
             iter == CHOOSE h : Recursion(h)
  <1>1. n \in Nat /\ DOMAIN observations = 1..n /\ \A k \in 1..n : observations[k] \in S
    BY LenProperties
  <1>2. Totals(observations) = iter[DOMAIN observations]
    BY DEF Totals, FoldLeft, MapThenFoldSet
  <1>3. op \in [T \X Nat -> T]
    <2>1. ASSUME NEW t \in T, NEW k \in 1..n
          PROVE  Totalled(t, observations[k]) \in T
      BY <1>1, TotalledIs DEF Counting
    <2> HIDE DEF T, n
    <2> QED BY <2>1
  <1>4. ASSUME NEW t \in T, NEW k \in 1..n
        PROVE  op[<<t, k>>] = Totalled(t, observations[k])
    OBVIOUS
  <1> HIDE DEF op, n
  <1>5. \E h : Recursion(h)
    <2>1. NoTotals \in T
      BY ArithmeticAssumption DEF NoTotals, TotalsType, Words, ArithmeticAssumption
    <2> HIDE DEF T
    <2>2. PICK h \in [SUBSET (1..n) -> T] : FoldsBy(h, n, NoTotals, op)
      BY <1>1, <1>3, <2>1, FoldExists DEF FoldExistsTo
    <2>3. ASSUME NEW s \in SUBSET (1..n), s # {}
          PROVE  h[s] = Totalled(h[s \ {Max(s)}], observations[Max(s)])
      <3>1. Max(s) \in 1..n
        BY <1>1, <2>3, PositionsHaveGreatest
      <3>2. h[s \ {Max(s)}] \in T
        OBVIOUS
      <3>3. h[s] = op[<<h[s \ {Max(s)}], Max(s)>>]
        BY <2>2, <2>3 DEF FoldsBy
      <3> QED BY <1>4, <3>1, <3>2, <3>3
    <2>4. h[{}] = NoTotals
      BY <2>2 DEF FoldsBy
    <2>5. Recursion(h)
      BY <1>1, <2>3, <2>4
    <2> QED BY <2>5
  <1>6. Recursion(iter)
    <2> HIDE DEF Recursion
    <2> QED BY <1>5
  <1> HIDE DEF iter
  <1> DEFINE g == [k \in 0..n |-> iter[1..k]]
  <1>7. \A s \in SUBSET (1..n) :
            iter[s] = IF s = {} THEN NoTotals
                      ELSE Totalled(iter[s \ {Max(s)}], observations[Max(s)])
    BY <1>1, <1>6
  <1>8. g[0] = NoTotals
    <2>1. 1..0 = {} /\ {} \in SUBSET (1..n) /\ 0 \in 0..n
      BY <1>1
    <2> QED BY <1>7, <2>1
  <1>9. ASSUME NEW k \in 1..n
        PROVE  g[k] = Totalled(g[k - 1], observations[k])
    <2>1. g[k] = iter[1..k] /\ g[k - 1] = iter[1..(k - 1)]
      BY <1>1
    <2>2. 1..k \in (SUBSET (1..n)) \ {{}} /\ Max(1..k) = k /\ (1..k) \ {k} = 1..(k - 1)
      BY <1>1, FirstPositions
    <2>3. iter[1..k] = Totalled(iter[(1..k) \ {Max(1..k)}], observations[Max(1..k)])
      BY <1>7, <2>2
    <2>4. iter[1..k] = Totalled(iter[1..(k - 1)], observations[k])
      BY <2>2, <2>3
    <2> HIDE DEF g
    <2> QED BY <2>1, <2>4
  <1>10. Totals(observations) = g[n]
    BY <1>1, <1>2
  <1> HIDE DEF g
  <1> QED BY <1>8, <1>9, <1>10 DEF TotalsBy, n

(* The totals are words; one that went over the top says so and stays      *)
(* there; and where none did, what was lost was lost in some observation.  *)
LEMMA TotalsAre ==
    ASSUME NEW S, Counting(S), NEW observations \in Seq(S)
    PROVE  /\ Totals(observations) \in TotalsType
           /\ Totals(observations).saturated => Totals(observations).lost = Top
           /\ ~Totals(observations).saturated /\ Totals(observations).lost # 0 =>
                 \E o \in ToSet(observations) : o.validity = "Valid" /\ o.lost > 0
  <1>1. PICK g : TotalsBy(g, observations) /\ Totals(observations) = g[Len(observations)]
    BY TotalsBySteps
  <1> DEFINE n == Len(observations)
             Witnessed == \E o \in ToSet(observations) : o.validity = "Valid" /\ o.lost > 0
             Right(k) == /\ g[k] \in TotalsType
                         /\ g[k].saturated => g[k].lost = Top
                         /\ ~g[k].saturated /\ g[k].lost # 0 => Witnessed
             Holds == {k \in 0..n : Right(k)}
  <1>2. n \in Nat /\ DOMAIN observations = 1..n /\ \A k \in 1..n : observations[k] \in S
    BY LenProperties
  <1>3. Right(0)
    BY <1>1, ArithmeticAssumption
    DEF TotalsBy, NoTotals, TotalsType, Words, ArithmeticAssumption
  <1>4. ASSUME NEW k \in 1..n, Right(k - 1)
        PROVE  Right(k)
    <2> DEFINE o == observations[k]
               t == g[k - 1]
    <2>1. g[k] = Totalled(t, o) /\ o \in ToSet(observations)
      BY <1>1, <1>2 DEF TotalsBy, ToSet
    <2>2. o.lost \in Nat /\ o.offered \in Nat /\ t \in TotalsType
      BY <1>2, <1>4 DEF Counting
    <2>3. /\ t.saturated => t.lost = Top
          /\ ~t.saturated /\ t.lost # 0 => Witnessed
          /\ o.validity = "Valid" /\ o.lost > 0 => Witnessed
      BY <1>4, <2>1
    <2> HIDE DEF o, t, Witnessed
    <2>4. /\ g[k] \in TotalsType
          /\ t.saturated /\ t.lost = Top => g[k].saturated /\ g[k].lost = Top
          /\ g[k].saturated /\ ~t.saturated => g[k].lost = Top
          /\ ~g[k].saturated /\ g[k].lost # t.lost => o.validity = "Valid" /\ o.lost > 0
      BY <2>1, <2>2, TotalledIs
    <2> QED BY <2>3, <2>4
  <1>5. 0 \in Holds /\ \A k \in 1..n : k - 1 \in Holds => k \in Holds
    <2> HIDE DEF Right
    <2> QED BY <1>2, <1>3, <1>4
  <1>6. Right(n)
    <2>1. n \in 0..n
      BY <1>2
    <2>2. n \in Holds
      <3> HIDE DEF Holds
      <3> QED BY <1>2, <1>5, <2>1, ReachesEach
    <2> HIDE DEF Right
    <2> QED BY <2>2
  <1> QED BY <1>1, <1>6

-----------------------------------------------------------------------------
(* Tallies.                                                                *)

Lossy(o) == o.validity = "Valid" /\ o.lost > 0

(* What a tally says was lost some observation lost, unless a total went   *)
(* over the top of its word.                                               *)
LEMMA TallyHasAWitness ==
    ASSUME NEW S, Counting(S), NEW observations \in Seq(S),
           \/ Tally(observations).direct_positive
           \/ Tally(observations).lost # 0
    PROVE  \/ \E o \in ToSet(observations) : Lossy(o)
           \/ Tally(observations).saturated /\ Tally(observations).lost = Top
  <1>1. /\ Tally(observations).lost = Totals(observations).lost
        /\ Tally(observations).saturated = Totals(observations).saturated
        /\ Tally(observations).direct_positive
              = \E o \in ToSet(observations) : IsDirect(o) /\ o.lost > 0
    BY DEF Tally, Totals
  <1>2. Totals(observations).saturated \in BOOLEAN
    BY TotalsAre DEF TotalsType
  <1>3. CASE Tally(observations).direct_positive
    BY <1>1, <1>3 DEF IsDirect, Lossy
  <1>4. CASE Tally(observations).lost # 0
    BY <1>1, <1>2, <1>4, TotalsAre DEF Lossy
  <1> QED BY <1>3, <1>4

(* A ratio comes of a loss.                                                *)
LEMMA RatioOfALoss ==
    ASSUME NEW tally, TallyRatio(tally) # 0
    PROVE  tally.lost # 0
  BY DEF TallyRatio, BasisPoints

(* A policy for which something must have been lost before loss is         *)
(* confirmed; the default one is such.                                     *)
LossToConfirm == LossPolicy.confirmed_ratio_bp > 0

(* Under it, what is confirmed was lost.                                   *)
LEMMA ConfirmedOfALoss ==
    ASSUME LossToConfirm, NEW tally, Confirmed(tally)
    PROVE  tally.direct_positive \/ tally.lost # 0
  <1>1. LossPolicy.confirmed_ratio_bp \in Nat
    BY LossPolicyAssumption DEF LossPolicyAssumption
  <1>2. CASE TallyRatio(tally) # 0
    BY <1>2, RatioOfALoss
  <1>3. CASE TallyRatio(tally) = 0
    <2>1. ~(TallyRatio(tally) >= LossPolicy.confirmed_ratio_bp)
      BY <1>1, <1>3 DEF LossToConfirm
    <2> QED BY <2>1 DEF Confirmed
  <1> QED BY <1>2, <1>3

(* The ratio of a tally is a natural number.                               *)
LEMMA RatioIsNatural ==
    ASSUME NEW S, Counting(S), NEW observations \in Seq(S)
    PROVE  TallyRatio(Tally(observations)) \in Nat
  <1> DEFINE tally == Tally(observations)
  <1>1. tally.lost \in Nat /\ tally.offered \in Nat
    BY TotalsAre, ArithmeticAssumption
    DEF Tally, Totals, TotalsType, Words, ArithmeticAssumption
  <1> HIDE DEF tally
  <1>2. ASSUME RatioDefined(tally)
        PROVE  TallyRatio(tally) \in Nat
    <2>1. tally.offered \in Nat \ {0} /\ Scale \in Nat /\ Word \in Nat \ {0}
      BY <1>1, <1>2, ArithmeticAssumption DEF RatioDefined, ArithmeticAssumption
    <2>2. (tally.lost * Scale) % Word \in Nat
      BY <1>1, <2>1
    <2>3. ((tally.lost * Scale) % Word) \div tally.offered \in Nat
      BY <2>1, <2>2
    <2>4. BasisPoints(tally.lost, tally.offered) \in Nat
      BY <2>1, <2>3 DEF BasisPoints, Smaller
    <2> QED BY <1>2, <2>4 DEF TallyRatio
  <1>3. ASSUME ~RatioDefined(tally)
        PROVE  TallyRatio(tally) \in Nat
    <2>1. TallyRatio(tally) = 0
      BY <1>3 DEF TallyRatio
    <2> QED BY <2>1
  <1>4. TallyRatio(tally) \in Nat
    BY <1>2, <1>3
  <1> QED BY <1>4 DEF tally

(* Neither ladder asserts a loss where nothing was lost.                   *)
LEMMA LadderNeedsLoss ==
    ASSUME LossToConfirm, NEW tally, TallyRatio(tally) \in Nat
    PROVE  /\ AssertsLoss(ClaimClass(tally)) => tally.direct_positive \/ tally.lost # 0
           /\ AssertsLoss(VerdictClass(tally)) => tally.direct_positive \/ tally.lost # 0
  <1>1. ~AssertsLoss(Unspoken(tally))
    BY DEF Unspoken, AssertsLoss
  <1>2. Confirmed(tally) => tally.direct_positive \/ tally.lost # 0
    BY ConfirmedOfALoss
  <1>3. TallyRatio(tally) > 0 => tally.lost # 0
    BY RatioOfALoss
  <1>4. AssertsLoss(ClaimClass(tally)) =>
            Confirmed(tally) \/ TallyRatio(tally) > 0 \/ tally.direct_positive
    BY <1>1 DEF ClaimClass, AssertsLoss
  <1>5. AssertsLoss(VerdictClass(tally)) =>
            Confirmed(tally) \/ TallyRatio(tally) > 0 \/ tally.direct_positive
    BY <1>1 DEF VerdictClass, AssertsLoss
  <1> QED BY <1>2, <1>3, <1>4, <1>5

-----------------------------------------------------------------------------
(* The verdict.                                                            *)

(* What is admissible: the fresh observations.                             *)
LEMMA AdmissibleIs ==
    ASSUME NEW S, NEW observations \in Seq(S), NEW context
    PROVE  /\ Admissible(observations, context) \in Seq(S)
           /\ \A o : o \in ToSet(Admissible(observations, context))
                        <=> o \in ToSet(observations) /\ Fresh(o, context)
  BY AmongIs DEF Admissible

(* A sequence without elements is the empty one.                           *)
LEMMA EmptyOrNot ==
    ASSUME NEW S, NEW sequence \in Seq(S)
    PROVE  sequence = << >> <=> ToSet(sequence) = {}
  <1>1. Len(sequence) \in Nat /\ DOMAIN sequence = 1..Len(sequence)
        /\ (sequence = << >> <=> Len(sequence) = 0)
    BY LenProperties, EmptySeq
  <1>2. ToSet(sequence) = {} <=> DOMAIN sequence = {}
    BY DEF ToSet
  <1>3. 1..Len(sequence) = {} <=> Len(sequence) = 0
    <2>1. Len(sequence) # 0 => 1 \in 1..Len(sequence)
      BY <1>1
    <2>2. Len(sequence) = 0 => 1..Len(sequence) = {}
      BY <1>1
    <2> QED BY <2>1, <2>2
  <1> QED BY <1>1, <1>2, <1>3

(* The fresh claims, and what they come to.                                *)
FreshClaims(observations, context) == {c \in ClaimsFor(observations, context) : c.fresh}

Hearing(observations, context) == Evaluate(FreshClaims(observations, context))

Open(conflict) == conflict.conflicted /\ ~conflict.resolved

(* What a conclusion reports of the totals.                                *)
LEMMA ConclusionIs ==
    ASSUME NEW admitted, NEW tally, NEW claims, NEW conflict, NEW klass, NEW score
    PROVE  /\ Conclusion(admitted, tally, claims, conflict, klass, score).klass = klass
           /\ admitted # << >> /\ ~Open(conflict) =>
                 /\ Conclusion(admitted, tally, claims, conflict, klass, score).lost = tally.lost
                 /\ tally.saturated =>
                       Conclusion(admitted, tally, claims, conflict, klass, score).saturated
  BY DEF Conclusion, Open

(* How the parts of a verdict hang together.                               *)
LEMMA VerdictIs ==
    ASSUME NEW observations, NEW context, NEW admitted, NEW tally,
           admitted = Admissible(observations, context), tally = Tally(admitted)
    PROVE  /\ Classify(observations, context).klass
                 = Judgement(observations, admitted, tally, Hearing(observations, context))
           /\ admitted # << >> /\ ~Open(Hearing(observations, context)) =>
                 /\ Classify(observations, context).lost = tally.lost
                 /\ tally.saturated => Classify(observations, context).saturated
  <1> DEFINE conflict == Hearing(observations, context)
             klass == Judgement(observations, admitted, tally, conflict)
             claims == ClaimsFor(observations, context)
  <1>1. PICK score : Classify(observations, context)
                        = Conclusion(admitted, tally, claims, conflict, klass, score)
    BY Zenon DEF Classify, ClassifyBy, Judged, Hearing, FreshClaims
  <1> HIDE DEF conflict, klass, claims
  <1>2. /\ Classify(observations, context).klass = klass
        /\ admitted # << >> /\ ~Open(conflict) =>
              /\ Classify(observations, context).lost = tally.lost
              /\ tally.saturated => Classify(observations, context).saturated
    BY <1>1, ConclusionIs
  <1> QED BY <1>2 DEF conflict, klass

(* A verdict that asserts loss rests on a fresh, valid observation that    *)
(* lost something, unless a total went over the top of its word            *)
(* (Classifier::classify; "No rule can promote stale or unsupported        *)
(* evidence into loss", classify.hpp:259).                                 *)
THEOREM LossHasAWitness ==
    ASSUME LossToConfirm,
           NEW S, Counting(S), NEW observations \in Seq(S), NEW context,
           AssertsLoss(Classify(observations, context).klass)
    PROVE  \/ \E o \in ToSet(observations) : Fresh(o, context) /\ Lossy(o)
           \/ /\ Classify(observations, context).saturated
              /\ Classify(observations, context).lost = Top
  <1> DEFINE said     == Classify(observations, context)
             admitted == Admissible(observations, context)
             tally    == Tally(admitted)
             conflict == Hearing(observations, context)
  <1>1. /\ said.klass = Judgement(observations, admitted, tally, conflict)
        /\ admitted # << >> /\ ~Open(conflict) =>
              said.lost = tally.lost /\ (tally.saturated => said.saturated)
    <2> HIDE DEF said, tally, conflict
    <2> QED BY VerdictIs, Zenon DEF said, tally, conflict
  <1>2. admitted \in Seq(S)
    BY AdmissibleIs
  <1>3. tally.direct_positive \/ tally.lost # 0 =>
            \/ \E o \in ToSet(admitted) : Lossy(o)
            \/ tally.saturated /\ tally.lost = Top
    <2> HIDE DEF admitted
    <2> QED BY <1>2, TallyHasAWitness
  <1>4. AssertsLoss(VerdictClass(tally)) => tally.direct_positive \/ tally.lost # 0
    <2>1. TallyRatio(tally) \in Nat
      <3> HIDE DEF admitted
      <3> QED BY <1>2, RatioIsNatural
    <2> HIDE DEF tally
    <2> QED BY <2>1, LadderNeedsLoss
  <1>5. AssertsLoss(said.klass)
    OBVIOUS
  <1> HIDE DEF said, tally, conflict
  <1>6. admitted # << >> /\ ~Open(conflict) /\ said.klass = VerdictClass(tally)
    BY <1>1, <1>5 DEF AssertsLoss, Judgement, Open
  <1>7. \/ \E o \in ToSet(admitted) : Lossy(o)
        \/ said.saturated /\ said.lost = Top
    BY <1>1, <1>3, <1>4, <1>5, <1>6
  <1>8. \A o \in ToSet(admitted) : o \in ToSet(observations) /\ Fresh(o, context)
    BY AdmissibleIs
  <1> HIDE DEF admitted
  <1> QED BY <1>7, <1>8 DEF said

(* What a claim of a source rests on.                                      *)
LEMMA ClaimHasAWitness ==
    ASSUME LossToConfirm,
           NEW S, Counting(S), NEW observations \in Seq(S), NEW context, NEW source,
           Claim(source, observations, context).fresh
    PROVE  /\ \E o \in ToSet(observations) : o.source = source /\ Fresh(o, context)
           /\ \/ AssertsLoss(Claim(source, observations, context).klass)
              \/ Claim(source, observations, context).ratio_bp # 0
              => \/ \E o \in ToSet(observations) :
                        o.source = source /\ Fresh(o, context) /\ Lossy(o)
                 \/ Claim(source, observations, context).lost = Top
  <1> DEFINE own      == OfSource(observations, source)
             admitted == Admissible(own, context)
             tally    == Tally(admitted)
             claim    == Claim(source, observations, context)
  <1>1. /\ own \in Seq(S)
        /\ \A o : o \in ToSet(own) => o \in ToSet(observations) /\ o.source = source
    BY AmongIs DEF OfSource
  <1>2. admitted \in Seq(S)
        /\ \A o : o \in ToSet(admitted) => o \in ToSet(own) /\ Fresh(o, context)
    <2> HIDE DEF own
    <2> QED BY <1>1, AdmissibleIs
  <1>3. claim.fresh /\ claim.fresh = (admitted # << >>) /\ claim.lost = tally.lost
        /\ claim.ratio_bp = TallyRatio(tally)
        /\ claim.klass = IF admitted = << >> THEN "StaleEvidence" ELSE ClaimClass(tally)
    BY DEF Claim
  <1> HIDE DEF own, admitted, claim
  <1>4. \E o \in ToSet(admitted) : TRUE
    BY <1>2, <1>3, EmptyOrNot
  <1>5. tally.direct_positive \/ tally.lost # 0 =>
            (\E o \in ToSet(admitted) : Lossy(o)) \/ tally.lost = Top
    BY <1>2, TallyHasAWitness
  <1>6. TallyRatio(tally) \in Nat
    BY <1>2, RatioIsNatural
  <1> HIDE DEF tally
  <1>7. AssertsLoss(claim.klass) \/ claim.ratio_bp # 0 =>
            tally.direct_positive \/ tally.lost # 0
    BY <1>3, <1>6, LadderNeedsLoss, RatioOfALoss
  <1>8. \A o \in ToSet(admitted) :
            o \in ToSet(observations) /\ o.source = source /\ Fresh(o, context)
    BY <1>1, <1>2
  <1>9. AssertsLoss(claim.klass) \/ claim.ratio_bp # 0 =>
            (\E o \in ToSet(admitted) : Lossy(o)) \/ claim.lost = Top
    BY <1>3, <1>5, <1>7
  <1> QED BY <1>4, <1>8, <1>9 DEF claim

(* A fresh claim has a fresh observation behind it.                        *)
LEMMA FreshClaimIsHeard ==
    ASSUME NEW S, NEW observations \in Seq(S), NEW context,
           FreshClaims(observations, context) # {}
    PROVE  Admissible(observations, context) # << >>
  <1>1. PICK source : Claim(source, observations, context).fresh
    BY DEF FreshClaims, ClaimsFor
  <1> DEFINE own == OfSource(observations, source)
  <1>2. own \in Seq(S) /\ \A o : o \in ToSet(own) => o \in ToSet(observations)
    BY AmongIs DEF OfSource
  <1>3. Admissible(own, context) # << >>
    BY <1>1 DEF Claim
  <1> HIDE DEF own
  <1>4. PICK o \in ToSet(Admissible(own, context)) : TRUE
    BY <1>2, <1>3, AdmissibleIs, EmptyOrNot
  <1>5. o \in ToSet(Admissible(observations, context))
    BY <1>2, <1>4, AdmissibleIs
  <1> QED BY <1>5, AdmissibleIs, EmptyOrNot

(* There is at most one claim for each observation.                        *)
LEMMA ClaimsAreFinite ==
    ASSUME NEW S, NEW observations \in Seq(S), NEW context
    PROVE  IsFiniteSet(FreshClaims(observations, context))
  <1> DEFINE claims == ClaimsFor(observations, context)
             f == [i \in 1..Len(observations) |->
                      Claim(observations[i].source, observations, context)]
  <1>1. Len(observations) \in Nat /\ DOMAIN observations = 1..Len(observations)
    BY LenProperties
  <1>2. claims = {Claim(observations[i].source, observations, context) :
                      i \in 1..Len(observations)}
    BY <1>1 DEF ClaimsFor, ToSet
  <1>3. f \in Surjection(1..Len(observations), claims)
    BY <1>2 DEF Surjection
  <1> HIDE DEF f, claims
  <1>4. IsFiniteSet(claims)
    BY <1>1, <1>3, FS_Interval, FS_Surjection
  <1>5. FreshClaims(observations, context) \in SUBSET claims
    BY DEF FreshClaims, claims
  <1> QED BY <1>4, <1>5, FS_Subset

(* Sources of the highest authority that say opposite things leave a       *)
(* conflict open.                                                          *)
LEMMA TiedStaysOpen ==
    ASSUME NEW claims, IsFiniteSet(claims), \A c \in claims : c.fresh = TRUE,
           NEW a \in Foremost(claims), NEW b \in Foremost(claims), ClassDiverges(a, b)
    PROVE  Open(Evaluate(claims))
  <1>1. a # b
    BY DEF ClassDiverges, AssertsLoss, AssertsAbsence
  <1>2. a \in claims /\ b \in claims /\ Foremost(claims) \in SUBSET claims
    BY DEF Foremost
  <1>3. Incompatible(a, b)
    BY <1>2 DEF Incompatible
  <1>4. {c \in claims : c.fresh} = claims
    OBVIOUS
  <1>5. ~ (Cardinality(Foremost(claims)) = 1)
    <2>1. IsFiniteSet(Foremost(claims))
      BY <1>2, FS_Subset
    <2> QED BY <1>1, <2>1, FS_Singleton
  <1>6. Evaluate(claims).conflicted = TRUE /\ Evaluate(claims).resolved = FALSE
    <2> HIDE DEF Foremost
    <2> QED BY <1>2, <1>3, <1>4, <1>5 DEF Evaluate
  <1> QED BY <1>6 DEF Open

(* "When no source strictly outranks the others, the result stays          *)
(* unresolved" (conflict.hpp): while two of the highest-ranking fresh      *)
(* sources say opposite things Classifier::classify takes neither side.    *)
THEOREM TiedSourcesStopTheVerdict ==
    ASSUME NEW S, NEW observations \in Seq(S), NEW context,
           NEW a \in Foremost(FreshClaims(observations, context)),
           NEW b \in Foremost(FreshClaims(observations, context)),
           ClassDiverges(a, b)
    PROVE  Classify(observations, context).klass = "ConflictingEvidence"
  <1> DEFINE claims   == FreshClaims(observations, context)
             admitted == Admissible(observations, context)
             tally    == Tally(admitted)
  <1>1. \A c \in claims : c.fresh = TRUE
    BY DEF FreshClaims, ClaimsFor, Claim
  <1>2. claims # {}
    BY DEF Foremost
  <1>3. Open(Evaluate(claims))
    <2>1. IsFiniteSet(claims)
      BY ClaimsAreFinite
    <2> HIDE DEF claims
    <2> QED BY <1>1, <2>1, TiedStaysOpen DEF claims
  <1>4. admitted # << >>
    BY <1>2, FreshClaimIsHeard
  <1>5. observations # << >>
    BY <1>4, AdmissibleIs, EmptyOrNot
  <1>6. Classify(observations, context).klass
            = Judgement(observations, admitted, tally, Hearing(observations, context))
    <2> HIDE DEF admitted, tally
    <2> QED BY VerdictIs, Zenon DEF admitted, tally
  <1>7. Open(Hearing(observations, context))
    BY <1>3 DEF Hearing
  <1> HIDE DEF admitted, tally
  <1> QED BY <1>4, <1>5, <1>6, <1>7 DEF Judgement, Open

(* The ratio of a claim is a natural number.                               *)
LEMMA ClaimRatioIsNatural ==
    ASSUME NEW S, Counting(S), NEW observations \in Seq(S),
           NEW context, NEW source
    PROVE  Claim(source, observations, context).ratio_bp \in Nat
  <1> DEFINE own      == OfSource(observations, source)
             admitted == Admissible(own, context)
  <1>1. own \in Seq(S)
    BY AmongIs DEF OfSource
  <1>2. admitted \in Seq(S)
    <2> HIDE DEF own
    <2> QED BY <1>1, AdmissibleIs
  <1>3. Claim(source, observations, context).ratio_bp = TallyRatio(Tally(admitted))
    BY DEF Claim
  <1> HIDE DEF admitted
  <1> QED BY <1>2, <1>3, RatioIsNatural

(* One of two claims that are incompatible speaks of a loss.               *)
LEMMA IncompatibleNeedsLoss ==
    ASSUME NEW a, NEW b, Incompatible(a, b),
           a.ratio_bp \in Nat, b.ratio_bp \in Nat
    PROVE  /\ a # b
           /\ \/ AssertsLoss(a.klass) \/ a.ratio_bp # 0
              \/ AssertsLoss(b.klass) \/ b.ratio_bp # 0
  <1>1. CASE ClassDiverges(a, b)
    BY <1>1 DEF ClassDiverges, AssertsLoss, AssertsAbsence
  <1>2. CASE RatioDiverges(a, b)
    <2>1. LossPolicy.conflict_tolerance_bp \in Nat
      BY LossPolicyAssumption DEF LossPolicyAssumption
    <2>2. \/ a.ratio_bp - b.ratio_bp > LossPolicy.conflict_tolerance_bp
          \/ b.ratio_bp - a.ratio_bp > LossPolicy.conflict_tolerance_bp
      BY <1>2 DEF RatioDiverges
    <2>3. a.ratio_bp # b.ratio_bp /\ (a.ratio_bp # 0 \/ b.ratio_bp # 0)
      BY <2>1, <2>2
    <2> QED BY <2>3
  <1> QED BY <1>1, <1>2 DEF Incompatible

(* Nothing the ladder says is a conflict.                                  *)
LEMMA LadderNamesNoConflict ==
    ASSUME NEW tally
    PROVE  VerdictClass(tally) # "ConflictingEvidence"
  <1>1. Unspoken(tally) # "ConflictingEvidence"
    BY DEF Unspoken
  <1> QED BY <1>1 DEF VerdictClass

(* A source that is heard now, and one that is heard to have lost.         *)
Heard(source, observations, context) ==
    \E o \in ToSet(observations) : o.source = source /\ Fresh(o, context)
HeardLosing(source, observations, context) ==
    \E o \in ToSet(observations) : o.source = source /\ Fresh(o, context) /\ Lossy(o)

(* Classifier::classify reports a conflict only where two sources are      *)
(* heard now and one of them lost something, unless a total of one of them *)
(* reached the top of its word.                                            *)
THEOREM ConflictHasAWitness ==
    ASSUME LossToConfirm,
           NEW S, Counting(S), NEW observations \in Seq(S), NEW context,
           Classify(observations, context).klass = "ConflictingEvidence"
    PROVE  \/ \E one, other :
                 /\ one # other
                 /\ HeardLosing(one, observations, context)
                 /\ Heard(other, observations, context)
           \/ \E claim \in FreshClaims(observations, context) : claim.lost = Top
  <1> DEFINE admitted == Admissible(observations, context)
             tally    == Tally(admitted)
             claims   == FreshClaims(observations, context)
             said(source) == Claim(source, observations, context)
  <1>1. Classify(observations, context).klass
            = Judgement(observations, admitted, tally, Hearing(observations, context))
    <2> HIDE DEF admitted, tally
    <2> QED BY VerdictIs, Zenon DEF admitted, tally
  <1>2. Hearing(observations, context).conflicted
    <2> HIDE DEF admitted, tally
    <2> QED BY <1>1, LadderNamesNoConflict DEF Judgement
  <1>3. PICK a \in claims, b \in claims : Incompatible(a, b)
    <2> HIDE DEF claims
    <2> QED BY <1>2 DEF Hearing, Evaluate, NoConflict, claims
  <1>4. PICK s, t : a = said(s) /\ b = said(t) /\ said(s).fresh /\ said(t).fresh
    BY DEF FreshClaims, ClaimsFor
  <1>5. a.ratio_bp \in Nat /\ b.ratio_bp \in Nat
    BY <1>4, ClaimRatioIsNatural
  <1>6. /\ a # b
        /\ \/ AssertsLoss(a.klass) \/ a.ratio_bp # 0
           \/ AssertsLoss(b.klass) \/ b.ratio_bp # 0
    BY <1>3, <1>5, IncompatibleNeedsLoss
  <1>7. s # t
    BY <1>4, <1>6
  <1>8. ASSUME NEW source, said(source).fresh
        PROVE  /\ Heard(source, observations, context)
               /\ AssertsLoss(said(source).klass) \/ said(source).ratio_bp # 0 =>
                     HeardLosing(source, observations, context) \/ said(source).lost = Top
    BY <1>8, ClaimHasAWitness DEF Heard, HeardLosing
  <1> HIDE DEF claims, said
  <1> QED BY <1>3, <1>4, <1>6, <1>7, <1>8 DEF claims

-----------------------------------------------------------------------------
(* What stale evidence adds.                                               *)

(* Whatever selects position by position is the selection.                 *)
LEMMA AmongOnly ==
    ASSUME NEW S, NEW sequence \in Seq(S), NEW wanted, NEW g,
           SelectsBy(g, sequence, wanted)
    PROVE  Among(sequence, wanted) = g[Len(sequence)]
  <1>1. PICK h : SelectsBy(h, sequence, wanted) /\ Among(sequence, wanted) = h[Len(sequence)]
    BY AmongBySteps
  <1> DEFINE n == Len(sequence)
             Same == {k \in 0..n : g[k] = h[k]}
  <1>2. n \in Nat /\ n \in 0..n
    BY LenProperties
  <1>3. 0 \in Same
    BY <1>1, <1>2 DEF SelectsBy
  <1>4. ASSUME NEW k \in 1..n, k - 1 \in Same
        PROVE  k \in Same
    BY <1>1, <1>2, <1>4 DEF SelectsBy
  <1> HIDE DEF n, Same
  <1>5. n \in Same
    BY <1>2, <1>3, <1>4, ReachesEach
  <1> QED BY <1>1, <1>5 DEF n, Same

(* From nothing, nothing is selected.                                      *)
LEMMA AmongNone ==
    ASSUME NEW wanted
    PROVE  Among(<< >>, wanted) = << >>
  <1>1. << >> \in Seq({}) /\ Len(<< >>) = 0
    BY EmptySeq
  <1>2. PICK g : SelectsBy(g, << >>, wanted) /\ Among(<< >>, wanted) = g[Len(<< >>)]
    BY <1>1, AmongBySteps
  <1> QED BY <1>1, <1>2 DEF SelectsBy

(* A selection grows by the last element if it is wanted.                  *)
LEMMA AmongLonger ==
    ASSUME NEW S, NEW sequence \in Seq(S), NEW x \in S, NEW wanted
    PROVE  Among(Append(sequence, x), wanted)
              = IF x \in wanted THEN Append(Among(sequence, wanted), x)
                ELSE Among(sequence, wanted)
  <1> DEFINE longer == Append(sequence, x)
             n == Len(sequence)
  <1>1. /\ longer \in Seq(S) /\ Len(longer) = n + 1 /\ n \in Nat
        /\ longer[n + 1] = x /\ \A k \in 1..n : longer[k] = sequence[k]
    BY AppendProperties, LenProperties
  <1> HIDE DEF longer
  <1>2. PICK g : SelectsBy(g, longer, wanted) /\ Among(longer, wanted) = g[Len(longer)]
    BY <1>1, AmongBySteps
  <1>3. /\ g[0] = << >>
        /\ \A k \in 1..(n + 1) :
              g[k] = IF longer[k] \in wanted THEN Append(g[k - 1], longer[k]) ELSE g[k - 1]
    BY <1>1, <1>2 DEF SelectsBy
  <1>4. SelectsBy(g, sequence, wanted)
    <2>1. \A k \in 1..n : k \in 1..(n + 1)
      BY <1>1
    <2> QED BY <1>1, <1>3, <2>1 DEF SelectsBy
  <1>5. Among(sequence, wanted) = g[n]
    BY <1>4, AmongOnly
  <1>6. n + 1 \in 1..(n + 1) /\ (n + 1) - 1 = n
    BY <1>1
  <1>7. g[n + 1] = IF x \in wanted THEN Append(g[n], x) ELSE g[n]
    BY <1>1, <1>3, <1>6
  <1> QED BY <1>1, <1>2, <1>5, <1>7 DEF longer

(* What a selection has so far is a sequence.                              *)
LEMMA SelectsSequences ==
    ASSUME NEW S, NEW sequence \in Seq(S), NEW wanted, NEW g,
           SelectsBy(g, sequence, wanted)
    PROVE  \A k \in 0..Len(sequence) : g[k] \in Seq(S)
  <1> DEFINE n == Len(sequence)
             Holds == {k \in 0..n : g[k] \in Seq(S)}
  <1>1. n \in Nat /\ \A k \in 1..n : sequence[k] \in S
    BY LenProperties
  <1>2. 0 \in Holds
    <2>1. g[0] = << >>
      BY DEF SelectsBy
    <2>2. << >> \in Seq(S)
      BY EmptySeq
    <2>3. 0 \in 0..n
      BY <1>1
    <2> HIDE DEF n
    <2> QED BY <2>1, <2>2, <2>3
  <1>3. ASSUME NEW k \in 1..n, k - 1 \in Holds
        PROVE  k \in Holds
    <2>1. g[k] = IF sequence[k] \in wanted THEN Append(g[k - 1], sequence[k]) ELSE g[k - 1]
      BY DEF SelectsBy
    <2>2. g[k] \in Seq(S)
      BY <1>1, <1>3, <2>1, AppendProperties
    <2> QED BY <1>1, <2>2
  <1> HIDE DEF n, Holds
  <1>4. \A k \in 0..n : k \in Holds
    BY <1>1, <1>2, <1>3, ReachesEach
  <1> QED BY <1>4 DEF n, Holds

(* Selecting twice is selecting what is wanted twice.                      *)
LEMMA AmongAmong ==
    ASSUME NEW S, NEW sequence \in Seq(S), NEW first, NEW second
    PROVE  Among(Among(sequence, first), second) = Among(sequence, first \cap second)
  <1>1. PICK g : SelectsBy(g, sequence, first) /\ Among(sequence, first) = g[Len(sequence)]
    BY AmongBySteps
  <1> DEFINE n == Len(sequence)
             m == [k \in 0..n |-> Among(g[k], second)]
  <1>2. n \in Nat /\ \A k \in 1..n : sequence[k] \in S /\ k \in 0..n /\ k - 1 \in 0..n
    BY LenProperties
  <1>3. m[0] = << >>
    <2>1. 0 \in 0..n /\ g[0] = << >>
      BY <1>1, <1>2 DEF SelectsBy
    <2> QED BY <2>1, AmongNone
  <1>4. ASSUME NEW k \in 1..n
        PROVE  m[k] = IF sequence[k] \in first \cap second
                      THEN Append(m[k - 1], sequence[k]) ELSE m[k - 1]
    <2>1. m[k] = Among(g[k], second) /\ m[k - 1] = Among(g[k - 1], second)
      BY <1>2
    <2>2. g[k] = IF sequence[k] \in first THEN Append(g[k - 1], sequence[k]) ELSE g[k - 1]
      BY <1>1 DEF SelectsBy
    <2>3. g[k - 1] \in Seq(S)
      <3>1. k - 1 \in 0..Len(sequence) /\ SelectsBy(g, sequence, first)
        BY <1>1, <1>2
      <3> HIDE DEF m
      <3> QED BY <3>1, SelectsSequences
    <2> HIDE DEF m
    <2>4. CASE sequence[k] \in first
      <3>1. Among(g[k], second)
                = IF sequence[k] \in second THEN Append(Among(g[k - 1], second), sequence[k])
                  ELSE Among(g[k - 1], second)
        <4> DEFINE kept == g[k - 1]
                   x    == sequence[k]
        <4>1. kept \in Seq(S) /\ x \in S /\ g[k] = Append(kept, x)
          BY <1>2, <2>2, <2>3, <2>4
        <4> HIDE DEF kept, x
        <4>2. Among(Append(kept, x), second)
                  = IF x \in second THEN Append(Among(kept, second), x) ELSE Among(kept, second)
          BY <4>1, AmongLonger
        <4> QED BY <4>1, <4>2, Zenon DEF kept, x
      <3> QED BY <2>1, <2>4, <3>1
    <2>5. CASE sequence[k] \notin first
      BY <2>1, <2>2, <2>5
    <2> QED BY <2>4, <2>5
  <1>5. m[n] = Among(g[n], second)
    BY <1>2
  <1> HIDE DEF m
  <1>6. SelectsBy(m, sequence, first \cap second)
    BY <1>3, <1>4 DEF SelectsBy
  <1>7. Among(sequence, first \cap second) = m[n]
    BY <1>6, AmongOnly
  <1> QED BY <1>1, <1>5, <1>7

(* A selection depends on which of the elements there are is wanted.       *)
LEMMA AmongSame ==
    ASSUME NEW S, NEW sequence \in Seq(S), NEW first, NEW second,
           \A x \in ToSet(sequence) : x \in first <=> x \in second
    PROVE  Among(sequence, first) = Among(sequence, second)
  <1>1. PICK g : SelectsBy(g, sequence, first) /\ Among(sequence, first) = g[Len(sequence)]
    BY AmongBySteps
  <1>2. \A k \in 1..Len(sequence) : sequence[k] \in ToSet(sequence)
    BY LenProperties DEF ToSet
  <1>3. SelectsBy(g, sequence, second)
    BY <1>1, <1>2 DEF SelectsBy
  <1> QED BY <1>1, <1>3, AmongOnly

(* What is admissible stays so, and in its order.                          *)
LEMMA AdmissibleTwice ==
    ASSUME NEW S, NEW observations \in Seq(S), NEW context
    PROVE  Admissible(Admissible(observations, context), context)
              = Admissible(observations, context)
  <1> DEFINE kept   == Admissible(observations, context)
             first  == {o \in ToSet(observations) : Fresh(o, context)}
             second == {o \in ToSet(kept) : Fresh(o, context)}
  <1>1. kept = Among(observations, first) /\ Admissible(kept, context) = Among(kept, second)
    BY Zenon DEF Admissible
  <1>2. \A o \in ToSet(observations) : o \in first \cap second <=> o \in first
    BY AdmissibleIs
  <1> HIDE DEF first, second, kept
  <1>3. Among(Among(observations, first), second) = Among(observations, first \cap second)
    BY AmongAmong
  <1>4. Among(observations, first \cap second) = Among(observations, first)
    BY <1>2, AmongSame
  <1> QED BY <1>1, <1>3, <1>4 DEF kept

(* Of one source, the fresh observations are the same whether the stale    *)
(* ones are left out first or last.                                        *)
LEMMA OwnAdmissible ==
    ASSUME NEW S, NEW observations \in Seq(S), NEW context, NEW source
    PROVE  Admissible(OfSource(Admissible(observations, context), source), context)
              = Admissible(OfSource(observations, source), context)
  <1> DEFINE kept  == Admissible(observations, context)
             keptOwn == OfSource(kept, source)
             own   == OfSource(observations, source)
             fresh == {o \in ToSet(observations) : Fresh(o, context)}
             its   == {o \in ToSet(kept) : o.source = source}
             again == {o \in ToSet(keptOwn) : Fresh(o, context)}
             all   == {o \in ToSet(observations) : o.source = source}
             now   == {o \in ToSet(own) : Fresh(o, context)}
  <1>1. /\ kept = Among(observations, fresh) /\ own = Among(observations, all)
        /\ keptOwn = Among(kept, its)
        /\ Admissible(keptOwn, context) = Among(keptOwn, again)
        /\ Admissible(own, context) = Among(own, now)
    BY Zenon DEF Admissible, OfSource
  <1>2. kept \in Seq(S) /\ ToSet(kept) = ToSet(observations) \cap fresh
    <2> HIDE DEF fresh, kept
    <2> QED BY <1>1, AmongIs
  <1>3. ToSet(keptOwn) = ToSet(kept) \cap its
    <2> HIDE DEF kept, its, keptOwn
    <2> QED BY <1>1, <1>2, AmongIs
  <1>4. own \in Seq(S) /\ ToSet(own) = ToSet(observations) \cap all
    <2> HIDE DEF own, all
    <2> QED BY <1>1, AmongIs
  <1> HIDE DEF kept, own, keptOwn
  <1>5. \A o \in ToSet(observations) : o \in fresh \cap (its \cap again) <=> o \in all \cap now
    BY <1>2, <1>3, <1>4
  <1> HIDE DEF fresh, its, again, all, now
  <1>6. Among(keptOwn, again) = Among(kept, its \cap again)
    BY <1>1, <1>2, AmongAmong
  <1>7. Among(kept, its \cap again) = Among(observations, fresh \cap (its \cap again))
    BY <1>1, AmongAmong
  <1>8. Among(own, now) = Among(observations, all \cap now)
    BY <1>1, AmongAmong
  <1>9. Among(observations, fresh \cap (its \cap again)) = Among(observations, all \cap now)
    BY <1>5, AmongSame
  <1>10. Admissible(keptOwn, context) = Admissible(own, context)
    BY <1>1, <1>6, <1>7, <1>8, <1>9
  <1> QED BY <1>10 DEF keptOwn, kept, own

(* The fresh observations alone yield the fresh claims, the same ones.     *)
LEMMA FreshClaimsStay ==
    ASSUME NEW S, NEW observations \in Seq(S), NEW context
    PROVE  FreshClaims(Admissible(observations, context), context)
              = FreshClaims(observations, context)
  <1> DEFINE kept == Admissible(observations, context)
  <1>1. ASSUME NEW source
        PROVE  Claim(source, kept, context) = Claim(source, observations, context)
    BY OwnAdmissible DEF Claim
  <1>2. \A o : o \in ToSet(kept) <=> o \in ToSet(observations) /\ Fresh(o, context)
    BY AdmissibleIs
  <1>3. ASSUME NEW source, Claim(source, observations, context).fresh
        PROVE  \E o \in ToSet(kept) : o.source = source
    <2> DEFINE own == OfSource(observations, source)
    <2>1. own \in Seq(S)
          /\ \A o : o \in ToSet(own) => o \in ToSet(observations) /\ o.source = source
      BY AmongIs DEF OfSource
    <2>2. Admissible(own, context) # << >>
      BY <1>3 DEF Claim
    <2> HIDE DEF own, kept
    <2>3. PICK o \in ToSet(Admissible(own, context)) : TRUE
      BY <2>1, <2>2, AdmissibleIs, EmptyOrNot
    <2>4. o \in ToSet(own) /\ Fresh(o, context)
      BY <2>1, <2>3, AdmissibleIs
    <2> QED BY <1>2, <2>1, <2>4
  <1> HIDE DEF kept
  <1>4. ASSUME NEW claim
        PROVE  claim \in FreshClaims(kept, context)
                  <=> claim \in FreshClaims(observations, context)
    <2>1. claim \in FreshClaims(kept, context) =>
              \E o \in ToSet(kept) : claim = Claim(o.source, kept, context) /\ claim.fresh
      BY DEF FreshClaims, ClaimsFor
    <2>2. claim \in FreshClaims(observations, context) =>
              \E o \in ToSet(observations) :
                  claim = Claim(o.source, observations, context) /\ claim.fresh
      BY DEF FreshClaims, ClaimsFor
    <2>3. \A o \in ToSet(kept) : Claim(o.source, kept, context).fresh =>
              Claim(o.source, kept, context) \in FreshClaims(kept, context)
      BY DEF FreshClaims, ClaimsFor
    <2>4. \A o \in ToSet(observations) : Claim(o.source, observations, context).fresh =>
              Claim(o.source, observations, context) \in FreshClaims(observations, context)
      BY DEF FreshClaims, ClaimsFor
    <2>5. claim \in FreshClaims(kept, context) => claim \in FreshClaims(observations, context)
      BY <1>1, <1>2, <2>1, <2>4
    <2>6. claim \in FreshClaims(observations, context) => claim \in FreshClaims(kept, context)
      BY <1>1, <1>3, <2>2, <2>3
    <2> QED BY <2>5, <2>6
  <1> QED BY <1>4 DEF kept

(* What a conclusion reports, apart from its claims and its confidence.    *)
Reported(said) ==
    <<said.klass, said.conflict, said.lost, said.offered, said.ratio_defined, said.ratio_bp,
      said.saturated, said.admitted>>

(* Those do not depend on the claims and the confidence.                   *)
LEMMA ReportedIs ==
    ASSUME NEW admitted, NEW tally, NEW conflict, NEW klass,
           NEW claims, NEW score, NEW others, NEW another
    PROVE  Reported(Conclusion(admitted, tally, claims, conflict, klass, score))
              = Reported(Conclusion(admitted, tally, others, conflict, klass, another))
  BY DEF Reported, Conclusion

(* "No rule can promote stale or unsupported evidence into loss"           *)
(* (classify.hpp:259): where any evidence is fresh, Classifier::classify   *)
(* reports exactly what it would report had it been given the fresh        *)
(* evidence alone: class, conflict, counts and ratio.  Only the confidence *)
(* differs, and the list of claims, which names the stale sources too.     *)
THEOREM StaleAddsNothing ==
    ASSUME NEW S, NEW observations \in Seq(S), NEW context,
           Admissible(observations, context) # << >>
    PROVE  Reported(Classify(observations, context))
              = Reported(Classify(Admissible(observations, context), context))
  <1> DEFINE kept     == Admissible(observations, context)
             tally    == Tally(kept)
             conflict == Hearing(observations, context)
  <1>1. PICK claims, score :
            Classify(observations, context)
                = Conclusion(kept, tally, claims, conflict,
                             Judgement(observations, kept, tally, conflict), score)
    BY Zenon DEF Classify, ClassifyBy, Judged, Hearing, FreshClaims
  <1>2. PICK others, another :
            Classify(kept, context)
                = Conclusion(Admissible(kept, context), Tally(Admissible(kept, context)), others,
                             Hearing(kept, context),
                             Judgement(kept, Admissible(kept, context),
                                       Tally(Admissible(kept, context)),
                                       Hearing(kept, context)), another)
    <2> HIDE DEF kept
    <2> QED BY Zenon DEF Classify, ClassifyBy, Judged, Hearing, FreshClaims
  <1>3. Admissible(kept, context) = kept
    BY AdmissibleTwice
  <1>4. Hearing(kept, context) = conflict
    BY FreshClaimsStay DEF Hearing
  <1>5. observations # << >>
    BY AdmissibleIs, EmptyOrNot
  <1>6. kept # << >>
    OBVIOUS
  <1> HIDE DEF kept, tally, conflict
  <1>7. Judgement(observations, kept, tally, conflict) = Judgement(kept, kept, tally, conflict)
    BY <1>5, <1>6 DEF Judgement
  <1>8. Classify(kept, context)
            = Conclusion(kept, tally, others, conflict,
                         Judgement(observations, kept, tally, conflict), another)
    BY <1>2, <1>3, <1>4, <1>7 DEF tally
  <1>9. Reported(Classify(observations, context)) = Reported(Classify(kept, context))
    BY <1>1, <1>8, ReportedIs
  <1> QED BY <1>9 DEF kept


-----------------------------------------------------------------------------
(* Sorting.                                                                *)

(* The elements that are before an element x by R, R[x], are a strict total *)
(* order of S.                                                             *)
Orders(R, S) ==
    /\ \A x \in S : x \notin R[x]
    /\ \A x, y, z \in S : x \in R[y] /\ y \in R[z] => x \in R[z]
    /\ \A x, y \in S : x = y \/ x \in R[y] \/ y \in R[x]

(* What comes before x.                                                    *)
Before(x, S, R) == {y \in S : y \in R[x]}

(* Of two elements the one that comes first has less before it.            *)
LEMMA FirstHasLessBefore ==
    ASSUME NEW S, IsFiniteSet(S), NEW R, Orders(R, S),
           NEW x \in S, NEW y \in S, x \in R[y]
    PROVE  Cardinality(Before(x, S, R)) < Cardinality(Before(y, S, R))
  <1>1. /\ Before(x, S, R) \subseteq Before(y, S, R)
        /\ x \in Before(y, S, R) \ Before(x, S, R)
    BY DEF Orders, Before
  <1>2. IsFiniteSet(Before(y, S, R))
    BY FS_Subset DEF Before
  <1>3. /\ IsFiniteSet(Before(x, S, R))
        /\ Cardinality(Before(x, S, R)) <= Cardinality(Before(y, S, R))
        /\ Cardinality(Before(x, S, R)) # Cardinality(Before(y, S, R))
    BY <1>1, <1>2, FS_Subset
  <1>4. Cardinality(Before(x, S, R)) \in Nat /\ Cardinality(Before(y, S, R)) \in Nat
    BY <1>2, <1>3, FS_CardinalityType
  <1> QED BY <1>3, <1>4

(* Every number of predecessors that is possible is had by some element.   *)
LEMMA Ranked ==
    ASSUME NEW S, IsFiniteSet(S), NEW R, Orders(R, S), NEW k \in 1..Cardinality(S)
    PROVE  \E x \in S : Cardinality(Before(x, S, R)) = k - 1
  <1> DEFINE n == Cardinality(S)
             f == [x \in S |-> Cardinality(Before(x, S, R)) + 1]
  <1>1. n \in Nat
    BY FS_CardinalityType
  <1>2. ASSUME NEW x \in S
        PROVE  f[x] \in 1..n
    <2>1. Before(x, S, R) \subseteq S \ {x}
      BY DEF Before, Orders
    <2>2. IsFiniteSet(S \ {x}) /\ Cardinality(S \ {x}) = n - 1
      BY FS_RemoveElement
    <2>3. /\ IsFiniteSet(Before(x, S, R))
          /\ Cardinality(Before(x, S, R)) <= n - 1
      BY <2>1, <2>2, FS_Subset
    <2>4. Cardinality(Before(x, S, R)) \in Nat
      BY <2>3, FS_CardinalityType
    <2> QED BY <1>1, <2>3, <2>4
  <1>3. \A x, y \in S : f[x] = f[y] => x = y
    <2> SUFFICES ASSUME NEW x \in S, NEW y \in S, f[x] = f[y], x # y
                 PROVE  FALSE
      OBVIOUS
    <2>1. /\ Cardinality(Before(x, S, R)) \in Int /\ Cardinality(Before(y, S, R)) \in Int
      <3>1. IsFiniteSet(Before(x, S, R)) /\ IsFiniteSet(Before(y, S, R))
        BY FS_Subset DEF Before
      <3> QED BY <3>1, FS_CardinalityType
    <2>2. Cardinality(Before(x, S, R)) = Cardinality(Before(y, S, R))
      BY <2>1
    <2>3. x \in R[y] \/ y \in R[x]
      BY DEF Orders
    <2> QED BY <2>1, <2>2, <2>3, FirstHasLessBefore
  <1>4. f \in Injection(S, 1..n)
    <2>1. f \in [S -> 1..n]
      BY <1>2
    <2> HIDE DEF f, n
    <2> QED BY <1>3, <2>1 DEF Injection, IsInjective
  <1>5. IsFiniteSet(1..n) /\ Cardinality(1..n) = n
    BY <1>1, FS_Interval
  <1>6. f \in Surjection(S, 1..n)
    <2> HIDE DEF f
    <2> QED BY <1>4, <1>5, FS_Injection
  <1>7. PICK x \in S : f[x] = k
    <2> HIDE DEF f
    <2> QED BY <1>6 DEF Surjection
  <1>8. Cardinality(Before(x, S, R)) \in Nat
    BY FS_Subset, FS_CardinalityType DEF Before
  <1> QED BY <1>7, <1>8

(* A sequence that has S in the order R.                                   *)
InOrderOf(seq, S, R) ==
    /\ DOMAIN seq = 1..Cardinality(S)
    /\ \A k \in 1..Cardinality(S) :
          seq[k] \in S /\ Cardinality(Before(seq[k], S, R)) = k - 1

(* It has each element of S once, an earlier one before a later one.       *)
LEMMA InOrderIs ==
    ASSUME NEW S, IsFiniteSet(S), NEW R, Orders(R, S), NEW seq, seq = [k \in DOMAIN seq |-> seq[k]],
           InOrderOf(seq, S, R)
    PROVE  /\ seq \in Seq(S) /\ Len(seq) = Cardinality(S)
           /\ ToSet(seq) = S
           /\ \A j, k \in DOMAIN seq : j < k => seq[j] \in R[seq[k]]
  <1> DEFINE n == Cardinality(S)
  <1>1. n \in Nat
    BY FS_CardinalityType
  <1>2. seq \in [1..n -> S]
    BY DEF InOrderOf
  <1>3. seq \in Seq(S) /\ Len(seq) = n
    <2> HIDE DEF n
    <2> QED BY <1>1, <1>2
  <1>4. ASSUME NEW j \in 1..n, NEW k \in 1..n, j < k
        PROVE  seq[j] \in R[seq[k]]
    <2>1. /\ seq[j] \in S /\ Cardinality(Before(seq[j], S, R)) = j - 1
          /\ seq[k] \in S /\ Cardinality(Before(seq[k], S, R)) = k - 1
      BY DEF InOrderOf
    <2>2. seq[j] # seq[k]
      BY <1>4, <2>1
    <2>3. seq[j] \in R[seq[k]] \/ seq[k] \in R[seq[j]]
      BY <2>1, <2>2 DEF Orders
    <2>4. CASE seq[k] \in R[seq[j]]
      <3>1. k - 1 < j - 1
        BY <2>1, <2>4, FirstHasLessBefore
      <3> QED BY <1>4, <3>1
    <2> QED BY <2>3, <2>4
  <1>5. ASSUME NEW x \in S
        PROVE  \E k \in 1..n : seq[k] = x
    <2> DEFINE k == Cardinality(Before(x, S, R)) + 1
    <2>1. k \in 1..n
      <3>1. Before(x, S, R) \subseteq S \ {x}
        BY DEF Before, Orders
      <3>2. IsFiniteSet(S \ {x}) /\ Cardinality(S \ {x}) = n - 1
        BY FS_RemoveElement
      <3>3. /\ IsFiniteSet(Before(x, S, R))
            /\ Cardinality(Before(x, S, R)) <= n - 1
        BY <3>1, <3>2, FS_Subset
      <3>4. Cardinality(Before(x, S, R)) \in Nat
        BY <3>3, FS_CardinalityType
      <3> QED BY <1>1, <3>3, <3>4
    <2>2. /\ seq[k] \in S
          /\ Cardinality(Before(seq[k], S, R)) = Cardinality(Before(x, S, R))
      <3>1. Cardinality(Before(x, S, R)) \in Nat
        BY FS_Subset, FS_CardinalityType DEF Before
      <3>2. seq[k] \in S /\ Cardinality(Before(seq[k], S, R)) = k - 1
        <4> HIDE DEF k
        <4> QED BY <2>1 DEF InOrderOf
      <3> QED BY <3>1, <3>2
    <2>3. seq[k] = x
      <3> SUFFICES ASSUME seq[k] # x PROVE FALSE
        OBVIOUS
      <3> HIDE DEF k
      <3>1. seq[k] \in R[x] \/ x \in R[seq[k]]
        BY <2>2 DEF Orders
      <3>2. Cardinality(Before(x, S, R)) \in Nat
        BY FS_Subset, FS_CardinalityType DEF Before
      <3> QED BY <2>2, <3>1, <3>2, FirstHasLessBefore
    <2> HIDE DEF k
    <2> QED BY <2>1, <2>3
  <1>6. DOMAIN seq = 1..n
    BY DEF InOrderOf
  <1> HIDE DEF n
  <1>7. ToSet(seq) = S
    BY <1>2, <1>5, <1>6 DEF ToSet
  <1> QED BY <1>3, <1>4, <1>6, <1>7 DEF n

-----------------------------------------------------------------------------
(* Lexicographic order.                                                    *)

(* Tuples of a length.                                                     *)
Tuples(n) == {s \in Seq(Int) : Len(s) = n}

(* Where two of them first differ.                                         *)
Differs(a, b, i) == a[i] # b[i] /\ \A j \in 1..(i - 1) : a[j] = b[j]

(* Two tuples that differ do so at a first place.                          *)
LEMMA FirstDifference ==
    ASSUME NEW n \in Nat, NEW a \in Tuples(n), NEW b \in Tuples(n), a # b
    PROVE  \E i \in 1..n : Differs(a, b, i)
  <1> DEFINE Places == {i \in 1..n : a[i] # b[i]}
  <1>1. Places # {}
    <2> SUFFICES ASSUME \A i \in 1..n : a[i] = b[i] PROVE a = b
      OBVIOUS
    <2> QED BY SeqEqual DEF Tuples
  <1>2. PICK i \in Places : \A j \in Places : i <= j
    <2>1. Places \in SUBSET Nat
      OBVIOUS
    <2> HIDE DEF Places
    <2> QED BY <1>1, <2>1, Least
  <1>3. \A j \in 1..(i - 1) : j \in 1..n /\ j < i
    BY <1>2
  <1> QED BY <1>2, <1>3 DEF Differs

(* Which one precedes is decided there.                                    *)
LEMMA PrecedesByFirst ==
    ASSUME NEW n \in Nat, NEW a \in Tuples(n), NEW b \in Tuples(n),
           NEW i \in 1..n, Differs(a, b, i)
    PROVE  Precedes(a, b) <=> a[i] < b[i]
  <1>1. /\ DOMAIN a = 1..n
        /\ \A k \in 1..n : a[k] \in Int /\ b[k] \in Int
    BY LenProperties, ElementOfSeq DEF Tuples
  <1>2. ASSUME NEW k \in DOMAIN a, a[k] < b[k], \A j \in 1..(k - 1) : a[j] = b[j]
        PROVE  k = i
    <2>1. k \in 1..n /\ a[k] # b[k]
      BY <1>1, <1>2
    <2>2. ~(k < i)
      BY <2>1 DEF Differs
    <2>3. ~(i < k)
      BY <1>2, <2>1 DEF Differs
    <2> QED BY <2>1, <2>2, <2>3
  <1>3. Precedes(a, b) => a[i] < b[i]
    BY <1>2 DEF Precedes
  <1>4. a[i] < b[i] => Precedes(a, b)
    BY <1>1 DEF Precedes, Differs
  <1> QED BY <1>3, <1>4

(* No tuple precedes itself.                                               *)
LEMMA PrecedesNotItself ==
    ASSUME NEW n \in Nat, NEW a \in Tuples(n)
    PROVE  ~Precedes(a, a)
  <1>1. /\ DOMAIN a = 1..n
        /\ \A k \in 1..n : a[k] \in Int
    BY LenProperties, ElementOfSeq DEF Tuples
  <1> QED BY <1>1 DEF Precedes

(* Of two that differ one precedes the other.                              *)
LEMMA PrecedesOneWay ==
    ASSUME NEW n \in Nat, NEW a \in Tuples(n), NEW b \in Tuples(n), a # b
    PROVE  Precedes(a, b) \/ Precedes(b, a)
  <1>1. PICK i \in 1..n : Differs(a, b, i)
    BY FirstDifference
  <1>2. Differs(b, a, i)
    BY <1>1 DEF Differs
  <1>3. a[i] \in Int /\ b[i] \in Int /\ a[i] # b[i]
    BY <1>1, ElementOfSeq DEF Tuples, Differs
  <1>4. (Precedes(a, b) <=> a[i] < b[i]) /\ (Precedes(b, a) <=> b[i] < a[i])
    BY <1>1, <1>2, PrecedesByFirst
  <1> QED BY <1>3, <1>4

(* Precedence carries over.                                                *)
LEMMA PrecedesOnwards ==
    ASSUME NEW n \in Nat, NEW a \in Tuples(n), NEW b \in Tuples(n), NEW c \in Tuples(n),
           Precedes(a, b), Precedes(b, c)
    PROVE  Precedes(a, c)
  <1>1. /\ DOMAIN a = 1..n /\ DOMAIN b = 1..n
        /\ \A k \in 1..n : a[k] \in Int /\ b[k] \in Int /\ c[k] \in Int
    BY LenProperties, ElementOfSeq DEF Tuples
  <1>2. PICK i \in 1..n : a[i] < b[i] /\ \A j \in 1..(i - 1) : a[j] = b[j]
    BY <1>1 DEF Precedes
  <1>3. PICK k \in 1..n : b[k] < c[k] /\ \A j \in 1..(k - 1) : b[j] = c[j]
    BY <1>1 DEF Precedes
  <1>4. CASE i <= k
    <2>1. \A j \in 1..(i - 1) : j \in 1..(k - 1)
      BY <1>4
    <2>2. b[i] <= c[i]
      <3>1. i = k \/ i \in 1..(k - 1)
        BY <1>4
      <3> QED BY <1>1, <1>3, <3>1
    <2>3. a[i] < c[i]
      BY <1>1, <1>2, <2>2
    <2>4. \A j \in 1..(i - 1) : a[j] = c[j]
      BY <1>2, <1>3, <2>1
    <2> QED BY <1>1, <2>3, <2>4 DEF Precedes
  <1>5. CASE k < i
    <2>1. \A j \in 1..(k - 1) : j \in 1..(i - 1)
      BY <1>5
    <2>2. k \in 1..(i - 1)
      BY <1>5
    <2>3. a[k] < c[k]
      BY <1>1, <1>2, <1>3, <2>2
    <2>4. \A j \in 1..(k - 1) : a[j] = c[j]
      BY <1>2, <1>3, <2>1
    <2> QED BY <1>1, <2>3, <2>4 DEF Precedes
  <1> QED BY <1>4, <1>5

(* Things of which no two have the same key are ordered by their keys.     *)
ByKey(key) == [x \in DOMAIN key |-> {y \in DOMAIN key : Precedes(key[y], key[x])}]

(* Keys that no two elements share order them.                             *)
LEMMA KeysOrder ==
    ASSUME NEW n \in Nat, NEW S, NEW key \in [S -> Tuples(n)],
           \A x, y \in S : key[x] = key[y] => x = y
    PROVE  Orders(ByKey(key), S)
  <1>1. \A x, y \in S : x \in ByKey(key)[y] <=> Precedes(key[x], key[y])
    <2>1. DOMAIN key = S
      OBVIOUS
    <2> QED BY <2>1, Zenon DEF ByKey
  <1>2. \A x \in S : x \notin ByKey(key)[x]
    BY <1>1, PrecedesNotItself
  <1>3. \A x, y \in S : x = y \/ x \in ByKey(key)[y] \/ y \in ByKey(key)[x]
    BY <1>1, PrecedesOneWay
  <1>4. ASSUME NEW x \in S, NEW y \in S, NEW z \in S,
               x \in ByKey(key)[y], y \in ByKey(key)[z]
        PROVE  x \in ByKey(key)[z]
    <2>1. key[x] \in Tuples(n) /\ key[y] \in Tuples(n) /\ key[z] \in Tuples(n)
      OBVIOUS
    <2>2. Precedes(key[x], key[y]) /\ Precedes(key[y], key[z])
      BY <1>1, <1>4
    <2>3. Precedes(key[x], key[z])
      BY <2>1, <2>2, PrecedesOnwards
    <2> QED BY <1>1, <2>3
  <1> QED BY <1>2, <1>3, <1>4 DEF Orders

-----------------------------------------------------------------------------
(* Items in order.                                                         *)

(* What derivation is given: finitely many items, each with an identity of *)
(* its own.                                                                *)
Proper(items) ==
    /\ IsFiniteSet(items)
    /\ \A i \in items : Typed(i) /\ Valid(i)
    /\ \A i, j \in items : i.id = j.id => i = j

(* A part of what derivation is given could have been given.               *)
LEMMA ProperSubset ==
    ASSUME NEW items, Proper(items), NEW some \in SUBSET items
    PROVE  Proper(some)
  BY FS_Subset DEF Proper

(* The numbers an item is ordered by.                                      *)
LEMMA TypedNumbers ==
    ASSUME NEW item, Typed(item)
    PROVE  /\ item.id \in Nat /\ item.source \in Nat /\ item.epoch \in Nat
           /\ item.generation \in Nat /\ item.sequence \in Nat /\ item.observed_at \in Nat
  BY DEF Typed

(* Tuples of integers.                                                     *)
LEMMA TupleOfTwo ==
    ASSUME NEW a \in Int, NEW b \in Int
    PROVE  <<a, b>> \in Tuples(2)
  BY DEF Tuples

(* The same of four.                                                       *)
LEMMA TupleOfFour ==
    ASSUME NEW a \in Int, NEW b \in Int, NEW c \in Int, NEW d \in Int
    PROVE  <<a, b, c, d>> \in Tuples(4)
  BY DEF Tuples

(* A sequence that has at each place an element with as many before it as  *)
(* the place says, if there is one, has all of a set that keys order.      *)
Places(seq, S, before) ==
    /\ seq = [k \in DOMAIN seq |-> seq[k]]
    /\ DOMAIN seq = 1..Cardinality(S)
    /\ \A k \in 1..Cardinality(S) :
          (\E x \in S : Cardinality(before[x]) = k - 1)
              => seq[k] \in S /\ Cardinality(before[seq[k]]) = k - 1

OrderedBy(key, S, n, before) ==
    /\ key \in [S -> Tuples(n)]
    /\ \A x, y \in S : key[x] = key[y] => x = y
    /\ \A x \in S : before[x] = {y \in S : Precedes(key[y], key[x])}

(* All of a set, by rising keys.                                           *)
InOrder(seq, S, key) ==
    /\ seq \in Seq(S) /\ Len(seq) = Cardinality(S) /\ ToSet(seq) = S
    /\ \A j, k \in DOMAIN seq : j < k => Precedes(key[seq[j]], key[seq[k]])

(* What has every element at the place its key says is the set in order.   *)
LEMMA SortedByKey ==
    ASSUME NEW n \in Nat, NEW S, IsFiniteSet(S), NEW key, NEW before,
           OrderedBy(key, S, n, before), NEW seq, Places(seq, S, before)
    PROVE  InOrder(seq, S, key)
  <1> DEFINE R == ByKey(key)
  <1>1. Orders(R, S)
    BY KeysOrder DEF OrderedBy
  <1>2. ASSUME NEW x \in S
        PROVE  R[x] = {y \in S : Precedes(key[y], key[x])}
    <2>1. DOMAIN key = S
      BY DEF OrderedBy
    <2> QED BY <2>1, Zenon DEF ByKey
  <1> HIDE DEF R
  <1>3. ASSUME NEW x \in S
        PROVE  before[x] = Before(x, S, R)
    BY <1>2 DEF Before, OrderedBy
  <1>4. ASSUME NEW k \in 1..Cardinality(S)
        PROVE  seq[k] \in S /\ Cardinality(Before(seq[k], S, R)) = k - 1
    <2>1. PICK x \in S : Cardinality(Before(x, S, R)) = k - 1
      BY <1>1, Ranked
    <2>2. Cardinality(before[x]) = k - 1
      BY <1>3, <2>1
    <2>3. seq[k] \in S /\ Cardinality(before[seq[k]]) = k - 1
      BY <2>2 DEF Places
    <2> QED BY <1>3, <2>3
  <1>5. InOrderOf(seq, S, R)
    BY <1>4 DEF InOrderOf, Places
  <1>6. seq = [k \in DOMAIN seq |-> seq[k]]
    BY DEF Places
  <1>7. /\ seq \in Seq(S) /\ Len(seq) = Cardinality(S) /\ ToSet(seq) = S
        /\ \A j, k \in DOMAIN seq : j < k => seq[j] \in R[seq[k]]
    BY <1>1, <1>5, <1>6, InOrderIs
  <1>8. \A j \in DOMAIN seq : seq[j] \in S
    BY <1>7
  <1> QED BY <1>2, <1>7, <1>8 DEF InOrder

CanonicalKey(items) == [i \in items |-> <<i.observed_at, i.source, i.sequence, i.id>>]

(* The canonical order tells any two items apart.                          *)
LEMMA CanonicalKeys ==
    ASSUME NEW items, Proper(items)
    PROVE  /\ CanonicalKey(items) \in [items -> Tuples(4)]
           /\ \A i, j \in items : CanonicalKey(items)[i] = CanonicalKey(items)[j] => i = j
           /\ \A i, j \in items :
                 CanonicalLess(i, j) <=> Precedes(CanonicalKey(items)[i], CanonicalKey(items)[j])
  <1>1. ASSUME NEW i \in items
        PROVE  /\ CanonicalKey(items)[i] = <<i.observed_at, i.source, i.sequence, i.id>>
               /\ CanonicalKey(items)[i] \in Tuples(4)
    <2>1. Typed(i)
      BY DEF Proper
    <2>2. CanonicalKey(items)[i] = <<i.observed_at, i.source, i.sequence, i.id>>
      BY DEF CanonicalKey
    <2> QED BY <2>1, <2>2, TypedNumbers, TupleOfFour
  <1>2. CanonicalKey(items) \in [items -> Tuples(4)]
    BY <1>1 DEF CanonicalKey
  <1>3. ASSUME NEW i \in items, NEW j \in items, CanonicalKey(items)[i] = CanonicalKey(items)[j]
        PROVE  i = j
    <2>1. i.id = j.id
      BY <1>1, <1>3
    <2> QED BY <2>1 DEF Proper
  <1>4. ASSUME NEW i \in items, NEW j \in items
        PROVE  CanonicalLess(i, j) <=> Precedes(CanonicalKey(items)[i], CanonicalKey(items)[j])
    BY <1>1, Zenon DEF CanonicalLess
  <1> QED BY <1>2, <1>3, <1>4

(* What canonical_less sorts.                                              *)
LEMMA CanonicallySorted ==
    ASSUME NEW items, Proper(items)
    PROVE  InOrder(Sorted(items, CanonicalLess), items, CanonicalKey(items))
  <1> DEFINE seq    == Sorted(items, CanonicalLess)
             before == [x \in items |-> {y \in items : CanonicalLess(y, x)}]
             pick(k) == CHOOSE x \in items : Cardinality({y \in items : CanonicalLess(y, x)}) = k - 1
  <1>1. OrderedBy(CanonicalKey(items), items, 4, before)
    <2>1. ASSUME NEW x \in items
          PROVE  before[x] = {y \in items : Precedes(CanonicalKey(items)[y], CanonicalKey(items)[x])}
      <3>1. before[x] = {y \in items : CanonicalLess(y, x)}
        OBVIOUS
      <3> HIDE DEF before
      <3> QED BY <3>1, CanonicalKeys
    <2> HIDE DEF before
    <2> QED BY <2>1, CanonicalKeys DEF OrderedBy
  <1>2. seq = [k \in 1..Cardinality(items) |-> pick(k)]
    BY DEF Sorted
  <1>3. ASSUME NEW k \in 1..Cardinality(items), NEW x \in items, Cardinality(before[x]) = k - 1
        PROVE  seq[k] \in items /\ Cardinality(before[seq[k]]) = k - 1
    <2>1. \A z \in items : before[z] = {y \in items : CanonicalLess(y, z)}
      OBVIOUS
    <2>2. seq[k] = pick(k)
      <3> HIDE DEF seq, pick
      <3> QED BY <1>2
    <2> HIDE DEF seq, before
    <2>3. /\ pick(k) \in items
          /\ Cardinality({y \in items : CanonicalLess(y, pick(k))}) = k - 1
      <3>1. Cardinality({y \in items : CanonicalLess(y, x)}) = k - 1
        BY <1>3, <2>1
      <3> QED BY <3>1, Zenon
    <2> HIDE DEF pick
    <2> QED BY <2>1, <2>2, <2>3
  <1> HIDE DEF seq, before, pick
  <1>4. seq = [k \in DOMAIN seq |-> seq[k]] /\ DOMAIN seq = 1..Cardinality(items)
    BY <1>2
  <1>5. Places(seq, items, before)
    BY <1>3, <1>4 DEF Places
  <1>6. IsFiniteSet(items)
    BY DEF Proper
  <1> QED BY <1>1, <1>5, <1>6, SortedByKey DEF seq

(* Within a series.                                                        *)
SeriesPlace(items) == [i \in items |-> <<i.sequence, i.id>>]

(* Readings of one series are in the order of their sequences, then of     *)
(* their identities.                                                       *)
LEMMA SeriesPlaces ==
    ASSUME NEW items, Proper(items)
    PROVE  /\ SeriesPlace(items) \in [items -> Tuples(2)]
           /\ \A i, j \in items : SeriesPlace(items)[i] = SeriesPlace(items)[j] => i = j
           /\ \A i, j \in items :
                 InSeries(i, j) <=> Precedes(SeriesPlace(items)[i], SeriesPlace(items)[j])
  <1>1. ASSUME NEW i \in items
        PROVE  /\ SeriesPlace(items)[i] = <<i.sequence, i.id>>
               /\ SeriesPlace(items)[i] \in Tuples(2)
    <2>1. Typed(i)
      BY DEF Proper
    <2>2. SeriesPlace(items)[i] = <<i.sequence, i.id>>
      BY DEF SeriesPlace
    <2> QED BY <2>1, <2>2, TypedNumbers, TupleOfTwo
  <1>2. SeriesPlace(items) \in [items -> Tuples(2)]
    BY <1>1 DEF SeriesPlace
  <1>3. ASSUME NEW i \in items, NEW j \in items, SeriesPlace(items)[i] = SeriesPlace(items)[j]
        PROVE  i = j
    <2>1. i.id = j.id
      BY <1>1, <1>3
    <2> QED BY <2>1 DEF Proper
  <1>4. ASSUME NEW i \in items, NEW j \in items
        PROVE  InSeries(i, j) <=> Precedes(SeriesPlace(items)[i], SeriesPlace(items)[j])
    BY <1>1, Zenon DEF InSeries
  <1> QED BY <1>2, <1>3, <1>4

(* What the order of a series sorts.                                       *)
LEMMA SeriesSorted ==
    ASSUME NEW items, Proper(items)
    PROVE  InOrder(Sorted(items, InSeries), items, SeriesPlace(items))
  <1> DEFINE seq    == Sorted(items, InSeries)
             before == [x \in items |-> {y \in items : InSeries(y, x)}]
             pick(k) == CHOOSE x \in items : Cardinality({y \in items : InSeries(y, x)}) = k - 1
  <1>1. OrderedBy(SeriesPlace(items), items, 2, before)
    <2>1. ASSUME NEW x \in items
          PROVE  before[x] = {y \in items : Precedes(SeriesPlace(items)[y], SeriesPlace(items)[x])}
      <3>1. before[x] = {y \in items : InSeries(y, x)}
        OBVIOUS
      <3> HIDE DEF before
      <3> QED BY <3>1, SeriesPlaces
    <2> HIDE DEF before
    <2> QED BY <2>1, SeriesPlaces DEF OrderedBy
  <1>2. seq = [k \in 1..Cardinality(items) |-> pick(k)]
    BY DEF Sorted
  <1>3. ASSUME NEW k \in 1..Cardinality(items), NEW x \in items, Cardinality(before[x]) = k - 1
        PROVE  seq[k] \in items /\ Cardinality(before[seq[k]]) = k - 1
    <2>1. \A z \in items : before[z] = {y \in items : InSeries(y, z)}
      OBVIOUS
    <2>2. seq[k] = pick(k)
      <3> HIDE DEF seq, pick
      <3> QED BY <1>2
    <2> HIDE DEF seq, before
    <2>3. /\ pick(k) \in items
          /\ Cardinality({y \in items : InSeries(y, pick(k))}) = k - 1
      <3>1. Cardinality({y \in items : InSeries(y, x)}) = k - 1
        BY <1>3, <2>1
      <3> QED BY <3>1, Zenon
    <2> HIDE DEF pick
    <2> QED BY <2>1, <2>2, <2>3
  <1> HIDE DEF seq, before, pick
  <1>4. seq = [k \in DOMAIN seq |-> seq[k]] /\ DOMAIN seq = 1..Cardinality(items)
    BY <1>2
  <1>5. Places(seq, items, before)
    BY <1>3, <1>4 DEF Places
  <1>6. IsFiniteSet(items)
    BY DEF Proper
  <1> QED BY <1>1, <1>5, <1>6, SortedByKey DEF seq

(* Tuples are their own keys.                                              *)
Itself(S) == [x \in S |-> x]

(* Tuples are keys of themselves.                                          *)
LEMMA TuplesAreKeys ==
    ASSUME NEW n \in Nat, NEW S \in SUBSET Tuples(n)
    PROVE  /\ Itself(S) \in [S -> Tuples(n)]
           /\ \A x, y \in S : Itself(S)[x] = Itself(S)[y] => x = y
           /\ \A x, y \in S : Precedes(x, y) <=> Precedes(Itself(S)[x], Itself(S)[y])
  <1>1. \A x \in S : Itself(S)[x] = x
    BY DEF Itself
  <1>2. Itself(S) \in [S -> Tuples(n)]
    BY DEF Itself
  <1> QED BY <1>1, <1>2

(* What the lexicographic order sorts.                                     *)
LEMMA TuplesSorted ==
    ASSUME NEW n \in Nat, NEW S \in SUBSET Tuples(n), IsFiniteSet(S)
    PROVE  InOrder(Sorted(S, Precedes), S, Itself(S))
  <1> DEFINE seq    == Sorted(S, Precedes)
             before == [x \in S |-> {y \in S : Precedes(y, x)}]
             pick(k) == CHOOSE x \in S : Cardinality({y \in S : Precedes(y, x)}) = k - 1
  <1>1. OrderedBy(Itself(S), S, n, before)
    <2>1. ASSUME NEW x \in S
          PROVE  before[x] = {y \in S : Precedes(Itself(S)[y], Itself(S)[x])}
      <3>1. before[x] = {y \in S : Precedes(y, x)}
        OBVIOUS
      <3> HIDE DEF before
      <3> QED BY <3>1, TuplesAreKeys
    <2> HIDE DEF before
    <2> QED BY <2>1, TuplesAreKeys DEF OrderedBy
  <1>2. seq = [k \in 1..Cardinality(S) |-> pick(k)]
    BY DEF Sorted
  <1>3. ASSUME NEW k \in 1..Cardinality(S), NEW x \in S, Cardinality(before[x]) = k - 1
        PROVE  seq[k] \in S /\ Cardinality(before[seq[k]]) = k - 1
    <2>1. \A z \in S : before[z] = {y \in S : Precedes(y, z)}
      OBVIOUS
    <2>2. seq[k] = pick(k)
      <3> HIDE DEF seq, pick
      <3> QED BY <1>2
    <2> HIDE DEF seq, before
    <2>3. /\ pick(k) \in S
          /\ Cardinality({y \in S : Precedes(y, pick(k))}) = k - 1
      <3>1. Cardinality({y \in S : Precedes(y, x)}) = k - 1
        BY <1>3, <2>1
      <3> QED BY <3>1, Zenon
    <2> HIDE DEF pick
    <2> QED BY <2>1, <2>2, <2>3
  <1> HIDE DEF seq, before, pick
  <1>4. seq = [k \in DOMAIN seq |-> seq[k]] /\ DOMAIN seq = 1..Cardinality(S)
    BY <1>2
  <1>5. Places(seq, S, before)
    BY <1>3, <1>4 DEF Places
  <1>6. IsFiniteSet(S)
    OBVIOUS
  <1> QED BY <1>1, <1>5, <1>6, SortedByKey DEF seq

(* Numbers.                                                                *)
Alone(S) == [x \in S |-> <<x>>]

(* So are numbers.                                                         *)
LEMMA NumbersAreKeys ==
    ASSUME NEW S \in SUBSET Nat
    PROVE  /\ Alone(S) \in [S -> Tuples(1)]
           /\ \A x, y \in S : Alone(S)[x] = Alone(S)[y] => x = y
           /\ \A x, y \in S : x < y <=> Precedes(Alone(S)[x], Alone(S)[y])
  <1>1. ASSUME NEW x \in S
        PROVE  Alone(S)[x] = <<x>> /\ <<x>> \in Tuples(1)
    BY DEF Alone, Tuples
  <1>2. Alone(S) \in [S -> Tuples(1)]
    BY <1>1 DEF Alone
  <1>3. ASSUME NEW x \in S, NEW y \in S
        PROVE  x < y <=> Precedes(<<x>>, <<y>>)
    <2>1. Differs(<<x>>, <<y>>, 1) \/ x = y
      BY DEF Differs
    <2>2. <<x>> \in Tuples(1) /\ <<y>> \in Tuples(1) /\ x \in Nat /\ y \in Nat
      BY <1>1
    <2>3. <<x>>[1] = x /\ <<y>>[1] = y
      OBVIOUS
    <2>4. CASE x = y
      BY <2>2, <2>4, PrecedesNotItself
    <2>5. CASE Differs(<<x>>, <<y>>, 1)
      BY <2>2, <2>3, <2>5, PrecedesByFirst
    <2> QED BY <2>1, <2>4, <2>5
  <1>4. ASSUME NEW x \in S, NEW y \in S
        PROVE  Alone(S)[x] = Alone(S)[y] => x = y
    <2>1. <<x>>[1] = x /\ <<y>>[1] = y
      OBVIOUS
    <2> QED BY <1>1, <2>1
  <1>5. ASSUME NEW x \in S, NEW y \in S
        PROVE  x < y <=> Precedes(Alone(S)[x], Alone(S)[y])
    BY <1>1, <1>3
  <1> QED BY <1>2, <1>4, <1>5

(* What < sorts.                                                           *)
LEMMA NumbersSorted ==
    ASSUME NEW S \in SUBSET Nat, IsFiniteSet(S)
    PROVE  InOrder(Sorted(S, <), S, Alone(S))
  <1> DEFINE seq    == Sorted(S, <)
             before == [x \in S |-> {y \in S : y < x}]
             pick(k) == CHOOSE x \in S : Cardinality({y \in S : y < x}) = k - 1
  <1>1. OrderedBy(Alone(S), S, 1, before)
    <2>1. ASSUME NEW x \in S
          PROVE  before[x] = {y \in S : Precedes(Alone(S)[y], Alone(S)[x])}
      <3>1. before[x] = {y \in S : y < x}
        OBVIOUS
      <3> HIDE DEF before
      <3> QED BY <3>1, NumbersAreKeys
    <2> HIDE DEF before
    <2> QED BY <2>1, NumbersAreKeys DEF OrderedBy
  <1>2. seq = [k \in 1..Cardinality(S) |-> pick(k)]
    BY DEF Sorted
  <1>3. ASSUME NEW k \in 1..Cardinality(S), NEW x \in S, Cardinality(before[x]) = k - 1
        PROVE  seq[k] \in S /\ Cardinality(before[seq[k]]) = k - 1
    <2>1. \A z \in S : before[z] = {y \in S : y < z}
      OBVIOUS
    <2>2. seq[k] = pick(k)
      <3> HIDE DEF seq, pick
      <3> QED BY <1>2
    <2> HIDE DEF seq, before
    <2>3. /\ pick(k) \in S
          /\ Cardinality({y \in S : y < pick(k)}) = k - 1
      <3>1. Cardinality({y \in S : y < x}) = k - 1
        BY <1>3, <2>1
      <3> QED BY <3>1, Zenon
    <2> HIDE DEF pick
    <2> QED BY <2>1, <2>2, <2>3
  <1> HIDE DEF seq, before, pick
  <1>4. seq = [k \in DOMAIN seq |-> seq[k]] /\ DOMAIN seq = 1..Cardinality(S)
    BY <1>2
  <1>5. Places(seq, S, before)
    BY <1>3, <1>4 DEF Places
  <1>6. IsFiniteSet(S)
    OBVIOUS
  <1> QED BY <1>1, <1>5, <1>6, SortedByKey DEF seq

-----------------------------------------------------------------------------
(* Folds.                                                                  *)

(* The pairs made of senders, one after the other.                         *)
PairsOf(senders, receivers) ==
    FoldLeft(LAMBDA pairs, sender : Paired(pairs, sender, receivers), {}, senders)

(* Pairs accumulate, sender by sender.                                     *)
LEMMA PairingStaysIn ==
    ASSUME NEW T, NEW S, NEW senders \in Seq(S), NEW receivers, {} \in T,
           \A pairs \in T, sender \in S : Paired(pairs, sender, receivers) \in T
    PROVE  PairsOf(senders, receivers) \in T
  <1> DEFINE n == Len(senders)
             step(kept, x) == Paired(kept, x, receivers)
             op == [p \in T \X Nat |-> IF p[2] \in 1..n THEN step(p[1], senders[p[2]])
                                       ELSE p[1]]
             Recursion(h) ==
                 h = [s \in SUBSET DOMAIN senders |->
                        IF s = {} THEN {} ELSE step(h[s \ {Max(s)}], senders[Max(s)])]
             iter == CHOOSE h : Recursion(h)
  <1>1. n \in Nat /\ DOMAIN senders = 1..n /\ \A k \in 1..n : senders[k] \in S
    BY LenProperties
  <1>2. PairsOf(senders, receivers) = iter[DOMAIN senders]
    BY DEF FoldLeft, MapThenFoldSet, PairsOf
  <1>3. {} \in T /\ \A kept \in T, x \in S : step(kept, x) \in T
    OBVIOUS
  <1> HIDE DEF step
  <1>4. op \in [T \X Nat -> T]
    BY <1>1, <1>3
  <1>5. ASSUME NEW kept \in T, NEW k \in 1..n
        PROVE  op[<<kept, k>>] = step(kept, senders[k])
    OBVIOUS
  <1> HIDE DEF op, n
  <1>6. \E h : Recursion(h)
    <2>1. PICK h \in [SUBSET (1..n) -> T] : FoldsBy(h, n, {}, op)
      BY <1>1, <1>3, <1>4, FoldExists DEF FoldExistsTo
    <2>2. ASSUME NEW s \in SUBSET (1..n), s # {}
          PROVE  h[s] = step(h[s \ {Max(s)}], senders[Max(s)])
      <3>1. Max(s) \in 1..n
        BY <1>1, <2>2, PositionsHaveGreatest
      <3>2. h[s \ {Max(s)}] \in T
        OBVIOUS
      <3>3. h[s] = op[<<h[s \ {Max(s)}], Max(s)>>]
        BY <2>1, <2>2 DEF FoldsBy
      <3> QED BY <1>5, <3>1, <3>2, <3>3
    <2>3. h[{}] = {}
      BY <2>1 DEF FoldsBy
    <2>4. Recursion(h)
      BY <1>1, <2>2, <2>3
    <2> QED BY <2>4
  <1>7. Recursion(iter)
    <2> HIDE DEF Recursion
    <2> QED BY <1>6
  <1> HIDE DEF iter
  <1>8. \A s \in SUBSET (1..n) :
            iter[s] = IF s = {} THEN {} ELSE step(iter[s \ {Max(s)}], senders[Max(s)])
    BY <1>1, <1>7
  <1> DEFINE Holds == {k \in 0..n : iter[1..k] \in T}
  <1>9. 0 \in Holds
    <2>1. 1..0 = {} /\ {} \in SUBSET (1..n) /\ 0 \in 0..n
      BY <1>1
    <2> QED BY <1>3, <1>8, <2>1
  <1>10. ASSUME NEW k \in 1..n, k - 1 \in Holds
         PROVE  k \in Holds
    <2>1. 1..k \in (SUBSET (1..n)) \ {{}} /\ Max(1..k) = k /\ (1..k) \ {k} = 1..(k - 1)
      BY <1>1, FirstPositions
    <2>2. iter[1..k] = step(iter[1..(k - 1)], senders[k])
      <3>1. iter[1..k] = step(iter[(1..k) \ {Max(1..k)}], senders[Max(1..k)])
        BY <1>8, <2>1
      <3> QED BY <2>1, <3>1
    <2>3. iter[1..(k - 1)] \in T /\ senders[k] \in S
      BY <1>1, <1>10
    <2>4. iter[1..k] \in T
      BY <1>3, <2>2, <2>3
    <2>5. k \in 0..n
      BY <1>1
    <2> QED BY <2>4, <2>5
  <1>11. n \in 0..n
    BY <1>1
  <1> HIDE DEF Holds
  <1>12. n \in Holds
    BY <1>1, <1>9, <1>10, <1>11, ReachesEach
  <1> QED BY <1>1, <1>2, <1>12 DEF Holds

(* Sums of integers.                                                       *)
LEMMA SumIsInteger ==
    ASSUME NEW terms \in Seq(Int)
    PROVE  FoldLeft(+, 0, terms) \in Int
  <1> DEFINE n == Len(terms)
             step(kept, x) == kept + x
             op == [p \in Int \X Nat |-> IF p[2] \in 1..n THEN step(p[1], terms[p[2]])
                                       ELSE p[1]]
             Recursion(h) ==
                 h = [s \in SUBSET DOMAIN terms |->
                        IF s = {} THEN 0 ELSE step(h[s \ {Max(s)}], terms[Max(s)])]
             iter == CHOOSE h : Recursion(h)
  <1>1. n \in Nat /\ DOMAIN terms = 1..n /\ \A k \in 1..n : terms[k] \in Int
    BY LenProperties
  <1>2. FoldLeft(+, 0, terms) = iter[DOMAIN terms]
    BY DEF FoldLeft, MapThenFoldSet
  <1>3. 0 \in Int /\ \A kept \in Int, x \in Int : step(kept, x) \in Int
    OBVIOUS
  <1> HIDE DEF step
  <1>4. op \in [Int \X Nat -> Int]
    BY <1>1, <1>3
  <1>5. ASSUME NEW kept \in Int, NEW k \in 1..n
        PROVE  op[<<kept, k>>] = step(kept, terms[k])
    OBVIOUS
  <1> HIDE DEF op, n
  <1>6. \E h : Recursion(h)
    <2>1. PICK h \in [SUBSET (1..n) -> Int] : FoldsBy(h, n, 0, op)
      BY <1>1, <1>3, <1>4, FoldExists DEF FoldExistsTo
    <2>2. ASSUME NEW s \in SUBSET (1..n), s # {}
          PROVE  h[s] = step(h[s \ {Max(s)}], terms[Max(s)])
      <3>1. Max(s) \in 1..n
        BY <1>1, <2>2, PositionsHaveGreatest
      <3>2. h[s \ {Max(s)}] \in Int
        OBVIOUS
      <3>3. h[s] = op[<<h[s \ {Max(s)}], Max(s)>>]
        BY <2>1, <2>2 DEF FoldsBy
      <3> QED BY <1>5, <3>1, <3>2, <3>3
    <2>3. h[{}] = 0
      BY <2>1 DEF FoldsBy
    <2>4. Recursion(h)
      BY <1>1, <2>2, <2>3
    <2> QED BY <2>4
  <1>7. Recursion(iter)
    <2> HIDE DEF Recursion
    <2> QED BY <1>6
  <1> HIDE DEF iter
  <1>8. \A s \in SUBSET (1..n) :
            iter[s] = IF s = {} THEN 0 ELSE step(iter[s \ {Max(s)}], terms[Max(s)])
    BY <1>1, <1>7
  <1> DEFINE Holds == {k \in 0..n : iter[1..k] \in Int}
  <1>9. 0 \in Holds
    <2>1. 1..0 = {} /\ {} \in SUBSET (1..n) /\ 0 \in 0..n
      BY <1>1
    <2> QED BY <1>3, <1>8, <2>1
  <1>10. ASSUME NEW k \in 1..n, k - 1 \in Holds
         PROVE  k \in Holds
    <2>1. 1..k \in (SUBSET (1..n)) \ {{}} /\ Max(1..k) = k /\ (1..k) \ {k} = 1..(k - 1)
      BY <1>1, FirstPositions
    <2>2. iter[1..k] = step(iter[1..(k - 1)], terms[k])
      <3>1. iter[1..k] = step(iter[(1..k) \ {Max(1..k)}], terms[Max(1..k)])
        BY <1>8, <2>1
      <3> QED BY <2>1, <3>1
    <2>3. iter[1..(k - 1)] \in Int /\ terms[k] \in Int
      BY <1>1, <1>10
    <2>4. iter[1..k] \in Int
      BY <1>3, <2>2, <2>3
    <2>5. k \in 0..n
      BY <1>1
    <2> QED BY <2>4, <2>5
  <1>11. n \in 0..n
    BY <1>1
  <1> HIDE DEF Holds
  <1>12. n \in Holds
    BY <1>1, <1>9, <1>10, <1>11, ReachesEach
  <1> QED BY <1>1, <1>2, <1>12 DEF Holds

-----------------------------------------------------------------------------
(* Sequences one after the other.                                          *)

(* What is defined step by step, f[k] from f[k - 1] and k.                 *)
SolvesByPlace(f, n, base, op) ==
    /\ f[0] = base
    /\ \A k \in 1..n : f[k] = op[<<f[k - 1], k>>]

(* What is defined step by step from a start exists, for every number of   *)
(* steps.                                                                  *)
LEMMA RecursionByPlace ==
    ASSUME NEW T, NEW n \in Nat, NEW base \in T, NEW op \in [T \X Nat -> T]
    PROVE  \E f \in [0..n -> T] : SolvesByPlace(f, n, base, op)
  <1>1. PICK h \in [SUBSET (1..n) -> T] : FoldsBy(h, n, base, op)
    BY FoldExists DEF FoldExistsTo
  <1> DEFINE f == [k \in 0..n |-> h[1..k]]
  <1>2. f[0] = base
    <2>1. 1..0 = {} /\ {} \in SUBSET (1..n) /\ 0 \in 0..n
      OBVIOUS
    <2> QED BY <1>1, <2>1 DEF FoldsBy
  <1>3. ASSUME NEW k \in 1..n
        PROVE  f[k] = op[<<f[k - 1], k>>]
    <2>1. 1..k \in (SUBSET (1..n)) \ {{}} /\ Max(1..k) = k /\ (1..k) \ {k} = 1..(k - 1)
      BY FirstPositions
    <2>2. h[1..k] = op[<<h[(1..k) \ {Max(1..k)}], Max(1..k)>>]
      BY <1>1, <2>1 DEF FoldsBy
    <2>3. f[k] = h[1..k] /\ f[k - 1] = h[1..(k - 1)]
      OBVIOUS
    <2> HIDE DEF f
    <2> QED BY <2>1, <2>2, <2>3
  <1>4. f \in [0..n -> T]
    <2>1. \A k \in 0..n : 1..k \in SUBSET (1..n)
      OBVIOUS
    <2> QED BY <2>1
  <1> HIDE DEF f
  <1> QED BY <1>2, <1>3, <1>4 DEF SolvesByPlace

(* Sequences of things one after the other are a sequence of such things.  *)
LEMMA FlattenSeqIs ==
    ASSUME NEW T, NEW seqs \in Seq(Seq(T))
    PROVE  FlattenSeq(seqs) \in Seq(T)
  <1> DEFINE n  == Len(seqs)
             op == [x \in Seq(T) \X Nat |-> IF x[2] \in 1..n THEN x[1] \o seqs[x[2]] ELSE x[1]]
             Flattens(f) ==
                 f = [i \in 1..n |-> IF i = 1 THEN seqs[i] ELSE f[i - 1] \o seqs[i]]
  <1>1. n \in Nat /\ \A i \in 1..n : seqs[i] \in Seq(T)
    OBVIOUS
  <1>2. CASE n = 0
    <2>1. FlattenSeq(seqs) = seqs /\ seqs = << >>
      BY <1>2 DEF FlattenSeq
    <2> QED BY <2>1
  <1>3. CASE n # 0
    <2>1. op \in [Seq(T) \X Nat -> Seq(T)]
      <3>1. ASSUME NEW x \in Seq(T), NEW i \in 1..n
            PROVE  x \o seqs[i] \in Seq(T)
        BY <1>1, ConcatProperties
      <3> HIDE DEF n
      <3> QED BY <3>1
    <2>2. << >> \in Seq(T)
      OBVIOUS
    <2>3. PICK f \in [0..n -> Seq(T)] : SolvesByPlace(f, n, << >>, op)
      <3> HIDE DEF op, n
      <3> QED BY <1>1, <2>1, <2>2, RecursionByPlace
    <2>4. ASSUME NEW i \in 1..n
          PROVE  f[i] = f[i - 1] \o seqs[i] /\ f[i] \in Seq(T) /\ f[i - 1] \in Seq(T)
      <3>1. i - 1 \in 0..n /\ i \in 0..n
        BY <1>1
      <3>2. f[i - 1] \in Seq(T) /\ f[i] \in Seq(T)
        BY <2>3, <3>1
      <3>3. f[i] = op[<<f[i - 1], i>>]
        BY <2>3 DEF SolvesByPlace
      <3>4. i \in Nat
        BY <1>1
      <3> HIDE DEF n
      <3> QED BY <3>2, <3>3, <3>4
    <2> DEFINE g == [i \in 1..n |-> f[i]]
    <2>5. g \in [1..n -> Seq(T)] /\ \A i \in 1..n : g[i] = f[i]
      BY <2>4
    <2>6. g[1] = seqs[1]
      <3>1. 1 \in 1..n /\ f[0] = << >> /\ 1 - 1 = 0
        BY <1>1, <1>3, <2>3 DEF SolvesByPlace
      <3>2. f[1] = << >> \o seqs[1]
        BY <3>1, <2>4
      <3>3. seqs[1] \in Seq(T) /\ g[1] = f[1]
        BY <1>1, <2>5, <3>1
      <3> HIDE DEF g, n
      <3> QED BY <3>2, <3>3
    <2>7. ASSUME NEW i \in 1..n, i # 1
          PROVE  g[i] = g[i - 1] \o seqs[i]
      <3>1. i - 1 \in 1..n
        BY <1>1, <2>7
      <3>2. g[i] = f[i] /\ g[i - 1] = f[i - 1]
        BY <2>5, <3>1
      <3>3. f[i] = f[i - 1] \o seqs[i]
        BY <2>4
      <3> QED BY <3>2, <3>3, Zenon
    <2> HIDE DEF g
    <2>8. g = [i \in 1..n |-> IF i = 1 THEN seqs[i] ELSE g[i - 1] \o seqs[i]]
      BY <2>5, <2>6, <2>7
    <2>9. Flattens(g)
      BY <2>8
    <2> DEFINE flatten == CHOOSE h : Flattens(h)
    <2>10. FlattenSeq(seqs) = flatten[n]
      BY <1>3 DEF FlattenSeq
    <2>11. Flattens(flatten)
      <3> HIDE DEF Flattens
      <3> QED BY <2>9
    <2> HIDE DEF flatten
    <2>12. \A i \in 1..n : flatten[i] = IF i = 1 THEN seqs[i] ELSE flatten[i - 1] \o seqs[i]
      BY <2>11
    <2> HIDE DEF Flattens
    <2> DEFINE Failing == {i \in 1..n : flatten[i] \notin Seq(T)}
    <2>13. Failing = {}
      <3> SUFFICES ASSUME Failing # {} PROVE FALSE
        OBVIOUS
      <3>1. PICK i \in Failing : \A j \in Failing : i <= j
        <4>1. Failing \in SUBSET Nat
          OBVIOUS
        <4> HIDE DEF Failing
        <4> QED BY <4>1, Least
      <3>2. i # 1
        BY <2>12, <1>1
      <3>3. i - 1 \in 1..n /\ flatten[i - 1] \in Seq(T)
        BY <1>1, <3>1, <3>2
      <3>4. flatten[i] = flatten[i - 1] \o seqs[i]
        BY <2>12, <3>2
      <3>5. seqs[i] \in Seq(T) /\ flatten[i] \notin Seq(T)
        BY <1>1
      <3> HIDE DEF Failing, n
      <3> QED BY <3>3, <3>4, <3>5, ConcatProperties
    <2>14. n \in 1..n
      BY <1>1, <1>3
    <2>15. flatten[n] \in Seq(T)
      BY <2>13, <2>14
    <2> QED BY <2>10, <2>15
  <1> QED BY <1>2, <1>3

-----------------------------------------------------------------------------
(* Observations.                                                           *)

(* An observation, in what is read of it.                                  *)
Fields ==
    {"id", "evidence_id", "source", "observed_at", "subject", "granularity", "validity", "discontinuity",
     "semantics", "lost", "offered", "offered_known", "ratio_defined", "ratio_bp", "recovered"}

Statement(o) ==
    /\ Fields \subseteq DOMAIN o
    /\ o.id \in Tuples(3) /\ o.source \in Nat /\ o.observed_at \in Nat
    /\ o.subject \in [kind : DOMAIN SubjectRank, id : Nat]
    /\ o.granularity \in Granularities \ {"Unknown"}
    /\ o.lost \in Words /\ o.offered \in Words
    /\ o.ratio_defined \in BOOLEAN /\ o.recovered \in BOOLEAN

(* What an observation is named after, what dates it and whether it is     *)
(* history.                                                                *)
Bears(o, id, evidence, history) ==
    o.id = id /\ o.evidence_id = evidence /\ o.recovered = history

(* Triples of integers, as observations are identified by.                 *)
LEMMA TupleOfThree ==
    ASSUME NEW a \in Int, NEW b \in Int, NEW c \in Int
    PROVE  <<a, b, c>> \in Tuples(3)
  BY DEF Tuples

(* A ratio is at most the whole.                                           *)
LEMMA BasisPointsAre ==
    ASSUME NEW numerator \in Nat, NEW denominator \in Nat \ {0}
    PROVE  BasisPoints(numerator, denominator) \in 0..Scale
  <1>1. Scale \in Nat \ {0} /\ Word \in Nat \ {0}
    BY ArithmeticAssumption
  <1>2. numerator * Scale \in Nat
    BY <1>1
  <1>3. (numerator * Scale) % Word \in Nat
    <2> DEFINE product == numerator * Scale
    <2> HIDE DEF product
    <2>1. product % Word \in Nat
      BY <1>1, <1>2 DEF product
    <2> QED BY <2>1 DEF product
  <1>4. ((numerator * Scale) % Word) \div denominator \in Nat
    <2> DEFINE word == (numerator * Scale) % Word
    <2> HIDE DEF word
    <2>1. word \div denominator \in Nat
      <3>1. word \in Nat
        BY <1>3 DEF word
      <3> QED BY <3>1
    <2> QED BY <2>1 DEF word
  <1> DEFINE points == ((numerator * Scale) % Word) \div denominator
  <1> HIDE DEF points
  <1>5. Smaller(points, Scale) \in 0..Scale
    BY <1>1, <1>4 DEF Smaller, points
  <1>6. BasisPoints(numerator, denominator) \in {0, Scale, Smaller(points, Scale)}
    BY DEF BasisPoints, points
  <1> QED BY <1>1, <1>5, <1>6

(* What an observation starts as.                                          *)
LEMMA BaseObservationIs ==
    ASSUME NEW item, Typed(item), Valid(item), NEW id \in Tuples(3),
           NEW semantics, NEW validity
    PROVE  /\ Statement(BaseObservation(item, id, semantics, validity))
           /\ Bears(BaseObservation(item, id, semantics, validity), id, item.id,
                    item.recovered)
  <1>1. item.granularity # "Unknown"
    BY DEF Valid
  <1>2. 0 \in Words
    BY ArithmeticAssumption DEF Words
  <1>3. /\ item.source \in Nat /\ item.observed_at \in Nat
        /\ item.subject \in [kind : DOMAIN SubjectRank, id : Nat]
        /\ item.granularity \in Granularities /\ item.recovered \in BOOLEAN
    BY DEF Typed
  <1> QED BY <1>1, <1>2, <1>3 DEF BaseObservation, Statement, Fields, Bears

(* Refusing it, or counting, leaves it one.                                *)
LEMMA RefusedIs ==
    ASSUME NEW o, Statement(o), NEW validity, NEW discontinuity,
           NEW id, NEW evidence, NEW history, Bears(o, id, evidence, history)
    PROVE  /\ Statement(Refused(o, validity, discontinuity))
           /\ Bears(Refused(o, validity, discontinuity), id, evidence, history)
  BY DEF Refused, Statement, Fields, Bears

(* To count what was offered and what arrived keeps an observation a       *)
(* statement, of the same identity.                                        *)
LEMMA CountedIs ==
    ASSUME NEW o, Statement(o), NEW offered \in Words, NEW received \in Words,
           received <= offered,
           NEW id, NEW evidence, NEW history, Bears(o, id, evidence, history)
    PROVE  /\ Statement(Counted(o, offered, received))
           /\ Bears(Counted(o, offered, received), id, evidence, history)
  <1> DEFINE ratio == IF offered = 0 THEN 0 ELSE BasisPoints(offered - received, offered)
             validity == IF offered = 0 THEN "UndefinedRatio" ELSE "Valid"
             defined == offered # 0
             lost == offered - received
  <1>1. lost \in Words
    BY ArithmeticAssumption DEF Words
  <1>2. defined \in BOOLEAN
    OBVIOUS
  <1>3. Counted(o, offered, received)
            = [o EXCEPT !.lost = lost, !.offered = offered, !.offered_known = TRUE,
                        !.validity = validity, !.ratio_defined = defined, !.ratio_bp = ratio]
    BY DEF Counted
  <1> HIDE DEF ratio, validity, defined, lost
  <1> QED BY <1>1, <1>2, <1>3 DEF Statement, Fields, Bears

(* A report says what it says.                                             *)
LEMMA ReportObservationIs ==
    ASSUME NEW item, Typed(item), Valid(item), item.payload.kind \in {"probe", "sequence"}
    PROVE  /\ Statement(ReportObservation(item))
           /\ Bears(ReportObservation(item),
                    <<IF item.payload.kind = "probe" THEN 1 ELSE 2, item.id, item.id>>,
                    item.id, item.recovered)
  <1>1. item.id \in Nat
    BY DEF Typed
  <1>2. CASE item.payload.kind = "probe"
    <2> DEFINE id   == <<1, item.id, item.id>>
               base == BaseObservation(item, id, "RatioLoss", "Valid")
    <2>1. id \in Tuples(3)
      BY <1>1, TupleOfThree
    <2> HIDE DEF id
    <2>2. Statement(base) /\ Bears(base, id, item.id, item.recovered)
      BY <2>1, BaseObservationIs
    <2>3. item.payload.sent \in Words /\ item.payload.received \in Words
      BY <1>2 DEF Typed
    <2> HIDE DEF base
    <2>4. ReportObservation(item)
              = IF item.payload.received > item.payload.sent
                THEN Refused(base, "Implausible", "None")
                ELSE Counted(base, item.payload.sent, item.payload.received)
      BY <1>2 DEF ReportObservation, ProbeObservation, base, id, Basis
    <2>5. CASE item.payload.received > item.payload.sent
      BY <1>2, <2>2, <2>4, <2>5, RefusedIs DEF id
    <2>6. CASE ~(item.payload.received > item.payload.sent)
      <3>1. item.payload.received <= item.payload.sent
        BY <2>3, <2>6, ArithmeticAssumption DEF Words
      <3> QED BY <1>2, <2>2, <2>3, <2>4, <2>6, <3>1, CountedIs DEF id
    <2> QED BY <2>5, <2>6
  <1>3. CASE item.payload.kind # "probe"
    <2> DEFINE id   == <<2, item.id, item.id>>
               base == BaseObservation(item, id, "RatioLoss", "Valid")
               span == item.payload.highest - item.payload.lowest + 1
    <2>1. id \in Tuples(3)
      BY <1>1, TupleOfThree
    <2> HIDE DEF id
    <2>2. Statement(base) /\ Bears(base, id, item.id, item.recovered)
      BY <2>1, BaseObservationIs
    <2>3. /\ item.payload.highest \in Words /\ item.payload.lowest \in Words
          /\ item.payload.received \in Words
      BY <1>3 DEF Typed
    <2> HIDE DEF base, span
    <2> DEFINE odd == \/ item.payload.highest < item.payload.lowest
                      \/ span >= Word
                      \/ item.payload.received > span
    <2>4. ReportObservation(item)
              = IF item.payload.restart THEN Refused(base, "Discontinuity", "SequenceRestart")
                ELSE IF odd THEN Refused(base, "Implausible", "None")
                ELSE Counted(base, span, item.payload.received)
      BY <1>3 DEF ReportObservation, SequenceObservation, base, id, span, Basis
    <2>5. CASE ~odd
      <3>1. span \in Words /\ item.payload.received <= span
        BY <2>3, <2>5, ArithmeticAssumption DEF Words, span
      <3> HIDE DEF odd
      <3>2. Statement(Counted(base, span, item.payload.received))
            /\ Bears(Counted(base, span, item.payload.received), id, item.id, item.recovered)
        BY <2>2, <2>3, <3>1, CountedIs
      <3>3. Statement(Refused(base, "Discontinuity", "SequenceRestart"))
            /\ Bears(Refused(base, "Discontinuity", "SequenceRestart"), id, item.id,
                     item.recovered)
        BY <2>2, RefusedIs
      <3> QED BY <1>3, <2>4, <2>5, <3>2, <3>3 DEF id
    <2>6. CASE odd
      <3> HIDE DEF odd
      <3>1. Statement(Refused(base, "Implausible", "None"))
            /\ Bears(Refused(base, "Implausible", "None"), id, item.id, item.recovered)
        BY <2>2, RefusedIs
      <3>2. Statement(Refused(base, "Discontinuity", "SequenceRestart"))
            /\ Bears(Refused(base, "Discontinuity", "SequenceRestart"), id, item.id,
                     item.recovered)
        BY <2>2, RefusedIs
      <3> QED BY <1>3, <2>4, <2>6, <3>1, <3>2 DEF id
    <2> QED BY <2>5, <2>6
  <1> QED BY <1>2, <1>3

(* However far a counter moved, the number is a word.                      *)
LEMMA DeltaIs ==
    ASSUME NEW p, NEW c, p.payload.value \in Words, c.payload.value \in Words,
           p.payload.width \in Nat, c.payload.width \in Nat
    PROVE  Delta(p, c) \in Words
  <1>1. 2^FullWidth = Word /\ Word \in Nat \ {0}
    BY DeriveAssumption, ArithmeticAssumption
  <1>2. CASE Moved(p, c) < 0
    <2> DEFINE turned == 2^Width(p, c) + Moved(p, c)
    <2>1. turned \in Int
      <3>1. Width(p, c) \in Nat /\ Moved(p, c) \in Int
        BY ArithmeticAssumption DEF Width, Moved, Words
      <3>2. 2^Width(p, c) \in Int
        BY <3>1
      <3> QED BY <3>1, <3>2
    <2>3. turned % Word \in 0..(Word - 1)
      <3> HIDE DEF turned
      <3> QED BY <1>1, <2>1
    <2>2. Delta(p, c) = turned % Word
      BY <1>1, <1>2 DEF Delta, AroundTheTop
    <2> QED BY <2>2, <2>3 DEF Words
  <1>3. CASE ~(Moved(p, c) < 0)
    <2>1. Delta(p, c) = c.payload.value - p.payload.value
      BY <1>3 DEF Delta, Moved
    <2> QED BY <1>1, <1>3, <2>1 DEF Moved, Words
  <1> QED BY <1>2, <1>3

(* What is made of it is a statement, of the same identity.                *)
LEMMA DeltaAppliedIs ==
    ASSUME NEW o, Statement(o), NEW state, NEW delta \in Words, NEW scope,
           NEW id, NEW evidence, NEW history, Bears(o, id, evidence, history)
    PROVE  /\ Statement(DeltaApplied(o, state, delta, scope))
           /\ Bears(DeltaApplied(o, state, delta, scope), id, evidence, history)
  <1> DEFINE believed(x) == IF scope \in DirectScopes
                            THEN [x EXCEPT !.semantics = "DirectLoss", !.lost = delta]
                            ELSE [x EXCEPT !.semantics = "NonLoss", !.offered = delta,
                                           !.offered_known = TRUE]
             wrapped == Refused(o, "Valid", "CounterWrap")
  <1>1. ASSUME NEW x, Statement(x), Bears(x, id, evidence, history)
        PROVE  Statement(believed(x)) /\ Bears(believed(x), id, evidence, history)
    BY <1>1 DEF Statement, Fields, Bears
  <1>2. \A validity, discontinuity :
            /\ Statement(Refused(o, validity, discontinuity))
            /\ Bears(Refused(o, validity, discontinuity), id, evidence, history)
    BY RefusedIs
  <1>3. \/ DeltaApplied(o, state, delta, scope) = believed(o)
        \/ DeltaApplied(o, state, delta, scope) = believed(wrapped)
        \/ \E validity, discontinuity :
              DeltaApplied(o, state, delta, scope) = Refused(o, validity, discontinuity)
    <2>1. CASE state = "Valid"
      BY <2>1 DEF DeltaApplied
    <2>2. CASE state = "WrapDetected"
      BY <2>2 DEF DeltaApplied
    <2>3. CASE state = "ImplausibleDelta"
      BY <2>3 DEF DeltaApplied
    <2>4. CASE state = "MissingBaseline"
      BY <2>4 DEF DeltaApplied
    <2>5. CASE state \notin {"Valid", "WrapDetected", "ImplausibleDelta", "MissingBaseline"}
      <3>1. DeltaApplied(o, state, delta, scope)
                = Refused(o, "Discontinuity", DiscontinuityOf[state])
        BY <2>5 DEF DeltaApplied
      <3> QED BY <3>1
    <2> QED BY <2>1, <2>2, <2>3, <2>4, <2>5
  <1>4. Statement(wrapped) /\ Bears(wrapped, id, evidence, history)
    BY <1>2
  <1> HIDE DEF believed, wrapped
  <1> QED BY <1>1, <1>2, <1>3, <1>4

(* Whose word it also is, when it rests on two items.                      *)
LEMMA HistoryTaintsIt ==
    ASSUME NEW o, Statement(o), NEW tainted \in BOOLEAN,
           NEW id, NEW evidence, NEW history, Bears(o, id, evidence, history),
           NEW either, either = (history \/ tainted)
    PROVE  /\ Statement([o EXCEPT !.recovered = @ \/ tainted])
           /\ Bears([o EXCEPT !.recovered = @ \/ tainted], id, evidence, either)
  <1> DEFINE mark == o.recovered \/ tainted
  <1>1. mark \in BOOLEAN
    OBVIOUS
  <1>2. [o EXCEPT !.recovered = @ \/ tainted] = [o EXCEPT !.recovered = mark]
    OBVIOUS
  <1> HIDE DEF mark
  <1>3. /\ Statement([o EXCEPT !.recovered = mark])
        /\ Bears([o EXCEPT !.recovered = mark], id, evidence, mark)
    BY <1>1 DEF Statement, Fields, Bears
  <1>4. mark = either
    BY DEF mark, Bears
  <1> QED BY <1>2, <1>3, <1>4

(* Two readings.                                                           *)
Readings(from, to) ==
    /\ Typed(from) /\ Valid(from) /\ from.payload.kind = "counter"
    /\ Typed(to) /\ Valid(to) /\ to.payload.kind = "counter"

(* The interval between two readings is a statement, named after both,     *)
(* whatever the readings say (derive_counter_delta).                       *)
LEMMA DeltaObservationIs ==
    ASSUME NEW interval, Readings(interval.from, interval.to),
           NEW either, either = (interval.to.recovered \/ interval.from.recovered)
    PROVE  /\ Statement(DeltaObservation(interval))
           /\ Bears(DeltaObservation(interval), <<3, interval.from.id, interval.to.id>>,
                    interval.to.id, either)
  <1> DEFINE id      == <<3, interval.from.id, interval.to.id>>
             base    == DeltaBase(interval)
             tainted == interval.from.recovered
             old     == [base EXCEPT !.recovered = @ \/ tainted]
             delta   == Delta(interval.from, interval.to)
  <1>1. id \in Tuples(3)
    BY TupleOfThree DEF Readings, Typed
  <1>2. base = BaseObservation(interval.to, id, "DirectLoss", "Valid")
    BY DEF DeltaBase, Basis
  <1>3. delta \in Words
    BY DeltaIs DEF Readings, Typed
  <1>4. tainted \in BOOLEAN /\ Typed(interval.to) /\ Valid(interval.to)
    BY DEF Readings, Typed
  <1> HIDE DEF id, base, tainted
  <1>5. Statement(base) /\ Bears(base, id, interval.to.id, interval.to.recovered)
    BY <1>1, <1>2, <1>4, BaseObservationIs
  <1>6. Statement(old) /\ Bears(old, id, interval.to.id, either)
    <2>1. either = (interval.to.recovered \/ tainted)
      BY DEF tainted
    <2> QED BY <1>4, <1>5, <2>1, HistoryTaintsIt
  <1>7. DeltaObservation(interval)
            = DeltaApplied(old, IntervalState(interval), delta, interval.to.payload.scope)
    BY DEF DeltaObservation, base, tainted
  <1> HIDE DEF old, delta
  <1> QED BY <1>3, <1>6, <1>7, DeltaAppliedIs DEF id

(* Two reports of a flow's ends.                                           *)
Ends(sender, receiver) ==
    /\ Typed(sender) /\ Valid(sender) /\ sender.payload.kind = "endpoint"
    /\ Typed(receiver) /\ Valid(receiver) /\ receiver.payload.kind = "endpoint"

(* So is the comparison of two endpoints, named after both.                *)
LEMMA PairObservationIs ==
    ASSUME NEW pair, Ends(pair.sender, pair.receiver),
           NEW either, either = (pair.sender.recovered \/ pair.receiver.recovered)
    PROVE  /\ Statement(PairObservation(pair))
           /\ Bears(PairObservation(pair), <<4, pair.sender.id, pair.receiver.id>>,
                    pair.sender.id, either)
  <1> DEFINE id      == <<4, pair.sender.id, pair.receiver.id>>
             base    == BaseObservation(pair.sender, id, "RatioLoss", "Valid")
             tainted == pair.receiver.recovered
             old     == [base EXCEPT !.recovered = @ \/ tainted]
             sent    == pair.sender.payload
             received == pair.receiver.payload
  <1>1. id \in Tuples(3)
    BY TupleOfThree DEF Ends, Typed
  <1>2. /\ tainted \in BOOLEAN /\ Typed(pair.sender) /\ Valid(pair.sender)
        /\ sent.count \in Words /\ received.count \in Words
    BY DEF Ends, Typed
  <1>3. PairObservation(pair)
            = IF sent.counter_reset \/ received.counter_reset
              THEN Refused(old, "Discontinuity", "CounterReset")
              ELSE IF received.count > sent.count THEN Refused(old, "Implausible", "None")
              ELSE Counted(old, sent.count, received.count)
    BY DEF PairObservation, Basis
  <1>8. either = (pair.sender.recovered \/ tainted)
    OBVIOUS
  <1> HIDE DEF id, tainted, sent, received
  <1>4. Statement(base) /\ Bears(base, id, pair.sender.id, pair.sender.recovered)
    BY <1>1, <1>2, BaseObservationIs
  <1> HIDE DEF base
  <1>5. Statement(old) /\ Bears(old, id, pair.sender.id, either)
    BY <1>2, <1>4, <1>8, HistoryTaintsIt
  <1> HIDE DEF old
  <1>6. \A validity, discontinuity :
            /\ Statement(Refused(old, validity, discontinuity))
            /\ Bears(Refused(old, validity, discontinuity), id, pair.sender.id, either)
    BY <1>5, RefusedIs
  <1>7. ASSUME ~(received.count > sent.count)
        PROVE  /\ Statement(Counted(old, sent.count, received.count))
               /\ Bears(Counted(old, sent.count, received.count), id, pair.sender.id, either)
    <2>1. received.count <= sent.count
      BY <1>2, <1>7, ArithmeticAssumption DEF Words
    <2> QED BY <1>2, <1>5, <2>1, CountedIs
  <1> QED BY <1>3, <1>6, <1>7 DEF id

(* An endpoint without a partner is a statement that says nothing of loss. *)
LEMMA UnpairedObservationIs ==
    ASSUME NEW item, Typed(item), Valid(item)
    PROVE  /\ Statement(UnpairedObservation(item))
           /\ Bears(UnpairedObservation(item), <<5, item.id, item.id>>, item.id,
                    item.recovered)
  <1>1. <<5, item.id, item.id>> \in Tuples(3)
    BY TupleOfThree DEF Typed
  <1>2. UnpairedObservation(item)
            = BaseObservation(item, <<5, item.id, item.id>>, "RatioLoss", "Insufficient")
    BY DEF UnpairedObservation, Basis
  <1> QED BY <1>1, <1>2, BaseObservationIs

-----------------------------------------------------------------------------
(* What derivation is made of.                                             *)

(* Images of finite sets are finite.                                       *)
LEMMA ImageIsFinite ==
    ASSUME NEW S, IsFiniteSet(S), NEW f, DOMAIN f = S
    PROVE  IsFiniteSet({f[x] : x \in S})
  <1> DEFINE T == {f[x] : x \in S}
             g == [x \in S |-> f[x]]
  <1>1. g \in Surjection(S, T)
    BY DEF Surjection
  <1> HIDE DEF g, T
  <1>2. IsFiniteSet(T)
    BY <1>1, FS_Surjection
  <1> QED BY <1>2 DEF T

(* A sequence has finitely many elements.                                  *)
LEMMA ElementsAreFinite ==
    ASSUME NEW S, NEW seq \in Seq(S)
    PROVE  IsFiniteSet(ToSet(seq)) /\ ToSet(seq) \subseteq S
  <1>1. DOMAIN seq = 1..Len(seq) /\ Len(seq) \in Nat /\ \A k \in DOMAIN seq : seq[k] \in S
    BY LenProperties
  <1>2. IsFiniteSet(DOMAIN seq)
    BY <1>1, FS_Interval
  <1>3. ToSet(seq) = {seq[k] : k \in DOMAIN seq}
    BY DEF ToSet
  <1>4. IsFiniteSet({seq[k] : k \in DOMAIN seq})
    BY <1>2, ImageIsFinite
  <1> QED BY <1>1, <1>3, <1>4

(* The first elements of a sequence are a sequence of elements of it.      *)
LEMMA FirstOfIs ==
    ASSUME NEW S, NEW seq \in Seq(S), NEW n \in Nat
    PROVE  /\ FirstOf(seq, n) \in Seq(S)
           /\ Len(FirstOf(seq, n)) = IF Len(seq) <= n THEN Len(seq) ELSE n
           /\ \A k \in 1..Len(FirstOf(seq, n)) : FirstOf(seq, n)[k] = seq[k]
           /\ Len(seq) <= n => FirstOf(seq, n) = seq
  <1> DEFINE m == IF Len(seq) <= n THEN Len(seq) ELSE n
             first == FirstOf(seq, n)
  <1>1. DOMAIN seq = 1..Len(seq) /\ Len(seq) \in Nat /\ \A k \in DOMAIN seq : seq[k] \in S
    BY LenProperties
  <1>2. {k \in DOMAIN seq : k <= n} = 1..m /\ m \in Nat
    BY <1>1
  <1>3. first = [k \in 1..m |-> seq[k]] /\ \A k \in 1..m : k \in DOMAIN seq
    BY <1>1, <1>2 DEF FirstOf
  <1>4. first \in [1..m -> S]
    BY <1>1, <1>3
  <1>5. first \in Seq(S) /\ Len(first) = m /\ \A k \in 1..m : first[k] = seq[k]
    <2> HIDE DEF m
    <2>1. m \in Nat
      BY <1>2
    <2> HIDE DEF first
    <2> QED BY <1>3, <1>4, <2>1
  <1>6. Len(seq) <= n => first = seq
    <2>1. seq = [k \in 1..Len(seq) |-> seq[k]]
      BY <1>1
    <2> QED BY <1>3, <2>1
  <1> HIDE DEF first
  <1> QED BY <1>5, <1>6 DEF first

(* A sequence made element by element.                                     *)
LEMMA MadeIs ==
    ASSUME NEW S, NEW seq \in Seq(S), NEW T, NEW made, DOMAIN made = DOMAIN seq,
           made = [k \in DOMAIN made |-> made[k]], \A k \in DOMAIN seq : made[k] \in T
    PROVE  made \in Seq(T) /\ Len(made) = Len(seq)
  <1>1. DOMAIN seq = 1..Len(seq) /\ Len(seq) \in Nat
    BY LenProperties
  <1>2. made \in [1..Len(seq) -> T]
    BY <1>1
  <1> QED BY <1>1, <1>2

Counters(items)  == OfKinds(items, {"counter"})
(* The items that report, and those of endpoints.                          *)
Reporting(items) == OfKinds(items, {"probe", "sequence"})
Endpoints(items) == OfKinds(items, {"endpoint"})

(* Every statement that derivation can make of items.                      *)
FromReports(items)   == {ReportObservation(i) : i \in Reporting(items)}
FromIntervals(items) ==
    {DeltaObservation(d) : d \in [from : Counters(items), to : Counters(items)]}
FromPairs(items)     ==
    {PairObservation(p) : p \in [sender : Endpoints(items), receiver : Endpoints(items)]}
FromUnpaired(items)  == {UnpairedObservation(i) : i \in Endpoints(items)}

Statements(items) ==
    FromReports(items) \cup FromIntervals(items) \cup FromPairs(items) \cup FromUnpaired(items)

(* They are statements, and no two have the same identity.                 *)
LEMMA StatementsAre ==
    ASSUME NEW items, Proper(items)
    PROVE  \A o \in Statements(items) : Statement(o)
  <1>1. \A i \in items : Typed(i) /\ Valid(i)
    BY DEF Proper
  <1>2. ASSUME NEW o \in FromReports(items)
        PROVE  Statement(o)
    BY <1>1, ReportObservationIs DEF FromReports, Reporting, OfKinds
  <1>3. ASSUME NEW o \in FromIntervals(items)
        PROVE  Statement(o)
    <2>1. PICK d \in [from : Counters(items), to : Counters(items)] : o = DeltaObservation(d)
      BY DEF FromIntervals
    <2>2. Readings(d.from, d.to)
      BY <1>1 DEF Readings, Counters, OfKinds
    <2>3. PICK either : either = (d.to.recovered \/ d.from.recovered)
      OBVIOUS
    <2> QED BY <2>1, <2>2, <2>3, DeltaObservationIs
  <1>4. ASSUME NEW o \in FromPairs(items)
        PROVE  Statement(o)
    <2>1. PICK p \in [sender : Endpoints(items), receiver : Endpoints(items)] :
              o = PairObservation(p)
      BY DEF FromPairs
    <2>2. Ends(p.sender, p.receiver)
      BY <1>1 DEF Ends, Endpoints, OfKinds
    <2>3. PICK either : either = (p.sender.recovered \/ p.receiver.recovered)
      OBVIOUS
    <2> QED BY <2>1, <2>2, <2>3, PairObservationIs
  <1>5. ASSUME NEW o \in FromUnpaired(items)
        PROVE  Statement(o)
    BY <1>1, UnpairedObservationIs DEF FromUnpaired, Endpoints, OfKinds
  <1> QED BY <1>2, <1>3, <1>4, <1>5 DEF Statements

(* Of what an observation is made its identity tells.                      *)
LEMMA WhoseItIs ==
    ASSUME NEW items, Proper(items), NEW o \in Statements(items)
    PROVE  \/ \E i \in Reporting(items) :
                 /\ o = ReportObservation(i)
                 /\ o.id = <<IF i.payload.kind = "probe" THEN 1 ELSE 2, i.id, i.id>>
           \/ \E d \in [from : Counters(items), to : Counters(items)] :
                 o = DeltaObservation(d) /\ o.id = <<3, d.from.id, d.to.id>>
           \/ \E p \in [sender : Endpoints(items), receiver : Endpoints(items)] :
                 o = PairObservation(p) /\ o.id = <<4, p.sender.id, p.receiver.id>>
           \/ \E i \in Endpoints(items) :
                 o = UnpairedObservation(i) /\ o.id = <<5, i.id, i.id>>
  <1>1. \A i \in items : Typed(i) /\ Valid(i)
    BY DEF Proper
  <1>2. ASSUME NEW i \in Reporting(items), o = ReportObservation(i)
        PROVE  o.id = <<IF i.payload.kind = "probe" THEN 1 ELSE 2, i.id, i.id>>
    BY <1>1, <1>2, ReportObservationIs DEF Reporting, OfKinds, Bears
  <1>3. ASSUME NEW d \in [from : Counters(items), to : Counters(items)],
               o = DeltaObservation(d)
        PROVE  o.id = <<3, d.from.id, d.to.id>>
    <2>1. Readings(d.from, d.to)
      BY <1>1 DEF Readings, Counters, OfKinds
    <2>2. PICK either : either = (d.to.recovered \/ d.from.recovered)
      OBVIOUS
    <2> QED BY <1>3, <2>1, <2>2, DeltaObservationIs DEF Bears
  <1>4. ASSUME NEW p \in [sender : Endpoints(items), receiver : Endpoints(items)],
               o = PairObservation(p)
        PROVE  o.id = <<4, p.sender.id, p.receiver.id>>
    <2>1. Ends(p.sender, p.receiver)
      BY <1>1 DEF Ends, Endpoints, OfKinds
    <2>2. PICK either : either = (p.sender.recovered \/ p.receiver.recovered)
      OBVIOUS
    <2> QED BY <1>4, <2>1, <2>2, PairObservationIs DEF Bears
  <1>5. ASSUME NEW i \in Endpoints(items), o = UnpairedObservation(i)
        PROVE  o.id = <<5, i.id, i.id>>
    BY <1>1, <1>5, UnpairedObservationIs DEF Endpoints, OfKinds, Bears
  <1>6. CASE o \in FromReports(items)
    BY <1>2, <1>6 DEF FromReports
  <1>7. CASE o \in FromIntervals(items)
    BY <1>3, <1>7 DEF FromIntervals
  <1>8. CASE o \in FromPairs(items)
    BY <1>4, <1>8 DEF FromPairs
  <1>9. CASE o \in FromUnpaired(items)
    BY <1>5, <1>9 DEF FromUnpaired
  <1> QED BY <1>6, <1>7, <1>8, <1>9 DEF Statements

(* A statement comes from a journal if an item it rests on does.           *)
LEMMA HistoryOf ==
    ASSUME NEW items, Proper(items), NEW o \in Statements(items)
    PROVE  \E a, b \in items : /\ o.id[2] = a.id /\ o.id[3] = b.id
                               /\ o.recovered <=> a.recovered \/ b.recovered
  <1> DEFINE Rests(a, b) == /\ o.id[2] = a.id /\ o.id[3] = b.id
                            /\ o.recovered <=> a.recovered \/ b.recovered
  <1>1. /\ \A i \in items : Typed(i) /\ Valid(i)
        /\ Reporting(items) \subseteq items /\ Counters(items) \subseteq items
        /\ Endpoints(items) \subseteq items
    BY DEF Proper, Reporting, Counters, Endpoints, OfKinds
  <1>2. CASE o \in FromReports(items)
    <2>1. PICK i \in Reporting(items) : o = ReportObservation(i)
      BY <1>2 DEF FromReports
    <2>2. i \in items /\ i.payload.kind \in {"probe", "sequence"}
      BY <1>1 DEF Reporting, OfKinds
    <2>3. PICK n : Bears(o, <<n, i.id, i.id>>, i.id, i.recovered)
      BY <1>1, <2>1, <2>2, ReportObservationIs
    <2>4. Rests(i, i)
      BY <2>3 DEF Bears
    <2> QED BY <2>2, <2>4
  <1>3. CASE o \in FromIntervals(items)
    <2>1. PICK d \in [from : Counters(items), to : Counters(items)] : o = DeltaObservation(d)
      BY <1>3 DEF FromIntervals
    <2>2. Readings(d.from, d.to) /\ d.from \in items /\ d.to \in items
      BY <1>1 DEF Readings, Counters, OfKinds
    <2>3. PICK either : either = (d.to.recovered \/ d.from.recovered)
      OBVIOUS
    <2>4. Bears(o, <<3, d.from.id, d.to.id>>, d.to.id, either)
      BY <2>1, <2>2, <2>3, DeltaObservationIs
    <2>5. Rests(d.from, d.to)
      <3>1. o.id = <<3, d.from.id, d.to.id>> /\ o.recovered = either
        BY <2>4 DEF Bears
      <3>2. o.recovered <=> d.from.recovered \/ d.to.recovered
        BY <2>3, <3>1
      <3> QED BY <3>1, <3>2
    <2> QED BY <2>2, <2>5
  <1>4. CASE o \in FromPairs(items)
    <2>1. PICK p \in [sender : Endpoints(items), receiver : Endpoints(items)] :
              o = PairObservation(p)
      BY <1>4 DEF FromPairs
    <2>2. Ends(p.sender, p.receiver) /\ p.sender \in items /\ p.receiver \in items
      BY <1>1 DEF Ends, Endpoints, OfKinds
    <2>3. PICK either : either = (p.sender.recovered \/ p.receiver.recovered)
      OBVIOUS
    <2>4. Bears(o, <<4, p.sender.id, p.receiver.id>>, p.sender.id, either)
      BY <2>1, <2>2, <2>3, PairObservationIs
    <2>5. Rests(p.sender, p.receiver)
      <3>1. o.id = <<4, p.sender.id, p.receiver.id>> /\ o.recovered = either
        BY <2>4 DEF Bears
      <3>2. o.recovered <=> p.sender.recovered \/ p.receiver.recovered
        BY <2>3, <3>1
      <3> QED BY <3>1, <3>2
    <2> QED BY <2>2, <2>5
  <1>5. CASE o \in FromUnpaired(items)
    <2>1. PICK i \in Endpoints(items) : o = UnpairedObservation(i)
      BY <1>5 DEF FromUnpaired
    <2>2. Bears(o, <<5, i.id, i.id>>, i.id, i.recovered) /\ i \in items
      BY <1>1, <2>1, UnpairedObservationIs
    <2>3. Rests(i, i)
      BY <2>2 DEF Bears
    <2> QED BY <2>2, <2>3
  <1> QED BY <1>2, <1>3, <1>4, <1>5 DEF Statements

(* Triples are equal by their parts.                                       *)
LEMMA SameTriple ==
    ASSUME NEW a, NEW b, NEW c, NEW x, NEW y, NEW z, <<a, b, c>> = <<x, y, z>>
    PROVE  a = x /\ b = y /\ c = z
  OBVIOUS

(* No two statements of a derivation share an identity: each is named      *)
(* after its kind and the items it is made of.                             *)
LEMMA StatementsDiffer ==
    ASSUME NEW items, Proper(items),
           NEW o \in Statements(items), NEW u \in Statements(items), o.id = u.id
    PROVE  o = u
  <1> DEFINE Report(x, i) ==
                 /\ x = ReportObservation(i)
                 /\ x.id = <<IF i.payload.kind = "probe" THEN 1 ELSE 2, i.id, i.id>>
             Interval(x, d) == x = DeltaObservation(d) /\ x.id = <<3, d.from.id, d.to.id>>
             Pair(x, p) == x = PairObservation(p) /\ x.id = <<4, p.sender.id, p.receiver.id>>
             Lone(x, i) == x = UnpairedObservation(i) /\ x.id = <<5, i.id, i.id>>
             Intervalling == [from : Counters(items), to : Counters(items)]
             Pairing == [sender : Endpoints(items), receiver : Endpoints(items)]
  <1>1. ASSUME NEW x \in Statements(items)
        PROVE  \/ \E i \in Reporting(items) : Report(x, i)
               \/ \E d \in Intervalling : Interval(x, d)
               \/ \E p \in Pairing : Pair(x, p)
               \/ \E i \in Endpoints(items) : Lone(x, i)
    BY WhoseItIs
  <1>2. \A i, j \in items : i.id = j.id => i = j
    BY DEF Proper
  <1>3. /\ Reporting(items) \subseteq items /\ Counters(items) \subseteq items
        /\ Endpoints(items) \subseteq items
    BY DEF Reporting, Counters, Endpoints, OfKinds
  <1>4. /\ \A x, i : Report(x, i) => x.id[1] \in {1, 2}
        /\ \A x, d : Interval(x, d) => x.id[1] = 3
        /\ \A x, p : Pair(x, p) => x.id[1] = 4
        /\ \A x, i : Lone(x, i) => x.id[1] = 5
    OBVIOUS
  <1>5. ASSUME NEW i \in Reporting(items), NEW j \in Reporting(items),
               Report(o, i), Report(u, j)
        PROVE  o = u
    <2>1. i.id = j.id
      BY <1>5, SameTriple
    <2> QED BY <1>2, <1>3, <1>5, <2>1
  <1>6. ASSUME NEW d \in Intervalling, NEW e \in Intervalling, Interval(o, d), Interval(u, e)
        PROVE  o = u
    <2>1. d.from.id = e.from.id /\ d.to.id = e.to.id
      BY <1>6, SameTriple
    <2>2. d.from = e.from /\ d.to = e.to
      BY <1>2, <1>3, <2>1
    <2>3. d = e
      BY <2>2
    <2> QED BY <1>6, <2>3
  <1>7. ASSUME NEW p \in Pairing, NEW q \in Pairing, Pair(o, p), Pair(u, q)
        PROVE  o = u
    <2>1. p.sender.id = q.sender.id /\ p.receiver.id = q.receiver.id
      BY <1>7, SameTriple
    <2>2. p.sender = q.sender /\ p.receiver = q.receiver
      BY <1>2, <1>3, <2>1
    <2>3. p = q
      BY <2>2
    <2> QED BY <1>7, <2>3
  <1>8. ASSUME NEW i \in Endpoints(items), NEW j \in Endpoints(items), Lone(o, i), Lone(u, j)
        PROVE  o = u
    <2>1. i.id = j.id
      BY <1>8, SameTriple
    <2> QED BY <1>2, <1>3, <1>8, <2>1
  <1>9. o.id[1] = u.id[1]
    OBVIOUS
  <1> HIDE DEF Report, Interval, Pair, Lone, Intervalling, Pairing
  <1> QED BY <1>1, <1>4, <1>5, <1>6, <1>7, <1>8, <1>9

(* How observations are ordered.                                           *)
ObservationKey(S) ==
    [o \in S |->
        <<o.observed_at, o.source, SubjectRank[o.subject.kind], o.subject.id>> \o o.id]

Told(S) ==
    /\ \A o \in S : Statement(o)
    /\ \A o, u \in S : o.id = u.id => o = u

(* The order observations are returned in (ObservationLess) is that of     *)
(* seven numbers, no two of them alike.                                    *)
LEMMA ObservationKeys ==
    ASSUME NEW S, Told(S)
    PROVE  /\ ObservationKey(S) \in [S -> Tuples(7)]
           /\ \A o, u \in S : ObservationKey(S)[o] = ObservationKey(S)[u] => o = u
           /\ \A o, u \in S :
                 ObservationLess(o, u) <=> Precedes(ObservationKey(S)[o], ObservationKey(S)[u])
  <1> DEFINE place(o) == <<o.observed_at, o.source, SubjectRank[o.subject.kind], o.subject.id>>
  <1>1. \A kind \in DOMAIN SubjectRank : SubjectRank[kind] \in Int
    BY DEF SubjectRank
  <1>2. ASSUME NEW o \in S
        PROVE  place(o) \in Tuples(4) /\ o.id \in Tuples(3)
    <2>1. Statement(o)
      BY DEF Told
    <2>2. /\ o.observed_at \in Int /\ o.source \in Int /\ o.subject.kind \in DOMAIN SubjectRank
          /\ o.subject.id \in Int /\ o.id \in Tuples(3)
      BY <2>1 DEF Statement
    <2>3. SubjectRank[o.subject.kind] \in Int
      BY <1>1, <2>2
    <2> QED BY <2>2, <2>3, TupleOfFour
  <1> HIDE DEF place
  <1>3. ASSUME NEW o \in S
        PROVE  ObservationKey(S)[o] = place(o) \o o.id
    BY DEF ObservationKey, place
  <1>4. ASSUME NEW o \in S
        PROVE  /\ ObservationKey(S)[o] \in Tuples(7)
               /\ \A k \in 1..3 : ObservationKey(S)[o][4 + k] = o.id[k]
    <2>1. /\ place(o) \in Seq(Int) /\ Len(place(o)) = 4 /\ o.id \in Seq(Int) /\ Len(o.id) = 3
      BY <1>2 DEF Tuples
    <2>2. /\ place(o) \o o.id \in Seq(Int) /\ Len(place(o) \o o.id) = 7
          /\ \A k \in 1..7 : (place(o) \o o.id)[k] = IF k <= 4 THEN place(o)[k] ELSE o.id[k - 4]
      <3> DEFINE first == place(o)
                 last  == o.id
      <3>1. first \in Seq(Int) /\ Len(first) = 4 /\ last \in Seq(Int) /\ Len(last) = 3
        BY <2>1
      <3> HIDE DEF first, last
      <3>2. /\ first \o last \in Seq(Int) /\ Len(first \o last) = Len(first) + Len(last)
            /\ \A k \in 1..(Len(first) + Len(last)) :
                  (first \o last)[k] = IF k <= Len(first) THEN first[k] ELSE last[k - Len(first)]
        BY <3>1, ConcatProperties
      <3>3. Len(first) + Len(last) = 7
        BY <3>1
      <3> QED BY <3>1, <3>2, <3>3 DEF first, last
    <2> DEFINE whole == place(o) \o o.id
    <2> HIDE DEF whole
    <2>3. \A k \in 1..3 : whole[4 + k] = o.id[k]
      <3>1. ASSUME NEW k \in 1..3
            PROVE  whole[4 + k] = o.id[k]
        <4>1. 4 + k \in 1..7 /\ ~(4 + k <= 4) /\ (4 + k) - 4 = k
          OBVIOUS
        <4> QED BY <2>2, <4>1 DEF whole
      <3> QED BY <3>1
    <2>4. whole \in Tuples(7)
      BY <2>2 DEF whole, Tuples
    <2> QED BY <1>3, <2>3, <2>4 DEF whole
  <1>5. ObservationKey(S) \in [S -> Tuples(7)]
    <2>1. ObservationKey(S) = [o \in S |-> ObservationKey(S)[o]]
      BY DEF ObservationKey
    <2> QED BY <1>4, <2>1
  <1>6. ASSUME NEW o \in S, NEW u \in S, ObservationKey(S)[o] = ObservationKey(S)[u]
        PROVE  o = u
    <2>1. \A k \in 1..3 : o.id[k] = u.id[k]
      BY <1>4, <1>6
    <2>2. o.id = u.id
      <3> DEFINE one   == o.id
                 other == u.id
      <3>1. /\ one \in Seq(Int) /\ other \in Seq(Int) /\ Len(one) = 3 /\ Len(other) = 3
            /\ \A k \in 1..3 : one[k] = other[k]
        BY <1>2, <2>1 DEF Tuples
      <3> HIDE DEF one, other
      <3>2. Len(one) = Len(other) /\ \A k \in 1..Len(one) : one[k] = other[k]
        BY <3>1
      <3>3. one = other
        BY <3>1, <3>2, SeqEqual
      <3> QED BY <3>3 DEF one, other
    <2>3. \A x, y \in S : x.id = y.id => x = y
      BY DEF Told
    <2> QED BY <1>6, <2>2, <2>3, Zenon
  <1>7. ASSUME NEW o \in S, NEW u \in S
        PROVE  ObservationLess(o, u) <=> Precedes(ObservationKey(S)[o], ObservationKey(S)[u])
    BY <1>3, Zenon DEF ObservationLess, place
  <1> QED BY <1>5, <1>6, <1>7

(* What observation order sorts.                                           *)
LEMMA ObservationsSorted ==
    ASSUME NEW S, IsFiniteSet(S), Told(S)
    PROVE  InOrder(Sorted(S, ObservationLess), S, ObservationKey(S))
  <1> DEFINE seq    == Sorted(S, ObservationLess)
             before == [x \in S |-> {y \in S : ObservationLess(y, x)}]
             pick(k) == CHOOSE x \in S : Cardinality({y \in S : ObservationLess(y, x)}) = k - 1
  <1>1. OrderedBy(ObservationKey(S), S, 7, before)
    <2>1. ASSUME NEW x \in S
          PROVE  before[x] = {y \in S : Precedes(ObservationKey(S)[y], ObservationKey(S)[x])}
      <3>1. before[x] = {y \in S : ObservationLess(y, x)}
        OBVIOUS
      <3> HIDE DEF before
      <3> QED BY <3>1, ObservationKeys
    <2> HIDE DEF before
    <2> QED BY <2>1, ObservationKeys DEF OrderedBy
  <1>2. seq = [k \in 1..Cardinality(S) |-> pick(k)]
    BY DEF Sorted
  <1>3. ASSUME NEW k \in 1..Cardinality(S), NEW x \in S, Cardinality(before[x]) = k - 1
        PROVE  seq[k] \in S /\ Cardinality(before[seq[k]]) = k - 1
    <2>1. \A z \in S : before[z] = {y \in S : ObservationLess(y, z)}
      OBVIOUS
    <2>2. seq[k] = pick(k)
      <3> HIDE DEF seq, pick
      <3> QED BY <1>2
    <2> HIDE DEF seq, before
    <2>3. /\ pick(k) \in S
          /\ Cardinality({y \in S : ObservationLess(y, pick(k))}) = k - 1
      <3>1. Cardinality({y \in S : ObservationLess(y, x)}) = k - 1
        BY <1>3, <2>1
      <3> QED BY <3>1, Zenon
    <2> HIDE DEF pick
    <2> QED BY <2>1, <2>2, <2>3
  <1> HIDE DEF seq, before, pick
  <1>4. seq = [k \in DOMAIN seq |-> seq[k]] /\ DOMAIN seq = 1..Cardinality(S)
    BY <1>2
  <1>5. Places(seq, S, before)
    BY <1>3, <1>4 DEF Places
  <1>6. IsFiniteSet(S)
    OBVIOUS
  <1> QED BY <1>1, <1>5, <1>6, SortedByKey DEF seq

-----------------------------------------------------------------------------
(* Endpoint comparisons.                                                   *)

(* The first of a set in canonical order.                                  *)
LEMMA CanonicalFirst ==
    ASSUME NEW items, Proper(items), items # {}
    PROVE  \E r \in items : \A other \in items \ {r} : CanonicalLess(r, other)
  <1> DEFINE key == CanonicalKey(items)
             R   == ByKey(key)
  <1>1. /\ key \in [items -> Tuples(4)]
        /\ \A i, j \in items : key[i] = key[j] => i = j
        /\ \A i, j \in items : CanonicalLess(i, j) <=> Precedes(key[i], key[j])
    <2> HIDE DEF R
    <2> QED BY CanonicalKeys
  <1> HIDE DEF key
  <1>2. Orders(R, items)
    BY <1>1, KeysOrder
  <1>3. \A x \in items : R[x] = {y \in items : Precedes(key[y], key[x])}
    <2>1. DOMAIN key = items
      BY <1>1
    <2> QED BY <2>1 DEF ByKey
  <1> HIDE DEF R
  <1>4. IsFiniteSet(items) /\ Cardinality(items) \in Nat \ {0}
    BY FS_CardinalityType, FS_EmptySet DEF Proper
  <1>5. PICK r \in items : Cardinality(Before(r, items, R)) = 1 - 1
    <2>1. 1 \in 1..Cardinality(items)
      BY <1>4
    <2> QED BY <1>2, <1>4, <2>1, Ranked
  <1>6. Before(r, items, R) = {}
    <2>1. IsFiniteSet(Before(r, items, R))
      BY <1>4, FS_Subset DEF Before
    <2> QED BY <1>5, <2>1, FS_EmptySet
  <1>7. ASSUME NEW other \in items \ {r}
        PROVE  CanonicalLess(r, other)
    <2>1. other \notin R[r]
      BY <1>6 DEF Before
    <2>2. r \in R[other]
      BY <1>2, <2>1 DEF Orders
    <2> QED BY <1>1, <1>3, <2>2
  <1> QED BY <1>7

(* How far apart two items were observed is a number.                      *)
LEMMA ApartIs ==
    ASSUME NEW a, NEW b, Typed(a), Typed(b)
    PROVE  Apart(a, b) \in Nat
  BY DEF Apart, Typed

(* Some candidate is the nearest.                                          *)
LEMMA NearestIs ==
    ASSUME NEW sender, Typed(sender), NEW candidates, Proper(candidates), candidates # {}
    PROVE  Nearest(sender, candidates) \in candidates
  <1> DEFINE Gaps == {Apart(sender, r) : r \in candidates}
  <1>1. \A r \in candidates : Apart(sender, r) \in Nat
    BY ApartIs DEF Proper
  <1>2. PICK gap \in Gaps : \A other \in Gaps : gap <= other
    <2>1. Gaps \in SUBSET Nat /\ Gaps # {}
      BY <1>1
    <2> HIDE DEF Gaps
    <2> QED BY <2>1, Least
  <1> DEFINE Close == {r \in candidates : Apart(sender, r) = gap}
  <1>3. Close # {} /\ Close \in SUBSET candidates
    BY <1>2
  <1>4. Proper(Close)
    BY <1>3, ProperSubset
  <1>5. PICK r \in Close : \A other \in Close \ {r} : CanonicalLess(r, other)
    <2> HIDE DEF Close
    <2> QED BY <1>3, <1>4, CanonicalFirst
  <1>6. r \in candidates /\ Apart(sender, r) = gap
    BY <1>5
  <1>7. ASSUME NEW other \in candidates \ {r}
        PROVE  \/ Apart(sender, r) < Apart(sender, other)
               \/ Apart(sender, r) = Apart(sender, other) /\ CanonicalLess(r, other)
    <2>1. gap <= Apart(sender, other)
      BY <1>2
    <2>2. CASE Apart(sender, other) = gap
      BY <1>5, <1>6, <1>7, <2>2
    <2>3. CASE Apart(sender, other) # gap
      <3>1. gap \in Nat /\ Apart(sender, other) \in Nat
        BY <1>1, <1>6
      <3> QED BY <1>6, <2>1, <2>3, <3>1
    <2> QED BY <2>2, <2>3
  <1> DEFINE Best(c) == \A other \in candidates \ {c} :
                            \/ Apart(sender, c) < Apart(sender, other)
                            \/ Apart(sender, c) = Apart(sender, other) /\ CanonicalLess(c, other)
  <1>8. Best(r)
    BY <1>7
  <1>9. Nearest(sender, candidates) = CHOOSE c \in candidates : Best(c)
    BY DEF Nearest
  <1> HIDE DEF Best
  <1> QED BY <1>6, <1>8, <1>9

(* Pairs are of a sender and a receiver among the reports, and finitely    *)
(* many.                                                                   *)
LEMMA EndpointPairsAre ==
    ASSUME NEW items, Proper(items)
    PROVE  /\ IsFiniteSet(EndpointPairs(items))
           /\ EndpointPairs(items) \subseteq [sender : items, receiver : items]
  <1> DEFINE Pairing   == [sender : items, receiver : items]
             T         == {pairs \in SUBSET Pairing : IsFiniteSet(pairs)}
             senders   == {i \in items : i.payload.role = "Sender"}
             receivers == {i \in items : i.payload.role = "Receiver"}
             line      == Sorted(senders, CanonicalLess)
  <1>1. Proper(senders) /\ senders \subseteq items /\ receivers \subseteq items
    BY ProperSubset
  <1>2. line \in Seq(senders)
    <2> HIDE DEF senders
    <2> QED BY <1>1, CanonicallySorted DEF InOrder
  <1>3. {} \in T
    BY FS_EmptySet
  <1>4. ASSUME NEW pairs \in T, NEW sender \in senders
        PROVE  Paired(pairs, sender, receivers) \in T
    <2> DEFINE candidates == {r \in receivers \ {p.receiver : p \in pairs} :
                                 Comparable(sender, r)}
               chosen == [sender |-> sender, receiver |-> Nearest(sender, candidates)]
    <2>1. Paired(pairs, sender, receivers)
              = IF candidates = {} THEN pairs ELSE pairs \cup {chosen}
      BY DEF Paired
    <2>2. CASE candidates = {}
      BY <2>1, <2>2
    <2>3. CASE candidates # {}
      <3>1. Proper(candidates) /\ candidates \subseteq items
        BY <1>1, ProperSubset
      <3>2. Typed(sender) /\ sender \in items
        BY <1>1 DEF Proper
      <3>3. Nearest(sender, candidates) \in candidates
        <4> HIDE DEF candidates
        <4> QED BY <2>3, <3>1, <3>2, NearestIs
      <3> HIDE DEF candidates
      <3>4. chosen \in Pairing
        BY <3>1, <3>2, <3>3
      <3> HIDE DEF chosen, Pairing
      <3>5. pairs \cup {chosen} \in SUBSET Pairing /\ IsFiniteSet(pairs \cup {chosen})
        BY <3>4, FS_AddElement
      <3> QED BY <2>1, <2>3, <3>5
    <2> QED BY <2>2, <2>3
  <1>5. EndpointPairs(items) = PairsOf(line, receivers)
    BY DEF EndpointPairs, PairsOf
  <1> HIDE DEF T, senders, receivers, line
  <1>6. EndpointPairs(items) \in T
    BY <1>2, <1>3, <1>4, <1>5, PairingStaysIn
  <1> QED BY <1>6 DEF T

(* So there are finitely many endpoint observations, of items.             *)
LEMMA EndpointObservationsAre ==
    ASSUME NEW items, Proper(items)
    PROVE  /\ IsFiniteSet(EndpointObservations(Endpoints(items)))
           /\ EndpointObservations(Endpoints(items)) \subseteq Statements(items)
  <1> DEFINE ends   == Endpoints(items)
             pairs  == EndpointPairs(ends)
             paired == {p.sender : p \in pairs} \cup {p.receiver : p \in pairs}
             told   == {PairObservation(p) : p \in pairs}
             alone  == {UnpairedObservation(i) : i \in ends \ paired}
  <1>1. Proper(ends)
    BY ProperSubset DEF Endpoints, OfKinds
  <1>2. EndpointObservations(ends) = told \cup alone
    BY DEF EndpointObservations
  <1>3. IsFiniteSet(pairs) /\ pairs \subseteq [sender : ends, receiver : ends]
    <2> HIDE DEF ends
    <2> QED BY <1>1, EndpointPairsAre
  <1> HIDE DEF pairs, paired
  <1>4. told \subseteq FromPairs(items)
    BY <1>3 DEF FromPairs
  <1>5. alone \subseteq FromUnpaired(items)
    BY DEF FromUnpaired
  <1>6. IsFiniteSet(told)
    <2> DEFINE f == [p \in pairs |-> PairObservation(p)]
    <2>1. told = {f[p] : p \in pairs} /\ DOMAIN f = pairs
      OBVIOUS
    <2> HIDE DEF told, f
    <2> QED BY <1>3, <2>1, ImageIsFinite
  <1>7. IsFiniteSet(alone)
    <2> DEFINE rest == ends \ paired
               f == [i \in rest |-> UnpairedObservation(i)]
    <2>1. alone = {f[i] : i \in rest} /\ DOMAIN f = rest
      OBVIOUS
    <2>2. IsFiniteSet(rest)
      BY <1>1, FS_Subset DEF Proper
    <2> HIDE DEF alone, f, rest
    <2> QED BY <2>1, <2>2, ImageIsFinite
  <1> HIDE DEF told, alone
  <1>8. IsFiniteSet(told \cup alone)
    BY <1>6, <1>7, FS_Union
  <1> QED BY <1>2, <1>4, <1>5, <1>8 DEF Statements

-----------------------------------------------------------------------------
(* Deltas.                                                                 *)

(* A series is named by five numbers.                                      *)
LEMMA SeriesKeyIs ==
    ASSUME NEW item, Typed(item), Valid(item), item.payload.kind = "counter"
    PROVE  SeriesKey(item) \in Tuples(5)
  <1> DEFINE first == <<item.source, item.epoch>>
             last  == <<item.payload.counter, ScopeRank[item.payload.scope],
                        item.payload.binding>>
  <1>1. \A scope \in DOMAIN ScopeRank : ScopeRank[scope] \in Int
    BY DEF ScopeRank
  <1>2. /\ item.source \in Int /\ item.epoch \in Int /\ item.payload.counter \in Int
        /\ item.payload.binding \in Int
        /\ item.payload.scope \in DOMAIN ScopeRank \cup {"Unknown"}
    BY DEF Typed
  <1>3. item.payload.scope # "Unknown"
    BY DEF Valid, PayloadValid
  <1>4. ScopeRank[item.payload.scope] \in Int
    BY <1>1, <1>2, <1>3
  <1>5. first \in Seq(Int) /\ Len(first) = 2
    BY <1>2
  <1>6. last \in Seq(Int) /\ Len(last) = 3
    BY <1>2, <1>4
  <1>7. SeriesKey(item) = first \o last
    BY DEF SeriesKey, Bound
  <1> HIDE DEF first, last
  <1> DEFINE whole == first \o last
  <1>8. whole \in Seq(Int) /\ Len(whole) = Len(first) + Len(last)
    BY <1>5, <1>6, ConcatProperties
  <1>9. Len(whole) = 5
    BY <1>5, <1>6, <1>8
  <1> HIDE DEF whole
  <1>10. whole \in Tuples(5)
    BY <1>8, <1>9 DEF Tuples
  <1> QED BY <1>7, <1>10 DEF whole

(* The series kept, and the points of one.                                 *)
LEMMA SeriesAre ==
    ASSUME NEW items, Proper(items), \A i \in items : i.payload.kind = "counter"
    PROVE  /\ KeptSeries(items) \in SUBSET Tuples(5) /\ IsFiniteSet(KeptSeries(items))
           /\ \A key : Points(items, key) \in Seq(items)
  <1>1. \A i \in items : Typed(i) /\ Valid(i)
    BY DEF Proper
  <1>2. IsFiniteSet(SeriesKeys(items)) /\ SeriesKeys(items) \subseteq Tuples(5)
    <2> DEFINE f == [i \in items |-> SeriesKey(i)]
    <2>1. SeriesKeys(items) = {f[i] : i \in items} /\ DOMAIN f = items
      BY DEF SeriesKeys
    <2>2. \A i \in items : f[i] \in Tuples(5)
      BY <1>1, SeriesKeyIs
    <2> HIDE DEF f
    <2>3. IsFiniteSet(items)
      BY DEF Proper
    <2> QED BY <2>1, <2>2, <2>3, ImageIsFinite
  <1>3. KeptSeries(items) \subseteq SeriesKeys(items)
    BY DEF KeptSeries
  <1>4. ASSUME NEW key
        PROVE  Points(items, key) \in Seq(items)
    <2> DEFINE own == {i \in items : SeriesKey(i) = key}
               line == Sorted(own, InSeries)
    <2>1. Proper(own) /\ own \subseteq items
      BY ProperSubset
    <2>2. line \in Seq(own)
      <3> HIDE DEF own
      <3> QED BY <2>1, SeriesSorted DEF InOrder
    <2>3. Points(items, key) = FirstOf(line, CounterPolicy.max_points_per_series)
      BY DEF Points
    <2>4. CounterPolicy.max_points_per_series \in Nat
      BY CounterAssumption
    <2> HIDE DEF own, line
    <2>5. Points(items, key) \in Seq(own)
      BY <2>2, <2>3, <2>4, FirstOfIs
    <2> QED BY <2>1, <2>5, SeqMonotonic
  <1> QED BY <1>2, <1>3, <1>4, FS_Subset

(* Intervals are of two readings each.                                     *)
LEMMA IntervalsAre ==
    ASSUME NEW S, NEW points \in Seq(S)
    PROVE  Intervals(points) \in Seq([from : S, to : S])
  <1>1. Len(points) \in Nat /\ \A k \in 1..Len(points) : points[k] \in S
    BY LenProperties, ElementOfSeq
  <1>2. CASE Len(points) = 1
    <2>1. Intervals(points) = <<[from |-> points[1], to |-> points[1]]>>
      BY <1>2 DEF Intervals
    <2>2. points[1] \in S
      BY <1>1, <1>2
    <2>3. [from |-> points[1], to |-> points[1]] \in [from : S, to : S]
      BY <2>2
    <2> QED BY <2>1, <2>3
  <1>3. CASE Len(points) = 0
    <2>1. Intervals(points) = [i \in 1..(Len(points) - 1) |->
                                  [from |-> points[i], to |-> points[i + 1]]]
      BY <1>3 DEF Intervals
    <2>2. 1..(Len(points) - 1) = {} /\ 1..0 = {}
      BY <1>3
    <2>3. Intervals(points) \in [1..0 -> [from : S, to : S]]
      BY <2>1, <2>2
    <2> QED BY <2>3
  <1>4. CASE Len(points) > 1
    <2> DEFINE n == Len(points) - 1
    <2>1. n \in Nat
      BY <1>1, <1>4
    <2>2. Intervals(points) = [i \in 1..n |-> [from |-> points[i], to |-> points[i + 1]]]
      BY <1>1, <1>4 DEF Intervals
    <2>3. \A i \in 1..n : points[i] \in S /\ points[i + 1] \in S
      BY <1>1, <1>4
    <2> HIDE DEF n
    <2> DEFINE R == [from : S, to : S]
    <2>4. Intervals(points) \in [1..n -> R]
      BY <2>2, <2>3
    <2> HIDE DEF R
    <2>5. Intervals(points) \in Seq(R)
      BY <2>1, <2>4, SeqDef
    <2> QED BY <2>5 DEF R
  <1> DEFINE n == Len(points)
             Wanted == Intervals(points) \in Seq([from : S, to : S])
  <1>5. n \in Nat /\ (n = 1 => Wanted) /\ (n = 0 => Wanted) /\ (n > 1 => Wanted)
    BY <1>1, <1>2, <1>3, <1>4
  <1> HIDE DEF n, Wanted
  <1>6. n = 0 \/ n = 1 \/ n > 1
    BY <1>5
  <1>7. Wanted
    BY <1>5, <1>6
  <1> QED BY <1>7 DEF Wanted

(* The deltas of all series are statements.                                *)
LEMMA DeltaObservationsAre ==
    ASSUME NEW items, Proper(items)
    PROVE  DeltaObservations(Counters(items)) \in Seq(FromIntervals(items))
  <1> DEFINE readings == Counters(items)
             keys == Sorted(KeptSeries(readings), Precedes)
             deltas(key) == [i \in DOMAIN Intervals(Points(readings, key)) |->
                                DeltaObservation(Intervals(Points(readings, key))[i])]
             lists == [k \in DOMAIN keys |-> deltas(keys[k])]
             T == FromIntervals(items)
  <1>1. Proper(readings) /\ \A i \in readings : i.payload.kind = "counter"
    BY ProperSubset DEF Counters, OfKinds
  <1>2. T = {DeltaObservation(d) : d \in [from : readings, to : readings]}
    BY DEF FromIntervals
  <1>3. DeltaObservations(readings) = FlattenSeq(lists)
    BY DEF DeltaObservations
  <1> HIDE DEF readings, T
  <1>4. /\ KeptSeries(readings) \in SUBSET Tuples(5) /\ IsFiniteSet(KeptSeries(readings))
        /\ \A key : Points(readings, key) \in Seq(readings)
    BY <1>1, SeriesAre
  <1>5. keys \in Seq(KeptSeries(readings))
    BY <1>4, TuplesSorted DEF InOrder
  <1>6. ASSUME NEW key
        PROVE  deltas(key) \in Seq(T)
    <2> DEFINE intervals == Intervals(Points(readings, key))
               made == [i \in DOMAIN intervals |-> DeltaObservation(intervals[i])]
    <2>1. intervals \in Seq([from : readings, to : readings])
      BY <1>4, IntervalsAre
    <2> HIDE DEF intervals
    <2>2. ASSUME NEW i \in DOMAIN intervals
          PROVE  made[i] \in T
      <3>1. intervals[i] \in [from : readings, to : readings]
        BY <2>1, LenProperties, ElementOfSeq
      <3> QED BY <1>2, <3>1
    <2>3. DOMAIN made = DOMAIN intervals /\ made = [i \in DOMAIN made |-> made[i]]
      OBVIOUS
    <2> HIDE DEF made
    <2>4. made \in Seq(T)
      BY <2>1, <2>2, <2>3, MadeIs
    <2> QED BY <2>4 DEF made, intervals
  <1> HIDE DEF deltas, keys
  <1>7. lists \in Seq(Seq(T))
    <2>1. DOMAIN lists = DOMAIN keys /\ lists = [k \in DOMAIN lists |-> lists[k]]
      OBVIOUS
    <2>2. \A k \in DOMAIN keys : lists[k] \in Seq(T)
      BY <1>6
    <2> HIDE DEF lists
    <2> QED BY <1>5, <2>1, <2>2, MadeIs
  <1> HIDE DEF lists
  <1>8. FlattenSeq(lists) \in Seq(T)
    BY <1>7, FlattenSeqIs
  <1> QED BY <1>3, <1>8 DEF readings, T

-----------------------------------------------------------------------------
(* The observations.                                                       *)

(* The items whose subjects are declared, when that is asked for.          *)
Described(items) == {i \in items : Describable(i)}

(* So is all that a derivation says before it is cut to its bound and put  *)
(* in order.                                                               *)
LEMMA BoundedObservationsAre ==
    ASSUME NEW items, Proper(items)
    PROVE  BoundedObservations(items) \in Seq(Statements(items))
  <1> DEFINE reports == Sorted(Reporting(items), CanonicalLess)
             said    == [k \in DOMAIN reports |-> ReportObservation(reports[k])]
  <1>1. Proper(Reporting(items))
    BY ProperSubset DEF Reporting, OfKinds
  <1>2. reports \in Seq(Reporting(items))
    BY <1>1, CanonicallySorted DEF InOrder
  <1>3. BoundedObservations(items) = said \o DeltaObservations(Counters(items))
    BY DEF BoundedObservations, Reporting, Counters
  <1> HIDE DEF reports
  <1>4. said \in Seq(Statements(items))
    <2>1. DOMAIN said = DOMAIN reports /\ said = [k \in DOMAIN said |-> said[k]]
      OBVIOUS
    <2>2. ASSUME NEW k \in DOMAIN reports
          PROVE  said[k] \in Statements(items)
      <3>1. reports[k] \in Reporting(items)
        BY <1>2, LenProperties, ElementOfSeq
      <3> QED BY <3>1 DEF Statements, FromReports
    <2> HIDE DEF said
    <2> QED BY <1>2, <2>1, <2>2, MadeIs
  <1>5. DeltaObservations(Counters(items)) \in Seq(Statements(items))
    BY DeltaObservationsAre, SeqMonotonic DEF Statements
  <1> HIDE DEF said
  <1> QED BY <1>3, <1>4, <1>5, ConcatProperties

(* What derivation says is made of the items, has each identity once, and  *)
(* is in order.                                                            *)
Derived(items) ==
    LET described == Described(items)
    IN  ToSet(FirstOf(BoundedObservations(described), DerivePolicy.max_observations))
            \cup EndpointObservations(Endpoints(described))

(* What is derived is finite, each with an identity of its own, and said   *)
(* of described items.                                                     *)
LEMMA DerivedAre ==
    ASSUME NEW items, Proper(items)
    PROVE  /\ IsFiniteSet(Derived(items)) /\ Told(Derived(items))
           /\ Derived(items) \subseteq Statements(Described(items))
  <1> DEFINE described == Described(items)
             bounded   == FirstOf(BoundedObservations(described), DerivePolicy.max_observations)
  <1>1. Proper(described)
    BY ProperSubset DEF Described
  <1>2. bounded \in Seq(Statements(described))
    <2>1. DerivePolicy.max_observations \in Nat
      BY DeriveAssumption
    <2> HIDE DEF described
    <2> QED BY <1>1, <2>1, BoundedObservationsAre, FirstOfIs
  <1>3. IsFiniteSet(ToSet(bounded)) /\ ToSet(bounded) \subseteq Statements(described)
    BY <1>2, ElementsAreFinite
  <1>4. /\ IsFiniteSet(EndpointObservations(Endpoints(described)))
        /\ EndpointObservations(Endpoints(described)) \subseteq Statements(described)
    BY <1>1, EndpointObservationsAre
  <1>5. Derived(items) = ToSet(bounded) \cup EndpointObservations(Endpoints(described))
    BY DEF Derived
  <1> HIDE DEF described, bounded
  <1>6. IsFiniteSet(Derived(items)) /\ Derived(items) \subseteq Statements(described)
    BY <1>3, <1>4, <1>5, FS_Union
  <1>7. Told(Derived(items))
    BY <1>1, <1>6, StatementsAre, StatementsDiffer DEF Told
  <1> QED BY <1>6, <1>7 DEF described

(* derive_observations says each thing once and in one order, whatever the *)
(* order of arrival.                                                       *)
THEOREM DerivationIsOrdered ==
    ASSUME NEW items, Proper(items)
    PROVE  InOrder(Derive(items).observations, Derived(items), ObservationKey(Derived(items)))
  <1>1. Derive(items).observations = Sorted(Derived(items), ObservationLess)
    BY DEF Derive, Derived, Described, Endpoints
  <1>2. IsFiniteSet(Derived(items)) /\ Told(Derived(items))
    BY DerivedAre
  <1> QED BY <1>1, <1>2, ObservationsSorted

-----------------------------------------------------------------------------
(* What statements there are.                                              *)

(* Statements, all of them.                                                *)
Stated(S) == \A o \in S : Statement(o)

(* Sequences of them can be counted.                                       *)
LEMMA StatedCounting ==
    ASSUME NEW S, Stated(S)
    PROVE  Counting(S)
  BY ArithmeticAssumption DEF Stated, Statement, Counting, Words

(* What Derive returns are statements.                                     *)
LEMMA ObservationsAre ==
    ASSUME NEW items, Proper(items)
    PROVE  /\ Derive(items).observations \in Seq(Derived(items))
           /\ Stated(Derived(items))
  BY DerivationIsOrdered, DerivedAre DEF InOrder, Told, Stated

-----------------------------------------------------------------------------
(* Granularity.                                                            *)

(* The ladder of granularities, rung by rung.                              *)
LEMMA FinenessIs ==
    /\ Granularities = {"Unknown", "Flow", "Path", "Hop", "Link", "Queue"}
    /\ Fineness["Unknown"] = 0 /\ Fineness["Flow"] = 1 /\ Fineness["Path"] = 2
    /\ Fineness["Hop"] = 3 /\ Fineness["Link"] = 4 /\ Fineness["Queue"] = 5
    /\ \A g \in Granularities : Fineness[g] \in 0..5
  BY DEF Granularities, Fineness

(* Nothing is finer than itself, nor is the unknown finer than anything.   *)
LEMMA NotFinerItself ==
    ASSUME NEW g \in Granularities
    PROVE  ~FinerThan(g, g) /\ ~FinerThan("Unknown", g)
  BY FinenessIs DEF FinerThan

(* The coarser of two is one of them and no finer than either.             *)
LEMMA CoarserIs ==
    ASSUME NEW g \in Granularities, NEW h \in Granularities
    PROVE  /\ CoarserOf(g, h) \in Granularities
           /\ ~FinerThan(CoarserOf(g, h), g) /\ ~FinerThan(CoarserOf(g, h), h)
           /\ CoarserOf(g, h) \in {g, h}
  BY FinenessIs DEF FinerThan, CoarserOf

(* What is no finer than something no finer than a third is no finer than  *)
(* the third.                                                              *)
LEMMA FinerOnwards ==
    ASSUME NEW f \in Granularities, NEW g \in Granularities, NEW h \in Granularities,
           ~FinerThan(f, g), ~FinerThan(g, h)
    PROVE  ~FinerThan(f, h)
  BY FinenessIs DEF FinerThan

(* Of two the order does not matter, but for which is named.               *)
LEMMA CoarserEitherWay ==
    ASSUME NEW f \in Granularities, NEW g \in Granularities, NEW h \in Granularities,
           ~FinerThan(f, g), ~FinerThan(f, h)
    PROVE  ~FinerThan(f, CoarserOf(g, h))
  BY FinenessIs DEF FinerThan, CoarserOf

(* The finest of granularities is one of them, if there is any.            *)
LEMMA FinestIs ==
    ASSUME NEW observations, \A o \in ToSet(observations) : o.granularity \in Granularities
    PROVE  /\ Finest(observations) \in Granularities
           /\ \/ Finest(observations) = "Unknown"
              \/ \E o \in ToSet(observations) : o.granularity = Finest(observations)
           /\ \A o \in ToSet(observations) : ~FinerThan(o.granularity, Finest(observations))
  <1> DEFINE all == {o.granularity : o \in ToSet(observations)}
             finest == Finest(observations)
  <1>1. all \subseteq Granularities /\ "Unknown" \in Granularities
    BY FinenessIs
  <1>2. finest = CHOOSE g \in all \cup {"Unknown"} : \A h \in all : ~FinerThan(h, g)
    BY DEF Finest
  <1>3. \A o \in ToSet(observations) : o.granularity \in all
    OBVIOUS
  <1>4. \A g \in all : \E o \in ToSet(observations) : o.granularity = g
    OBVIOUS
  <1> HIDE DEF all, finest
  <1>5. \E g \in all \cup {"Unknown"} : \A h \in all : ~FinerThan(h, g)
    <2> DEFINE ranks == {n \in 0..5 : \A h \in all : Fineness[h] <= n}
    <2>1. 5 \in ranks /\ ranks \in SUBSET Nat
      BY <1>1, FinenessIs
    <2>2. PICK n \in ranks : \A m \in ranks : n <= m
      <3> HIDE DEF ranks
      <3> QED BY <2>1, Least
    <2>3. CASE n = 0
      BY <1>1, <2>2, <2>3, FinenessIs DEF FinerThan
    <2>4. CASE n # 0
      <3>1. n - 1 \in 0..5 /\ n - 1 \notin ranks
        BY <2>2, <2>4
      <3>2. PICK g \in all : ~(Fineness[g] <= n - 1)
        BY <3>1
      <3>3. \A h \in all : Fineness[h] <= n
        BY <2>2
      <3>4. n \in Nat /\ Fineness[g] \in Nat /\ \A h \in all : Fineness[h] \in Nat
        BY <1>1, <2>2, FinenessIs
      <3> QED BY <3>2, <3>3, <3>4 DEF FinerThan
    <2> QED BY <2>3, <2>4
  <1>6. finest \in all \cup {"Unknown"} /\ \A h \in all : ~FinerThan(h, finest)
    BY <1>2, <1>5, Zenon
  <1>7. /\ finest \in Granularities
        /\ finest = "Unknown" \/ \E o \in ToSet(observations) : o.granularity = finest
        /\ \A o \in ToSet(observations) : ~FinerThan(o.granularity, finest)
    BY <1>1, <1>3, <1>4, <1>6
  <1> QED BY <1>7 DEF finest

-----------------------------------------------------------------------------
(* Runs of equal hops.                                                     *)

(* Where runs start, in order.                                             *)
Starts(states) == Sorted(RunStarts(states), <)

(* The starts, in order, from the first hop on.                            *)
LEMMA StartsAre ==
    ASSUME NEW S, NEW states \in Seq(S)
    PROVE  /\ Starts(states) \in Seq(1..Len(states))
           /\ ToSet(Starts(states)) = RunStarts(states)
           /\ RunStarts(states) \subseteq 1..Len(states)
           /\ \A j, k \in DOMAIN Starts(states) :
                 j < k => Starts(states)[j] < Starts(states)[k]
           /\ 1 \in 1..Len(states) => 1 \in RunStarts(states)
  <1> DEFINE starts == Starts(states)
             R == RunStarts(states)
             n == Len(states)
  <1>1. n \in Nat /\ DOMAIN states = 1..n
    BY LenProperties
  <1>2. R \in SUBSET (1..n) /\ (1 \in 1..n => 1 \in R)
    BY <1>1 DEF RunStarts
  <1>3. starts = Sorted(R, <)
    BY DEF Starts
  <1> HIDE DEF starts, R, n
  <1>4. IsFiniteSet(R) /\ R \in SUBSET Nat
    <2>1. IsFiniteSet(1..n)
      BY <1>1, FS_Interval
    <2>2. IsFiniteSet(R)
      BY <1>2, <2>1, FS_Subset
    <2>3. 1..n \subseteq Nat
      BY <1>1
    <2> QED BY <1>2, <2>2, <2>3
  <1>5. InOrder(starts, R, Alone(R))
    BY <1>3, <1>4, NumbersSorted
  <1>6. starts \in Seq(R) /\ ToSet(starts) = R
    BY <1>5 DEF InOrder
  <1>7. starts \in Seq(1..n)
    BY <1>2, <1>6, SeqMonotonic
  <1>8. ASSUME NEW j \in DOMAIN starts, NEW k \in DOMAIN starts, j < k
        PROVE  starts[j] < starts[k]
    <2>1. starts[j] \in R /\ starts[k] \in R
      BY <1>6, LenProperties, ElementOfSeq
    <2>2. Precedes(Alone(R)[starts[j]], Alone(R)[starts[k]])
      BY <1>5, <1>8 DEF InOrder
    <2> QED BY <1>4, <2>1, <2>2, NumbersAreKeys
  <1>9. /\ starts \in Seq(1..n) /\ ToSet(starts) = R /\ R \subseteq 1..n
        /\ \A j, k \in DOMAIN starts : j < k => starts[j] < starts[k]
        /\ 1 \in 1..n => 1 \in R
    BY <1>2, <1>6, <1>7, <1>8
  <1> QED BY <1>9 DEF starts, R, n

(* The hops from one on up to another are as the first of them.            *)
Alike(states, first, last) == \A p \in first..last : states[p] = states[first]

(* Where no run starts hops show the same.                                 *)
LEMMA NoStartNoChange ==
    ASSUME NEW S, NEW states \in Seq(S), NEW first \in 1..Len(states),
           NEW last \in first..Len(states), \A i \in (first + 1)..last : i \notin RunStarts(states)
    PROVE  Alike(states, first, last)
  <1> DEFINE Holds == {k \in Nat : states[first + k] = states[first]}
             n == last - first
  <1>1. /\ Len(states) \in Nat /\ DOMAIN states = 1..Len(states)
        /\ n \in Nat /\ first \in Nat /\ last \in Nat
    BY LenProperties
  <1>2. first + 0 = first
    BY <1>1
  <1>3. 0 \in Holds
    BY <1>2
  <1>4. ASSUME NEW k \in 1..n, k - 1 \in Holds
        PROVE  k \in Holds
    <2>1. /\ first + k \in (first + 1)..last /\ first + k \in DOMAIN states /\ first + k # 1
          /\ first + k - 1 = first + (k - 1) /\ k \in Nat
      BY <1>1
    <2>2. states[first + k] = states[first + k - 1]
      <3>1. first + k \notin RunStarts(states)
        BY <2>1
      <3> QED BY <2>1, <3>1 DEF RunStarts
    <2>3. states[first + (k - 1)] = states[first]
      BY <1>4
    <2> QED BY <2>1, <2>2, <2>3
  <1> HIDE DEF Holds, n
  <1>5. \A k \in 0..n : k \in Holds
    BY <1>1, <1>3, <1>4, ReachesEach
  <1>6. ASSUME NEW p \in first..last
        PROVE  states[p] = states[first]
    <2>1. p - first \in 0..n /\ first + (p - first) = p
      BY <1>1 DEF n
    <2> DEFINE k == p - first
    <2> HIDE DEF k
    <2>2. k \in Holds /\ first + k = p
      BY <1>5, <2>1 DEF k
    <2> QED BY <2>2 DEF Holds
  <1> QED BY <1>6 DEF Alike

(* Where a run ends the next starts, or the path ends.                     *)
LEMMA RunEndIs ==
    ASSUME NEW S, NEW states \in Seq(S), NEW first \in RunStarts(states)
    PROVE  /\ RunEnd(states, first) \in first..Len(states)
           /\ Alike(states, first, RunEnd(states, first))
           /\ \/ RunEnd(states, first) = Len(states)
              \/ RunEnd(states, first) + 1 \in RunStarts(states)
           /\ \A i \in RunStarts(states) : i > first => i > RunEnd(states, first)
  <1> DEFINE R == RunStarts(states)
             n == Len(states)
             later == {i \in R : i > first}
             last == RunEnd(states, first)
  <1>1. n \in Nat /\ R \in SUBSET (1..n) /\ first \in R
    BY StartsAre, LenProperties
  <1>2. last = IF later = {} THEN n ELSE Min(later) - 1
    BY DEF RunEnd
  <1>3. \A i : i \in later <=> i \in R /\ i > first
    OBVIOUS
  <1> HIDE DEF R, later, last, n
  <1>4. CASE later = {}
    <2>1. last = n
      BY <1>2, <1>4
    <2>2. last \in first..n /\ \A i \in R : ~(i > first)
      BY <1>1, <1>3, <1>4, <2>1
    <2>3. \A i \in (first + 1)..last : i \notin R
      BY <1>1, <2>2
    <2>4. Alike(states, first, last)
      BY <1>1, <2>2, <2>3, NoStartNoChange DEF n, R
    <2> QED BY <2>1, <2>2, <2>4 DEF R, last, n
  <1>5. CASE later # {}
    <2> DEFINE m == Min(later)
    <2>1. later \in SUBSET Nat
      <3>1. \A i \in R : i \in Nat
        BY <1>1
      <3> QED BY <1>3, <3>1
    <2>2. PICK x \in later : \A y \in later : x <= y
      BY <1>5, <2>1, Least
    <2>3. m = CHOOSE z \in later : \A y \in later : z <= y
      BY DEF Min
    <2> HIDE DEF m
    <2>4. m \in later /\ \A y \in later : m <= y
      BY <2>2, <2>3, Zenon
    <2>5. last = m - 1
      BY <1>2, <1>5 DEF m
    <2>6. m \in R /\ m > first /\ m \in Nat /\ first \in Nat
      BY <1>1, <1>3, <2>1, <2>4
    <2>7. \A i \in R : i > first => m <= i
      BY <1>3, <2>4
    <2>8. last \in first..n /\ last + 1 = m
      <3>1. m <= n
        BY <1>1, <2>6
      <3> QED BY <1>1, <2>5, <2>6, <3>1
    <2>9. \A i \in R : i > first => i > last
      BY <1>1, <2>5, <2>6, <2>7
    <2>10. \A i \in (first + 1)..last : i \notin R
      BY <1>1, <2>6, <2>8, <2>9
    <2>11. Alike(states, first, last)
      BY <1>1, <2>8, <2>10, NoStartNoChange DEF n, R
    <2> QED BY <2>6, <2>8, <2>9, <2>11 DEF R, last, n
  <1> QED BY <1>4, <1>5

(* One run follows the other, the first starts with the path, and the last *)
(* ends with it.                                                           *)
LEMMA RunsFollow ==
    ASSUME NEW S, NEW states \in Seq(S), Len(states) # 0
    PROVE  /\ Len(Starts(states)) \in Nat \ {0}
           /\ Starts(states)[1] = 1
           /\ \A k \in 2..Len(Starts(states)) :
                 Starts(states)[k] = RunEnd(states, Starts(states)[k - 1]) + 1
           /\ RunEnd(states, Starts(states)[Len(Starts(states))]) = Len(states)
  <1> DEFINE starts == Starts(states)
             R == RunStarts(states)
             n == Len(states)
             m == Len(starts)
             end(k) == RunEnd(states, starts[k])
  <1>1. /\ starts \in Seq(1..n) /\ ToSet(starts) = R /\ R \in SUBSET (1..n)
        /\ \A j, k \in DOMAIN starts : j < k => starts[j] < starts[k]
        /\ 1 \in R /\ n \in Nat
    BY StartsAre, LenProperties
  <1>2. m \in Nat /\ DOMAIN starts = 1..m
    BY <1>1, LenProperties
  <1>3. \A k \in 1..m : starts[k] \in R /\ starts[k] \in Nat
    <2>1. \A k \in 1..m : starts[k] \in ToSet(starts)
      BY <1>2 DEF ToSet
    <2> QED BY <1>1, <2>1
  <1>4. ASSUME NEW i \in R
        PROVE  \E k \in 1..m : starts[k] = i
    BY <1>1, <1>2 DEF ToSet
  <1>5. \A k \in 1..m : /\ end(k) \in starts[k]..n
                        /\ end(k) = n \/ end(k) + 1 \in R
                        /\ \A i \in R : i > starts[k] => i > end(k)
    BY <1>3, RunEndIs
  <1> HIDE DEF starts, R, n, m, end
  <1>6. m # 0 /\ starts[1] = 1
    <2>1. PICK k \in 1..m : starts[k] = 1
      BY <1>1, <1>4
    <2>2. 1 \in 1..m /\ (k = 1 \/ 1 < k)
      BY <1>2
    <2>3. starts[1] \in 1..n
      BY <1>1, <1>3, <2>2
    <2>4. ~(starts[1] < 1)
      BY <2>3
    <2> QED BY <1>1, <1>2, <2>1, <2>2, <2>4
  <1>7. ASSUME NEW k \in 2..m
        PROVE  starts[k] = end(k - 1) + 1
    <2> DEFINE j == k - 1
    <2>1. j \in 1..m /\ k \in 1..m /\ j < k /\ j + 1 = k
      BY <1>2
    <2> HIDE DEF j
    <2>2. /\ starts[j] < starts[k] /\ starts[k] \in R /\ starts[k] \in Nat
          /\ starts[j] \in Nat /\ starts[k] \in 1..n
      BY <1>1, <1>2, <1>3, <2>1
    <2>3. /\ end(j) \in starts[j]..n /\ starts[k] > end(j)
          /\ end(j) = n \/ end(j) + 1 \in R
      BY <1>5, <2>1, <2>2
    <2>4. end(j) + 1 \in R
      BY <1>1, <2>2, <2>3
    <2>5. PICK l \in 1..m : starts[l] = end(j) + 1
      BY <1>4, <2>4
    <2>6. starts[l] > starts[j] /\ starts[l] <= starts[k]
      BY <2>2, <2>3, <2>5
    <2>7. l \in Nat /\ j \in Nat /\ starts[l] \in Nat
      BY <1>2, <1>3, <2>1
    <2>8. ~(l < j) /\ l # j
      <3>1. l < j => starts[l] < starts[j]
        BY <1>1, <1>2, <2>1
      <3> QED BY <2>2, <2>6, <2>7, <3>1
    <2>9. ~(k < l)
      <3>1. k < l => starts[k] < starts[l]
        BY <1>1, <1>2, <2>1
      <3> QED BY <2>2, <2>6, <2>7, <3>1
    <2>10. l = k
      BY <2>1, <2>7, <2>8, <2>9
    <2> QED BY <2>5, <2>10 DEF j
  <1>8. end(m) = n
    <2>1. m \in 1..m
      BY <1>2, <1>6
    <2>2. ASSUME end(m) + 1 \in R
          PROVE  FALSE
      <3>1. PICK l \in 1..m : starts[l] = end(m) + 1
        BY <1>4, <2>2
      <3>2. end(m) \in starts[m]..n /\ starts[m] \in Nat /\ starts[l] \in Nat
        BY <1>3, <1>5, <2>1
      <3>3. starts[l] > starts[m] /\ (l = m \/ l < m)
        BY <1>1, <1>2, <3>1, <3>2
      <3>4. l < m => starts[l] < starts[m]
        BY <1>1, <1>2, <2>1
      <3> QED BY <3>2, <3>3, <3>4
    <2> QED BY <1>5, <2>1, <2>2
  <1>9. /\ m \in Nat \ {0} /\ starts[1] = 1
        /\ \A k \in 2..m : starts[k] = end(k - 1) + 1
        /\ end(m) = n
    BY <1>2, <1>6, <1>7, <1>8
  <1> QED BY <1>9 DEF m, starts, end, n

-----------------------------------------------------------------------------
(* Segments and their counts.                                              *)

(* A segment as it may become while it is counted.                         *)
Tallying(segment) ==
    [kind : {segment.kind}, first : {segment.first}, last : {segment.last},
     klass : {segment.klass}, granularity : {segment.granularity},
     lost : Words, offered : Words, ratio_defined : BOOLEAN, ratio_bp : Nat,
     observation_count : Nat]

(* Words, their top, and the sums that fit.                                *)
LEMMA WordsAre ==
    /\ Words \subseteq Nat /\ Top \in Words /\ 0 \in Words
    /\ \A a, b \in Words : ~Overflows(a, b) => a + b \in Words
  BY ArithmeticAssumption DEF Words, Top, Overflows

(* To count an observation into a segment keeps its shape.                 *)
LEMMA CountsKeep ==
    ASSUME NEW S, Stated(S), NEW segment, NEW s \in Tallying(segment), NEW o \in S
    PROVE  WithCounts(s, o) \in Tallying(segment)
  <1> DEFINE over == Overflows(s.lost, o.lost) \/ Overflows(s.offered, o.offered)
             lost == IF over THEN Top ELSE s.lost + o.lost
             offered == IF over THEN Top ELSE s.offered + o.offered
             defined == s.ratio_defined \/ o.ratio_defined
             count == s.observation_count + 1
  <1>1. /\ o.lost \in Words /\ o.offered \in Words /\ o.ratio_defined \in BOOLEAN
        /\ s.lost \in Words /\ s.offered \in Words /\ s.ratio_defined \in BOOLEAN
        /\ s.observation_count \in Nat
    BY DEF Stated, Statement, Tallying
  <1>2. lost \in Words /\ offered \in Words
    BY <1>1, WordsAre
  <1>3. defined \in BOOLEAN
    BY <1>1
  <1>4. count \in Nat
    BY <1>1
  <1>5. WithCounts(s, o) = [s EXCEPT !.lost = lost, !.offered = offered,
                                     !.ratio_defined = defined, !.observation_count = count]
    BY DEF WithCounts, Tallying
  <1> HIDE DEF lost, offered, defined, count
  <1> QED BY <1>2, <1>3, <1>4, <1>5 DEF Tallying

(* Counting observation by observation.                                    *)
LEMMA FoldedCounts ==
    ASSUME NEW S, Stated(S), NEW segment, segment \in Tallying(segment),
           NEW placed \in Seq(S)
    PROVE  FoldLeft(WithCounts, segment, placed) \in Tallying(segment)
  <1> DEFINE n == Len(placed)
             step(kept, x) == WithCounts(kept, x)
             op == [p \in Tallying(segment) \X Nat |-> IF p[2] \in 1..n THEN step(p[1], placed[p[2]])
                                       ELSE p[1]]
             Recursion(h) ==
                 h = [s \in SUBSET DOMAIN placed |->
                        IF s = {} THEN segment ELSE step(h[s \ {Max(s)}], placed[Max(s)])]
             iter == CHOOSE h : Recursion(h)
  <1>1. n \in Nat /\ DOMAIN placed = 1..n /\ \A k \in 1..n : placed[k] \in S
    BY LenProperties
  <1>2. FoldLeft(WithCounts, segment, placed) = iter[DOMAIN placed]
    BY DEF FoldLeft, MapThenFoldSet
  <1>3. segment \in Tallying(segment) /\ \A kept \in Tallying(segment), x \in S : step(kept, x) \in Tallying(segment)
    BY CountsKeep
  <1> HIDE DEF step
  <1>4. op \in [Tallying(segment) \X Nat -> Tallying(segment)]
    BY <1>1, <1>3
  <1>5. ASSUME NEW kept \in Tallying(segment), NEW k \in 1..n
        PROVE  op[<<kept, k>>] = step(kept, placed[k])
    OBVIOUS
  <1> HIDE DEF op, n
  <1>6. \E h : Recursion(h)
    <2>1. PICK h \in [SUBSET (1..n) -> Tallying(segment)] : FoldsBy(h, n, segment, op)
      BY <1>1, <1>3, <1>4, FoldExists DEF FoldExistsTo
    <2>2. ASSUME NEW s \in SUBSET (1..n), s # {}
          PROVE  h[s] = step(h[s \ {Max(s)}], placed[Max(s)])
      <3>1. Max(s) \in 1..n
        BY <1>1, <2>2, PositionsHaveGreatest
      <3>2. h[s \ {Max(s)}] \in Tallying(segment)
        OBVIOUS
      <3>3. h[s] = op[<<h[s \ {Max(s)}], Max(s)>>]
        BY <2>1, <2>2 DEF FoldsBy
      <3> QED BY <1>5, <3>1, <3>2, <3>3
    <2>3. h[{}] = segment
      BY <2>1 DEF FoldsBy
    <2>4. Recursion(h)
      BY <1>1, <2>2, <2>3
    <2> QED BY <2>4
  <1>7. Recursion(iter)
    <2> HIDE DEF Recursion
    <2> QED BY <1>6
  <1> HIDE DEF iter
  <1>8. \A s \in SUBSET (1..n) :
            iter[s] = IF s = {} THEN segment ELSE step(iter[s \ {Max(s)}], placed[Max(s)])
    BY <1>1, <1>7
  <1> DEFINE Holds == {k \in 0..n : iter[1..k] \in Tallying(segment)}
  <1>9. 0 \in Holds
    <2>1. 1..0 = {} /\ {} \in SUBSET (1..n) /\ 0 \in 0..n
      BY <1>1
    <2> QED BY <1>3, <1>8, <2>1
  <1>10. ASSUME NEW k \in 1..n, k - 1 \in Holds
         PROVE  k \in Holds
    <2>1. 1..k \in (SUBSET (1..n)) \ {{}} /\ Max(1..k) = k /\ (1..k) \ {k} = 1..(k - 1)
      BY <1>1, FirstPositions
    <2>2. iter[1..k] = step(iter[1..(k - 1)], placed[k])
      <3>1. iter[1..k] = step(iter[(1..k) \ {Max(1..k)}], placed[Max(1..k)])
        BY <1>8, <2>1
      <3> QED BY <2>1, <3>1
    <2>3. iter[1..(k - 1)] \in Tallying(segment) /\ placed[k] \in S
      BY <1>1, <1>10
    <2>4. iter[1..k] \in Tallying(segment)
      BY <1>3, <2>2, <2>3
    <2>5. k \in 0..n
      BY <1>1
    <2> QED BY <2>4, <2>5
  <1>11. n \in 0..n
    BY <1>1
  <1> HIDE DEF Holds
  <1>12. n \in Holds
    BY <1>1, <1>9, <1>10, <1>11, ReachesEach
  <1> QED BY <1>1, <1>2, <1>12 DEF Holds

(* To take the ratio of a segment keeps its shape.                         *)
LEMMA RatioKeeps ==
    ASSUME NEW segment, NEW s \in Tallying(segment)
    PROVE  WithRatio(s) \in Tallying(segment)
  <1>1. s.lost \in Nat /\ s.offered \in Nat
    BY WordsAre DEF Tallying
  <1>2. CASE s.offered = 0
    BY <1>2 DEF WithRatio
  <1>3. CASE s.offered # 0
    <2> DEFINE bp == BasisPoints(s.lost, s.offered)
    <2>1. bp \in Nat
      <3>1. bp \in 0..Scale /\ Scale \in Nat
        BY <1>1, <1>3, BasisPointsAre, ArithmeticAssumption
      <3> HIDE DEF bp
      <3> QED BY <3>1
    <2>2. WithRatio(s) = [s EXCEPT !.ratio_defined = TRUE, !.ratio_bp = bp]
      BY <1>3 DEF WithRatio
    <2> HIDE DEF bp
    <2> QED BY <2>1, <2>2 DEF Tallying
  <1> QED BY <1>2, <1>3

(* To attribute counts changes nothing else of a segment.                  *)
LEMMA AttributedIs ==
    ASSUME NEW S, Stated(S), NEW admitted \in Seq(S), NEW request, NEW declared,
           NEW segment, segment \in Tallying(segment)
    PROVE  Attributed(segment, admitted, request, declared) \in Tallying(segment)
  <1> DEFINE wanted == {o \in ToSet(admitted) :
                HopScoped(o) /\ Placed(segment, o, CoveredHops(o, request, declared))}
             placed == Among(admitted, wanted)
  <1>1. Attributed(segment, admitted, request, declared)
            = IF segment.kind = "UnobservedSpan" THEN segment
              ELSE WithRatio(FoldLeft(WithCounts, segment, placed))
    BY DEF Attributed
  <1> HIDE DEF wanted
  <1>2. placed \in Seq(S)
    BY AmongIs
  <1> HIDE DEF placed
  <1>3. FoldLeft(WithCounts, segment, placed) \in Tallying(segment)
    BY <1>2, FoldedCounts
  <1> QED BY <1>1, <1>3, RatioKeeps

(* What a segment of a run says of its hops.                               *)
Tells(segment, states, start) ==
    /\ segment.first = start /\ segment.last = RunEnd(states, start)
    /\ IF states[start].observed
       THEN /\ segment.kind = "Observed" /\ segment.klass = states[start].klass
            /\ segment.granularity = states[start].granularity
       ELSE /\ segment.kind = "UnobservedSpan" /\ segment.klass = "IncompleteEvidence"
            /\ segment.granularity = "Unknown"

(* The segment of a run tells what the hops of the run show.               *)
LEMMA RunSegmentIs ==
    ASSUME NEW states, NEW start
    PROVE  /\ Tells(RunSegment(states, start), states, start)
           /\ RunSegment(states, start) \in Tallying(RunSegment(states, start))
  BY WordsAre DEF RunSegment, Segment, Tells, Tallying

(* It still does so when counts were attributed to it.                     *)
LEMMA TellsStill ==
    ASSUME NEW states, NEW start, NEW segment, Tells(segment, states, start),
           NEW s \in Tallying(segment)
    PROVE  Tells(s, states, start) /\ s.lost \in Words /\ s.offered \in Words
  BY DEF Tells, Tallying

-----------------------------------------------------------------------------
(* What hops show.                                                         *)

(* The fresh evidence as fine as a hop about a position, as a set and in   *)
(* its order.                                                              *)
AtHop(position, relevant, context, request, declared) ==
    {o \in ToSet(relevant) : /\ Fresh(o, context) /\ HopScoped(o)
                             /\ position \in CoveredHops(o, request, declared)}

Here(position, relevant, context, request, declared) ==
    Among(relevant, AtHop(position, relevant, context, request, declared))

(* What a hop shows is what the classifier makes of the fresh evidence     *)
(* about it, in its order.                                                 *)
LEMMA HereIs ==
    ASSUME NEW S, NEW relevant \in Seq(S), NEW context, NEW request, NEW declared, NEW position
    PROVE  /\ Here(position, relevant, context, request, declared) \in Seq(S)
           /\ ToSet(Here(position, relevant, context, request, declared))
                 = AtHop(position, relevant, context, request, declared)
           /\ Admissible(Here(position, relevant, context, request, declared), context)
                 = Here(position, relevant, context, request, declared)
           /\ HopState(position, Admissible(relevant, context), request, declared, context)
                 = Observed(Here(position, relevant, context, request, declared), context)
  <1> DEFINE at       == AtHop(position, relevant, context, request, declared)
             here     == Here(position, relevant, context, request, declared)
             admitted == Admissible(relevant, context)
             fresh    == {o \in ToSet(relevant) : Fresh(o, context)}
             wanted   == {o \in ToSet(admitted) :
                HopScoped(o) /\ position \in CoveredHops(o, request, declared)}
             again    == {o \in ToSet(here) : Fresh(o, context)}
  <1>1. here = Among(relevant, at)
    BY DEF Here
  <1>2. admitted = Among(relevant, fresh) /\ Admissible(here, context) = Among(here, again)
    BY Zenon DEF Admissible
  <1>3. HopState(position, admitted, request, declared, context)
            = Observed(Among(admitted, wanted), context)
    BY DEF HopState
  <1>4. at \subseteq ToSet(relevant) /\ \A o \in at : Fresh(o, context)
    BY DEF AtHop
  <1>5. \A o : o \in ToSet(admitted) <=> o \in ToSet(relevant) /\ Fresh(o, context)
    BY AdmissibleIs
  <1>6. \A o \in ToSet(relevant) : o \in fresh \cap wanted <=> o \in at
    BY <1>5 DEF AtHop
  <1>7. here \in Seq(S) /\ ToSet(here) = at
    <2> HIDE DEF at, here
    <2>1. here \in Seq(S) /\ ToSet(here) = ToSet(relevant) \cap at
      BY <1>1, AmongIs
    <2> QED BY <1>4, <2>1
  <1>8. \A o \in ToSet(relevant) : o \in at \cap again <=> o \in at
    <2> HIDE DEF at, here
    <2> QED BY <1>4, <1>7
  <1> HIDE DEF at, here, admitted, fresh, wanted, again
  <1>9. Among(admitted, wanted) = here
    <2>1. Among(Among(relevant, fresh), wanted) = Among(relevant, fresh \cap wanted)
      BY AmongAmong
    <2>2. Among(relevant, fresh \cap wanted) = Among(relevant, at)
      BY <1>6, AmongSame
    <2> QED BY <1>1, <1>2, <2>1, <2>2
  <1>10. Among(here, again) = here
    <2>1. Among(Among(relevant, at), again) = Among(relevant, at \cap again)
      BY AmongAmong
    <2>2. Among(relevant, at \cap again) = Among(relevant, at)
      BY <1>8, AmongSame
    <2> QED BY <1>1, <2>1, <2>2
  <1>11. /\ here \in Seq(S) /\ ToSet(here) = at /\ Admissible(here, context) = here
         /\ HopState(position, admitted, request, declared, context) = Observed(here, context)
    BY <1>2, <1>3, <1>7, <1>9, <1>10
  <1> QED BY <1>11 DEF here, at, admitted

(* The states of the hops, in the order of the path.                       *)
LEMMA HopStatesAre ==
    ASSUME NEW admitted, NEW request, NEW declared, NEW context, NEW H,
           declared.hops \in Seq(H)
    PROVE  /\ \E T : HopStates(admitted, request, declared, context) \in Seq(T)
           /\ Len(HopStates(admitted, request, declared, context)) = Len(declared.hops)
           /\ \A position \in 1..Len(declared.hops) :
                 HopStates(admitted, request, declared, context)[position]
                    = HopState(position, admitted, request, declared, context)
  <1> DEFINE states == HopStates(admitted, request, declared, context)
             state(position) == HopState(position, admitted, request, declared, context)
             T == {state(position) : position \in DOMAIN declared.hops}
  <1>1. states = [position \in DOMAIN declared.hops |-> state(position)]
    BY DEF HopStates, Positions
  <1>2. \A position \in DOMAIN declared.hops : state(position) \in T
    OBVIOUS
  <1>3. DOMAIN declared.hops = 1..Len(declared.hops)
    BY LenProperties
  <1> HIDE DEF states, state, T
  <1>4. DOMAIN states = DOMAIN declared.hops /\ states = [k \in DOMAIN states |-> states[k]]
        /\ \A k \in DOMAIN declared.hops : states[k] \in T
    BY <1>1, <1>2
  <1>5. states \in Seq(T) /\ Len(states) = Len(declared.hops)
    BY <1>4, MadeIs
  <1> QED BY <1>1, <1>3, <1>5 DEF states, state

-----------------------------------------------------------------------------
(* Segments along the path.                                                *)

(* Each segment tells of one run, and all do but those cut off.            *)
Tiled(segments, truncated, states) ==
    /\ \E A : segments \in Seq(A)
    /\ DOMAIN segments = 1..Len(segments) /\ Len(segments) \in Nat
    /\ Len(segments) <= Len(Starts(states))
    /\ ~truncated => Len(segments) = Len(Starts(states))
    /\ \A k \in 1..Len(segments) :
          /\ Tells(segments[k], states, Starts(states)[k])
          /\ segments[k].lost \in Words /\ segments[k].offered \in Words

(* The segments of an answer by hops are those of the first runs, each     *)
(* telling what its hops show.                                             *)
LEMMA ByHopTiles ==
    ASSUME NEW S, Stated(S), NEW admitted \in Seq(S), NEW aggregate, NEW request,
           SegmentLimit(request) \in Nat, NEW declared, NEW T, NEW states \in Seq(T),
           NEW said, said = ByHop(aggregate, admitted, RunSegments(states), request, declared)
    PROVE  Tiled(said.segments, said.truncated, states)
  <1> DEFINE runs   == RunSegments(states)
             starts == Starts(states)
             limit  == SegmentLimit(request)
             first  == FirstOf(runs, limit)
             R      == {RunSegment(states, starts[k]) : k \in DOMAIN starts}
             made   == [k \in DOMAIN first |-> Attributed(runs[k], admitted, request, declared)]
             A      == {Attributed(runs[k], admitted, request, declared) : k \in DOMAIN first}
  <1>1. starts \in Seq(1..Len(states))
    BY StartsAre
  <1>2. said.segments = made /\ said.truncated = (Len(runs) > limit)
    BY DEF ByHop, HopAnswer, Result
  <1>3. runs = [k \in DOMAIN starts |-> RunSegment(states, starts[k])]
    BY DEF RunSegments, Starts
  <1>4. \A k \in DOMAIN starts : RunSegment(states, starts[k]) \in R
    OBVIOUS
  <1>5. /\ DOMAIN made = DOMAIN first /\ made = [k \in DOMAIN made |-> made[k]]
        /\ \A k \in DOMAIN first : made[k] \in A
        /\ \A k \in DOMAIN first : made[k] = Attributed(runs[k], admitted, request, declared)
    OBVIOUS
  <1> HIDE DEF starts, runs, R, made, A
  <1>6. runs \in Seq(R) /\ Len(runs) = Len(starts)
    <2>1. DOMAIN runs = DOMAIN starts /\ runs = [k \in DOMAIN runs |-> runs[k]]
          /\ \A k \in DOMAIN starts : runs[k] \in R
      BY <1>3, <1>4
    <2> QED BY <1>1, <2>1, MadeIs
  <1> HIDE DEF limit, first
  <1>7. /\ first \in Seq(R) /\ Len(first) <= Len(starts)
        /\ ~(Len(runs) > limit) => Len(first) = Len(starts)
    <2>1. limit \in Nat /\ Len(runs) \in Nat
      BY <1>6, LenProperties DEF limit
    <2>2. first \in Seq(R) /\ Len(first) = IF Len(runs) <= limit THEN Len(runs) ELSE limit
      BY <1>6, <2>1, FirstOfIs DEF first
    <2> QED BY <1>6, <2>1, <2>2
  <1>8. made \in Seq(A) /\ Len(made) = Len(first) /\ Len(made) \in Nat
        /\ DOMAIN made = 1..Len(made) /\ DOMAIN first = 1..Len(made)
    <2>1. made \in Seq(A) /\ Len(made) = Len(first)
      BY <1>5, <1>7, MadeIs
    <2> QED BY <1>7, <2>1, LenProperties
  <1>9. ASSUME NEW k \in 1..Len(made)
        PROVE  Tells(made[k], states, starts[k])
               /\ made[k].lost \in Words /\ made[k].offered \in Words
    <2> DEFINE segment == RunSegment(states, starts[k])
    <2>1. k \in DOMAIN first /\ k \in DOMAIN starts
      BY <1>1, <1>7, <1>8, LenProperties
    <2>2. runs[k] = segment
      BY <1>3, <2>1
    <2>3. Tells(segment, states, starts[k]) /\ segment \in Tallying(segment)
      BY RunSegmentIs
    <2> HIDE DEF segment
    <2>4. made[k] = Attributed(segment, admitted, request, declared)
      BY <1>5, <2>1, <2>2
    <2>5. made[k] \in Tallying(segment)
      BY <2>3, <2>4, AttributedIs
    <2> QED BY <2>3, <2>5, TellsStill
  <1>10. Tiled(made, Len(runs) > limit, states)
    BY <1>7, <1>8, <1>9 DEF Tiled, starts
  <1> QED BY <1>2, <1>10

(* Of its hops a segment tells what each of them shows.                    *)
TellsOf(segment, state) ==
    /\ segment.kind \in {"Observed", "UnobservedSpan"}
    /\ segment.kind = "Observed" <=> state.observed
    /\ state.observed => segment.klass = state.klass /\ segment.granularity = state.granularity
    /\ ~state.observed => segment.klass = "IncompleteEvidence"
                          /\ segment.granularity = "Unknown"

(* Therefore a segment tells what each of its hops shows.                  *)
LEMMA TiledTells ==
    ASSUME NEW T, NEW states \in Seq(T), NEW segments, NEW truncated,
           Tiled(segments, truncated, states), NEW k \in DOMAIN segments,
           NEW position \in segments[k].first..segments[k].last
    PROVE  position \in 1..Len(states) /\ TellsOf(segments[k], states[position])
  <1> DEFINE start == Starts(states)[k]
  <1>1. /\ k \in 1..Len(segments) /\ k \in 1..Len(Starts(states))
        /\ Tells(segments[k], states, start)
    <2>1. Len(Starts(states)) \in Nat
      BY StartsAre, LenProperties
    <2> QED BY <2>1 DEF Tiled
  <1>2. start \in RunStarts(states)
    <2>1. start \in ToSet(Starts(states))
      BY <1>1, StartsAre, LenProperties DEF ToSet
    <2> QED BY <2>1, StartsAre
  <1> HIDE DEF start
  <1>3. /\ RunEnd(states, start) \in start..Len(states)
        /\ Alike(states, start, RunEnd(states, start))
        /\ start \in 1..Len(states)
    BY <1>2, RunEndIs, StartsAre
  <1>4. segments[k].first = start /\ segments[k].last = RunEnd(states, start)
    BY <1>1 DEF Tells
  <1>5. position \in start..RunEnd(states, start)
    BY <1>4
  <1>6. states[position] = states[start]
    BY <1>3, <1>5 DEF Alike
  <1>7. position \in 1..Len(states)
    <2>1. Len(states) \in Nat
      BY LenProperties
    <2> QED BY <1>3, <1>5, <2>1
  <1> QED BY <1>1, <1>6, <1>7 DEF Tells, TellsOf

(* They follow one another from the first hop on.                          *)
LEMMA TiledFollows ==
    ASSUME NEW T, NEW states \in Seq(T), Len(states) # 0, NEW segments, NEW truncated,
           Tiled(segments, truncated, states), Len(segments) # 0
    PROVE  /\ segments[1].first = 1
           /\ \A k \in 2..Len(segments) : segments[k].first = segments[k - 1].last + 1
           /\ segments[Len(segments)].last = Len(states) \/ truncated
  <1> DEFINE m == Len(segments)
             n == Len(Starts(states))
  <1>1. m \in Nat \ {0} /\ n \in Nat \ {0} /\ m <= n /\ (~truncated => m = n)
    BY RunsFollow DEF Tiled
  <1>2. \A k \in 1..m : /\ segments[k].first = Starts(states)[k]
                        /\ segments[k].last = RunEnd(states, Starts(states)[k])
    BY DEF Tiled, Tells
  <1>3. /\ Starts(states)[1] = 1
        /\ \A k \in 2..n : Starts(states)[k] = RunEnd(states, Starts(states)[k - 1]) + 1
        /\ RunEnd(states, Starts(states)[n]) = Len(states)
    BY RunsFollow
  <1> HIDE DEF m, n
  <1>4. segments[1].first = 1
    BY <1>1, <1>2, <1>3
  <1>5. ASSUME NEW k \in 2..m
        PROVE  segments[k].first = segments[k - 1].last + 1
    <2>1. k \in 1..m /\ k - 1 \in 1..m /\ k \in 2..n
      BY <1>1
    <2> QED BY <1>2, <1>3, <2>1
  <1>6. segments[m].last = Len(states) \/ truncated
    <2>1. m \in 1..m
      BY <1>1
    <2> QED BY <1>1, <1>2, <1>3, <2>1
  <1> QED BY <1>4, <1>5, <1>6 DEF m

-----------------------------------------------------------------------------
(* The evidence held, and the answer.                                      *)

(* To mark an item changes nothing else of it.                             *)
LEMMA MarkedIs ==
    ASSUME NEW item, Typed(item), Valid(item)
    PROVE  /\ Typed([item EXCEPT !.recovered = TRUE])
           /\ Valid([item EXCEPT !.recovered = TRUE])
           /\ [item EXCEPT !.recovered = TRUE].id = item.id
  <1> DEFINE marked == [item EXCEPT !.recovered = TRUE]
  <1>1. /\ DOMAIN marked = DOMAIN item /\ marked.recovered = TRUE
        /\ marked.id = item.id /\ marked.source = item.source /\ marked.epoch = item.epoch
        /\ marked.generation = item.generation /\ marked.sequence = item.sequence
        /\ marked.observed_at = item.observed_at /\ marked.subject = item.subject
        /\ marked.granularity = item.granularity /\ marked.method = item.method
        /\ marked.payload = item.payload
    BY DEF Typed
  <1> HIDE DEF marked
  <1>2. Typed(marked)
    <2> DEFINE Payload(payload) ==
                 /\ payload.kind = "counter" =>
                       /\ {payload.counter, payload.binding, payload.width} \subseteq Nat
                       /\ payload.scope \in DOMAIN ScopeRank \cup {"Unknown"}
                       /\ payload.value \in Words
                 /\ payload.kind = "probe" => {payload.sent, payload.received} \subseteq Words
                 /\ payload.kind = "sequence" =>
                       {payload.lowest, payload.highest, payload.received} \subseteq Words
                 /\ payload.kind = "endpoint" => payload.count \in Words
               Header(i) ==
                 /\ DOMAIN i = {"id", "source", "epoch", "generation", "sequence", "observed_at",
                                "subject", "granularity", "method", "recovered", "payload"}
                 /\ {i.id, i.source, i.epoch, i.generation, i.sequence, i.observed_at}
                        \subseteq Nat
                 /\ i.subject \in [kind : DOMAIN SubjectRank, id : Nat]
                 /\ i.granularity \in Granularities
    <2>1. \A i : Typed(i) <=> Header(i) /\ i.recovered \in BOOLEAN /\ Payload(i.payload)
      BY Zenon DEF Typed
    <2> HIDE DEF Payload
    <2>2. Header(item) => Header(marked)
      BY <1>1
    <2> HIDE DEF Header
    <2>3. Payload(item.payload) => Payload(marked.payload)
      BY <1>1
    <2>4. marked.recovered \in BOOLEAN
      BY <1>1
    <2> QED BY <2>1, <2>2, <2>3, <2>4
  <1>3. Valid(marked)
    BY <1>1 DEF Valid
  <1> QED BY <1>1, <1>2, <1>3 DEF marked

(* The answer given is the one for the evidence still held.                *)
Answered ==
    /\ answer.asked = "Class" =>
          answer.verdict = Classified(Selected(Derive(held), answer.subject), Derive(held))
    /\ answer.asked = "Location" =>
          /\ answer.request \in Requests
          /\ answer.location = Localize(Derive(held).observations, Effective(answer.request),
                                        topology, Context(FALSE))

Ids(items) == {i.id : i \in items}

(* The inductive invariant: the evidence is what derivation asks for, and  *)
(* the answer follows from it.                                             *)
IInv ==
    /\ Proper(held) /\ Ids(held) \subseteq Ids(Evidence)
    /\ expired \subseteq Ids(held)
    /\ topology \in Topologies
    /\ Answered

(* It holds initially.                                                     *)
LEMMA InitIInv ==
    Init => IInv
  <1> SUFFICES ASSUME Init PROVE IInv
    OBVIOUS
  <1>1. Proper({})
    BY FS_EmptySet DEF Proper
  <1>2. answer.asked = "Nothing"
    BY DEF Init, NoAnswer
  <1> QED BY <1>1, <1>2 DEF Init, IInv, Answered, Ids

(* A delivery.                                                             *)
LEMMA DeliverIsProper ==
    ASSUME NEW items, Proper(items), NEW item \in Evidence, item.id \notin Ids(items)
    PROVE  Proper(items \cup {item})
  <1>1. Typed(item) /\ Valid(item)
    BY VerdictAssumption
  <1>2. IsFiniteSet(items \cup {item})
    BY FS_AddElement DEF Proper
  <1>3. \A i \in items : i.id # item.id
    BY DEF Ids
  <1> QED BY <1>1, <1>2, <1>3 DEF Proper

(* A recovery.                                                             *)
LEMMA RecoverIsProper ==
    ASSUME NEW items, Proper(items), NEW marked,
           marked = {[item EXCEPT !.recovered = TRUE] : item \in items}
    PROVE  Proper(marked) /\ Ids(marked) = Ids(items)
  <1> DEFINE f == [item \in items |-> [item EXCEPT !.recovered = TRUE]]
  <1>1. DOMAIN f = items /\ marked = {f[item] : item \in items}
    OBVIOUS
  <1>2. \A item \in items : Typed(f[item]) /\ Valid(f[item]) /\ f[item].id = item.id
    BY MarkedIs DEF Proper
  <1> HIDE DEF f
  <1>3. IsFiniteSet(marked)
    BY <1>1, ImageIsFinite DEF Proper
  <1>4. \A i, j \in items : i.id = j.id => i = j
    BY DEF Proper
  <1>5. \A i, j \in marked : i.id = j.id => i = j
    BY <1>1, <1>2, <1>4
  <1>6. Ids(marked) = Ids(items)
    BY <1>1, <1>2 DEF Ids
  <1> QED BY <1>1, <1>2, <1>3, <1>5, <1>6 DEF Proper

(* Every step keeps it.                                                    *)
LEMMA NextIInv ==
    IInv /\ [Next]_vars => IInv'
  <1> SUFFICES ASSUME IInv, [Next]_vars PROVE IInv'
    OBVIOUS
  <1>1. ASSUME NEW item \in Unseen, Deliver(item)
        PROVE  IInv'
    <2>0. item \in Evidence /\ item.id \notin Ids(held)
      BY DEF Unseen, Ids
    <2>1. Proper(held')
      BY <1>1, <2>0, DeliverIsProper DEF Deliver, IInv
    <2>2. /\ Ids(held') = Ids(held) \cup {item.id} /\ item.id \in Ids(Evidence)
          /\ UNCHANGED <<expired, topology, answer>> /\ answer.asked = "Nothing"
      BY <1>1, <2>0 DEF Deliver, Ids, NoAnswer
    <2>3. Ids(held') \subseteq Ids(Evidence) /\ expired' \subseteq Ids(held')
      BY <2>2 DEF IInv
    <2>4. Answered'
      BY <2>2 DEF Answered
    <2> QED BY <2>1, <2>2, <2>3, <2>4 DEF IInv, Ids
  <1>2. ASSUME NEW item \in held, Expire(item)
        PROVE  IInv'
    <2>1. /\ UNCHANGED <<held, topology, answer>> /\ answer.asked = "Nothing"
          /\ expired' = expired \cup {item.id}
      BY <1>2 DEF Expire, NoAnswer
    <2>2. item.id \in Ids(held)
      BY DEF Ids
    <2>3. Answered'
      BY <2>1 DEF Answered
    <2> QED BY <2>1, <2>2, <2>3 DEF IInv, Ids, Proper
  <1>3. ASSUME Recover
        PROVE  IInv'
    <2>1. /\ UNCHANGED <<expired, topology, answer>> /\ answer.asked = "Nothing"
          /\ held' = {[item EXCEPT !.recovered = TRUE] : item \in held}
      BY <1>3 DEF Recover, NoAnswer
    <2>2. Proper(held') /\ Ids(held') = Ids(held)
      BY <2>1, RecoverIsProper DEF IInv
    <2>3. Answered'
      BY <2>1 DEF Answered
    <2> QED BY <2>1, <2>2, <2>3 DEF IInv, Ids
  <1>4. ASSUME NEW subject \in Subjects, AskClass(subject)
        PROVE  IInv'
    <2> DEFINE said == Classified(Selected(Derive(held), subject), Derive(held))
    <2>1. /\ UNCHANGED <<held, expired, topology, authority>>
          /\ answer' = [asked |-> "Class", subject |-> subject, verdict |-> said]
      BY <1>4 DEF AskClass
    <2>2. said' = said
      BY <2>1 DEF Classified, Context
    <2>3. answer'.asked = "Class" /\ answer'.subject = subject /\ answer'.verdict = said
      <3> HIDE DEF said
      <3> QED BY <2>1
    <2>4. Answered'
      BY <2>1, <2>2, <2>3 DEF Answered
    <2> QED BY <2>1, <2>4 DEF IInv, Ids, Proper
  <1>5. ASSUME NEW request \in Requests, AskLocation(request)
        PROVE  IInv'
    <2> DEFINE said == Localize(Derive(held).observations, Effective(request), topology,
                                Context(FALSE))
    <2>1. /\ UNCHANGED <<held, expired, topology, authority>>
          /\ answer' = [asked |-> "Location", request |-> request, location |-> said]
      BY <1>5 DEF AskLocation
    <2>2. said' = said
      BY <2>1 DEF Context
    <2>3. /\ answer'.asked = "Location" /\ answer'.request = request
          /\ answer'.location = said
      <3> HIDE DEF said
      <3> QED BY <2>1
    <2>4. Answered'
      BY <2>1, <2>2, <2>3 DEF Answered
    <2> QED BY <2>1, <2>4 DEF IInv, Ids, Proper
  <1>6. CASE UNCHANGED vars
    BY <1>6 DEF vars, IInv, Answered, Ids, Proper, Context, Classified
  <1> QED BY <1>1, <1>2, <1>3, <1>4, <1>5, <1>6 DEF Next

(* So it always holds.                                                     *)
LEMMA Invariance ==
    Spec => []IInv
  <1> QED BY InitIInv, NextIInv, PTL DEF Spec

-----------------------------------------------------------------------------
(* Selections and contexts.                                                *)

(* To select twice is to select what both want.                            *)
LEMMA AmongTwice ==
    ASSUME NEW S, NEW sequence \in Seq(S), NEW first, NEW second, NEW both,
           \A x \in ToSet(sequence) : x \in first \cap second <=> x \in both
    PROVE  Among(Among(sequence, first), second) = Among(sequence, both)
  <1> DEFINE meet == first \cap second
  <1>1. Among(Among(sequence, first), second) = Among(sequence, meet)
    BY AmongAmong
  <1>2. \A x \in ToSet(sequence) : x \in meet <=> x \in both
    OBVIOUS
  <1> HIDE DEF meet
  <1>3. Among(sequence, meet) = Among(sequence, both)
    BY <1>2, AmongSame
  <1> QED BY <1>1, <1>3

(* What is fresh of what is about a subject is what is about it of what is *)
(* fresh.                                                                  *)
LEMMA FreshAboutIt ==
    ASSUME NEW S, NEW observations \in Seq(S), NEW context, NEW subject
    PROVE  /\ About(observations, subject) \in Seq(S)
           /\ ToSet(About(observations, subject))
                 = {o \in ToSet(observations) : o.subject = subject}
           /\ About(Admissible(observations, context), subject)
                 = Admissible(About(observations, subject), context)
  <1> DEFINE its   == {o \in ToSet(observations) : o.subject = subject}
             about == About(observations, subject)
             fresh == {o \in ToSet(observations) : Fresh(o, context)}
             kept  == Admissible(observations, context)
             now   == {o \in ToSet(about) : Fresh(o, context)}
             ours  == {o \in ToSet(kept) : o.subject = subject}
             both  == its \cap fresh
  <1>1. about = Among(observations, its) /\ its \subseteq ToSet(observations)
    BY DEF About
  <1>2. kept = Among(observations, fresh) /\ Admissible(about, context) = Among(about, now)
    BY Zenon DEF Admissible
  <1>3. About(kept, subject) = Among(kept, ours)
    BY DEF About
  <1>4. about \in Seq(S) /\ ToSet(about) = its
    <2> HIDE DEF its, about
    <2>1. about \in Seq(S) /\ ToSet(about) = ToSet(observations) \cap its
      BY <1>1, AmongIs
    <2> QED BY <1>1, <2>1
  <1>5. \A o : o \in ToSet(kept) <=> o \in ToSet(observations) /\ Fresh(o, context)
    BY AdmissibleIs
  <1> HIDE DEF about, kept
  <1>6. \A o \in ToSet(observations) : o \in its \cap now <=> o \in both
    BY <1>4
  <1>7. \A o \in ToSet(observations) : o \in fresh \cap ours <=> o \in both
    BY <1>5
  <1> HIDE DEF its, fresh, now, ours, both
  <1>8. Among(about, now) = Among(observations, both)
    BY <1>1, <1>6, AmongTwice
  <1>9. Among(kept, ours) = Among(observations, both)
    BY <1>2, <1>7, AmongTwice
  <1>10. /\ about \in Seq(S) /\ ToSet(about) = its
         /\ About(kept, subject) = Admissible(about, context)
    BY <1>2, <1>3, <1>4, <1>8, <1>9
  <1> QED BY <1>10 DEF about, its, kept

(* The same of what is relevant to a localization.                         *)
LEMMA FreshRelevant ==
    ASSUME NEW S, NEW observations \in Seq(S), NEW context, NEW request, NEW declared
    PROVE  /\ Relevant(observations, request, declared) \in Seq(S)
           /\ Relevant(Admissible(observations, context), request, declared)
                 = Admissible(Relevant(observations, request, declared), context)
  <1> DEFINE Concerns(o) == \/ o.subject.kind \in {"Flow", "Path"}
                            \/ CoveredHops(o, request, declared) # {}
             its   == {o \in ToSet(observations) : Concerns(o)}
             about == Relevant(observations, request, declared)
             fresh == {o \in ToSet(observations) : Fresh(o, context)}
             kept  == Admissible(observations, context)
             now   == {o \in ToSet(about) : Fresh(o, context)}
             ours  == {o \in ToSet(kept) : Concerns(o)}
             both  == its \cap fresh
  <1>1. about = Among(observations, its) /\ its \subseteq ToSet(observations)
    BY DEF Relevant
  <1>2. kept = Among(observations, fresh) /\ Admissible(about, context) = Among(about, now)
    BY Zenon DEF Admissible
  <1>3. Relevant(kept, request, declared) = Among(kept, ours)
    BY DEF Relevant
  <1> HIDE DEF Concerns
  <1>4. about \in Seq(S) /\ ToSet(about) = its
    <2> HIDE DEF its, about
    <2>1. about \in Seq(S) /\ ToSet(about) = ToSet(observations) \cap its
      BY <1>1, AmongIs
    <2> QED BY <1>1, <2>1
  <1>5. \A o : o \in ToSet(kept) <=> o \in ToSet(observations) /\ Fresh(o, context)
    BY AdmissibleIs
  <1> HIDE DEF about, kept
  <1>6. \A o \in ToSet(observations) : o \in its \cap now <=> o \in both
    BY <1>4
  <1>7. \A o \in ToSet(observations) : o \in fresh \cap ours <=> o \in both
    BY <1>5
  <1> HIDE DEF its, fresh, now, ours, both
  <1>8. Among(about, now) = Among(observations, both)
    BY <1>1, <1>6, AmongTwice
  <1>9. Among(kept, ours) = Among(observations, both)
    BY <1>2, <1>7, AmongTwice
  <1>10. about \in Seq(S) /\ Relevant(kept, request, declared) = Admissible(about, context)
    BY <1>2, <1>3, <1>4, <1>8, <1>9
  <1> QED BY <1>10 DEF about, kept

(* Whether a bound was hit concerns the confidence only.                   *)
LEMMA BoundedFresh ==
    ASSUME NEW bounded, NEW o
    PROVE  Fresh(o, Context(bounded)) <=> Fresh(o, Now)
  BY DEF Fresh, FreshnessOf, Context, Now

(* Whether a bound was hit does not change what is admitted.               *)
LEMMA BoundedAdmissible ==
    ASSUME NEW bounded, NEW observations
    PROVE  Admissible(observations, Context(bounded)) = Admissible(observations, Now)
  <1> DEFINE some(context) == {o \in ToSet(observations) : Fresh(o, context)}
  <1>1. \A context : Admissible(observations, context) = Among(observations, some(context))
    BY Zenon DEF Admissible
  <1>2. some(Context(bounded)) = some(Now)
    BY BoundedFresh
  <1> HIDE DEF some
  <1> QED BY <1>1, <1>2

(* Nor does it change what is reported, or what fresh sources claim.       *)
LEMMA BoundedReports ==
    ASSUME NEW bounded, NEW observations
    PROVE  /\ Reported(Classify(observations, Context(bounded)))
                 = Reported(Classify(observations, Now))
           /\ FreshClaims(observations, Context(bounded)) = FreshClaims(observations, Now)
  <1> DEFINE other    == Context(bounded)
             admitted == Admissible(observations, Now)
             tally    == Tally(admitted)
             claims   == ClaimsFor(observations, Now)
             conflict == Hearing(observations, Now)
             klass    == Judgement(observations, admitted, tally, conflict)
  <1>1. ASSUME NEW source
        PROVE  Claim(source, observations, other) = Claim(source, observations, Now)
    <2>1. Admissible(OfSource(observations, source), other)
            = Admissible(OfSource(observations, source), Now)
      BY BoundedAdmissible
    <2>2. other.authority = Now.authority
      BY DEF Context, Now
    <2> HIDE DEF other
    <2> QED BY <2>1, <2>2, Zenon DEF Claim
  <1>2. ClaimsFor(observations, other) = claims
    BY <1>1 DEF ClaimsFor
  <1>3. Hearing(observations, other) = conflict
    BY <1>2, Zenon DEF Hearing, FreshClaims
  <1>4. Admissible(observations, other) = admitted
    BY BoundedAdmissible
  <1>5. PICK score : Classify(observations, Now)
                        = Conclusion(admitted, tally, claims, conflict, klass, score)
    BY Zenon DEF Classify, ClassifyBy, Judged, Hearing, FreshClaims
  <1>6. PICK another : Classify(observations, other)
            = Conclusion(Admissible(observations, other), Tally(Admissible(observations, other)),
                         ClaimsFor(observations, other), Hearing(observations, other),
                         Judgement(observations, Admissible(observations, other),
                                   Tally(Admissible(observations, other)),
                                   Hearing(observations, other)), another)
    <2> HIDE DEF other
    <2> QED BY Zenon DEF Classify, ClassifyBy, Judged, Hearing, FreshClaims
  <1>7. FreshClaims(observations, other) = FreshClaims(observations, Now)
    BY <1>2, Zenon DEF FreshClaims
  <1> HIDE DEF other, admitted, claims, conflict
  <1>8. Classify(observations, other)
            = Conclusion(admitted, tally, claims, conflict, klass, another)
    BY <1>2, <1>3, <1>4, <1>6
  <1> HIDE DEF tally, klass
  <1>9. Reported(Classify(observations, other)) = Reported(Classify(observations, Now))
    BY <1>5, <1>8, ReportedIs
  <1> QED BY <1>7, <1>9 DEF other

-----------------------------------------------------------------------------
(* The observations behind an answer.                                      *)

(* All of them are statements; a verdict is given of some of them, and of  *)
(* all that are about the subject if they fit.                             *)
LEMMA Behind ==
    ASSUME IInv
    PROVE  /\ Observations \in Seq(Derived(held))
           /\ Stated(Derived(held)) /\ Counting(Derived(held))
  BY ObservationsAre, StatedCounting DEF IInv, Observations

(* An observation is admitted as fresh exactly if the item that dates it   *)
(* has not expired and no item behind it came from a journal.              *)
LEMMA FreshIsCurrent ==
    ASSUME IInv, NEW o \in Derived(held)
    PROVE  Fresh(o, Now) <=> IsCurrent(o)
  <1>1. Proper(held)
    BY DEF IInv
  <1>2. Proper(Described(held)) /\ Described(held) \subseteq held
    BY <1>1, ProperSubset DEF Described
  <1>3. o \in Statements(Described(held))
    BY <1>1, DerivedAre
  <1>4. PICK a \in Described(held), b \in Described(held) :
            /\ o.id[2] = a.id /\ o.id[3] = b.id
            /\ o.recovered <=> a.recovered \/ b.recovered
    BY <1>2, <1>3, HistoryOf
  <1>5. a \in held /\ b \in held /\ \A i, j \in held : i.id = j.id => i = j
    BY <1>1, <1>2 DEF Proper
  <1>6. RestsOn(o) = {a, b}
    BY <1>4, <1>5 DEF RestsOn
  <1>7. Fresh(o, Now) <=> ~o.recovered /\ o.evidence_id \notin expired
    BY DEF Fresh, FreshnessOf, Now, Context
  <1> QED BY <1>4, <1>6, <1>7 DEF IsCurrent

(* What is current of the observations is what is admitted of them.        *)
LEMMA CurrentAreAdmissible ==
    ASSUME IInv
    PROVE  Among(Observations, {o \in ToSet(Observations) : IsCurrent(o)})
              = Admissible(Observations, Now)
  <1> DEFINE current == {o \in ToSet(Observations) : IsCurrent(o)}
             fresh   == {o \in ToSet(Observations) : Fresh(o, Now)}
             S == Derived(held)
  <1>1. Observations \in Seq(S)
    BY Behind
  <1>2. ToSet(Observations) \subseteq S
    BY <1>1, ElementsAreFinite
  <1>3. \A o \in ToSet(Observations) : o \in current <=> o \in fresh
    BY <1>2, FreshIsCurrent
  <1>4. Admissible(Observations, Now) = Among(Observations, fresh)
    BY Zenon DEF Admissible
  <1> HIDE DEF current, fresh, S
  <1>5. Among(Observations, current) = Among(Observations, fresh)
    BY <1>1, <1>3, AmongSame
  <1> QED BY <1>4, <1>5 DEF current

(* The observations a verdict is given of are about its subject; uncut     *)
(* they are all of those.                                                  *)
LEMMA SelectedIs ==
    ASSUME IInv, NEW subject
    PROVE  /\ Selected(Derive(held), subject) \in Seq(Derived(held))
           /\ ToSet(Selected(Derive(held), subject))
                 \subseteq {o \in ToSet(Observations) : o.subject = subject}
           /\ Uncut(subject) => Selected(Derive(held), subject) = About(Observations, subject)
  <1> DEFINE S == Derived(held)
             about == About(Observations, subject)
             its == {o \in ToSet(Observations) : o.subject = subject}
             selected == Selected(Derive(held), subject)
  <1>1. about \in Seq(S) /\ ToSet(about) = its
    BY Behind, FreshAboutIt
  <1>2. selected = FirstOf(about, MaxResultItems) /\ (Uncut(subject) => Len(about) <= MaxResultItems)
    BY DEF Selected, Observations, Uncut
  <1>3. MaxResultItems \in Nat
    BY VerdictAssumption
  <1> HIDE DEF S, about, its, selected
  <1>4. /\ selected \in Seq(S) /\ (Len(about) <= MaxResultItems => selected = about)
        /\ Len(selected) <= Len(about)
        /\ \A k \in 1..Len(selected) : selected[k] = about[k]
    <2>1. Len(about) \in Nat
      BY <1>1, LenProperties
    <2> QED BY <1>1, <1>2, <1>3, <2>1, FirstOfIs
  <1>5. ToSet(selected) \subseteq ToSet(about)
    <2>1. /\ DOMAIN selected = 1..Len(selected) /\ DOMAIN about = 1..Len(about)
          /\ Len(selected) \in Nat /\ Len(about) \in Nat
      BY <1>1, <1>4, LenProperties
    <2>2. \A k \in DOMAIN selected : k \in DOMAIN about /\ selected[k] = about[k]
      BY <1>4, <2>1
    <2> QED BY <2>2 DEF ToSet
  <1>6. /\ selected \in Seq(S) /\ ToSet(selected) \subseteq its
        /\ Uncut(subject) => selected = about
    BY <1>1, <1>2, <1>4, <1>5
  <1> QED BY <1>6 DEF selected, S, about, its

(* The verdict, but for its confidence.                                    *)
LEMMA VerdictGiven ==
    ASSUME IInv, answer.asked = "Class", NEW selected,
           selected = Selected(Derive(held), answer.subject)
    PROVE  /\ Reported(answer.verdict) = Reported(Classify(selected, Now))
           /\ {c \in answer.verdict.claims : c.fresh} = FreshClaims(selected, Now)
  <1> DEFINE bounded == Derive(held).truncated
  <1>1. answer.verdict = Classify(selected, Context(bounded))
    BY DEF IInv, Answered, Classified
  <1> HIDE DEF bounded
  <1>2. Classify(selected, Context(bounded)).claims = ClaimsFor(selected, Context(bounded))
    <2> DEFINE context == Context(bounded)
    <2> HIDE DEF context
    <2>1. ASSUME NEW a, NEW t, NEW c, NEW f, NEW k, NEW s
          PROVE  Conclusion(a, t, c, f, k, s).claims = c
      BY DEF Conclusion
    <2>2. ASSUME NEW a, NEW t, NEW c, NEW f
          PROVE  Judged(selected, context, a, t, c, f).claims = c
      <3>1. PICK klass, score :
              Judged(selected, context, a, t, c, f) = Conclusion(a, t, c, f, klass, score)
        BY Zenon DEF Judged
      <3> QED BY <2>1, <3>1
    <2>3. ASSUME NEW a, NEW c
          PROVE  ClassifyBy(selected, context, a, c).claims = c
      <3>1. PICK t, f : ClassifyBy(selected, context, a, c) = Judged(selected, context, a, t, c, f)
        BY Zenon DEF ClassifyBy
      <3> QED BY <2>2, <3>1
    <2>4. Classify(selected, context)
            = ClassifyBy(selected, context, Admissible(selected, context),
                         ClaimsFor(selected, context))
      BY Zenon DEF Classify
    <2> QED BY <2>3, <2>4 DEF context
  <1>3. {c \in answer.verdict.claims : c.fresh} = FreshClaims(selected, Context(bounded))
    BY <1>1, <1>2 DEF FreshClaims
  <1> QED BY <1>1, <1>3, BoundedReports

(* What is reported, part by part.                                         *)
LEMMA ReportedParts ==
    ASSUME NEW a, NEW b, Reported(a) = Reported(b)
    PROVE  /\ a.klass = b.klass /\ a.lost = b.lost /\ a.offered = b.offered
           /\ a.ratio_defined = b.ratio_defined /\ a.ratio_bp = b.ratio_bp
           /\ a.saturated = b.saturated /\ a.admitted = b.admitted
  BY DEF Reported

-----------------------------------------------------------------------------
(* Verdicts.                                                               *)

(* What StaleObservationsCannotSway says of verdicts.                      *)
ClassHalfOfStale ==
    LET current == Among(Observations, {o \in ToSet(Observations) : IsCurrent(o)})
        about == About(current, answer.subject)
        alone == Classify(about, Now)
        said  == answer.verdict
    IN  IF about # << >>
        THEN <<said.klass, said.lost, said.offered, said.ratio_bp>>
                = <<alone.klass, alone.lost, alone.offered, alone.ratio_bp>>
        ELSE said.klass \in {"StaleEvidence", "AbsentEvidence"}

(* The half of StaleObservationsCannotSway about verdicts.                 *)
LEMMA StaleLeavesVerdicts ==
    ASSUME IInv, answer.asked = "Class", Uncut(answer.subject)
    PROVE  ClassHalfOfStale
  <1> DEFINE current == Among(Observations, {o \in ToSet(Observations) : IsCurrent(o)})
             selected == Selected(Derive(held), answer.subject)
             about == About(current, answer.subject)
             all   == About(Observations, answer.subject)
             alone == Classify(about, Now)
             said  == answer.verdict
             S == Derived(held)
  <1>1. current = Admissible(Observations, Now)
    BY CurrentAreAdmissible
  <1>2. Observations \in Seq(S) /\ selected = all
    BY Behind, SelectedIs
  <1>3. Reported(said) = Reported(Classify(selected, Now))
    BY VerdictGiven
  <1>4. ClassHalfOfStale <=> IF about # << >>
            THEN <<said.klass, said.lost, said.offered, said.ratio_bp>>
                    = <<alone.klass, alone.lost, alone.offered, alone.ratio_bp>>
            ELSE said.klass \in {"StaleEvidence", "AbsentEvidence"}
    BY Zenon DEF ClassHalfOfStale
  <1> HIDE DEF S, current
  <1>5. all \in Seq(S) /\ about = Admissible(all, Now)
    BY <1>1, <1>2, FreshAboutIt
  <1> HIDE DEF selected, all, about, said
  <1>6. CASE about = << >>
    <2>1. Classify(all, Now).klass \in {"AbsentEvidence", "StaleEvidence"}
      BY <1>5, <1>6, NothingFreshNothingSaid
    <2>2. said.klass = Classify(all, Now).klass
      BY <1>2, <1>3, ReportedParts
    <2> QED BY <1>4, <1>6, <2>1, <2>2
  <1>7. CASE about # << >>
    <2>1. Reported(Classify(all, Now)) = Reported(Classify(Admissible(all, Now), Now))
      BY <1>5, <1>7, StaleAddsNothing
    <2>2. Reported(said) = Reported(alone)
      BY <1>2, <1>3, <1>5, <2>1
    <2> HIDE DEF alone
    <2>3. /\ said.klass = alone.klass /\ said.lost = alone.lost
          /\ said.offered = alone.offered /\ said.ratio_bp = alone.ratio_bp
      BY <2>2, ReportedParts
    <2> QED BY <1>4, <1>7, <2>3 DEF alone
  <1> QED BY <1>6, <1>7

(* The fresh observations there are about a subject.                       *)
LEMMA FreshSelected ==
    ASSUME IInv, NEW subject,
           NEW o \in ToSet(Selected(Derive(held), subject)), Fresh(o, Now)
    PROVE  o \in FreshAbout(subject)
  BY SelectedIs DEF FreshAbout

(* The half of LossIsWitnessed about verdicts.                             *)
LEMMA VerdictHasAWitness ==
    ASSUME IInv, LossToConfirm, answer.asked = "Class",
           AssertsLoss(answer.verdict.klass), ~answer.verdict.saturated
    PROVE  Witness(FreshAbout(answer.subject))
  <1> DEFINE selected == Selected(Derive(held), answer.subject)
             S == Derived(held)
  <1>1. selected \in Seq(S) /\ Counting(S)
    BY Behind, SelectedIs
  <1>2. Reported(answer.verdict) = Reported(Classify(selected, Now))
    BY VerdictGiven
  <1> HIDE DEF selected, S
  <1>3. AssertsLoss(Classify(selected, Now).klass) /\ ~Classify(selected, Now).saturated
    BY <1>2, ReportedParts
  <1>4. PICK o \in ToSet(selected) : Fresh(o, Now) /\ Lossy(o)
    BY <1>1, <1>3, LossHasAWitness
  <1>5. o \in FreshAbout(answer.subject)
    BY <1>4, FreshSelected DEF selected
  <1> QED BY <1>4, <1>5 DEF Witness, Lossy

(* The half of DirectLossIsNotHidden about verdicts.                       *)
LEMMA VerdictHearsCounters ==
    ASSUME IInv, answer.asked = "Class", AssertsAbsence(answer.verdict.klass),
           Uncut(answer.subject)
    PROVE  ~DirectWitness(FreshAbout(answer.subject))
  <1> DEFINE selected == Selected(Derive(held), answer.subject)
             all == About(Observations, answer.subject)
             S == Derived(held)
  <1>1. /\ selected \in Seq(S) /\ selected = all
        /\ ToSet(all) = {o \in ToSet(Observations) : o.subject = answer.subject}
    BY Behind, SelectedIs, FreshAboutIt
  <1>2. Reported(answer.verdict) = Reported(Classify(selected, Now))
    BY VerdictGiven
  <1> HIDE DEF selected, S, all
  <1>3. AssertsAbsence(Classify(selected, Now).klass)
    BY <1>2, ReportedParts
  <1>4. \A o \in ToSet(Admissible(selected, Now)) : ~(IsDirect(o) /\ o.lost > 0)
    BY <1>3, AbsenceHearsCounters
  <1>5. \A o \in FreshAbout(answer.subject) : o \in ToSet(Admissible(selected, Now))
    BY <1>1, AdmissibleIs DEF FreshAbout
  <1> QED BY <1>4, <1>5 DEF DirectWitness

(* The invariant implies ConflictIsReported.                               *)
LEMMA ConflictStopsTheVerdict ==
    ASSUME IInv, LossToConfirm, answer.asked = "Class"
    PROVE  ConflictIsReported
  <1> DEFINE selected == Selected(Derive(held), answer.subject)
             S == Derived(held)
             fresh == {c \in answer.verdict.claims : c.fresh}
             klass == answer.verdict.klass
  <1>1. selected \in Seq(S) /\ Counting(S)
    BY Behind, SelectedIs
  <1>2. /\ Reported(answer.verdict) = Reported(Classify(selected, Now))
        /\ fresh = FreshClaims(selected, Now)
    BY VerdictGiven
  <1>3. \A o \in ToSet(selected) : Fresh(o, Now) => o \in FreshAbout(answer.subject)
    BY FreshSelected
  <1> HIDE DEF selected, S, fresh
  <1>4. klass = Classify(selected, Now).klass
    BY <1>2, ReportedParts
  <1>5. ASSUME NEW a \in Foremost(fresh), NEW b \in Foremost(fresh), ClassDiverges(a, b)
        PROVE  klass = "ConflictingEvidence"
    BY <1>1, <1>2, <1>4, <1>5, TiedSourcesStopTheVerdict
  <1>6. ASSUME klass = "ConflictingEvidence"
        PROVE  \/ \E a, b \in FreshAbout(answer.subject) :
                      a.source # b.source /\ Witness({a, b})
               \/ \E c \in fresh : c.lost = Top
    <2>1. CASE \E claim \in FreshClaims(selected, Now) : claim.lost = Top
      BY <1>2, <2>1
    <2>2. CASE \E one, other : /\ one # other /\ HeardLosing(one, selected, Now)
                               /\ Heard(other, selected, Now)
      <3>1. PICK one, other : /\ one # other /\ HeardLosing(one, selected, Now)
                              /\ Heard(other, selected, Now)
        BY <2>2
      <3>2. PICK a \in ToSet(selected) : a.source = one /\ Fresh(a, Now) /\ Lossy(a)
        BY <3>1 DEF HeardLosing
      <3>3. PICK b \in ToSet(selected) : b.source = other /\ Fresh(b, Now)
        BY <3>1 DEF Heard
      <3>4. a \in FreshAbout(answer.subject) /\ b \in FreshAbout(answer.subject)
            /\ a.source # b.source
        BY <1>3, <3>1, <3>2, <3>3
      <3>5. Witness({a, b})
        BY <3>2 DEF Witness, Lossy
      <3> QED BY <3>4, <3>5
    <2> QED BY <1>1, <1>4, <1>6, <2>1, <2>2, ConflictHasAWitness
  <1> QED BY <1>5, <1>6 DEF ConflictIsReported, fresh

(* While two of the highest-ranking fresh sources say opposite things the  *)
(* verdict takes neither side, and it takes none only where fresh sources  *)
(* contradict one another, whatever is held, expired, recovered or cut     *)
(* (conflict.hpp: "When no source strictly outranks the others, the result *)
(* stays unresolved").                                                     *)
THEOREM ConflictIsAlwaysReported ==
    ASSUME LossToConfirm
    PROVE  Spec => []ConflictIsReported
  <1>1. IInv => ConflictIsReported
    <2>1. CASE answer.asked = "Class"
      BY <2>1, ConflictStopsTheVerdict
    <2>2. CASE answer.asked # "Class"
      BY <2>2, Zenon DEF ConflictIsReported
    <2> QED BY <2>1, <2>2
  <1> QED BY <1>1, Invariance, PTL

-----------------------------------------------------------------------------
(* Localizations.                                                          *)

(* Coverage is of the flow asked about, whatever else is asked for.        *)
LEMMA CoverageOfFlow ==
    ASSUME NEW o, NEW request, NEW other, NEW paths, request.flow = other.flow
    PROVE  CoveredHops(o, request, paths) = CoveredHops(o, other, paths)
  BY DEF CoveredHops

(* What the engine makes of a request differs in nothing but the number of *)
(* segments.                                                               *)
LEMMA RequestIs ==
    ASSUME NEW request \in Requests
    PROVE  /\ Effective(request).flow = request.flow
           /\ Effective(request).cap = request.cap
           /\ request.cap \in Granularities
           /\ SegmentLimit(Effective(request)) \in Nat
  <1>1. /\ request \in [flow : Nat, cap : Granularities, max_segments : Nat]
        /\ MaxResultItems \in Nat /\ MaxSegments \in Nat
    BY VerdictAssumption, LocalizationAssumption
  <1> DEFINE limit == IF request.max_segments = 0 \/ request.max_segments > MaxResultItems
                      THEN MaxResultItems ELSE request.max_segments
  <1>2. limit \in Nat
    BY <1>1
  <1>3. Effective(request) = [request EXCEPT !.max_segments = limit]
    BY <1>1 DEF Effective
  <1> HIDE DEF limit
  <1>4. /\ Effective(request).flow = request.flow /\ Effective(request).cap = request.cap
        /\ Effective(request).max_segments = limit
    BY <1>1, <1>3
  <1>5. SegmentLimit(Effective(request)) \in Nat
    BY <1>1, <1>2, <1>4 DEF SegmentLimit, Smaller
  <1> QED BY <1>1, <1>4, <1>5

(* So the same evidence is relevant to it.                                 *)
LEMMA SameRelevant ==
    ASSUME NEW observations, NEW request \in Requests, NEW paths
    PROVE  /\ Relevant(observations, Effective(request), paths)
                 = Relevant(observations, request, paths)
           /\ \A o : CoveredHops(o, Effective(request), paths) = CoveredHops(o, request, paths)
  <1>1. \A o : CoveredHops(o, Effective(request), paths) = CoveredHops(o, request, paths)
    BY RequestIs, CoverageOfFlow
  <1> QED BY <1>1 DEF Relevant

(* What decides about a localization, and what it may come to.             *)
Outcome(said, aggregate, admitted, request, paths, context) ==
    \/ /\ admitted = << >>
       /\ said = Result(aggregate, "Unknown", << >>, "Unknown", TRUE, FALSE)
    \/ said = FlowAnswer(aggregate, Finest(admitted), request)
    \/ said = PathAnswer(aggregate, Finest(admitted), request, Len(paths.hops))
    \/ /\ ~(Len(paths.hops) < 2)
       /\ said = ByHop(aggregate, admitted,
                       RunSegments(HopStates(admitted, request, paths, context)), request, paths)

(* The cases a localization has.                                           *)
LEMMA LocatedIs ==
    ASSUME NEW aggregate, NEW admitted, NEW request, NEW paths, NEW context
    PROVE  Outcome(Located(aggregate, admitted, request, paths, context),
                   aggregate, admitted, request, paths, context)
  BY Zenon DEF Located, Outcome

(* Of nothing admitted there is no segment.                                *)
LEMMA NothingLocated ==
    ASSUME NEW aggregate, NEW request, NEW paths, NEW context
    PROVE  Located(aggregate, << >>, request, paths, context).segments = << >>
  BY DEF Located, Result

(* Of the classification only what is reported is used.                    *)
LEMMA LocatedByReport ==
    ASSUME NEW a, NEW b, Reported(a) = Reported(b),
           NEW admitted, NEW request, NEW paths, NEW context
    PROVE  Located(a, admitted, request, paths, context)
              = Located(b, admitted, request, paths, context)
  <1>1. /\ a.klass = b.klass /\ a.lost = b.lost /\ a.offered = b.offered
        /\ a.ratio_defined = b.ratio_defined /\ a.ratio_bp = b.ratio_bp
        /\ a.admitted = b.admitted
    BY ReportedParts
  <1>2. \A finest, segments, achieved, ambiguous, truncated :
            Result(a, finest, segments, achieved, ambiguous, truncated)
                = Result(b, finest, segments, achieved, ambiguous, truncated)
    BY <1>1 DEF Result
  <1>3. \A granularity, hops :
            WholeSegment(a, granularity, hops) = WholeSegment(b, granularity, hops)
    BY <1>1 DEF WholeSegment
  <1>4. ASSUME NEW finest
        PROVE  FlowAnswer(a, finest, request) = FlowAnswer(b, finest, request)
    <2> DEFINE reached == CoarserOf(CoarserOf(request.cap, finest), "Flow")
               one == WholeSegment(a, reached, 0)
    <2>1. one = WholeSegment(b, reached, 0)
      BY <1>3
    <2>2. FlowAnswer(a, finest, request) = Result(a, finest, <<one>>, "Flow", TRUE, FALSE)
      BY DEF FlowAnswer
    <2>3. FlowAnswer(b, finest, request)
            = Result(b, finest, <<WholeSegment(b, reached, 0)>>, "Flow", TRUE, FALSE)
      BY DEF FlowAnswer
    <2> HIDE DEF one, reached
    <2>4. Result(a, finest, <<one>>, "Flow", TRUE, FALSE)
            = Result(b, finest, <<one>>, "Flow", TRUE, FALSE)
      BY <1>2, Zenon
    <2> QED BY <2>1, <2>2, <2>3, <2>4, Zenon
  <1>5. ASSUME NEW finest, NEW hops
        PROVE  PathAnswer(a, finest, request, hops) = PathAnswer(b, finest, request, hops)
    <2> DEFINE reached == CoarserOf(request.cap, finest)
               one == WholeSegment(a, reached, hops)
    <2>1. one = WholeSegment(b, reached, hops)
      BY <1>3
    <2>2. PathAnswer(a, finest, request, hops)
            = Result(a, finest, <<one>>, reached, TRUE, FALSE)
      BY DEF PathAnswer
    <2>3. PathAnswer(b, finest, request, hops)
            = Result(b, finest, <<WholeSegment(b, reached, hops)>>, reached, TRUE, FALSE)
      BY DEF PathAnswer
    <2> HIDE DEF one, reached
    <2>4. Result(a, finest, <<one>>, reached, TRUE, FALSE)
            = Result(b, finest, <<one>>, reached, TRUE, FALSE)
      BY <1>2, Zenon
    <2> QED BY <2>1, <2>2, <2>3, <2>4, Zenon
  <1>6. \A runs : ByHop(a, admitted, runs, request, paths) = ByHop(b, admitted, runs, request, paths)
    BY <1>2, Zenon DEF ByHop, HopAnswer
  <1> QED BY <1>2, <1>4, <1>5, <1>6, Zenon DEF Located

(* The answer, and all it rests on.                                        *)
LEMMA LocationGiven ==
    ASSUME IInv, answer.asked = "Location"
    PROVE  /\ answer.request \in Requests /\ OfInterest \in Seq(Derived(held))
           /\ answer.location = Located(Classify(OfInterest, Now), Admissible(OfInterest, Now),
                                        Effective(answer.request), topology, Now)
  <1>1. /\ answer.request \in Requests
        /\ answer.location = Localize(Observations, Effective(answer.request), topology, Now)
    BY DEF IInv, Answered, Observations, Now
  <1>2. Relevant(Observations, Effective(answer.request), topology) = OfInterest
    BY <1>1, SameRelevant DEF OfInterest
  <1>3. OfInterest \in Seq(Derived(held))
    BY Behind, FreshRelevant DEF OfInterest
  <1>4. Localize(Observations, Effective(answer.request), topology, Now)
            = Located(Classify(OfInterest, Now), Admissible(OfInterest, Now),
                      Effective(answer.request), topology, Now)
    BY <1>2, Zenon DEF Localize, LocalizeBy
  <1> QED BY <1>1, <1>3, <1>4

(* What StaleObservationsCannotSway says of localizations.                 *)
LocationHalfOfStale ==
    LET current == Among(Observations, {o \in ToSet(Observations) : IsCurrent(o)})
        about == Relevant(current, answer.request, topology)
        told(location) == <<location.klass, location.segments, location.achieved>>
    IN  IF about # << >>
        THEN told(answer.location)
                = told(Localize(current, Effective(answer.request), topology, Now))
        ELSE Segments = << >>

(* The half of StaleObservationsCannotSway about localizations.            *)
LEMMA StaleLeavesLocations ==
    ASSUME IInv, answer.asked = "Location"
    PROVE  LocationHalfOfStale
  <1> DEFINE current == Among(Observations, {o \in ToSet(Observations) : IsCurrent(o)})
             request == Effective(answer.request)
             about == Relevant(current, answer.request, topology)
             told(location) == <<location.klass, location.segments, location.achieved>>
             all == OfInterest
             S == Derived(held)
  <1>1. current = Admissible(Observations, Now)
    BY CurrentAreAdmissible
  <1>2. LocationHalfOfStale <=> IF about # << >>
            THEN told(answer.location) = told(Localize(current, request, topology, Now))
            ELSE answer.location.segments = << >>
    BY Zenon DEF LocationHalfOfStale, Segments
  <1>3. /\ answer.request \in Requests /\ all \in Seq(S)
        /\ answer.location = Located(Classify(all, Now), Admissible(all, Now), request,
                                     topology, Now)
    BY LocationGiven
  <1>4. Observations \in Seq(S)
    BY Behind
  <1>5. all = Relevant(Observations, answer.request, topology)
    BY DEF OfInterest
  <1> HIDE DEF current, all, S
  <1>6. about = Admissible(all, Now)
    BY <1>1, <1>4, <1>5, FreshRelevant
  <1>7. Relevant(current, request, topology) = about
    BY <1>3, SameRelevant
  <1>8. Localize(current, request, topology, Now)
            = Located(Classify(about, Now), Admissible(about, Now), request, topology, Now)
    BY <1>7, Zenon DEF Localize, LocalizeBy
  <1> HIDE DEF about, told, request
  <1>9. CASE about = << >>
    BY <1>2, <1>3, <1>6, <1>9, NothingLocated
  <1>10. CASE about # << >>
    <2>1. Reported(Classify(all, Now)) = Reported(Classify(Admissible(all, Now), Now))
      BY <1>3, <1>6, <1>10, StaleAddsNothing
    <2>2. Admissible(about, Now) = about
      BY <1>3, <1>6, AdmissibleTwice
    <2>3. Reported(Classify(all, Now)) = Reported(Classify(about, Now))
      BY <1>6, <2>1
    <2>4. answer.location = Localize(current, request, topology, Now)
      BY <1>3, <1>6, <1>8, <2>2, <2>3, LocatedByReport
    <2> QED BY <1>2, <1>10, <2>4
  <1> QED BY <1>9, <1>10

(* An observation that rests on an item from a journal, or that an expired *)
(* item dates, changes neither class, counts nor segments of an answer, in *)
(* whatever order evidence came, aged, was superseded or came back, and    *)
(* whatever was asked, as long as a verdict's observations fit into a      *)
(* result (classify.hpp:259, assess_freshness, Classifier::classify,       *)
(* Localizer::localize).                                                   *)
THEOREM StaleObservationsNeverSway ==
    Spec => []StaleObservationsCannotSway
  <1>1. ASSUME IInv PROVE StaleObservationsCannotSway
    <2>1. answer.asked = "Class" /\ Uncut(answer.subject) => ClassHalfOfStale
      BY <1>1, StaleLeavesVerdicts
    <2>2. answer.asked = "Location" => LocationHalfOfStale
      BY <1>1, StaleLeavesLocations
    <2> QED BY <2>1, <2>2, Zenon DEF StaleObservationsCannotSway, ClassHalfOfStale,
                                       LocationHalfOfStale
  <1> QED BY <1>1, Invariance, PTL

-----------------------------------------------------------------------------
(* Answers by hop.                                                         *)

(* The segment that stands for a whole flow or path.                       *)
LEMMA WholeIs ==
    ASSUME NEW aggregate, NEW granularity, NEW hops
    PROVE  /\ WholeSegment(aggregate, granularity, hops).kind = "FlowWide"
           /\ WholeSegment(aggregate, granularity, hops).granularity = granularity
           /\ WholeSegment(aggregate, granularity, hops).lost = aggregate.lost
           /\ WholeSegment(aggregate, granularity, hops).offered = aggregate.offered
  BY DEF WholeSegment, Segment

(* The answers that consist of it alone.                                   *)
LEMMA WholeAnswers ==
    ASSUME NEW aggregate, NEW finest, NEW request, NEW hops
    PROVE  /\ FlowAnswer(aggregate, finest, request).segments
                 = <<WholeSegment(aggregate,
                                  CoarserOf(CoarserOf(request.cap, finest), "Flow"), 0)>>
           /\ FlowAnswer(aggregate, finest, request).achieved = "Flow"
           /\ PathAnswer(aggregate, finest, request, hops).segments
                 = <<WholeSegment(aggregate, CoarserOf(request.cap, finest), hops)>>
           /\ PathAnswer(aggregate, finest, request, hops).achieved
                 = CoarserOf(request.cap, finest)
  BY Zenon DEF FlowAnswer, PathAnswer, Result

(* The declared hops are a sequence.                                       *)
LEMMA TopologyIs ==
    ASSUME IInv
    PROVE  \E H : topology.hops \in Seq(H)
  BY VerdictAssumption DEF IInv

(* What the hops of the path show.                                         *)
States == HopStates(Admissible(OfInterest, Now), Effective(answer.request), topology, Now)

(* What each hop of the path shows.                                        *)
LEMMA StatesAre ==
    ASSUME IInv
    PROVE  /\ \E T : States \in Seq(T)
           /\ Len(States) = Len(topology.hops)
           /\ \A position \in 1..Len(topology.hops) : States[position]
                 = HopState(position, Admissible(OfInterest, Now), Effective(answer.request),
                            topology, Now)
  <1>1. PICK H : topology.hops \in Seq(H)
    BY TopologyIs
  <1> QED BY <1>1, HopStatesAre DEF States

(* An answer by hop has segments that tell of runs of hops.                *)
LEMMA ByHopIsTiled ==
    ASSUME IInv, answer.asked = "Location", NEW aggregate, ~(Len(topology.hops) < 2),
           answer.location = ByHop(aggregate, Admissible(OfInterest, Now),
                                   RunSegments(States), Effective(answer.request), topology)
    PROVE  /\ Len(States) \in Nat \ {0}
           /\ Tiled(Segments, answer.location.truncated, States)
           /\ ByHops
  <1> DEFINE admitted == Admissible(OfInterest, Now)
             request  == Effective(answer.request)
             S        == Derived(held)
             limited  == SegmentLimit(request) \in Nat
             said     == answer.location
  <1>1. answer.request \in Requests /\ OfInterest \in Seq(S) /\ Stated(S)
    BY LocationGiven, Behind
  <1>2. limited
    BY <1>1, RequestIs
  <1> HIDE DEF S
  <1>3. admitted \in Seq(S)
    BY <1>1, AdmissibleIs
  <1>4. said = ByHop(aggregate, admitted, RunSegments(States), request, topology)
    OBVIOUS
  <1> HIDE DEF admitted, request, said
  <1>5. Len(States) \in Nat \ {0}
    <2>1. Len(States) = Len(topology.hops) /\ Len(topology.hops) \in Nat
      BY StatesAre, TopologyIs, LenProperties
    <2> QED BY <2>1
  <1>6. PICK T : States \in Seq(T)
    BY StatesAre
  <1>7. Tiled(said.segments, said.truncated, States)
    BY <1>1, <1>2, <1>3, <1>4, <1>6, ByHopTiles
  <1>8. Segments = said.segments
    BY DEF Segments, said
  <1>9. ByHops
    BY <1>7, <1>8 DEF Tiled, Tells, ByHops
  <1> QED BY <1>5, <1>7, <1>8, <1>9 DEF said

(* Segments that are not the whole flow tell of runs of hops.              *)
LEMMA SegmentsAreTiled ==
    ASSUME IInv, answer.asked = "Location", ByHops, Segments # << >>
    PROVE  /\ Len(States) \in Nat \ {0}
           /\ Tiled(Segments, answer.location.truncated, States)
  <1> DEFINE aggregate == Classify(OfInterest, Now)
             admitted  == Admissible(OfInterest, Now)
             request   == Effective(answer.request)
             said      == answer.location
  <1>1. said = Located(aggregate, admitted, request, topology, Now)
    BY LocationGiven
  <1>3. States = HopStates(admitted, request, topology, Now)
    BY DEF States
  <1>4. Segments = said.segments /\ Segments # << >>
        /\ \A k \in DOMAIN Segments : Segments[k].kind # "FlowWide"
    BY DEF Segments, ByHops
  <1> HIDE DEF aggregate, admitted, said
  <1>6. Outcome(said, aggregate, admitted, request, topology, Now)
    BY <1>1, LocatedIs
  <1> HIDE DEF request
  <1>7. said.segments # << >>
    BY <1>4
  <1>8. said # Result(aggregate, "Unknown", << >>, "Unknown", TRUE, FALSE)
    BY <1>7 DEF Result
  <1>9. ASSUME NEW granularity, NEW hops,
               said.segments = <<WholeSegment(aggregate, granularity, hops)>>
        PROVE  FALSE
    <2>1. 1 \in DOMAIN Segments /\ Segments[1] = WholeSegment(aggregate, granularity, hops)
      BY <1>4, <1>9
    <2> QED BY <1>4, <2>1, WholeIs
  <1>10. said # FlowAnswer(aggregate, Finest(admitted), request)
    <2> DEFINE reached == CoarserOf(CoarserOf(request.cap, Finest(admitted)), "Flow")
               answered == FlowAnswer(aggregate, Finest(admitted), request)
    <2>1. answered.segments = <<WholeSegment(aggregate, reached, 0)>>
      BY DEF FlowAnswer, Result
    <2> HIDE DEF reached, answered
    <2>2. said # answered
      BY <1>9, <2>1
    <2> QED BY <2>2 DEF answered
  <1>11. said # PathAnswer(aggregate, Finest(admitted), request, Len(topology.hops))
    <2> DEFINE reached == CoarserOf(request.cap, Finest(admitted))
               hops == Len(topology.hops)
               answered == PathAnswer(aggregate, Finest(admitted), request, hops)
    <2>1. answered.segments = <<WholeSegment(aggregate, reached, hops)>>
      BY WholeAnswers
    <2> HIDE DEF reached, hops, answered
    <2>2. said # answered
      BY <1>9, <2>1
    <2> QED BY <2>2 DEF answered, hops
  <1>12. /\ ~(Len(topology.hops) < 2)
         /\ said = ByHop(aggregate, admitted, RunSegments(States), request, topology)
    BY <1>3, <1>6, <1>8, <1>10, <1>11 DEF Outcome
  <1> QED BY <1>3, <1>12, ByHopIsTiled DEF said, admitted, request

(* What is fresh at a position is what its state is made of.               *)
LEMMA FreshAtIs ==
    ASSUME IInv, answer.asked = "Location", NEW position, NEW here,
           here = Among(OfInterest, FreshAt(position, OfInterest))
    PROVE  /\ here \in Seq(Derived(held)) /\ ToSet(here) = FreshAt(position, OfInterest)
           /\ Admissible(here, Now) = here
           /\ position \in 1..Len(topology.hops) => States[position] = Observed(here, Now)
  <1> DEFINE request == Effective(answer.request)
             at == AtHop(position, OfInterest, Now, request, topology)
             S == Derived(held)
  <1>1. answer.request \in Requests /\ OfInterest \in Seq(S)
    BY LocationGiven
  <1>2. at = FreshAt(position, OfInterest)
    BY <1>1, SameRelevant DEF AtHop, FreshAt, FreshOnHops
  <1>3. here = Here(position, OfInterest, Now, request, topology)
    BY <1>2 DEF Here
  <1> HIDE DEF S, request
  <1>4. /\ here \in Seq(S) /\ ToSet(here) = at /\ Admissible(here, Now) = here
        /\ HopState(position, Admissible(OfInterest, Now), request, topology, Now)
              = Observed(here, Now)
    BY <1>1, <1>3, HereIs
  <1> HIDE DEF at
  <1>5. position \in 1..Len(topology.hops) => States[position] = Observed(here, Now)
    BY <1>4, StatesAre DEF request
  <1> QED BY <1>2, <1>4, <1>5 DEF S

(* What a segment tells of one of its hops.                                *)
LEMMA SegmentTells ==
    ASSUME IInv, answer.asked = "Location", ByHops, NEW k \in DOMAIN Segments,
           NEW position \in Segments[k].first..Segments[k].last, NEW here,
           here = Among(OfInterest, FreshAt(position, OfInterest))
    PROVE  TellsOf(Segments[k], Observed(here, Now))
  <1>1. Segments # << >>
    OBVIOUS
  <1>2. /\ Tiled(Segments, answer.location.truncated, States)
        /\ Len(States) = Len(topology.hops)
    BY <1>1, SegmentsAreTiled, StatesAre
  <1>3. PICK T : States \in Seq(T)
    BY StatesAre
  <1>4. position \in 1..Len(States) /\ TellsOf(Segments[k], States[position])
    BY <1>2, <1>3, TiledTells
  <1> QED BY <1>2, <1>4, FreshAtIs

(* An observed hop is classified by what is fresh there.                   *)
LEMMA ObservedIs ==
    ASSUME NEW here, NEW context
    PROVE  /\ Observed(here, context).observed <=> here # << >>
           /\ here # << >> => /\ Observed(here, context).klass = Classify(here, context).klass
                              /\ Observed(here, context).granularity = Finest(here)
  BY DEF Observed, NotObserved

(* A verdict is saturated only where its totals are.                       *)
LEMMA SaturationIs ==
    ASSUME NEW observations, NEW context, Classify(observations, context).saturated
    PROVE  Tally(Admissible(observations, context)).saturated
  <1> DEFINE tally == Tally(Admissible(observations, context))
  <1>1. PICK admitted, claims, conflict, klass, score :
            Classify(observations, context)
                = Conclusion(admitted, tally, claims, conflict, klass, score)
    BY Zenon DEF Classify, ClassifyBy, Judged
  <1> HIDE DEF tally
  <1>2. Conclusion(admitted, tally, claims, conflict, klass, score).saturated
            = (~(admitted = << >> \/ (conflict.conflicted /\ ~conflict.resolved))
                  /\ tally.saturated)
    BY DEF Conclusion
  <1>3. tally.saturated
    BY <1>1, <1>2, Zenon
  <1> QED BY <1>3 DEF tally

(* The half of LossIsWitnessed about segments.                             *)
LEMMA SegmentHasAWitness ==
    ASSUME IInv, LossToConfirm, answer.asked = "Location", ByHops,
           NEW k \in DOMAIN Segments, AssertsLoss(Segments[k].klass),
           NEW position \in Segments[k].first..Segments[k].last
    PROVE  Witness(FreshAt(position, OfInterest)) \/ Overfull(position, OfInterest)
  <1> DEFINE here == Among(OfInterest, FreshAt(position, OfInterest))
             S == Derived(held)
  <1>1. TellsOf(Segments[k], Observed(here, Now))
    BY SegmentTells
  <1>2. /\ here \in Seq(S) /\ ToSet(here) = FreshAt(position, OfInterest)
        /\ Admissible(here, Now) = here /\ Counting(S)
    BY FreshAtIs, Behind
  <1>3. Overfull(position, OfInterest) <=> Tally(here).saturated
    BY DEF Overfull
  <1> HIDE DEF here, S
  <1>4. here # << >> /\ AssertsLoss(Classify(here, Now).klass)
    BY <1>1, ObservedIs DEF TellsOf, AssertsLoss
  <1>5. \/ \E o \in ToSet(here) : Fresh(o, Now) /\ Lossy(o)
        \/ Classify(here, Now).saturated
    BY <1>2, <1>4, LossHasAWitness
  <1>6. CASE \E o \in ToSet(here) : Fresh(o, Now) /\ Lossy(o)
    BY <1>2, <1>6 DEF Witness, Lossy
  <1>7. CASE Classify(here, Now).saturated
    BY <1>2, <1>3, <1>7, SaturationIs
  <1> QED BY <1>5, <1>6, <1>7

(* A verdict that asserts loss, and a segment at each of its hops, rests   *)
(* on a fresh, valid observation that lost something there, unless a total *)
(* went over the top of its word; provided that something must have been   *)
(* lost before loss is confirmed (Classifier::classify,                    *)
(* Localizer::localize; classify.hpp:259).                                 *)
THEOREM LossIsAlwaysWitnessed ==
    ASSUME LossToConfirm
    PROVE  Spec => []LossIsWitnessed
  <1>1. ASSUME IInv PROVE LossIsWitnessed
    <2>1. answer.asked = "Class" =>
              (AssertsLoss(answer.verdict.klass) /\ ~answer.verdict.saturated =>
                  Witness(FreshAbout(answer.subject)))
      BY <1>1, VerdictHasAWitness
    <2>2. answer.asked = "Location" /\ ByHops =>
              \A k \in DOMAIN Segments : AssertsLoss(Segments[k].klass) =>
                  \A position \in Segments[k].first..Segments[k].last :
                      \/ Witness(FreshAt(position, OfInterest))
                      \/ Overfull(position, OfInterest)
      BY <1>1, SegmentHasAWitness
    <2> QED BY <2>1, <2>2, Zenon DEF LossIsWitnessed
  <1> QED BY <1>1, Invariance, PTL

(* The half of DirectLossIsNotHidden about segments.                       *)
LEMMA SegmentHearsCounters ==
    ASSUME IInv, answer.asked = "Location", ByHops,
           NEW k \in DOMAIN Segments, AssertsAbsence(Segments[k].klass),
           NEW position \in Segments[k].first..Segments[k].last
    PROVE  ~DirectWitness(FreshAt(position, OfInterest))
  <1> DEFINE here == Among(OfInterest, FreshAt(position, OfInterest))
             S == Derived(held)
  <1>1. TellsOf(Segments[k], Observed(here, Now))
    BY SegmentTells
  <1>2. /\ here \in Seq(S) /\ ToSet(here) = FreshAt(position, OfInterest)
        /\ Admissible(here, Now) = here
    BY FreshAtIs
  <1> HIDE DEF here, S
  <1>3. here # << >> /\ AssertsAbsence(Classify(here, Now).klass)
    BY <1>1, ObservedIs DEF TellsOf, AssertsAbsence
  <1>4. \A o \in ToSet(here) : ~(IsDirect(o) /\ o.lost > 0)
    BY <1>2, <1>3, AbsenceHearsCounters
  <1> QED BY <1>2, <1>4 DEF DirectWitness

(* No verdict or segment reports an absence of loss where a fresh counter  *)
(* of drops advanced, unless a result had no room for it                   *)
(* (Classifier::classify, Localizer::localize).                            *)
THEOREM DirectLossIsNeverHidden ==
    Spec => []DirectLossIsNotHidden
  <1>1. ASSUME IInv PROVE DirectLossIsNotHidden
    <2>1. answer.asked = "Class" =>
              (AssertsAbsence(answer.verdict.klass) /\ Uncut(answer.subject) =>
                  ~DirectWitness(FreshAbout(answer.subject)))
      BY <1>1, VerdictHearsCounters
    <2>2. ASSUME answer.asked = "Location", ByHops, NEW k \in DOMAIN Segments,
                 AssertsAbsence(Segments[k].klass)
          PROVE  ~DirectWitness(FreshIn(Segments[k], OfInterest))
      <3>1. \A position \in Segments[k].first..Segments[k].last :
                ~DirectWitness(FreshAt(position, OfInterest))
        BY <1>1, <2>2, SegmentHearsCounters
      <3> QED BY <3>1 DEF DirectWitness, FreshIn
    <2> QED BY <2>1, <2>2, Zenon DEF DirectLossIsNotHidden
  <1> QED BY <1>1, Invariance, PTL

(* Segments follow one another along the path and leave no hop out, but    *)
(* for those cut off at the end; those said to be unobserved are the ones  *)
(* without fresh evidence of their own (localize.cpp:550).                 *)
THEOREM SegmentsAlwaysTile ==
    Spec => []SegmentsTileThePath
  <1>1. ASSUME IInv PROVE SegmentsTileThePath
    <2> SUFFICES ASSUME answer.asked = "Location", ByHops, Segments # << >>
                 PROVE  SegmentsTileThePath
      BY DEF SegmentsTileThePath
    <2>1. /\ Tiled(Segments, answer.location.truncated, States)
          /\ Len(States) # 0 /\ Len(States) = Len(topology.hops)
      BY <1>1, SegmentsAreTiled, StatesAre
    <2>2. PICK T : States \in Seq(T)
      BY <1>1, StatesAre
    <2>3. Len(Segments) # 0
      <3>1. PICK A : Segments \in Seq(A)
        BY <2>1 DEF Tiled
      <3> QED BY <3>1, EmptySeq
    <2>4. /\ Segments[1].first = 1
          /\ \A k \in 2..Len(Segments) : Segments[k].first = Segments[k - 1].last + 1
          /\ Segments[Len(Segments)].last = Len(States) \/ answer.location.truncated
      BY <2>1, <2>2, <2>3, TiledFollows
    <2>5. ASSUME NEW k \in DOMAIN Segments,
                 NEW position \in Segments[k].first..Segments[k].last
          PROVE  Segments[k].kind = "UnobservedSpan" <=> FreshAt(position, OfInterest) = {}
      <3> DEFINE here == Among(OfInterest, FreshAt(position, OfInterest))
                 S == Derived(held)
      <3>1. TellsOf(Segments[k], Observed(here, Now))
        BY <1>1, SegmentTells
      <3>2. here \in Seq(S) /\ ToSet(here) = FreshAt(position, OfInterest)
        BY <1>1, FreshAtIs
      <3> HIDE DEF here, S
      <3>3. here = << >> <=> FreshAt(position, OfInterest) = {}
        BY <3>2, EmptyOrNot
      <3> QED BY <3>1, <3>3, ObservedIs DEF TellsOf
    <2> QED BY <2>1, <2>4, <2>5, Zenon DEF SegmentsTileThePath
  <1> QED BY <1>1, Invariance, PTL

(* What the answer rests on, and how fine it is.                           *)
LEMMA FinestOfInterest ==
    ASSUME IInv, answer.asked = "Location"
    PROVE  Finest(Admissible(OfInterest, Now)) \in Granularities
  <1> DEFINE S == Derived(held)
             admitted == Admissible(OfInterest, Now)
  <1>1. OfInterest \in Seq(S) /\ Stated(S)
    BY LocationGiven, Behind
  <1> HIDE DEF S
  <1>2. admitted \in Seq(S)
    BY <1>1, AdmissibleIs
  <1> HIDE DEF admitted
  <1>3. \A o \in ToSet(admitted) : o.granularity \in Granularities
    BY <1>1, <1>2, ElementsAreFinite DEF Stated, Statement
  <1> QED BY <1>3, FinestIs DEF admitted

(* What is fresh at a hop is as fine as its state.                         *)
LEMMA FinestHere ==
    ASSUME IInv, answer.asked = "Location", NEW position, NEW here,
           here = Among(OfInterest, FreshAt(position, OfInterest)), here # << >>
    PROVE  /\ Finest(here) \in Granularities
           /\ \E o \in FreshAt(position, OfInterest) : ~FinerThan(Finest(here), o.granularity)
  <1> DEFINE S == Derived(held)
  <1>1. here \in Seq(S) /\ ToSet(here) = FreshAt(position, OfInterest) /\ Stated(S)
    BY FreshAtIs, Behind
  <1> HIDE DEF S
  <1>2. \A o \in ToSet(here) : o.granularity \in Granularities
    BY <1>1, ElementsAreFinite DEF Stated, Statement
  <1>3. PICK o \in ToSet(here) : TRUE
    BY <1>1, EmptyOrNot
  <1>4. /\ Finest(here) \in Granularities
        /\ \/ Finest(here) = "Unknown"
           \/ \E u \in ToSet(here) : u.granularity = Finest(here)
    BY <1>2, FinestIs
  <1>5. CASE Finest(here) = "Unknown"
    BY <1>1, <1>2, <1>3, <1>4, <1>5, NotFinerItself
  <1>6. CASE \E u \in ToSet(here) : u.granularity = Finest(here)
    BY <1>1, <1>4, <1>6, NotFinerItself
  <1> QED BY <1>4, <1>5, <1>6

(* A segment has a first hop.                                              *)
LEMMA SegmentIsSome ==
    ASSUME NEW T, NEW states \in Seq(T), NEW segments, NEW truncated,
           Tiled(segments, truncated, states), NEW k \in DOMAIN segments
    PROVE  segments[k].first \in segments[k].first..segments[k].last
  <1> DEFINE start == Starts(states)[k]
  <1>1. /\ k \in 1..Len(segments) /\ k \in 1..Len(Starts(states))
        /\ Tells(segments[k], states, start)
    <2>1. Len(Starts(states)) \in Nat
      BY StartsAre, LenProperties
    <2> QED BY <2>1 DEF Tiled
  <1>2. start \in RunStarts(states)
    <2>1. start \in ToSet(Starts(states))
      BY <1>1, StartsAre, LenProperties DEF ToSet
    <2> QED BY <2>1, StartsAre
  <1> HIDE DEF start
  <1>3. RunEnd(states, start) \in start..Len(states) /\ start \in 1..Len(states)
    BY <1>2, RunEndIs, StartsAre
  <1>4. start \in start..RunEnd(states, start)
    <2>1. Len(states) \in Nat
      BY LenProperties
    <2> QED BY <1>3, <2>1
  <1> QED BY <1>1, <1>4 DEF Tells

(* A segment has a granularity of the ladder.                              *)
LEMMA SegmentGranularity ==
    ASSUME IInv, answer.asked = "Location", ByHops, NEW k \in DOMAIN Segments
    PROVE  Segments[k].granularity \in Granularities
  <1> DEFINE position == Segments[k].first
             here == Among(OfInterest, FreshAt(position, OfInterest))
  <1>1. Segments # << >>
    OBVIOUS
  <1>2. PICK T : States \in Seq(T)
    BY StatesAre
  <1>3. position \in Segments[k].first..Segments[k].last
    BY <1>1, <1>2, SegmentsAreTiled, SegmentIsSome
  <1>4. TellsOf(Segments[k], Observed(here, Now))
    <2> HIDE DEF position
    <2> QED BY <1>3, SegmentTells
  <1>5. here # << >> => Finest(here) \in Granularities
    <2> HIDE DEF position
    <2> QED BY FinestHere
  <1> HIDE DEF here
  <1>6. "Unknown" \in Granularities
    BY FinenessIs
  <1> QED BY <1>4, <1>5, <1>6, ObservedIs DEF TellsOf

(* The achieved granularity, by hops.                                      *)
LEMMA AchievedIs ==
    ASSUME NEW A, NEW segments \in Seq(A),
           \A k \in DOMAIN segments : segments[k].granularity \in Granularities,
           NEW finest \in Granularities, NEW request, request.cap \in Granularities
    PROVE  /\ Achieved(segments, finest, request) \in Granularities
           /\ ~FinerThan(Achieved(segments, finest, request), finest)
           /\ ~FinerThan(Achieved(segments, finest, request), request.cap)
  <1> DEFINE wanted == {s \in ToSet(segments) : s.kind = "Observed"}
             observed == Among(segments, wanted)
             reached == Finest(observed)
             own == IF reached = "Unknown" THEN "Flow" ELSE reached
             limit == CoarserOf(request.cap, finest)
             achieved == CoarserOf(own, limit)
  <1>1. Achieved(segments, finest, request) = achieved
    BY DEF Achieved
  <1>2. \A s \in ToSet(observed) : s.granularity \in Granularities
    <2> HIDE DEF wanted
    <2>1. ToSet(observed) = ToSet(segments) \cap wanted
      BY AmongIs
    <2> QED BY <2>1 DEF ToSet
  <1>3. reached \in Granularities
    <2> HIDE DEF observed
    <2> QED BY <1>2, FinestIs
  <1>4. own \in Granularities
    <2> HIDE DEF reached
    <2> QED BY <1>3, FinenessIs
  <1>5. limit \in Granularities /\ ~FinerThan(limit, request.cap) /\ ~FinerThan(limit, finest)
    BY CoarserIs
  <1> HIDE DEF own, limit
  <1>6. achieved \in Granularities /\ ~FinerThan(achieved, limit)
    BY <1>4, <1>5, CoarserIs
  <1> HIDE DEF achieved
  <1>7. ~FinerThan(achieved, request.cap) /\ ~FinerThan(achieved, finest)
    BY <1>5, <1>6, FinerOnwards
  <1> QED BY <1>1, <1>6, <1>7

(* The three kinds of answers.                                             *)
Wholly(said, aggregate, finest, cap) ==
    \E granularity, hops :
        /\ said.segments = <<WholeSegment(aggregate, granularity, hops)>>
        /\ granularity \in Granularities
        /\ ~FinerThan(granularity, finest)
        /\ said.achieved \in Granularities
        /\ finest # "Unknown" /\ cap # "Unknown" =>
              ~FinerThan(said.achieved, finest) /\ ~FinerThan(said.achieved, cap)

Bounded(achieved, finest, cap) ==
    achieved \in Granularities /\ ~FinerThan(achieved, finest) /\ ~FinerThan(achieved, cap)

(* An answer has no segment, is of the whole, or is by hops.               *)
LEMMA AnswersAre ==
    ASSUME IInv, answer.asked = "Location", NEW aggregate, NEW finest, NEW cap,
           aggregate = Classify(OfInterest, Now),
           finest = Finest(Admissible(OfInterest, Now)), cap = answer.request.cap
    PROVE  \/ Segments = << >> /\ answer.location.achieved = "Unknown"
           \/ Wholly(answer.location, aggregate, finest, cap)
           \/ ByHops /\ Bounded(answer.location.achieved, finest, cap)
  <1> DEFINE admitted == Admissible(OfInterest, Now)
             request  == Effective(answer.request)
             said     == answer.location
             hops     == Len(topology.hops)
  <1>1. /\ answer.request \in Requests
        /\ said = Located(aggregate, admitted, request, topology, Now)
    BY LocationGiven
  <1>2. request.cap = cap /\ cap \in Granularities /\ finest \in Granularities
    BY <1>1, RequestIs, FinestOfInterest
  <1>3. Segments = said.segments /\ finest = Finest(admitted)
        /\ States = HopStates(admitted, request, topology, Now)
    BY DEF Segments, States
  <1> HIDE DEF request, said, admitted
  <1>4. Outcome(said, aggregate, admitted, request, topology, Now)
    BY <1>1, LocatedIs
  <1>5. CASE said = Result(aggregate, "Unknown", << >>, "Unknown", TRUE, FALSE)
    <2>1. said.segments = << >> /\ said.achieved = "Unknown"
      BY <1>5 DEF Result
    <2> QED BY <1>3, <2>1 DEF said
  <1> DEFINE limit == CoarserOf(cap, finest)
             whole == CoarserOf(limit, "Flow")
  <1>6. limit \in Granularities /\ ~FinerThan(limit, cap) /\ ~FinerThan(limit, finest)
    BY <1>2, CoarserIs
  <1>7. whole \in Granularities /\ ~FinerThan(whole, finest)
    <2> HIDE DEF limit
    <2>1. "Flow" \in Granularities
      BY FinenessIs
    <2>2. whole \in Granularities /\ ~FinerThan(whole, limit)
      BY <1>6, <2>1, CoarserIs
    <2> HIDE DEF whole
    <2> QED BY <1>2, <1>6, <2>2, FinerOnwards
  <1>8. CASE said = FlowAnswer(aggregate, finest, request)
    <2>1. /\ said.segments = <<WholeSegment(aggregate, whole, 0)>>
          /\ said.achieved = "Flow"
      BY <1>2, <1>8 DEF FlowAnswer, Result
    <2>2. "Flow" \in Granularities
          /\ \A g \in Granularities : g # "Unknown" => ~FinerThan("Flow", g)
      BY FinenessIs DEF FinerThan
    <2> HIDE DEF whole
    <2>3. Wholly(said, aggregate, finest, cap)
      BY <1>2, <1>7, <2>1, <2>2 DEF Wholly
    <2> QED BY <2>3 DEF said
  <1>9. CASE said = PathAnswer(aggregate, finest, request, hops)
    <2>1. /\ said.segments = <<WholeSegment(aggregate, limit, hops)>>
          /\ said.achieved = limit
      BY <1>2, <1>9 DEF PathAnswer, Result
    <2> HIDE DEF limit, hops
    <2>2. Wholly(said, aggregate, finest, cap)
      BY <1>6, <2>1 DEF Wholly
    <2> QED BY <2>2 DEF said
  <1>10. CASE /\ ~(hops < 2)
              /\ said = ByHop(aggregate, admitted, RunSegments(States), request, topology)
    <2>1. /\ Tiled(Segments, said.truncated, States) /\ ByHops
      BY <1>10, ByHopIsTiled DEF said, admitted, request
    <2>2. said.achieved = Achieved(said.segments, finest, request)
      <3> DEFINE segments ==
                     [k \in DOMAIN FirstOf(RunSegments(States), SegmentLimit(request)) |->
                         Attributed(RunSegments(States)[k], admitted, request, topology)]
                 cut == Len(RunSegments(States)) > SegmentLimit(request)
      <3>1. said = HopAnswer(aggregate, finest, request, segments, cut)
        BY <1>3, <1>10, Zenon DEF ByHop
      <3> HIDE DEF segments, cut
      <3> QED BY <3>1 DEF HopAnswer, Result
    <2>3. \A k \in DOMAIN Segments : Segments[k].granularity \in Granularities
      BY <2>1, SegmentGranularity
    <2>4. PICK A : Segments \in Seq(A)
      BY <2>1 DEF Tiled
    <2>5. Bounded(said.achieved, finest, cap)
      BY <1>2, <1>3, <2>2, <2>3, <2>4, AchievedIs DEF Bounded
    <2> QED BY <2>1, <2>5 DEF said
  <1> QED BY <1>3, <1>4, <1>5, <1>8, <1>9, <1>10 DEF Outcome

(* No segment claims to be finer than the fresh evidence at each of its    *)
(* hops, nor the answer than any fresh evidence or what was asked for      *)
(* (Localizer::localize; localize.hpp:114).                                *)
THEOREM NothingEverFiner ==
    Spec => []NothingFinerThanEvidence
  <1>1. ASSUME IInv PROVE NothingFinerThanEvidence
    <2> SUFFICES ASSUME answer.asked = "Location" PROVE NothingFinerThanEvidence
      BY DEF NothingFinerThanEvidence
    <2> DEFINE finest == Finest(Admissible(OfInterest, Now))
               cap == answer.request.cap
               aggregate == Classify(OfInterest, Now)
               Kept(k) ==
                  IF Segments[k].kind = "FlowWide"
                  THEN ~FinerThan(Segments[k].granularity, finest)
                  ELSE \A position \in Segments[k].first..Segments[k].last :
                          Segments[k].kind = "Observed" =>
                              \E o \in FreshAt(position, OfInterest) :
                                  ~FinerThan(Segments[k].granularity, o.granularity)
               Achieves == finest # "Unknown" /\ cap # "Unknown" =>
                              ~FinerThan(answer.location.achieved, CoarserOf(finest, cap))
    <2>1. NothingFinerThanEvidence <=> (\A k \in DOMAIN Segments : Kept(k)) /\ Achieves
      BY Zenon DEF NothingFinerThanEvidence
    <2>2. finest \in Granularities /\ cap \in Granularities
      BY <1>1, FinestOfInterest, LocationGiven, RequestIs
    <2>3. ASSUME answer.location.achieved \in Granularities,
                 finest # "Unknown" /\ cap # "Unknown" =>
                    /\ ~FinerThan(answer.location.achieved, finest)
                    /\ ~FinerThan(answer.location.achieved, cap)
          PROVE  Achieves
      <3> HIDE DEF finest, cap
      <3> QED BY <2>2, <2>3, CoarserEitherWay
    <2>4. CASE Segments = << >> /\ answer.location.achieved = "Unknown"
      <3>1. \A k \in DOMAIN Segments : Kept(k)
        BY <2>4
      <3>2. Achieves
        <4> HIDE DEF finest, cap
        <4> QED BY <2>2, <2>4, CoarserIs, NotFinerItself
      <3> QED BY <2>1, <3>1, <3>2
    <2>5. CASE Wholly(answer.location, aggregate, finest, cap)
      <3> HIDE DEF finest, cap, aggregate, Achieves
      <3>1. PICK granularity, hops :
                /\ Segments = <<WholeSegment(aggregate, granularity, hops)>>
                /\ ~FinerThan(granularity, finest)
                /\ answer.location.achieved \in Granularities
                /\ finest # "Unknown" /\ cap # "Unknown" =>
                      /\ ~FinerThan(answer.location.achieved, finest)
                      /\ ~FinerThan(answer.location.achieved, cap)
        BY <2>5 DEF Wholly, Segments
      <3>2. ASSUME NEW k \in DOMAIN Segments
            PROVE  Kept(k)
        <4>1. Segments[k] = WholeSegment(aggregate, granularity, hops)
          BY <3>1
        <4> QED BY <3>1, <4>1, WholeIs
      <3> HIDE DEF Kept
      <3> QED BY <2>1, <2>3, <3>1, <3>2
    <2>6. CASE ByHops /\ Bounded(answer.location.achieved, finest, cap)
      <3>1. ASSUME NEW k \in DOMAIN Segments,
                   NEW position \in Segments[k].first..Segments[k].last,
                   Segments[k].kind = "Observed"
            PROVE  \E o \in FreshAt(position, OfInterest) :
                        ~FinerThan(Segments[k].granularity, o.granularity)
        <4> DEFINE here == Among(OfInterest, FreshAt(position, OfInterest))
        <4>1. TellsOf(Segments[k], Observed(here, Now))
          BY <1>1, <2>6, SegmentTells
        <4>2. here # << >> =>
                \E o \in FreshAt(position, OfInterest) : ~FinerThan(Finest(here), o.granularity)
          BY <1>1, FinestHere
        <4> HIDE DEF here
        <4> QED BY <3>1, <4>1, <4>2, ObservedIs DEF TellsOf
      <3>2. \A k \in DOMAIN Segments : Kept(k)
        <4> HIDE DEF finest
        <4> QED BY <2>6, <3>1 DEF ByHops
      <3> HIDE DEF finest, cap, Achieves, Kept
      <3> QED BY <2>1, <2>3, <2>6, <3>2 DEF Bounded
    <2> HIDE DEF Achieves, Kept
    <2> QED BY <1>1, <2>4, <2>5, <2>6, AnswersAre
  <1> QED BY <1>1, Invariance, PTL

-----------------------------------------------------------------------------
(* The numbers of an answer.                                               *)

(* A tally counts in words, and its ratio is one.                          *)
LEMMA TallyIs ==
    ASSUME NEW S, Counting(S), NEW observations \in Seq(S)
    PROVE  /\ Tally(observations).lost \in Words /\ Tally(observations).offered \in Words
           /\ TallyRatio(Tally(observations)) \in 0..Scale
  <1> DEFINE tally == Tally(observations)
  <1>1. tally.lost \in Words /\ tally.offered \in Words
    BY TotalsAre DEF Tally, Totals, TotalsType
  <1> HIDE DEF tally
  <1>2. tally.lost \in Nat /\ tally.offered \in Nat
    BY <1>1, WordsAre
  <1>3. TallyRatio(tally) \in 0..Scale
    <2>1. ASSUME RatioDefined(tally)
          PROVE  BasisPoints(tally.lost, tally.offered) \in 0..Scale
      <3>1. tally.offered > 0
        BY <2>1, Zenon DEF RatioDefined
      <3>2. tally.offered \in Nat \ {0}
        BY <1>2, <3>1
      <3> QED BY <1>2, <3>2, BasisPointsAre
    <2>2. 0 \in 0..Scale
      BY ArithmeticAssumption
    <2> QED BY <2>1, <2>2, Zenon DEF TallyRatio
  <1> QED BY <1>1, <1>3 DEF tally

(* What a conclusion reports of a tally are words and a ratio.             *)
LEMMA ConclusionCounts ==
    ASSUME NEW admitted, NEW tally, NEW claims, NEW conflict, NEW klass, NEW score,
           tally.lost \in Words, tally.offered \in Words, TallyRatio(tally) \in 0..Scale
    PROVE  /\ Conclusion(admitted, tally, claims, conflict, klass, score).lost \in Words
           /\ Conclusion(admitted, tally, claims, conflict, klass, score).offered \in Words
           /\ Conclusion(admitted, tally, claims, conflict, klass, score).ratio_bp \in 0..Scale
           /\ Conclusion(admitted, tally, claims, conflict, klass, score).score = score
  <1> DEFINE ratio == TallyRatio(tally)
             forestalled == admitted = << >> \/ (conflict.conflicted /\ ~conflict.resolved)
             said == Conclusion(admitted, tally, claims, conflict, klass, score)
  <1>1. 0 \in Words /\ 0 \in 0..Scale
    BY WordsAre, ArithmeticAssumption
  <1>2. /\ said.lost = IF forestalled THEN 0 ELSE tally.lost
        /\ said.offered = IF forestalled THEN 0 ELSE tally.offered
        /\ said.ratio_bp = IF forestalled THEN 0 ELSE ratio
        /\ said.score = score
    BY DEF Conclusion
  <1> HIDE DEF said, forestalled, ratio
  <1>3. /\ said.lost \in Words /\ said.offered \in Words /\ said.ratio_bp \in 0..Scale
        /\ said.score = score
    BY <1>1, <1>2 DEF ratio
  <1> QED BY <1>3 DEF said

(* The points are whole numbers, however they are given.                   *)
LEMMA PointsAre ==
    ASSUME NEW condition, NEW points \in Int
    PROVE  When(condition, points) \in Seq(Int)
  <1>1. <<points>> \in Seq(Int) /\ << >> \in Seq(Int)
    OBVIOUS
  <1> QED BY <1>1 DEF When

(* Four lists of points joined are a list of points.                       *)
LEMMA JoinedPoints ==
    ASSUME NEW a \in Seq(Int), NEW b \in Seq(Int), NEW c \in Seq(Int), NEW d \in Seq(Int)
    PROVE  a \o b \o c \o d \in Seq(Int)
  <1> DEFINE two == a \o b
             three == two \o c
  <1>1. two \in Seq(Int)
    BY ConcatProperties
  <1> HIDE DEF two
  <1>2. three \in Seq(Int)
    BY <1>1, ConcatProperties
  <1> HIDE DEF three
  <1>3. three \o d \in Seq(Int)
    BY <1>2, ConcatProperties
  <1> QED BY <1>3 DEF three, two

(* The terms of a confidence are integers.                                 *)
LEMMA TermsAre ==
    ASSUME NEW observations, NEW context, NEW tally, NEW klass, NEW claims, NEW conflict
    PROVE  ConfidenceTerms(observations, context, tally, klass, claims, conflict) \in Seq(Int)
  <1> DEFINE states   == Summary(observations, context)
             covered  == Covered(tally, LossPolicy.min_offered_for_confirmation)
             agreeing == {c \in claims : c.klass = klass}
             first  == When("Fresh" \in states, 25)
                          \o When(covered, 30) \o When(tally.valid_ratio /\ ~covered, 5)
                          \o When(tally.valid_direct, 20)
             second == first \o When(Cardinality(agreeing) > 1, 15)
                          \o When(conflict.resolved, 10)
                          \o When(conflict.conflicted /\ ~conflict.resolved, -30)
             third  == second \o When("Stale" \in states, -15)
                          \o When("NotCurrent" \in states, -25)
                          \o When(tally.discontinuity, -20)
             fourth == third \o When(tally.implausible, -20) \o When(tally.unsupported, -20)
                          \o When(context.bounded, -10)
  <1>1. ASSUME NEW condition, NEW points \in {25, 30, 5, 20, 15, 10, -30, -15, -25, -20, -10, -5}
        PROVE  When(condition, points) \in Seq(Int)
    BY PointsAre
  <1>2. first \in Seq(Int)
    BY <1>1, JoinedPoints
  <1> HIDE DEF first
  <1>3. second \in Seq(Int)
    BY <1>1, <1>2, JoinedPoints
  <1> HIDE DEF second
  <1>4. third \in Seq(Int)
    BY <1>1, <1>3, JoinedPoints
  <1> HIDE DEF third
  <1>5. fourth \in Seq(Int)
    BY <1>1, <1>4, JoinedPoints
  <1> HIDE DEF fourth
  <1>6. ASSUME NEW x \in Seq(Int), NEW y \in Seq(Int)
        PROVE  x \o y \in Seq(Int)
    BY <1>6, ConcatProperties
  <1>7. ConfidenceTerms(observations, context, tally, klass, claims, conflict)
            = fourth \o When(Len(observations) > LossPolicy.max_evidence_ids, -5)
                 \o When(tally.saturated, -10)
    BY DEF ConfidenceTerms, fourth, third, second, first
  <1> DEFINE many == When(Len(observations) > LossPolicy.max_evidence_ids, -5)
             full == When(tally.saturated, -10)
             most == fourth \o many
  <1>8. many \in Seq(Int) /\ full \in Seq(Int)
    BY <1>1
  <1> HIDE DEF many, full
  <1>9. most \in Seq(Int)
    BY <1>5, <1>6, <1>8
  <1> HIDE DEF most
  <1>10. most \o full \in Seq(Int)
    BY <1>6, <1>8, <1>9
  <1> QED BY <1>7, <1>10 DEF most, many, full

(* A score is between nothing and a hundred.                               *)
LEMMA ScoreIs ==
    ASSUME NEW terms \in Seq(Int), NEW klass
    PROVE  Score(terms, klass) \in 0..100
  <1> DEFINE some == FirstOf(terms, LossPolicy.max_confidence_terms)
             counted == FoldLeft(+, 0, some)
             limit == IF \/ AssertsLoss(klass) \/ AssertsAbsence(klass)
                         \/ klass = "ConflictingEvidence"
                      THEN 100 ELSE 10
  <1>1. LossPolicy.max_confidence_terms \in Nat
    BY LossPolicyAssumption
  <1>2. some \in Seq(Int)
    BY <1>1, FirstOfIs
  <1>3. counted \in Int
    <2> HIDE DEF some
    <2> QED BY <1>2, SumIsInteger
  <1>4. Score(terms, klass) = IF counted < 0 THEN 0 ELSE Smaller(counted, limit)
    BY Zenon DEF Score
  <1>5. limit \in {10, 100}
    OBVIOUS
  <1> HIDE DEF counted, limit
  <1>6. (IF counted < 0 THEN 0 ELSE Smaller(counted, limit)) \in 0..100
    BY <1>3, <1>5 DEF Smaller
  <1> QED BY <1>4, <1>6

(* So the numbers of a verdict are words, a ratio and a score.             *)
LEMMA ClassifiedIs ==
    ASSUME NEW S, Counting(S), NEW observations \in Seq(S), NEW context
    PROVE  /\ Classify(observations, context).lost \in Words
           /\ Classify(observations, context).offered \in Words
           /\ Classify(observations, context).ratio_bp \in 0..Scale
           /\ Classify(observations, context).score \in 0..100
  <1> DEFINE admitted == Admissible(observations, context)
             tally    == Tally(admitted)
             claims   == ClaimsFor(observations, context)
             conflict == Evaluate({c \in claims : c.fresh})
             klass    == Judgement(observations, admitted, tally, conflict)
             terms    == ConfidenceTerms(observations, context, tally, klass,
                                         {c \in claims : c.fresh}, conflict)
             score    == Score(terms, klass)
  <1>1. Classify(observations, context)
            = Conclusion(admitted, tally, claims, conflict, klass, score)
    BY Zenon DEF Classify, ClassifyBy, Judged
  <1>2. admitted \in Seq(S)
    BY AdmissibleIs
  <1> HIDE DEF admitted
  <1>3. /\ tally.lost \in Words /\ tally.offered \in Words /\ TallyRatio(tally) \in 0..Scale
    BY <1>2, TallyIs
  <1> HIDE DEF tally, claims, conflict, klass
  <1>4. terms \in Seq(Int)
    BY TermsAre
  <1> HIDE DEF terms
  <1>5. score \in 0..100
    BY <1>4, ScoreIs
  <1> HIDE DEF score
  <1> DEFINE said == Conclusion(admitted, tally, claims, conflict, klass, score)
  <1>6. /\ said.lost \in Words /\ said.offered \in Words
        /\ said.ratio_bp \in 0..Scale /\ said.score = score
    BY <1>3, ConclusionCounts
  <1> HIDE DEF said
  <1>7. Classify(observations, context) = said
    BY <1>1 DEF said
  <1> QED BY <1>5, <1>6, <1>7

(* The types of all that is kept, and of the numbers of every answer.      *)
THEOREM TypeCorrect ==
    Spec => []TypeOK
  <1>1. ASSUME IInv PROVE TypeOK
    <2> DEFINE Whole(said) == /\ {said.lost, said.offered} \subseteq Words
                              /\ said.ratio_bp \in 0..Scale
                              /\ said.score \in 0..100
               Parts == \A k \in DOMAIN Segments :
                            {Segments[k].lost, Segments[k].offered} \subseteq Words
               S == Derived(held)
    <2>1. {i.id : i \in held} \subseteq {i.id : i \in Evidence}
          /\ expired \subseteq {i.id : i \in held}
      BY <1>1 DEF IInv, Ids
    <2>2. Counting(S) /\ "Unknown" \in Granularities
      BY <1>1, Behind, FinenessIs
    <2>3. ASSUME answer.asked = "Class"
          PROVE  Whole(answer.verdict)
      <3> DEFINE selected == Selected(Derive(held), answer.subject)
                 bounded  == Derive(held).truncated
                 said     == Classify(selected, Context(bounded))
      <3>1. answer.verdict = said
        BY <1>1, <2>3 DEF IInv, Answered, Classified
      <3>2. selected \in Seq(S)
        BY <1>1, SelectedIs
      <3> HIDE DEF selected, bounded, S
      <3>3. /\ said.lost \in Words /\ said.offered \in Words
            /\ said.ratio_bp \in 0..Scale /\ said.score \in 0..100
        BY <2>2, <3>2, ClassifiedIs
      <3> HIDE DEF said
      <3> QED BY <3>1, <3>3
    <2>4. ASSUME answer.asked = "Location"
          PROVE  answer.location.achieved \in Granularities /\ Parts
      <3> DEFINE aggregate == Classify(OfInterest, Now)
                 finest == Finest(Admissible(OfInterest, Now))
                 cap == answer.request.cap
      <3>1. OfInterest \in Seq(S)
        BY <1>1, <2>4, LocationGiven
      <3> HIDE DEF S
      <3>2. aggregate.lost \in Words /\ aggregate.offered \in Words
        BY <2>2, <3>1, ClassifiedIs
      <3>3. CASE Segments = << >> /\ answer.location.achieved = "Unknown"
        BY <2>2, <3>3
      <3>4. CASE Wholly(answer.location, aggregate, finest, cap)
        <4> HIDE DEF aggregate, finest, cap
        <4>1. PICK granularity, hops :
                  /\ Segments = <<WholeSegment(aggregate, granularity, hops)>>
                  /\ answer.location.achieved \in Granularities
          BY <3>4 DEF Wholly, Segments
        <4>2. ASSUME NEW k \in DOMAIN Segments
              PROVE  Segments[k] = WholeSegment(aggregate, granularity, hops)
          BY <4>1
        <4> QED BY <3>2, <4>1, <4>2, WholeIs
      <3>5. CASE ByHops /\ Bounded(answer.location.achieved, finest, cap)
        <4>1. Segments # << >> => Tiled(Segments, answer.location.truncated, States)
          BY <1>1, <2>4, <3>5, SegmentsAreTiled
        <4>2. ASSUME NEW k \in DOMAIN Segments
              PROVE  Segments[k].lost \in Words /\ Segments[k].offered \in Words
          <5>1. Segments # << >>
            OBVIOUS
          <5> QED BY <4>1, <5>1 DEF Tiled
        <4> QED BY <3>5, <4>2 DEF Bounded
      <3> HIDE DEF aggregate, finest, cap, Parts
      <3> QED BY <1>1, <2>4, <3>3, <3>4, <3>5, AnswersAre DEF aggregate, finest, cap
    <2> QED BY <2>1, <2>3, <2>4 DEF TypeOK, Segments
  <1> QED BY <1>1, Invariance, PTL
===============================================================================
