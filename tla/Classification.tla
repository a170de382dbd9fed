----------------------------- MODULE Classification -----------------------------
(***************************************************************************)
(* The verdict about a subject (src/src/classify.cpp): the observations    *)
(* that are admissible now are added up, for each source and for all of    *)
(* them together; sources that contradict one another stop the verdict     *)
(* unless one outranks the rest; and a fixed ladder names a class.         *)
(*                                                                         *)
(* A context says which evidence is no longer current (the ladder of       *)
(* module Freshness; an observation is as current as the item it is dated  *)
(* by), what authority each source has, and whether a bound was reached.   *)
(* Abstracted: reasons, rationale and summary, which no decision reads,    *)
(* and the identifiers of evidence, of which the truncation is kept.       *)
(***************************************************************************)
EXTENDS CheckedArithmetic, Conflict, SequencesExt

-----------------------------------------------------------------------------
(* Tally.                                                                  *)

NoTotals == [lost |-> 0, offered |-> 0, saturated |-> FALSE]

IsDirect(o) == o.validity = "Valid" /\ o.semantics = "DirectLoss"
IsRatio(o)  == o.validity = "Valid" /\ o.semantics = "RatioLoss"

(* tally_observation, the totals.  Direct counts and ratios go into one    *)
(* total of losses; only ratios bring something they are a part of.        *)
Totalled(t, o) ==
    IF IsDirect(o)
    THEN [t EXCEPT !.lost = SaturatingSum(@, o.lost),
                   !.saturated = @ \/ Overflows(t.lost, o.lost)]
    ELSE IF ~(IsRatio(o) /\ o.ratio_defined) THEN t
    ELSE IF Overflows(t.lost, o.lost) \/ Overflows(t.offered, o.offered)
         THEN [lost |-> Top, offered |-> Top, saturated |-> TRUE]
         ELSE [t EXCEPT !.lost = @ + o.lost, !.offered = @ + o.offered]

(* A plausible bug: a counter that stood still counts as one that moved.   *)
TallyStatic(observations) ==
    LET all == ToSet(observations)
        has(validities) == \E o \in all : o.validity \in validities
        totals == FoldLeft(Totalled, NoTotals, observations)
    IN  [lost |-> totals.lost, offered |-> totals.offered, saturated |-> totals.saturated,
         valid_direct    |-> \E o \in all : IsDirect(o),
         direct_positive |-> \E o \in all : IsDirect(o) /\ o.lost >= 0,
         ratio_seen      |-> \E o \in all : IsRatio(o),
         valid_ratio     |-> \E o \in all : IsRatio(o) /\ o.ratio_defined,
         discontinuity   |-> has({"Discontinuity"}),
         implausible     |-> has({"Implausible"}),
         unsupported     |-> has({"UnsupportedMethod", "UnsupportedPrecondition"})]

(* tally_observation, over all the observations.                           *)
Tally(observations) ==
    LET all == ToSet(observations)
        has(validities) == \E o \in all : o.validity \in validities
        totals == FoldLeft(Totalled, NoTotals, observations)
    IN  [lost |-> totals.lost, offered |-> totals.offered, saturated |-> totals.saturated,
         valid_direct    |-> \E o \in all : IsDirect(o),
         direct_positive |-> \E o \in all : IsDirect(o) /\ o.lost > 0,
         ratio_seen      |-> \E o \in all : IsRatio(o),
         valid_ratio     |-> \E o \in all : IsRatio(o) /\ o.ratio_defined,
         discontinuity   |-> has({"Discontinuity"}),
         implausible     |-> has({"Implausible"}),
         unsupported     |-> has({"UnsupportedMethod", "UnsupportedPrecondition"})]

LossCapable(tally) == tally.valid_direct \/ tally.valid_ratio

RatioDefined(tally) == tally.valid_ratio /\ tally.offered > 0

TallyRatio(tally) ==
    IF RatioDefined(tally) THEN BasisPoints(tally.lost, tally.offered) ELSE 0

Covered(tally, minimum) == tally.valid_ratio /\ tally.offered >= minimum

-----------------------------------------------------------------------------
(* The two ladders.                                                        *)

Confirmed(tally) ==
    \/ /\ Covered(tally, LossPolicy.min_offered_for_confirmation)
       /\ TallyRatio(tally) >= LossPolicy.confirmed_ratio_bp
    \/ tally.direct_positive /\ LossPolicy.direct_loss_counter_confirms

ZeroCovered(tally) ==
    Covered(tally, LossPolicy.min_offered_for_absence) /\ TallyRatio(tally) = 0

(* What is said when nothing admissible can speak of loss.                 *)
Unspoken(tally) ==
    IF tally.discontinuity THEN "Discontinuity"
    ELSE IF tally.implausible THEN "ImplausibleEvidence"
    ELSE IF tally.unsupported THEN "UnsupportedMethod"
    ELSE "IncompleteEvidence"

(* claims_for: what the evidence of one source asserts.                    *)
ClaimClass(tally) ==
    IF ~LossCapable(tally) THEN Unspoken(tally)
    ELSE IF Confirmed(tally) THEN "ConfirmedLoss"
    ELSE IF TallyRatio(tally) > 0 \/ tally.direct_positive THEN "SuspectedLoss"
    ELSE IF ZeroCovered(tally) \/ (tally.valid_direct /\ ~tally.ratio_seen)
         THEN "NoLossObserved"
    ELSE "IncompleteEvidence"

(* A plausible bug: a covered ratio of zero settles it, whatever a counter *)
(* of drops says.                                                          *)
VerdictZeroFirst(tally) ==
    IF ~LossCapable(tally) THEN Unspoken(tally)
    ELSE IF ZeroCovered(tally) THEN "NoLossObserved"
    ELSE IF Confirmed(tally) THEN "ConfirmedLoss"
    ELSE IF TallyRatio(tally) > 0 \/ tally.direct_positive THEN "SuspectedLoss"
    ELSE IF tally.valid_direct THEN "NoLossObserved"
    ELSE "IncompleteEvidence"

(* The ladder of classify, below absence, staleness and conflict.          *)
VerdictClass(tally) ==
    IF ~LossCapable(tally) THEN Unspoken(tally)
    ELSE IF Confirmed(tally) THEN "ConfirmedLoss"
    ELSE IF \/ TallyRatio(tally) > 0 /\ TallyRatio(tally) >= LossPolicy.suspected_ratio_bp
            \/ tally.direct_positive
         THEN "SuspectedLoss"
    ELSE IF ZeroCovered(tally) \/ tally.valid_direct THEN "NoLossObserved"
    ELSE "IncompleteEvidence"

-----------------------------------------------------------------------------
(* assess_freshness, by outcome.                                           *)
FreshnessOf(o, context) ==
    IF o.recovered THEN "NotCurrent"
    ELSE IF o.evidence_id \in context.expired THEN "Stale"
    ELSE "Fresh"

Fresh(o, context) == FreshnessOf(o, context) = "Fresh"

(* Which states of freshness occur; the counts are only reported.          *)
Summary(observations, context) == {FreshnessOf(o, context) : o \in ToSet(observations)}

(* A plausible bug: all that is held is admitted, if any of it is fresh.   *)
AdmittedWithTheRest(observations, context) ==
    IF \E i \in DOMAIN observations : Fresh(observations[i], context) THEN observations ELSE << >>

(* The elements of a sequence that are wanted, in its order.               *)
Among(sequence, wanted) ==
    FoldLeft(LAMBDA kept, x : IF x \in wanted THEN Append(kept, x) ELSE kept, << >>, sequence)

(* The admissible observations.                                            *)
Admissible(observations, context) ==
    Among(observations, {o \in ToSet(observations) : Fresh(o, context)})

(* What one source contributed.                                            *)
OfSource(observations, source) ==
    Among(observations, {o \in ToSet(observations) : o.source = source})

Claim(source, observations, context) ==
    LET admitted == Admissible(OfSource(observations, source), context)
        tally    == Tally(admitted)
    IN  [source |-> source, authority |-> context.authority[source],
         fresh |-> admitted # << >>,
         klass |-> IF admitted = << >> THEN "StaleEvidence" ELSE ClaimClass(tally),
         lost |-> tally.lost, offered |-> tally.offered,
         ratio_defined |-> RatioDefined(tally), ratio_bp |-> TallyRatio(tally)]

(* claims_for.                                                             *)
ClaimsFor(observations, context) ==
    {Claim(source, observations, context) : source \in {o.source : o \in ToSet(observations)}}

-----------------------------------------------------------------------------
(* Attribution.                                                            *)

When(condition, points) == IF condition THEN <<points>> ELSE << >>

(* band_for_score.                                                         *)
Band(score) ==
    IF score >= 80 THEN "VeryHigh" ELSE IF score >= 60 THEN "High"
    ELSE IF score >= 40 THEN "Moderate" ELSE IF score >= 20 THEN "Low"
    ELSE IF score >= 1 THEN "VeryLow" ELSE "None"

(* The points for and against, in the order they are added.                *)
ConfidenceTerms(observations, context, tally, klass, fresh_claims, conflict) ==
    LET states == Summary(observations, context)
        covered == Covered(tally, LossPolicy.min_offered_for_confirmation)
        agreeing == {c \in fresh_claims : c.klass = klass}
    IN  When("Fresh" \in states, 25)
            \o When(covered, 30) \o When(tally.valid_ratio /\ ~covered, 5)
            \o When(tally.valid_direct, 20)
            \o When(Cardinality(agreeing) > 1, 15)
            \o When(conflict.resolved, 10)
            \o When(conflict.conflicted /\ ~conflict.resolved, -30)
            \o When("Stale" \in states, -15) \o When("NotCurrent" \in states, -25)
            \o When(tally.discontinuity, -20) \o When(tally.implausible, -20)
            \o When(tally.unsupported, -20)
            \o When(context.bounded, -10)
            \o When(Len(observations) > LossPolicy.max_evidence_ids, -5)
            \o When(tally.saturated, -10)

(* A plausible bug: the points against may outweigh those for it.          *)
ScoreBelowZero(terms, klass) ==
    Smaller(FoldLeft(+, 0, FirstOf(terms, LossPolicy.max_confidence_terms)), 100)

(* A conclusion that asserts nothing is held with little confidence.       *)
Score(terms, klass) ==
    LET counted == FoldLeft(+, 0, FirstOf(terms, LossPolicy.max_confidence_terms))
        limit   == IF \/ AssertsLoss(klass) \/ AssertsAbsence(klass)
                      \/ klass = "ConflictingEvidence"
                   THEN 100 ELSE 10
    IN  IF counted < 0 THEN 0 ELSE Smaller(counted, limit)

-----------------------------------------------------------------------------
(* The class by what is left to judge by.                                  *)
Judgement(observations, admitted, tally, conflict) ==
    IF observations = << >> THEN "AbsentEvidence"
    ELSE IF admitted = << >> THEN "StaleEvidence"
    ELSE IF conflict.conflicted /\ ~conflict.resolved THEN "ConflictingEvidence"
    ELSE VerdictClass(tally)

(* Totals are reported only by a verdict that no absence, staleness or     *)
(* conflict forestalled.                                                   *)
Conclusion(admitted, tally, claims, conflict, klass, score) ==
    LET forestalled == admitted = << >> \/ (conflict.conflicted /\ ~conflict.resolved)
    IN  [klass |-> klass, claims |-> claims, conflict |-> conflict,
         lost |-> IF forestalled THEN 0 ELSE tally.lost,
         offered |-> IF forestalled THEN 0 ELSE tally.offered,
         ratio_defined |-> ~forestalled /\ RatioDefined(tally),
         ratio_bp |-> IF forestalled THEN 0 ELSE TallyRatio(tally),
         saturated |-> ~forestalled /\ tally.saturated,
         admitted |-> Len(admitted), score |-> score, band |-> Band(score)]

Judged(observations, context, admitted, tally, claims, conflict) ==
    LET klass == Judgement(observations, admitted, tally, conflict)
    IN  Conclusion(admitted, tally, claims, conflict, klass,
                   Score(ConfidenceTerms(observations, context, tally, klass,
                                         {c \in claims : c.fresh}, conflict), klass))

(* Only fresh claims can conflict.                                         *)
ClassifyBy(observations, context, admitted, claims) ==
    Judged(observations, context, admitted, Tally(admitted), claims,
           Evaluate({c \in claims : c.fresh}))

(* Classifier::classify.                                                   *)
Classify(observations, context) ==
    ClassifyBy(observations, context, Admissible(observations, context),
               ClaimsFor(observations, context))

===============================================================================
