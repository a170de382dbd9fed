-------------------------------- MODULE Conflict --------------------------------
(***************************************************************************)
(* Disagreement between sources (src/src/conflict.cpp).  A claim is what   *)
(* one source says: a record of its source, authority, class, whether it   *)
(* is fresh, and its ratio.  The classifier makes one claim per source, so *)
(* the claims given are of distinct sources.                               *)
(*                                                                         *)
(* Abstracted: the texts, and the retained list, which is all claims but   *)
(* the authoritative one.                                                  *)
(***************************************************************************)
EXTENDS Ordering

CONSTANT LossPolicy     \* the LossPolicy, without its freshness policy

ASSUME LossPolicyAssumption ==
    LossPolicy \in [confirmed_ratio_bp : Nat, suspected_ratio_bp : Nat,
                    min_offered_for_confirmation : Nat, min_offered_for_absence : Nat,
                    conflict_tolerance_bp : Nat, direct_loss_counter_confirms : BOOLEAN,
                    max_evidence_ids : Nat, max_confidence_terms : Nat]

AuthorityRank == [None |-> 0, Advisory |-> 1, Secondary |-> 2, Primary |-> 3]

AssertsLoss(klass)    == klass \in {"ConfirmedLoss", "SuspectedLoss"}
AssertsAbsence(klass) == klass = "NoLossObserved"

-----------------------------------------------------------------------------
ClassDiverges(a, b) ==
    \/ AssertsLoss(a.klass) /\ AssertsAbsence(b.klass)
    \/ AssertsLoss(b.klass) /\ AssertsAbsence(a.klass)

RatioDiverges(a, b) ==
    /\ a.ratio_defined /\ b.ratio_defined
    /\ \/ a.ratio_bp - b.ratio_bp > LossPolicy.conflict_tolerance_bp
       \/ b.ratio_bp - a.ratio_bp > LossPolicy.conflict_tolerance_bp

(* ConflictDetector::incompatible.                                         *)
Incompatible(a, b) ==
    /\ a.fresh /\ b.fresh
    /\ ClassDiverges(a, b) \/ RatioDiverges(a, b)

(* The claims of the highest authority.                                    *)
Foremost(claims) ==
    {c \in claims : \A other \in claims :
        AuthorityRank[other.authority] <= AuthorityRank[c.authority]}

RatioSpread(claims) ==
    LET ratios == {c.ratio_bp : c \in {k \in claims : k.ratio_defined}}
    IN  IF ratios = {} THEN 0
        ELSE CHOOSE spread \in {h - l : h, l \in ratios} :
                \A h, l \in ratios : h - l <= spread

NoConflict ==
    [conflicted |-> FALSE, basis |-> "None", resolved |-> FALSE, authoritative |-> {},
     ratio_spread_bp |-> 0]

(* A plausible bug: the first of the tied sources is taken to outrank the  *)
(* others.                                                                 *)
EvaluateFirstWins(claims) ==
    LET fresh == {c \in claims : c.fresh}
        top   == Foremost(fresh)
    IN  IF ~\E a, b \in fresh : Incompatible(a, b) THEN NoConflict
        ELSE [conflicted |-> TRUE, basis |-> "ClassDivergence",
              resolved |-> \A c \in top : c.authority # "None",
              authoritative |-> {c.source : c \in top},
              ratio_spread_bp |-> RatioSpread(fresh)]

(* ConflictDetector::evaluate.  Only an authority that nobody else has     *)
(* resolves a disagreement.                                                *)
Evaluate(claims) ==
    LET fresh    == {c \in claims : c.fresh}
        top      == Foremost(fresh)
        resolved == Cardinality(top) = 1 /\ \A c \in top : c.authority # "None"
    IN  IF ~\E a, b \in fresh : Incompatible(a, b) THEN NoConflict
        ELSE [conflicted |-> TRUE,
              basis |-> IF \E a, b \in fresh : ClassDiverges(a, b)
                        THEN "ClassDivergence" ELSE "RatioDivergence",
              resolved |-> resolved,
              authoritative |-> IF resolved THEN {c.source : c \in top} ELSE {},
              ratio_spread_bp |-> RatioSpread(fresh)]

===============================================================================
