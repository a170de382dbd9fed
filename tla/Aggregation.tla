------------------------------ MODULE Aggregation ------------------------------
(***************************************************************************)
(* The time buckets a query leaves behind (src/src/aggregate.cpp), and how *)
(* the engine feeds them: every query derives all observations again and   *)
(* adds those it has not added before (record_aggregates,                  *)
(* src/src/engine.cpp:402-415).                                            *)
(*                                                                         *)
(* A bucket is named by its window index.  Abstracted: its two instants    *)
(* and its hashed name, and the bound notes of the aggregator, of which    *)
(* eviction and truncation keep their flag or count.                       *)
(***************************************************************************)
EXTENDS Derivation

CONSTANTS
    AggregateLimits,     \* the AggregateLimits
    MaxAggregated        \* config_.store.max_items

ASSUME AggregateAssumption ==
    /\ AggregateLimits \in [max_windows : Nat, max_sources_per_window : Nat,
                            max_evidence_ids_per_window : Nat, window_width : Nat,
                            max_observations_per_window : Nat]
    /\ MaxAggregated \in Nat

(* class_severity.                                                         *)
Severity ==
    [Unknown |-> 0, NoLossObserved |-> 1, AbsentEvidence |-> 2, IncompleteEvidence |-> 3,
     StaleEvidence |-> 4, Discontinuity |-> 5, UnsupportedMethod |-> 6,
     ImplausibleEvidence |-> 7, ConflictingEvidence |-> 8, SuspectedLoss |-> 9,
     ConfirmedLoss |-> 10]

(* classify_single_observation: what one observation asserts by itself.    *)
SingleClass(o) ==
    CASE o.validity = "Discontinuity" -> "Discontinuity"
      [] o.validity = "Implausible" -> "ImplausibleEvidence"
      [] o.validity \in {"Insufficient", "UndefinedRatio"} -> "IncompleteEvidence"
      [] o.validity \in {"UnsupportedMethod", "UnsupportedPrecondition"} -> "UnsupportedMethod"
      [] o.validity = "Valid" /\ o.semantics = "DirectLoss" ->
            IF o.lost > 0 THEN "ConfirmedLoss" ELSE "NoLossObserved"
      [] o.validity = "Valid" /\ o.semantics = "RatioLoss" ->
            IF ~o.ratio_defined THEN "IncompleteEvidence"
            ELSE IF o.ratio_bp > 0 THEN "SuspectedLoss" ELSE "NoLossObserved"
      [] OTHER -> "IncompleteEvidence"

-----------------------------------------------------------------------------
NoAggregates ==
    [buckets |-> [w \in {} |-> 0], evicted |-> 0, ids |-> {}, bound_hit |-> FALSE]

EmptyBucket ==
    [lost |-> 0, offered |-> 0, offered_known |-> FALSE, ratio_defined |-> FALSE,
     ratio_bp |-> 0, observation_count |-> 0, direct_loss_observations |-> 0,
     saturated |-> FALSE, worst_class |-> "Unknown", sources |-> {},
     sources_truncated |-> FALSE, evidence_ids |-> << >>, evidence_ids_truncated |-> FALSE]

(* window_index rounds towards the past, before the epoch too.             *)
WindowIndex(at) ==
    LET width == AggregateLimits.window_width
    IN  at \div (IF width = 0 THEN 1 ELSE width)

WithObservation(bucket, o, klass) ==
    LET lost    == SaturatingSum(bucket.lost, o.lost)
        offered == SaturatingSum(bucket.offered, o.offered)
        full    == bucket.observation_count >= AggregateLimits.max_observations_per_window
        known   == o.source \in bucket.sources
        room    == Cardinality(bucket.sources) < AggregateLimits.max_sources_per_window
        keep_id == Len(bucket.evidence_ids) < AggregateLimits.max_evidence_ids_per_window
    IN  [lost |-> lost,
         offered |-> offered,
         offered_known |-> bucket.offered_known \/ o.offered_known,
         ratio_defined |-> bucket.ratio_defined \/ offered > 0,
         ratio_bp |-> IF offered > 0 THEN BasisPoints(lost, offered) ELSE bucket.ratio_bp,
         observation_count |-> bucket.observation_count + (IF full THEN 0 ELSE 1),
         direct_loss_observations |->
            bucket.direct_loss_observations + (IF o.semantics = "DirectLoss" THEN 1 ELSE 0),
         saturated |-> \/ bucket.saturated \/ full
                       \/ Overflows(bucket.lost, o.lost)
                       \/ Overflows(bucket.offered, o.offered),
         worst_class |-> IF Severity[klass] > Severity[bucket.worst_class]
                         THEN klass ELSE bucket.worst_class,
         sources |-> IF known \/ ~room THEN bucket.sources ELSE bucket.sources \cup {o.source},
         sources_truncated |-> bucket.sources_truncated \/ (~known /\ ~room),
         evidence_ids |-> IF keep_id THEN Append(bucket.evidence_ids, o.id)
                          ELSE bucket.evidence_ids,
         evidence_ids_truncated |-> bucket.evidence_ids_truncated \/ ~keep_id]

(* One more bucket than fits: the oldest goes, even if it is the one just  *)
(* touched.                                                                *)
OldestGone(buckets) ==
    [w \in DOMAIN buckets \ {Min(DOMAIN buckets)} |-> buckets[w]]

(* A plausible bug: a bucket too many is evicted with the next one only.   *)
AddedWithoutEviction(agg, o) ==
    LET window == WindowIndex(o.observed_at)
        bucket == IF window \in DOMAIN agg.buckets THEN agg.buckets[window] ELSE EmptyBucket
    IN  [agg EXCEPT !.buckets = [w \in DOMAIN agg.buckets \cup {window} |->
                                    IF w = window THEN WithObservation(bucket, o, SingleClass(o))
                                    ELSE agg.buckets[w]]]

(* A plausible bug: room is made before the observation's bucket is there, *)
(* so that a late one takes the place of a newer bucket.                   *)
AddedAfterEviction(agg, o) ==
    LET window == WindowIndex(o.observed_at)
        over == /\ window \notin DOMAIN agg.buckets
                /\ Cardinality(DOMAIN agg.buckets) >= AggregateLimits.max_windows
        kept == IF over THEN OldestGone(agg.buckets) ELSE agg.buckets
        bucket == IF window \in DOMAIN kept THEN kept[window] ELSE EmptyBucket
    IN  [agg EXCEPT !.buckets = [w \in DOMAIN kept \cup {window} |->
                                    IF w = window THEN WithObservation(bucket, o, SingleClass(o))
                                    ELSE kept[w]],
                    !.evicted = @ + (IF over THEN 1 ELSE 0)]

(* BoundedAggregator::add.                                                 *)
Added(agg, o) ==
    LET window == WindowIndex(o.observed_at)
        bucket == IF window \in DOMAIN agg.buckets THEN agg.buckets[window] ELSE EmptyBucket
        touched == [w \in DOMAIN agg.buckets \cup {window} |->
                        IF w = window THEN WithObservation(bucket, o, SingleClass(o))
                        ELSE agg.buckets[w]]
        over == Cardinality(DOMAIN touched) > AggregateLimits.max_windows
    IN  [agg EXCEPT !.buckets = IF over THEN OldestGone(touched) ELSE touched,
                    !.evicted = @ + (IF over THEN 1 ELSE 0)]

(* One observation of record_aggregates.                                   *)
Aggregated(agg, o) ==
    IF o.id \in agg.ids THEN agg
    ELSE IF Cardinality(agg.ids) >= MaxAggregated THEN [agg EXCEPT !.bound_hit = TRUE]
    ELSE Added([agg EXCEPT !.ids = @ \cup {o.id}], o)

(* record_aggregates: the observations of one derivation, in its order.    *)
RecordAggregates(agg, observations) == FoldLeft(Aggregated, agg, observations)

===============================================================================
