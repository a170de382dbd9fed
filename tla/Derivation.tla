------------------------------ MODULE Derivation ------------------------------
(***************************************************************************)
(* derive_observations (src/src/evidence/derive.cpp): evidence in,         *)
(* normalised statements about loss out.  It is a pure function, run again *)
(* for every query over whatever the store holds at that moment.           *)
(*                                                                         *)
(* The identity of an observation is hashed from what it rests on: here it *)
(* is the tuple of those, <<basis, evidence, evidence>>, and no two        *)
(* collide.  Abstracted: texts, and the examined counts of the result.     *)
(***************************************************************************)
EXTENDS CounterAlgebra, CheckedArithmetic, SequencesExt

CONSTANTS
    DeclaredSubjects,     \* the subjects the topology declares
    DerivePolicy          \* the DerivePolicy, without the CounterPolicy

ASSUME DeriveAssumption ==
    /\ Word = 2^FullWidth
    /\ DerivePolicy \in [endpoint_pair_window : Nat, max_observations : Nat,
                         require_declared_topology : BOOLEAN]

(* What the types of an item's fields admit; a count is a word.            *)
Typed(item) ==
    LET payload == item.payload
    IN  /\ DOMAIN item = {"id", "source", "epoch", "generation", "sequence", "observed_at",
                          "subject", "granularity", "method", "recovered", "payload"}
        /\ {item.id, item.source, item.epoch, item.generation, item.sequence,
             item.observed_at} \subseteq Nat
        /\ item.subject \in [kind : DOMAIN SubjectRank, id : Nat]
        /\ item.granularity \in Granularities
        /\ item.recovered \in BOOLEAN
        /\ payload.kind = "counter" =>
              /\ {payload.counter, payload.binding, payload.width} \subseteq Nat
              /\ payload.scope \in DOMAIN ScopeRank \cup {"Unknown"}
              /\ payload.value \in Words
        /\ payload.kind = "probe" => {payload.sent, payload.received} \subseteq Words
        /\ payload.kind = "sequence" =>
              {payload.lowest, payload.highest, payload.received} \subseteq Words
        /\ payload.kind = "endpoint" => payload.count \in Words

Basis == [probe |-> 1, sequence |-> 2, delta |-> 3, pair |-> 4, unpaired |-> 5]

(* base_observation, of no loss and no ratio yet.                          *)
BaseObservation(item, id, semantics, validity) ==
    [id |-> id, evidence_id |-> item.id, source |-> item.source, epoch |-> item.epoch,
     generation |-> item.generation, observed_at |-> item.observed_at,
     subject |-> item.subject, granularity |-> item.granularity, method |-> item.method,
     semantics |-> semantics, validity |-> validity, discontinuity |-> "None",
     lost |-> 0, offered |-> 0, offered_known |-> FALSE,
     ratio_defined |-> FALSE, ratio_bp |-> 0,
     synthetic |-> Methods[item.method].synthetic, recovered |-> item.recovered]

(* A lost/offered pair, of which nothing can be said when nothing was      *)
(* offered.                                                                *)
Counted(observation, offered, received) ==
    LET lost == offered - received
    IN  [observation EXCEPT
            !.lost = lost, !.offered = offered, !.offered_known = TRUE,
            !.validity = IF offered = 0 THEN "UndefinedRatio" ELSE "Valid",
            !.ratio_defined = offered # 0,
            !.ratio_bp = IF offered = 0 THEN 0 ELSE BasisPoints(lost, offered)]

Refused(observation, validity, discontinuity) ==
    [observation EXCEPT !.validity = validity, !.discontinuity = discontinuity]

-----------------------------------------------------------------------------
(* One report, one observation.                                            *)

(* apply_probe; every method validate admits with a probe is implemented   *)
(* and needs no synchronised clock.                                        *)
ProbeObservation(item) ==
    LET base == BaseObservation(item, <<Basis.probe, item.id, item.id>>, "RatioLoss", "Valid")
    IN  IF item.payload.received > item.payload.sent THEN Refused(base, "Implausible", "None")
        ELSE Counted(base, item.payload.sent, item.payload.received)

(* apply_sequence.                                                         *)
SequenceObservation(item) ==
    LET base == BaseObservation(item, <<Basis.sequence, item.id, item.id>>, "RatioLoss", "Valid")
        span == item.payload.highest - item.payload.lowest + 1
    IN  IF item.payload.restart THEN Refused(base, "Discontinuity", "SequenceRestart")
        ELSE IF \/ item.payload.highest < item.payload.lowest
                \/ span >= Word
                \/ item.payload.received > span
             THEN Refused(base, "Implausible", "None")
        ELSE Counted(base, span, item.payload.received)

ReportObservation(item) ==
    IF item.payload.kind = "probe" THEN ProbeObservation(item) ELSE SequenceObservation(item)

-----------------------------------------------------------------------------
(* Counters.                                                               *)

DirectScopes == {"DroppedPackets", "DiscardedPackets", "ErrorPackets"}

DiscontinuityOf ==
    [ResetDetected |-> "CounterReset", DiscontinuityUnresolved |-> "DiscontinuityUnresolved",
     OutOfOrder |-> "OutOfOrder", EpochChanged |-> "EpochChange",
     GenerationChanged |-> "GenerationChange", CounterChanged |-> "DiscontinuityUnresolved"]

(* apply_counter_delta: only a counter of drops says loss; a counter of    *)
(* throughput has nothing to be compared with.                             *)
DeltaApplied(observation, state, delta, scope) ==
    LET believed(o) ==
            IF scope \in DirectScopes
            THEN [o EXCEPT !.semantics = "DirectLoss", !.lost = delta]
            ELSE [o EXCEPT !.semantics = "NonLoss", !.offered = delta, !.offered_known = TRUE]
    IN  CASE state = "Valid" -> believed(observation)
          [] state = "WrapDetected" ->
                IF CounterPolicy.accept_wrapped_delta
                THEN believed(Refused(observation, "Valid", "CounterWrap"))
                ELSE Refused(observation, "Discontinuity", "CounterWrap")
          [] state = "ImplausibleDelta" ->
                Refused(observation, "Implausible", "ImplausibleDelta")
          [] state = "MissingBaseline" ->
                Refused(observation, "Insufficient", "MissingBaseline")
          [] OTHER -> Refused(observation, "Discontinuity", DiscontinuityOf[state])

DeltaBase(interval) ==
    BaseObservation(interval.to, <<Basis.delta, interval.from.id, interval.to.id>>,
                    "DirectLoss", "Valid")

(* A plausible bug: only the later reading says whether it is history.     *)
DeltaTrustingBaseline(interval) ==
    DeltaApplied(DeltaBase(interval), IntervalState(interval),
                 Delta(interval.from, interval.to), interval.to.payload.scope)

(* An interval is history when either end of it is.                        *)
DeltaObservation(interval) ==
    DeltaApplied([DeltaBase(interval) EXCEPT !.recovered = @ \/ interval.from.recovered],
                 IntervalState(interval), Delta(interval.from, interval.to),
                 interval.to.payload.scope)

(* The deltas of every kept series, series by series.                      *)
DeltaObservations(items) ==
    LET keys   == Sorted(KeptSeries(items), Precedes)
        deltas(key) == LET intervals == Intervals(Points(items, key))
                       IN  [i \in DOMAIN intervals |-> DeltaObservation(intervals[i])]
    IN  FlattenSeq([k \in DOMAIN keys |-> deltas(keys[k])])

CounterBoundHit(items) ==
    \/ KeptSeries(items) # SeriesKeys(items)
    \/ \E key \in KeptSeries(items) :
          Cardinality({i \in items : SeriesKey(i) = key}) > CounterPolicy.max_points_per_series

-----------------------------------------------------------------------------
(* Endpoint comparisons: what one end of a flow sent against what the      *)
(* other received.                                                         *)

(* Reports are compared within a flow, a generation and an epoch; those    *)
(* about anything but a flow have the nil flow, all of them.               *)
GroupKey(item) ==
    <<IF item.subject.kind = "Flow" THEN item.subject.id ELSE Nil,
      item.generation, item.epoch>>

Apart(a, b) == IF a.observed_at < b.observed_at THEN b.observed_at - a.observed_at
               ELSE a.observed_at - b.observed_at

Comparable(sender, receiver) ==
    /\ GroupKey(receiver) = GroupKey(sender)
    /\ receiver.payload.node # sender.payload.node
    /\ Apart(sender, receiver) <= DerivePolicy.endpoint_pair_window

(* The nearest in time, the first in canonical order among equals.         *)
Nearest(sender, candidates) ==
    CHOOSE r \in candidates : \A other \in candidates \ {r} :
        \/ Apart(sender, r) < Apart(sender, other)
        \/ Apart(sender, r) = Apart(sender, other) /\ CanonicalLess(r, other)

(* A plausible bug: a receiver already compared is not set aside.          *)
PairedAgain(pairs, sender, receivers) ==
    LET candidates == {r \in receivers : Comparable(sender, r)}
    IN  IF candidates = {} THEN pairs
        ELSE pairs \cup {[sender |-> sender, receiver |-> Nearest(sender, candidates)]}

(* Senders choose in canonical order, each among what is left.             *)
Paired(pairs, sender, receivers) ==
    LET candidates == {r \in receivers \ {p.receiver : p \in pairs} : Comparable(sender, r)}
    IN  IF candidates = {} THEN pairs
        ELSE pairs \cup {[sender |-> sender, receiver |-> Nearest(sender, candidates)]}

EndpointPairs(items) ==
    LET ends(role) == {i \in items : i.payload.role = role}
    IN  FoldLeft(LAMBDA pairs, sender : Paired(pairs, sender, ends("Receiver")),
                 {}, Sorted(ends("Sender"), CanonicalLess))

(* The comparison is dated, placed and attributed as the sender's report.  *)
PairObservation(pair) ==
    LET sent     == pair.sender.payload
        received == pair.receiver.payload
        base     == [BaseObservation(pair.sender,
                                     <<Basis.pair, pair.sender.id, pair.receiver.id>>,
                                     "RatioLoss", "Valid")
                        EXCEPT !.recovered = @ \/ pair.receiver.recovered]
    IN  IF sent.counter_reset \/ received.counter_reset
        THEN Refused(base, "Discontinuity", "CounterReset")
        ELSE IF received.count > sent.count THEN Refused(base, "Implausible", "None")
        ELSE Counted(base, sent.count, received.count)

UnpairedObservation(item) ==
    BaseObservation(item, <<Basis.unpaired, item.id, item.id>>, "RatioLoss", "Insufficient")

EndpointObservations(items) ==
    LET pairs == EndpointPairs(items)
        paired == {p.sender : p \in pairs} \cup {p.receiver : p \in pairs}
    IN  {PairObservation(p) : p \in pairs} \cup {UnpairedObservation(i) : i \in items \ paired}

-----------------------------------------------------------------------------
OfKinds(items, kinds) == {i \in items : i.payload.kind \in kinds}

(* Evidence cannot invent what it is about.                                *)
Describable(item) ==
    \/ ~DerivePolicy.require_declared_topology
    \/ item.subject.kind = "Source"
    \/ item.subject \in DeclaredSubjects

(* What counts against max_observations: reports first, then deltas.       *)
BoundedObservations(items) ==
    LET reports == Sorted(OfKinds(items, {"probe", "sequence"}), CanonicalLess)
    IN  [k \in DOMAIN reports |-> ReportObservation(reports[k])]
            \o DeltaObservations(OfKinds(items, {"counter"}))

(* An item met when the result is already full is noted, of whatever kind. *)
ObservationBoundHit(items) ==
    \/ Len(BoundedObservations(items)) > DerivePolicy.max_observations
    \/ \E i \in items :
          Cardinality({r \in OfKinds(items, {"probe", "sequence"}) : CanonicalLess(r, i)})
              >= DerivePolicy.max_observations

ObservationLess(a, b) ==
    Precedes(<<a.observed_at, a.source, SubjectRank[a.subject.kind], a.subject.id>> \o a.id,
             <<b.observed_at, b.source, SubjectRank[b.subject.kind], b.subject.id>> \o b.id)

(* derive_observations.  Endpoint comparisons are not counted against the  *)
(* bound on observations.                                                  *)
Derive(items) ==
    LET described == {i \in items : Describable(i)}
        bounded   == FirstOf(BoundedObservations(described), DerivePolicy.max_observations)
    IN  [observations |-> Sorted(ToSet(bounded) \cup
                                     EndpointObservations(OfKinds(described, {"endpoint"})),
                                 ObservationLess),
         rejections   |-> {i.id : i \in items \ described},
         truncated    |-> \/ ObservationBoundHit(described)
                          \/ CounterBoundHit(OfKinds(described, {"counter"}))]

===============================================================================
