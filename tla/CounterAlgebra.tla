---------------------------- MODULE CounterAlgebra ----------------------------
(***************************************************************************)
(* What two readings of a device counter may be turned into                *)
(* (src/src/evidence/counter.cpp).  A counter only says how far it has     *)
(* moved; whether that is loss depends on its having been the same counter *)
(* all along, which is what the ladder below asks.                         *)
(*                                                                         *)
(* A binding is the entities a counter is bound to, as one number.         *)
(***************************************************************************)
EXTENDS EvidenceModel, Sequences

CONSTANT CounterPolicy     \* the CounterPolicy

ASSUME CounterAssumption ==
    CounterPolicy \in [implausible_delta_threshold : Nat, wrap_band_divisor : Nat,
                      allow_wrap : BOOLEAN, accept_wrapped_delta : BOOLEAN,
                      max_series : Nat, max_points_per_series : Nat]

-----------------------------------------------------------------------------
(* Series: readings of one counter by one incarnation of one source.       *)

ScopeRank ==
    [ReceivedPackets |-> 1, TransmittedPackets |-> 2, DroppedPackets |-> 3,
     DiscardedPackets |-> 4, ErrorPackets |-> 5, ReceivedBytes |-> 6, TransmittedBytes |-> 7]

(* What counter_binding_differs compares.                                  *)
Bound(item) == <<item.payload.counter, ScopeRank[item.payload.scope], item.payload.binding>>

SeriesKey(item) == <<item.source, item.epoch>> \o Bound(item)

InSeries(a, b) ==
    Precedes(<<a.sequence, a.id>>, <<b.sequence, b.id>>)

(* group_counter_series: of the readings, in canonical order, the first    *)
(* max_series counters met are kept.                                       *)
FirstMet(items, key) ==
    CHOOSE i \in items :
        /\ SeriesKey(i) = key
        /\ \A j \in items : SeriesKey(j) = key => ~CanonicalLess(j, i)

SeriesKeys(items) == {SeriesKey(i) : i \in items}

KeptSeries(items) ==
    {key \in SeriesKeys(items) :
        Cardinality({k \in SeriesKeys(items) :
                        CanonicalLess(FirstMet(items, k), FirstMet(items, key))})
            < CounterPolicy.max_series}

(* One series, oldest first and cut to the points one pass reads.          *)
Points(items, key) ==
    FirstOf(Sorted({i \in items : SeriesKey(i) = key}, InSeries),
            CounterPolicy.max_points_per_series)

-----------------------------------------------------------------------------
(* Of two readings p and c of one series, p before c.                      *)

Width(p, c) == IF c.payload.width # Undeclared THEN c.payload.width ELSE p.payload.width

Moved(p, c) == c.payload.value - p.payload.value

(* How far it moved if it went over the top once, in one word: a reading   *)
(* may be above what its declared width can hold.                          *)
AroundTheTop(p, c) == (2^Width(p, c) + Moved(p, c)) % 2^FullWidth

(* Is the first reading close enough to the top of a narrow counter?       *)
NearTheTop(p, c) ==
    LET modulus == 2^Width(p, c)
        divisor == CounterPolicy.wrap_band_divisor
    IN  p.payload.value >= modulus - modulus \div (IF divisor = 0 THEN 1 ELSE divisor)

Plausible(delta) == delta <= CounterPolicy.implausible_delta_threshold

(* A decrease is a wrap only where a wrap can be proven.                   *)
DecreaseState(p, c) ==
    IF Width(p, c) \notin SupportedWidths THEN "DiscontinuityUnresolved"
    ELSE IF ~CounterPolicy.allow_wrap THEN "ResetDetected"
    ELSE IF Width(p, c) # FullWidth /\ ~NearTheTop(p, c) THEN "ResetDetected"
    ELSE IF Plausible(AroundTheTop(p, c)) THEN "WrapDetected"
    ELSE "ImplausibleDelta"

(* A plausible bug: the generation the readings were taken under is not    *)
(* compared.                                                               *)
GenerationBlindState(p, c) ==
    IF p.sequence >= c.sequence \/ c.observed_at < p.observed_at THEN "OutOfOrder"
    ELSE IF p.epoch # c.epoch THEN "EpochChanged"
    ELSE IF Moved(p, c) < 0 THEN DecreaseState(p, c)
    ELSE IF Plausible(Moved(p, c)) THEN "Valid"
    ELSE "ImplausibleDelta"

(* derive_counter_deltas, for one pair.                                    *)
DeltaState(p, c) ==
    IF p.sequence >= c.sequence \/ c.observed_at < p.observed_at THEN "OutOfOrder"
    ELSE IF p.epoch # c.epoch THEN "EpochChanged"
    ELSE IF p.generation # c.generation THEN "GenerationChanged"
    ELSE IF Bound(p) # Bound(c) THEN "CounterChanged"
    ELSE IF Moved(p, c) < 0 THEN DecreaseState(p, c)
    ELSE IF Plausible(Moved(p, c)) THEN "Valid"
    ELSE "ImplausibleDelta"

(* The number reported with a move that is believed.                       *)
Delta(p, c) == IF Moved(p, c) < 0 THEN AroundTheTop(p, c) ELSE Moved(p, c)

(* A plausible bug: every reading is measured against the first.           *)
IntervalsFromFirst(points) ==
    IF Len(points) = 1 THEN <<[from |-> points[1], to |-> points[1]]>>
    ELSE [i \in 1..(Len(points) - 1) |-> [from |-> points[1], to |-> points[i + 1]]]

(* The deltas of one series: of each reading and the one before it; a      *)
(* single reading has no baseline.                                         *)
Intervals(points) ==
    IF Len(points) = 1 THEN <<[from |-> points[1], to |-> points[1]]>>
    ELSE [i \in 1..(Len(points) - 1) |-> [from |-> points[i], to |-> points[i + 1]]]

IntervalState(interval) ==
    IF interval.from = interval.to THEN "MissingBaseline"
    ELSE DeltaState(interval.from, interval.to)

===============================================================================
