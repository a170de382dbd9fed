------------------------------- MODULE Metering -------------------------------
(***************************************************************************)
(* A device, the evidence that reaches the runtime of it, and what is      *)
(* derived and aggregated of that.  The device has a drop counter of       *)
(* finite width; it may lose its count without saying so, its source may   *)
(* restart, its counter be rebound to something else, its clock be set     *)
(* back.  Readings and the reports of two endpoints travel independently,  *)
(* overtake one another and may never arrive; queries come at any time,    *)
(* and the process may be restarted, whereupon all it held is history.     *)
(*                                                                         *)
(* A delivery is atomic (IngestDoor has its two critical sections), the    *)
(* fence is the part of it that refuses a retired incarnation, and the     *)
(* store is large enough for what is sent.                                 *)
(***************************************************************************)
EXTENDS Aggregation

CONSTANTS
    Device,          \* the source identity of the device
    Bits,            \* the width its counter really has
    DeclaredWidth,   \* the width its readings declare
    Reports,         \* what endpoints and probes report
    Increments,      \* how many packets may be dropped at a time
    Restarted,       \* what a counter may read after a restart or a rebinding
    MaxDropped,      \* bound of a run: packets dropped
    MaxReadings,     \* bound of a run: readings taken
    MaxHeld,         \* bound of a run: items delivered
    MaxQueries,      \* bound of a run: queries
    MaxFaults        \* bound of a run: what befalls the device, and process restarts

(* The values the counter has.                                             *)
Modulus == 2^Bits

ASSUME MeteringAssumption ==
    /\ Bits \in Nat \ {0} /\ Modulus \in Nat \ {0}
    /\ Increments \subseteq Nat
    /\ Restarted \subseteq 0..(Modulus - 1)
    /\ \A r \in Reports : /\ {"recovered", "payload"} \subseteq DOMAIN r
                            /\ r.payload.kind \in {"probe", "sequence", "endpoint"}
    /\ {MaxDropped, MaxReadings, MaxHeld, MaxQueries, MaxFaults} \subseteq Nat

VARIABLES
    device,       \* the device and its source
    dropped,      \* history: packets it really dropped
    faults,       \* what befell it and the process (bounds the run)
    queries,      \* queries asked (bounds the run)
    inFlight,     \* sent and not delivered
    held,         \* the evidence retained
    aggregate,    \* aggregate_, aggregated_ids_ and aggregation_bound_hit_
    added,        \* history: the observations added to the aggregate
    overtaken     \* history: was a reading delivered into an aggregated interval?

vars == <<device, dropped, faults, queries, inFlight, held, aggregate, added, overtaken>>

(* A reading, with what the device had really dropped when it was taken.   *)
Reading(value, at, total) ==
    [id |-> device.readings + 1, source |-> Device, epoch |-> device.epoch,
     generation |-> device.generation, sequence |-> device.readings + 1,
     observed_at |-> at, subject |-> [kind |-> "Link", id |-> 1],
     granularity |-> "Link", method |-> "CounterDelta", recovered |-> FALSE,
     payload |-> [kind |-> "counter", counter |-> 1, scope |-> "DroppedPackets",
                  binding |-> 1, value |-> value, width |-> DeclaredWidth, total |-> total]]

Init ==
    /\ device = [value |-> 0, epoch |-> 1, generation |-> 1, readings |-> 0, clock |-> 2]
    /\ dropped = 0 /\ faults = 0 /\ queries = 0
    /\ inFlight = Reports
    /\ held = {}
    /\ aggregate = NoAggregates
    /\ added = {} /\ overtaken = FALSE

-----------------------------------------------------------------------------
(* The device.                                                             *)

Drop(n) ==
    /\ dropped + n <= MaxDropped
    /\ dropped' = dropped + n
    /\ device' = [device EXCEPT !.value = (@ + n) % Modulus]
    /\ UNCHANGED <<faults, queries, inFlight, held, aggregate, added, overtaken>>

Fault(afterwards) ==
    /\ faults < MaxFaults
    /\ faults' = faults + 1
    /\ device' = afterwards
    /\ UNCHANGED <<dropped, queries, inFlight, held, aggregate, added, overtaken>>

(* The count is lost and nothing says so.                                  *)
Reset == Fault([device EXCEPT !.value = 0])

(* The source restarts and announces it (activate_incarnation); its        *)
(* counter may read anything.                                              *)
Restart(value) == Fault([device EXCEPT !.epoch = @ + 1, !.value = value])

(* The counter is bound anew, under a new generation.                      *)
Rebind(value) == Fault([device EXCEPT !.generation = @ + 1, !.value = value])

SetClockBack == device.clock > 1 /\ Fault([device EXCEPT !.clock = @ - 1])

Read ==
    /\ device.readings < MaxReadings
    /\ inFlight' = inFlight \cup {Reading(device.value, device.clock, dropped)}
    /\ device' = [device EXCEPT !.readings = @ + 1, !.clock = @ + 1]
    /\ UNCHANGED <<dropped, faults, queries, held, aggregate, added, overtaken>>

-----------------------------------------------------------------------------
(* The runtime.                                                            *)

(* Are two held readings the ends of an aggregated interval that this      *)
(* reading falls into?                                                     *)
Overtaken(item) ==
    \E p, c \in OfKinds(held, {"counter"}) :
        /\ <<Basis.delta, p.id, c.id>> \in aggregate.ids
        /\ SeriesKey(p) = SeriesKey(item) /\ SeriesKey(c) = SeriesKey(item)
        /\ p.sequence < item.sequence /\ item.sequence < c.sequence

Admitted(item) ==
    /\ Valid(item)
    /\ item.source = Device => item.epoch = device.epoch

Deliver(item) ==
    /\ Cardinality(held) < MaxHeld
    /\ Admitted(item)
    /\ inFlight' = inFlight \ {item}
    /\ held' = held \cup {item}
    /\ overtaken' = (overtaken \/ (item.payload.kind = "counter" /\ Overtaken(item)))
    /\ UNCHANGED <<device, dropped, faults, queries, aggregate, added>>

Observations(result) == ToSet(result.observations)

(* classify, localize and explain derive anew and feed the aggregate.      *)
Query ==
    LET result == Derive(held)
    IN  /\ queries < MaxQueries
        /\ queries' = queries + 1
        /\ aggregate' = RecordAggregates(aggregate, result.observations)
        /\ added' = added \cup {o \in Observations(result) :
                                    o.id \in aggregate'.ids \ aggregate.ids}
        /\ UNCHANGED <<device, dropped, faults, inFlight, held, overtaken>>

(* A new process has the evidence back, marked, and no aggregate.          *)
ProcessRestart ==
    /\ faults < MaxFaults
    /\ faults' = faults + 1
    /\ held' = {[item EXCEPT !.recovered = TRUE] : item \in held}
    /\ aggregate' = NoAggregates
    /\ added' = {} /\ overtaken' = FALSE
    /\ UNCHANGED <<device, dropped, queries, inFlight>>

Next ==
    \/ \E n \in Increments : Drop(n)
    \/ Reset
    \/ \E value \in Restarted : Restart(value) \/ Rebind(value)
    \/ SetClockBack
    \/ Read
    \/ \E item \in inFlight : Deliver(item)
    \/ Query
    \/ ProcessRestart

Spec == Init /\ [][Next]_vars

-----------------------------------------------------------------------------
CounterReading ==
    [id : Nat, source : {Device}, epoch : Nat, generation : Nat, sequence : Nat,
     observed_at : Nat, subject : {[kind |-> "Link", id |-> 1]}, granularity : {"Link"},
     method : {"CounterDelta"}, recovered : BOOLEAN,
     payload : [kind : {"counter"}, counter : {1}, scope : {"DroppedPackets"}, binding : {1},
                value : Nat, width : {DeclaredWidth}, total : Nat]]

Report == Reports \cup {[r EXCEPT !.recovered = TRUE] : r \in Reports}

TypeOK ==
    /\ device \in [value : 0..(Modulus - 1), epoch : Nat, generation : Nat,
                   readings : Nat, clock : Nat]
    /\ dropped \in Nat /\ faults \in Nat /\ queries \in Nat
    /\ inFlight \subseteq CounterReading \cup Report
    /\ held \subseteq CounterReading \cup Report
    /\ Cardinality(DOMAIN aggregate.buckets) <= AggregateLimits.max_windows
    /\ Cardinality(aggregate.ids) <= MaxAggregated
    /\ \A w \in DOMAIN aggregate.buckets :
          /\ {aggregate.buckets[w].lost, aggregate.buckets[w].offered} \subseteq Words
          /\ aggregate.buckets[w].ratio_bp \in 0..Scale
    /\ overtaken \in BOOLEAN

CounterReadings(items) == {i \in items : i.payload.kind = "counter"}

(* A delta that derive_counter_deltas believes never exceeds what the      *)
(* device really dropped between the two readings, whatever befell the     *)
(* counter meanwhile and whatever other readings lie between them.         *)
LossIsReal ==
    \A p, c \in CounterReadings(held) :
        DeltaState(p, c) = "Valid" => Delta(p, c) <= c.payload.total - p.payload.total

-----------------------------------------------------------------------------
DirectLoss(observations) ==
    MapThenSumSet(LAMBDA o : o.lost,
        {o \in observations : o.validity = "Valid" /\ o.semantics = "DirectLoss"})

Rests(o, item) == item.id \in {o.id[2], o.id[3]}

(* No report is counted twice, however many could be its counterpart, and  *)
(* nothing held is passed over in silence: it is behind an observation, is *)
(* rejected, or the result says that a bound was hit.                      *)
EachItemHeard ==
    LET result == Derive(held)
    IN  \A item \in held :
            LET resting == {o \in Observations(result) : Rests(o, item)}
            IN  /\ item.payload.kind # "counter" => Cardinality(resting) <= 1
                /\ \/ resting # {}
                   \/ item.id \in result.rejections
                   \/ result.truncated

(* Whatever rests on recovered evidence, as either end of an interval or   *)
(* of a comparison, says that it is recovered.                             *)
RecoveredTaints ==
    \A o \in Observations(Derive(held)), item \in held :
        Rests(o, item) /\ item.recovered => o.recovered

(* While no reading came late into an interval already aggregated, what    *)
(* all queries together added to the aggregate was really dropped.         *)
AggregatesAreReal == ~overtaken => DirectLoss(added) <= dropped

(* A bucket that is still there holds everything that was added of its     *)
(* window: eviction never leaves part of one.                              *)
BucketsAreComplete ==
    \A w \in DOMAIN aggregate.buckets :
        LET bucket == aggregate.buckets[w]
            of_window == {o \in added : WindowIndex(o.observed_at) = w}
        IN  ~bucket.saturated =>
                /\ bucket.lost = MapThenSumSet(LAMBDA o : o.lost, of_window)
                /\ bucket.observation_count = Cardinality(of_window)

===============================================================================
