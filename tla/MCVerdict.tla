------------------------------- MODULE MCVerdict -------------------------------
(***************************************************************************)
(* Verdict for TLC: a flow over three hops, a drop counter on a link       *)
(* between two of them, two sources that probe the path and disagree,      *)
(* another flow's sequence report, and reports injected on that link and   *)
(* on a queue of the second hop.                                           *)
(***************************************************************************)
EXTENDS Verdict

MCCounterPolicy ==
    [implausible_delta_threshold |-> 1, wrap_band_divisor |-> 2, allow_wrap |-> TRUE,
     accept_wrapped_delta |-> FALSE, max_series |-> 2, max_points_per_series |-> 3]

MCDerivePolicy ==
    [endpoint_pair_window |-> 1, max_observations |-> 6, require_declared_topology |-> FALSE]

MCLossPolicy ==
    [confirmed_ratio_bp |-> 2, suspected_ratio_bp |-> 1, min_offered_for_confirmation |-> 4,
     min_offered_for_absence |-> 4, conflict_tolerance_bp |-> 1,
     direct_loss_counter_confirms |-> FALSE, max_evidence_ids |-> 3,
     max_confidence_terms |-> 10]

Subject(kind, id) == [kind |-> kind, id |-> id]

Hop(id, index) ==
    [id |-> id, index |-> index, node |-> id, ingress_port |-> 1, egress_port |-> 2,
     ingress_link |-> id, egress_link |-> id + 1]

(* Indices need not be consecutive.                                        *)
Declared ==
    [path |-> 1, declared |-> TRUE, hops |-> <<Hop(1, 0), Hop(2, 1), Hop(3, 4)>>,
     queues |-> [q \in {1} |-> [node |-> 2, port |-> 2]]]

Unknown == [path |-> 1, declared |-> FALSE, hops |-> << >>, queues |-> Declared.queues]

Item(id, source, sequence, at, subject, granularity, method, payload) ==
    [id |-> id, source |-> source, epoch |-> 1, generation |-> 1, sequence |-> sequence,
     observed_at |-> at, subject |-> subject, granularity |-> granularity,
     method |-> method, recovered |-> FALSE, payload |-> payload]

Probe(sent, received) ==
    [kind |-> "probe", probe |-> 1, sent |-> sent, received |-> received]

Sequence(received, restart) ==
    [kind |-> "sequence", lowest |-> 1, highest |-> 4, received |-> received,
     restart |-> restart]

DropCounter(counter, value) ==
    [kind |-> "counter", counter |-> counter, scope |-> "DroppedPackets", binding |-> 1,
     value |-> value, width |-> 3]

MCEvidence ==
    {Item(1, 2, 1, 2, Subject("Path", 1), "Path", "ProbeRoundTrip", Probe(5, 3)),
     Item(2, 3, 1, 2, Subject("Path", 1), "Path", "ProbeRoundTrip", Probe(6, 6)),
     Item(3, 1, 1, 1, Subject("Link", 2), "Link", "CounterDelta", DropCounter(1, 2)),
     Item(4, 1, 2, 2, Subject("Link", 2), "Link", "CounterDelta", DropCounter(1, 3)),
     Item(5, 1, 3, 3, Subject("Link", 2), "Link", "CounterDelta", DropCounter(1, 3)),
     Item(6, 3, 2, 3, Subject("Link", 2), "Link", "SyntheticInjection", Probe(5, 5)),
     Item(7, 4, 1, 3, Subject("Flow", 2), "Flow", "SequenceGap", Sequence(1, FALSE)),
     Item(8, 4, 2, 3, Subject("Queue", 1), "Queue", "SyntheticInjection", Probe(4, 2))}

(* Equal authority, and one that tells all sources but the first and the   *)
(* last apart, which have none.                                            *)
MCAuthorities ==
    {[s \in 1..4 |-> "Primary"], <<"None", "Primary", "Secondary", "None">>}

MCTopologies == {Declared, Unknown}

MCSubjects == {Subject("Path", 1), Subject("Link", 2)}

MCRequests ==
    {[flow |-> 1, cap |-> cap, max_segments |-> 0] : cap \in {"Link", "Path"}}

===============================================================================
