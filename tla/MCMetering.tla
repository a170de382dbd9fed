------------------------------ MODULE MCMetering ------------------------------
(***************************************************************************)
(* Metering for TLC: a two-bit drop counter, and the reports of the two    *)
(* ends of one flow and of an undeclared one.                              *)
(***************************************************************************)
EXTENDS Metering

MCCounterPolicy ==
    [implausible_delta_threshold |-> 1, wrap_band_divisor |-> 2, allow_wrap |-> TRUE,
     accept_wrapped_delta |-> FALSE, max_series |-> 1, max_points_per_series |-> 3]

MCDerivePolicy ==
    [endpoint_pair_window |-> 1, max_observations |-> 3, require_declared_topology |-> TRUE]

MCAggregateLimits ==
    [max_windows |-> 1, max_sources_per_window |-> 2, max_evidence_ids_per_window |-> 2,
     window_width |-> 2, max_observations_per_window |-> 3]

Flow(id) == [kind |-> "Flow", id |-> id]

MCDeclared == {Flow(1), [kind |-> "Link", id |-> 1]}

EndpointReport(id, source, sequence, at, subject, role, count) ==
    [id |-> id, source |-> source, epoch |-> 1, generation |-> 1, sequence |-> sequence,
     observed_at |-> at, subject |-> subject, granularity |-> "Flow",
     method |-> "EndpointComparison", recovered |-> FALSE,
     payload |-> [kind |-> "endpoint", role |-> role, node |-> source, count |-> count,
                  counter_reset |-> FALSE]]

(* Two sender reports compete for one receiver report; a fourth report is  *)
(* about a flow nobody declared.                                           *)
MCReports ==
    {EndpointReport(11, 2, 1, 2, Flow(1), "Sender", 4),
     EndpointReport(12, 2, 2, 3, Flow(1), "Sender", 5),
     EndpointReport(13, 3, 1, 3, Flow(1), "Receiver", 3),
     EndpointReport(14, 3, 2, 3, Flow(2), "Receiver", 2)}

===============================================================================
