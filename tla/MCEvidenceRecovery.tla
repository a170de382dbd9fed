-------------------------- MODULE MCEvidenceRecovery --------------------------
(* Instances of EvidenceRecovery for TLC.                                  *)
EXTENDS EvidenceRecovery

CONSTANT h1

OneFlow == {1}

OnePath == {1}

TwoShapes == {{}, {h1}}

None == {}

OneGeneration == {1}

OneInstant == {1}

(* Ages count in instants; the policy is the default one, scaled.          *)
StrictPolicy ==
    [max_age |-> 0, future_tolerance |-> 0, clock_skew_tolerance |-> 0,
     allow_future_dated |-> FALSE, ignore_retired_epoch |-> FALSE,
     ignore_generation_supersession |-> FALSE, ignore_topology_revision |-> FALSE]

==============================================================================
