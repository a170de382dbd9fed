-------------------------- MODULE MCCurrentEvidence --------------------------
(* Instances of CurrentEvidence for TLC.                                   *)
EXTENDS CurrentEvidence

CONSTANT h1

TwoFlows == {1, 2}

OnePath == {1}

TwoShapes == {{}, {h1}}

OneLink == {1}

TwoGenerations == {1, 2}

TwoInstants == {1, 2}

(* Ages count in instants; the policy is the default one, scaled.          *)
StrictPolicy ==
    [max_age |-> 0, future_tolerance |-> 0, clock_skew_tolerance |-> 0,
     allow_future_dated |-> FALSE, ignore_retired_epoch |-> FALSE,
     ignore_generation_supersession |-> FALSE, ignore_topology_revision |-> FALSE]

==============================================================================
