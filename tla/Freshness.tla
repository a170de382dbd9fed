------------------------------- MODULE Freshness -------------------------------
(***************************************************************************)
(* assess_freshness (src/src/freshness.cpp): what may still be used of the *)
(* evidence at hand.  It is a ladder of objections over one observation,   *)
(* the time of asking and three registries, each read under its own lock;  *)
(* the first objection is the reason, and evidence is admissible when      *)
(* there is none.                                                          *)
(***************************************************************************)
EXTENDS SourceRegistry, TopologyRegistry

CONSTANTS
    Places,    \* hops, links and queues evidence may be about
    Policy     \* the FreshnessPolicy

ASSUME FreshnessAssumption ==
    /\ UNION Shapes \subseteq Places
    /\ Policy \in [max_age : Nat, future_tolerance : Nat, clock_skew_tolerance : Nat,
                   allow_future_dated : BOOLEAN, ignore_retired_epoch : BOOLEAN,
                   ignore_generation_supersession : BOOLEAN,
                   ignore_topology_revision : BOOLEAN]

SubjectRef ==
    [kind : {"flow"}, id : Flows] \cup [kind : {"path"}, id : Paths]
        \cup [kind : {"place"}, id : Places]

(* An instant that was not given.                                          *)
Zero == 0

(* What the ladder reads of a LossObservation.                             *)
LossObservation ==
    [subject : SubjectRef, source : Sources, epoch : Epochs, generation : Generations,
     topology_revision : Revisions, observed_at : Instants \cup {Zero},
     received_at : Instants \cup {Zero}, recovered : BOOLEAN]

-----------------------------------------------------------------------------
(* The rungs.                                                              *)

ReceivedBeforeObserved(o) ==
    /\ o.received_at # Zero
    /\ o.received_at + Policy.clock_skew_tolerance < o.observed_at

FutureDated(o, now) ==
    /\ o.observed_at - now > Policy.future_tolerance
    /\ ~Policy.allow_future_dated

AgeExceeded(o, now) == now - o.observed_at > Policy.max_age

EpochRetired(o) == incarnations[o.source][PositionOf(o.source, o.epoch)].retired

(* The generation in force for a flow or a path; other subjects have none. *)
GenerationMatch(o) ==
    CASE o.subject.kind = "flow" ->
            Correlated(flowGenerations, o.subject.id, o.generation, o.observed_at)
      [] o.subject.kind = "path" ->
            Correlated(pathGenerations, o.subject.id, o.generation, o.observed_at)
      [] OTHER -> "NotCorrelated"

PathRevised(path, revision) ==
    path \in DOMAIN topology.paths /\ topology.paths[path].revision # revision

(* A plausible bug: only the binding of a flow is compared.                *)
BindingRevised(o) ==
    /\ o.topology_revision # NoRevision
    /\ \/ o.subject.kind = "path" /\ PathRevised(o.subject.id, o.topology_revision)
       \/ /\ o.subject.kind = "flow" /\ o.subject.id \in DOMAIN topology.flows
          /\ topology.flows[o.subject.id].binding_revision # o.topology_revision

(* Evidence that cites a revision is about what was declared then.  For a  *)
(* flow both its binding and the path it runs over must be as they were.   *)
TopologyRevised(o) ==
    /\ o.topology_revision # NoRevision
    /\ \/ o.subject.kind = "path" /\ PathRevised(o.subject.id, o.topology_revision)
       \/ /\ o.subject.kind = "flow" /\ o.subject.id \in DOMAIN topology.flows
          /\ LET flow == topology.flows[o.subject.id]
             IN  \/ flow.binding_revision # o.topology_revision
                 \/ PathRevised(flow.path, o.topology_revision)

StaleReason(o, now) ==
    IF o.recovered THEN "RecoveredFromPersistence"
    ELSE IF o.observed_at = Zero THEN "Undated"
    ELSE IF ReceivedBeforeObserved(o) THEN "ReceivedBeforeObserved"
    ELSE IF FutureDated(o, now) THEN "FutureDated"
    ELSE IF AgeExceeded(o, now) THEN "AgeExceeded"
    ELSE IF o.source \notin sources THEN "SourceUnknown"
    ELSE IF ~Policy.ignore_retired_epoch /\ ~KnownEpoch(o.source, o.epoch) THEN "EpochUnknown"
    ELSE IF ~Policy.ignore_retired_epoch /\ EpochRetired(o) THEN "EpochRetired"
    ELSE IF ~Policy.ignore_generation_supersession /\ GenerationMatch(o) = "Superseded"
         THEN "GenerationSuperseded"
    ELSE IF ~Policy.ignore_generation_supersession /\ GenerationMatch(o) = "UnknownGeneration"
         THEN "GenerationUnknown"
    ELSE IF ~Policy.ignore_topology_revision /\ TopologyRevised(o)
         THEN "TopologyRevisionChanged"
    ELSE "None"

Admits(o, now) == StaleReason(o, now) = "None"

==============================================================================
