--------------------------- MODULE TopologyRegistry ---------------------------
(***************************************************************************)
(* The declared network (src/src/model/topology.cpp): links, paths, queues *)
(* and flows, and a revision that moves with every accepted declaration.   *)
(* Every operation is one critical section of the registry's mutex.        *)
(*                                                                         *)
(* The registry is one record, so that the operations are operators on it: *)
(* a declaration applies one of them, a recovery applies many.             *)
(*                                                                         *)
(* Abstracted: what a declaration says beyond what is compared or looked   *)
(* up: a path is the set of places (hops, links, queues) on it, and a flow *)
(* its path.  The table of queues, which is kept as that of links is.  The *)
(* tally of nodes, which nothing reads.  The checks of one declaration     *)
(* (nil identities, doubled hop indices, too many hops), which refuse it   *)
(* before anything changes.                                                *)
(***************************************************************************)
EXTENDS GenerationRegistry

CONSTANTS
    Links,            \* identities, beside Flows and Paths
    Contents,         \* what a link may be declared as
    Shapes,           \* the sets of places a path may run over
    MaxLinks, MaxPaths, MaxFlows,   \* limits_
    MaxRevision       \* bound of a run: no declaration at or beyond this revision

ASSUME TopologyAssumption ==
    /\ Links \subseteq Nat
    /\ {MaxLinks, MaxPaths, MaxFlows} \subseteq Nat
    /\ MaxRevision \in Nat \ {0}

VARIABLE topology

(* The nil revision: of a path declared without one, of evidence that      *)
(* cites none.                                                             *)
NoRevision == 0

Revisions == Nat

Path        == [shape : Shapes, revision : Revisions]
FlowBinding == [path : Paths, binding_revision : Revisions]

TableOK(table, ids, contents) == DOMAIN table \subseteq ids /\ table \in [DOMAIN table -> contents]

TopologyTypeOK ==
    /\ TableOK(topology.links, Links, Contents)
    /\ TableOK(topology.paths, Paths, Path)
    /\ TableOK(topology.flows, Flows, FlowBinding)
    /\ topology.revision \in Revisions

EmptyTopology ==
    [links |-> NoEntities, paths |-> NoEntities, flows |-> NoEntities, revision |-> 1]

-----------------------------------------------------------------------------
Limit(kind) ==
    CASE kind = "links"  -> MaxLinks
      [] kind = "paths"  -> MaxPaths
      [] kind = "flows"  -> MaxFlows

(* The outcome of declaring content under an identity, refusals included.  *)
UpsertOutcome(topo, kind, id, content, allow_replace) ==
    IF id \notin DOMAIN topo[kind]
    THEN IF Cardinality(DOMAIN topo[kind]) < Limit(kind) THEN "Inserted" ELSE "CapacityExceeded"
    ELSE IF topo[kind][id] = content THEN "Unchanged"
    ELSE IF allow_replace THEN "Replaced" ELSE "Conflicted"

Accepted == {"Inserted", "Replaced"}

Declared(topo, kind, id, content) ==
    [topo EXCEPT ![kind] = Put(@, id, content), !.revision = @ + 1]

(* upsert_link and upsert_flow; upsert_queue is upsert_link again.         *)
Upsert(topo, kind, id, content, allow_replace) ==
    IF UpsertOutcome(topo, kind, id, content, allow_replace) \in Accepted
    THEN Declared(topo, kind, id, content)
    ELSE topo

(* The revision a path is stored with: its own, when it is new and has     *)
(* one; otherwise the one this declaration makes.                          *)
PathRevision(topo, outcome, path) ==
    IF outcome = "Replaced" \/ path.revision = NoRevision
    THEN topo.revision + 1 ELSE path.revision

UpsertPath(topo, id, path, allow_replace) ==
    LET outcome == UpsertOutcome(topo, "paths", id, path, allow_replace)
    IN  IF outcome \in Accepted
        THEN Declared(topo, "paths", id,
                      [path EXCEPT !.revision = PathRevision(topo, outcome, path)])
        ELSE topo

-----------------------------------------------------------------------------
(* What a flow's evidence may concern: the places on the path it is bound  *)
(* to.  A flow bound to an undeclared path has none.                       *)
HopsOf(topo, path) ==
    IF path \in DOMAIN topo.paths THEN topo.paths[path].shape ELSE {}

FlowsOver(topo, place) ==
    {f \in DOMAIN topo.flows : place \in HopsOf(topo, topo.flows[f].path)}

==============================================================================
