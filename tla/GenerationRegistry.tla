-------------------------- MODULE GenerationRegistry --------------------------
(***************************************************************************)
(* Which generations were seen for an entity, and when                     *)
(* (src/src/model/generation.cpp).  The registry keeps two bounded tables  *)
(* of the same kind, one for flows and one for paths: per entity and       *)
(* generation, the first and the last instant at which evidence was made.  *)
(*                                                                         *)
(* Identities of entities and generations are numbers, because the code    *)
(* drops the lowest entity and breaks ties by the larger generation.       *)
(***************************************************************************)
EXTENDS Integers, FiniteSets, FiniteSetsExt, Functions

CONSTANTS
    Flows, Paths,   \* identities of the two tables
    Generations,    \* generation identities
    Instants,       \* instants of observation
    MaxEntities     \* max_entities_

ASSUME GenerationAssumption ==
    /\ Flows \subseteq Nat /\ Paths \subseteq Nat
    /\ Generations \subseteq Nat
    /\ Instants \subseteq Nat \ {0}
    /\ MaxEntities \in Nat \ {0}

VARIABLES
    flowGenerations,   \* flows_
    pathGenerations    \* paths_

generationVars == <<flowGenerations, pathGenerations>>

GenerationRecord == [first_seen : Instants, last_seen : Instants]

(* Functions from a part of S to T.                                        *)
PartialFunctions(S, T) == UNION {[D -> T] : D \in SUBSET S}

Windows == PartialFunctions(Generations, GenerationRecord)

GenerationTypeOK ==
    /\ flowGenerations \in PartialFunctions(Flows, Windows)
    /\ pathGenerations \in PartialFunctions(Paths, Windows)
    /\ Cardinality(DOMAIN flowGenerations) <= MaxEntities
    /\ Cardinality(DOMAIN pathGenerations) <= MaxEntities

NoEntities == [e \in {} |-> {}]

GenerationInit ==
    /\ flowGenerations = NoEntities
    /\ pathGenerations = NoEntities

-----------------------------------------------------------------------------
(* observe.                                                                *)

(* The function f with x mapped to v.                                      *)
Put(f, x, v) == [y \in DOMAIN f \cup {x} |-> IF y = x THEN v ELSE f[y]]

(* A plausible bug: late evidence does not move the start of a window.     *)
WidenedForward(record, at) ==
    [first_seen |-> record.first_seen, last_seen |-> Max({record.last_seen, at})]

Widened(record, at) ==
    [first_seen |-> Min({record.first_seen, at}), last_seen |-> Max({record.last_seen, at})]

(* A plausible bug: the table is full one entity too late.                 *)
DroppedLate(table, entity) ==
    IF entity \in DOMAIN table \/ Cardinality(DOMAIN table) <= MaxEntities
    THEN {} ELSE {Min(DOMAIN table)}

(* A full table gives up its lowest identity for a new one.                *)
Dropped(table, entity) ==
    IF entity \in DOMAIN table \/ Cardinality(DOMAIN table) < MaxEntities
    THEN {} ELSE {Min(DOMAIN table)}

WindowsOf(table, entity) ==
    IF entity \in DOMAIN table THEN table[entity] ELSE NoEntities

WindowsWith(windows, generation, at) ==
    Put(windows, generation,
        IF generation \in DOMAIN windows THEN Widened(windows[generation], at)
        ELSE [first_seen |-> at, last_seen |-> at])

ObservedIn(table, entity, generation, at) ==
    Put(Restrict(table, DOMAIN table \ Dropped(table, entity)), entity,
        WindowsWith(WindowsOf(table, entity), generation, at))

-----------------------------------------------------------------------------
(* correlate.                                                              *)

Started(windows, at) == {g \in DOMAIN windows : windows[g].first_seen <= at}

Covers(record, at) == record.last_seen >= at

(* Which of two started generations is preferred at an instant: one whose  *)
(* window covers it, then the later start, then the larger identity.       *)
Outranks(windows, at, g, h) ==
    \/ Covers(windows[g], at) /\ ~Covers(windows[h], at)
    \/ /\ Covers(windows[g], at) <=> Covers(windows[h], at)
       /\ \/ windows[g].first_seen > windows[h].first_seen
          \/ windows[g].first_seen = windows[h].first_seen /\ g > h

CurrentAt(windows, at) ==
    CHOOSE g \in Started(windows, at) :
        \A h \in Started(windows, at) \ {g} : Outranks(windows, at, g, h)

Correlated(table, entity, generation, at) ==
    IF entity \notin DOMAIN table THEN "NoGenerationRecorded"
    ELSE IF Started(table[entity], at) = {} THEN "UnknownGeneration"
    ELSE IF generation = CurrentAt(table[entity], at) THEN "Current" ELSE "Superseded"

==============================================================================
