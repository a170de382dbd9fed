--------------------------- MODULE CurrentEvidence ---------------------------
(***************************************************************************)
(* Evidence and what makes it current, in one process: sources measure and *)
(* deliver late, out of order and more than once, while time passes and    *)
(* operators declare paths and flows anew (ObservatoryEngine::ingest and   *)
(* the two registries freshness asks; what it says is Freshness).          *)
(*                                                                         *)
(* A delivery is atomic here: the two critical sections of submit are      *)
(* IngestDoor's subject, and so is the fence over sequences, of which only *)
(* the part that asks for the live incarnation decides here.               *)
(*                                                                         *)
(* Abstracted: payloads, and the bounds of the store.  A measurement is    *)
(* its own identity.                                                       *)
(***************************************************************************)
EXTENDS Freshness

CONSTANTS
    OwnNumbers,    \* revisions an operator may write into a declaration
    MaxNow,        \* bound of a run: the last instant
    MaxMeasured,   \* bound of a run: measurements
    MaxEvents      \* bound of a run: measurements and accepted declarations

ASSUME EvidenceAssumption ==
    /\ OwnNumbers \subseteq Revisions
    /\ MaxNow \in Nat \ {0} /\ 1..MaxNow \subseteq Instants
    /\ {MaxMeasured, MaxEvents} \subseteq Nat

VARIABLES
    now,         \* clock_->now()
    sent,        \* measurements made, each of which may be delivered at any time
    held,        \* the evidence retained
    recorded,    \* history: what was recorded of generations
    dropped,     \* history: the entities whose generations were dropped
    uncounted    \* history: revisions of paths that the registry did not count out

worldVars == <<now, sent>>
historyVars == <<recorded, dropped>>
evidenceVars ==
    <<registryVars, generationVars, topology, uncounted, worldVars, held, historyVars>>

(* What an observation derived from it will carry and, as history, the     *)
(* path and shape its source saw.                                          *)
EvidenceItem == [observation : LossObservation, saw : SUBSET (Paths \X Shapes)]

Recording == [subject : SubjectRef, generation : Generations, at : Instants]

EvidenceTypeOK ==
    /\ RegistryTypeOK
    /\ GenerationTypeOK
    /\ TopologyTypeOK
    /\ now \in Instants
    /\ sent \subseteq EvidenceItem /\ held \subseteq EvidenceItem
    /\ recorded \subseteq Recording /\ dropped \subseteq SubjectRef
    /\ uncounted \subseteq Revisions

TypeOK == EvidenceTypeOK

NothingHeld ==
    /\ GenerationInit
    /\ topology = EmptyTopology
    /\ held = {}
    /\ recorded = {} /\ dropped = {} /\ uncounted = {}

(* Every source is registered and has one incarnation, which is live.      *)
Init ==
    /\ sources = Sources
    /\ incarnations \in [Sources -> {<<Live(e)>> : e \in Epochs}]
    /\ fence = [s \in Sources |-> [e \in Epochs |-> [high_water |-> 0, seen |-> << >>]]]
    /\ admitted = [s \in Sources |-> [e \in Epochs |-> << >>]]
    /\ NothingHeld
    /\ now = 1 /\ sent = {}

-----------------------------------------------------------------------------
(* The world outside: time, operators, sources.                            *)

Tick ==
    /\ now < MaxNow
    /\ now' = now + 1
    /\ UNCHANGED <<registryVars, generationVars, topology, uncounted, sent, held, historyVars>>

Quiet == topology.revision - 1 + Cardinality(sent) < MaxEvents

(* The revisions new paths came with, other than the count.                *)
Uncounted(before, after) ==
    {after.paths[p].revision : p \in DOMAIN after.paths \ DOMAIN before.paths}
        \ {after.revision}

(* What an operator declares; what is refused or repeated changes nothing. *)
Declare(declared) ==
    /\ Quiet
    /\ topology.revision < MaxRevision
    /\ declared # topology
    /\ topology' = declared
    /\ uncounted' = uncounted \cup Uncounted(topology, declared)
    /\ UNCHANGED <<registryVars, generationVars, worldVars, held, historyVars>>

DeclareLink ==
    \E l \in Links, c \in Contents, replace \in BOOLEAN :
        Declare(Upsert(topology, "links", l, c, replace))

(* The revision a declared path or flow has now, if there is one.          *)
OwnRevision(table, id, field) == {table[x][field] : x \in {id} \cap DOMAIN table}

(* A path comes without a revision, with one of the operator's own or, as a*)
(* changed copy of what find_path returned, with the one it had.           *)
DeclarePath ==
    \E p \in Paths, s \in Shapes, replace \in BOOLEAN :
        \E r \in {NoRevision} \cup OwnNumbers \cup OwnRevision(topology.paths, p, "revision") :
            Declare(UpsertPath(topology, p, [shape |-> s, revision |-> r], replace))

(* A flow comes with the revision of its path, with one of the operator's  *)
(* own or with the one it had.                                             *)
DeclareFlow ==
    \E f \in Flows, p \in DOMAIN topology.paths, replace \in BOOLEAN :
        \E r \in {topology.paths[p].revision} \cup OwnNumbers
                 \cup OwnRevision(topology.flows, f, "binding_revision") :
            Declare(Upsert(topology, "flows", f, [path |-> p, binding_revision |-> r], replace))

(* What there is to see of a subject: its path, and the path's shape.      *)
PathOf(subject) ==
    CASE subject.kind = "path" -> {subject.id}
      [] subject.kind = "flow" -> OwnRevision(topology.flows, subject.id, "path")
      [] OTHER -> {}

SeenAt(subject) ==
    {<<p, topology.paths[p].shape>> : p \in PathOf(subject) \cap DOMAIN topology.paths}

(* A source measures, by its own clock, and may cite the revision of the   *)
(* path it saw.                                                            *)
Measure ==
    /\ Quiet
    /\ Cardinality(sent) < MaxMeasured
    /\ \E subject \in SubjectRef, s \in Sources, e \in Epochs, g \in Generations, at \in Instants :
          /\ KnownEpoch(s, e)
          /\ \E r \in {NoRevision} \cup {topology.paths[v[1]].revision : v \in SeenAt(subject)} :
                sent' = sent \cup
                    {[observation |->
                        [subject |-> subject, source |-> s, epoch |-> e, generation |-> g,
                         topology_revision |-> r, observed_at |-> at, received_at |-> now,
                         recovered |-> FALSE],
                      saw |-> SeenAt(subject)]}
    /\ UNCHANGED <<registryVars, generationVars, topology, uncounted, now, held, historyVars>>

-----------------------------------------------------------------------------
(* Ingest.                                                                 *)

FlowRef(f) == [kind |-> "flow", id |-> f]

(* The entities whose generation a piece of evidence shows: its subject or *)
(* the flows that run over it.                                             *)
Shows(subject) ==
    IF subject.kind = "place" THEN {FlowRef(f) : f \in FlowsOver(topology, subject.id)}
    ELSE {subject}

(* They are recorded one by one, in the order of identities.               *)
RecordAll(table, entities, o) ==
    LET after[some \in SUBSET entities] ==
            IF some = {} THEN table
            ELSE ObservedIn(after[some \ {Max(some)}], Max(some), o.generation, o.observed_at)
    IN  after[entities]

Concerned(kind, o) == {r.id : r \in {q \in Shows(o.subject) : q.kind = kind}}

(* The entities a table dropped while it recorded: those it lost.  When    *)
(* several were recorded one may also be dropped and enter again, so then  *)
(* all of them count.                                                      *)
Gone(kind, before, after, concerned) ==
    LET all  == DOMAIN before \cup concerned
        lost == all \ DOMAIN after
    IN  {[kind |-> kind, id |-> e] :
            e \in IF lost # {} /\ Cardinality(concerned) > 1 THEN all ELSE lost}

(* record_generations comes before the door: refused evidence counts too.  *)
RecordGenerations(o) ==
    /\ flowGenerations' = RecordAll(flowGenerations, Concerned("flow", o), o)
    /\ pathGenerations' = RecordAll(pathGenerations, Concerned("path", o), o)
    /\ recorded' = recorded \cup {[subject |-> r, generation |-> o.generation,
                                   at |-> o.observed_at] : r \in Shows(o.subject)}
    /\ dropped' = dropped \cup Gone("flow", flowGenerations, flowGenerations', Concerned("flow", o))
                          \cup Gone("path", pathGenerations, pathGenerations', Concerned("path", o))

AsRecovered(item) == [item EXCEPT !.observation.recovered = TRUE]

Known(items, item) == item \in items \/ AsRecovered(item) \in items

(* The door lets in what a live incarnation sends and the store does not   *)
(* know yet.                                                               *)
Enters(item) ==
    LET o == item.observation
    IN  /\ o.source \in sources
        /\ incarnations[o.source] # << >>
        /\ Current(o.source) = Live(o.epoch)
        /\ ~Known(held, item)

Deliver(item) ==
    /\ RecordGenerations(item.observation)
    /\ held' = IF Enters(item) THEN held \cup {item} ELSE held
    /\ UNCHANGED <<registryVars, topology, uncounted, worldVars>>

Happen ==
    \/ Tick
    \/ DeclareLink \/ DeclarePath \/ DeclareFlow
    \/ Measure

Next == Happen \/ \E item \in sent : Deliver(item)

Spec == Init /\ [][Next]_evidenceVars

-----------------------------------------------------------------------------
(* Evidence that is admitted and cites a revision the registry counted out *)
(* is about what is declared now: the very path, of the very shape its     *)
(* source saw, whatever was replaced, rebound or declared back in between. *)
(* upsert_path says so: "otherwise a changed path shape would keep         *)
(* validating evidence recorded against a shape it no longer has".  Of a   *)
(* number an operator wrote on a new path it does not hold: the count, or  *)
(* another operator, may come to the same number later.                    *)
FreshSawThisShape ==
    \A item \in held :
        /\ Admits(item.observation, now)
        /\ item.observation.topology_revision \notin {NoRevision} \cup uncounted
        => item.saw = SeenAt(item.observation.subject)

(* The instants recorded of one entity in one generation.                  *)
RecordedAt(subject, g) ==
    {r.at : r \in {q \in recorded : q.subject = subject /\ q.generation = g}}

(* Which generation the recordings alone make the current one: among those *)
(* seen at or before the instant, one also seen at or after it, then the   *)
(* one that started last, then the larger.                                 *)
IsCurrentByRecordings(subject, g, at) ==
    LET early(h) == \E t \in RecordedAt(subject, h) : t <= at
        late(h)  == \E t \in RecordedAt(subject, h) : t >= at
        start(h) == Min(RecordedAt(subject, h))
    IN  /\ early(g)
        /\ \A h \in Generations \ {g} :
              early(h) => \/ late(g) /\ ~late(h)
                          \/ /\ late(g) \/ ~late(h)
                             /\ start(g) > start(h) \/ (start(g) = start(h) /\ g > h)

(* "The generation current at an instant is a pure function of the         *)
(* recorded generation windows, so arrival order cannot change it": what   *)
(* correlate says of an entity that was never dropped follows from the set *)
(* of what was recorded of it.                                             *)
ArrivalOrderCannotMatter ==
    \A r \in {q.subject : q \in recorded} \ dropped, g \in Generations, at \in Instants :
        LET table == IF r.kind = "flow" THEN flowGenerations ELSE pathGenerations
        IN  Correlated(table, r.id, g, at) = "Current" <=> IsCurrentByRecordings(r, g, at)

==============================================================================
