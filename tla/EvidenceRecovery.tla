--------------------------- MODULE EvidenceRecovery ---------------------------
(***************************************************************************)
(* Declarations and evidence across processes: what ingest and persist     *)
(* write to the journal, what a process that ends leaves of it, and what   *)
(* the next process makes of that (engine.cpp persist and load, persist.cpp*)
(* load).  Sources outlive the process, so a measurement may reach any     *)
(* process after it was made.                                              *)
(*                                                                         *)
(* Abstracted: when a compaction is due (it may happen in any persist);    *)
(* that the tables and lists to write are read one after the other;        *)
(* episodes, which are EpisodeHistory's subject.  start and load are one   *)
(* step, as the tools take them with nothing in between.                   *)
(***************************************************************************)
EXTENDS CurrentEvidence, Journal

CONSTANTS
    MaxRecordsLoaded,   \* max_records_loaded, less the manifest
    MaxTopologyLoaded, MaxSourcesLoaded, MaxEvidenceLoaded,
    MaxLives,    \* bound of a run: processes
    MaxRecords   \* bound of a run: records in the journal when more are written

ASSUME RecoveryAssumption ==
    /\ {MaxRecordsLoaded, MaxTopologyLoaded, MaxSourcesLoaded, MaxEvidenceLoaded} \subseteq Nat
    /\ MaxLives \in Nat \ {0}
    /\ MaxRecords \in Nat

VARIABLES
    up,          \* a process runs
    lives,       \* how many there have been
    persistStep, \* where its call of persist stands
    persisted,   \* what it remembers to have written
    accepted,    \* history: what its door let in
    raced        \* history: a declaration came before persist took note of the last

processVars == <<up, lives, persistStep, persisted, accepted, raced>>
recoveryVars == <<evidenceVars, journalVars, processVars>>

NothingPersisted == [revision |-> NoRevision, sources |-> 0, incarnations |-> 0]

PersistSteps == {"idle", "written", "noted", "sourced", "compacted"}

RecoveryTypeOK ==
    /\ EvidenceTypeOK
    /\ \A k \in DOMAIN file : file[k].kind \in {"session", "torn", "entry"}
    /\ flushed \in 0..Len(file)
    /\ stream \in {"good", "none"}
    /\ up \in BOOLEAN /\ raced \in BOOLEAN
    /\ lives \in 1..MaxLives
    /\ persistStep \in PersistSteps
    /\ persisted.revision \in 0..topology.revision
    /\ accepted \subseteq EvidenceItem

RecoveryInit ==
    /\ RegistryInit
    /\ NothingHeld
    /\ now = 1 /\ sent = {}
    /\ file = <<Session>> /\ flushed = 1 /\ stream = "good"
    /\ up = TRUE /\ lives = 1
    /\ persistStep = "idle" /\ persisted = NothingPersisted
    /\ accepted = {} /\ raced = FALSE

-----------------------------------------------------------------------------
(* What is written.                                                        *)

(* The members of a set of numbers, the k-th smallest in the k-th place.   *)
InOrder(S) ==
    [k \in 1..Cardinality(S) |-> CHOOSE x \in S : Cardinality({y \in S : y < x}) = k - 1]

TableRecord(kind, id, content) == [kind |-> kind, id |-> id, content |-> content]
EvidenceRecord(item) == [kind |-> "evidence", item |-> item]

TableRecords(topo, kind) ==
    [k \in 1..Cardinality(DOMAIN topo[kind]) |->
        LET id == InOrder(DOMAIN topo[kind])[k] IN TableRecord(kind, id, topo[kind][id])]

(* A plausible bug: a table is forgotten.                                  *)
RecordsWithoutFlows(topo) == TableRecords(topo, "links") \o TableRecords(topo, "paths")

(* append_topology: every table, each in the order of identities.          *)
TopologyRecords(topo) ==
    TableRecords(topo, "links") \o TableRecords(topo, "paths") \o TableRecords(topo, "flows")

SourceRecords ==
    SetToSeq({[kind |-> "source", source |-> s] : s \in sources})

IncarnationRecords(s) ==
    [k \in DOMAIN incarnations[s] |->
        [kind |-> "incarnation", source |-> s, epoch |-> incarnations[s][k].epoch]]

(* Every source, then every incarnation.                                   *)
RegistryRecords ==
    SourceRecords \o FlattenSeq([k \in DOMAIN SourceRecords |->
                                    IncarnationRecords(SourceRecords[k].source)])

Snapshot ==
    TopologyRecords(topology) \o RegistryRecords
        \o SetToSeq({EvidenceRecord(item) : item \in held})

Counts ==
    [sources |-> Cardinality(sources),
     incarnations |-> FoldLeft(LAMBDA n, r : n + Len(incarnations[r.source]), 0, SourceRecords)]

-----------------------------------------------------------------------------
(* What is read back.                                                      *)

(* What was restored so far, and how many records that took: one that      *)
(* repeats a declaration counts like the first.                            *)
Nothing ==
    [topology |-> EmptyTopology, sources |-> {},
     incarnations |-> [s \in Sources |-> << >>], held |-> {},
     topology_restored |-> 0, sources_restored |-> 0, evidence_restored |-> 0]

(* A plausible bug: recovered evidence is not marked.                      *)
RestoredAsLive(item) == item

Restored(item) == AsRecovered(item)

(* A plausible bug: the first declaration of an entity stands.             *)
TopologyKeepingFirst(topo, body) ==
    IF body.kind = "paths" THEN UpsertPath(topo, body.id, body.content, FALSE)
    ELSE Upsert(topo, body.kind, body.id, body.content, FALSE)

TopologyWith(topo, body) ==
    IF body.kind = "paths" THEN UpsertPath(topo, body.id, body.content, TRUE)
    ELSE Upsert(topo, body.kind, body.id, body.content, TRUE)

(* restore_incarnation: retired on arrival, and once.                      *)
IncarnationsWith(lists, s, e) ==
    IF \E k \in DOMAIN lists[s] : lists[s][k].epoch = e THEN lists
    ELSE [lists EXCEPT ![s] = Append(@, Retired(e))]

TableKinds == {"links", "paths", "flows"}

ReadTable(state, body) ==
    IF /\ state.topology_restored < MaxTopologyLoaded
       /\ UpsertOutcome(state.topology, body.kind, body.id, body.content, TRUE)
              # "CapacityExceeded"
    THEN [state EXCEPT !.topology = TopologyWith(@, body), !.topology_restored = @ + 1]
    ELSE state

ReadSource(state, s) ==
    IF /\ state.sources_restored < MaxSourcesLoaded
       /\ s \in state.sources \/ Cardinality(state.sources) < MaxSources
    THEN [state EXCEPT !.sources = @ \cup {s}, !.sources_restored = @ + 1]
    ELSE state

ReadIncarnation(state, s, e) ==
    IF s \in state.sources
    THEN [state EXCEPT !.incarnations = IncarnationsWith(@, s, e)]
    ELSE state

ReadEvidence(state, item) ==
    IF state.evidence_restored < MaxEvidenceLoaded /\ ~Known(state.held, item)
    THEN [state EXCEPT !.held = @ \cup {Restored(item)}, !.evidence_restored = @ + 1]
    ELSE state

(* One turn of the loop in load; what a record cannot add changes nothing. *)
ReadRecord(state, body) ==
    CASE body.kind \in TableKinds    -> ReadTable(state, body)
      [] body.kind = "source"      -> ReadSource(state, body.source)
      [] body.kind = "incarnation" -> ReadIncarnation(state, body.source, body.epoch)
      [] body.kind = "evidence"    -> ReadEvidence(state, body.item)

(* The loop: a session record is passed over; past the bound it ends.      *)
ReadBack(records) ==
    LET all == Readable(records)
        state[k \in 0..Len(all)] ==
            IF k = 0 THEN Nothing
            ELSE IF k <= MaxRecordsLoaded /\ all[k].kind = "entry"
            THEN ReadRecord(state[k - 1], all[k].body)
            ELSE state[k - 1]
    IN  state[Len(all)]

-----------------------------------------------------------------------------
(* While a process runs.                                                   *)

Administered ==
    /\ up
    /\ Administer
    /\ UNCHANGED <<generationVars, topology, uncounted, worldVars, held, historyVars,
                   journalVars, processVars>>

(* Between the writing of the declarations and the reading of their        *)
(* revision persist holds no lock.                                         *)
Happens ==
    /\ up
    /\ Happen
    /\ raced' = (raced \/ (persistStep \in {"written", "compacted"}
                           /\ topology' # topology))
    /\ UNCHANGED <<journalVars, up, lives, persistStep, persisted, accepted>>

(* A record is written only into a journal of bounded length.              *)
Written(bodies) == Len(file) < MaxRecords /\ AppendAll(bodies)

(* submit_sync, and append_evidence for what the door let in.              *)
Ingested(item) ==
    /\ up
    /\ Deliver(item)
    /\ IF Enters(item)
       THEN Written(<<EvidenceRecord(item)>>) /\ accepted' = accepted \cup {item}
       ELSE UNCHANGED <<journalVars, accepted>>
    /\ UNCHANGED <<up, lives, persistStep, persisted, raced>>

PersistTopology ==
    /\ up /\ persistStep = "idle"
    /\ IF topology.revision # persisted.revision
       THEN /\ Written(TopologyRecords(topology))
            /\ persistStep' = "written" /\ raced' = FALSE
       ELSE persistStep' = "noted" /\ UNCHANGED <<journalVars, raced>>
    /\ UNCHANGED <<evidenceVars, up, lives, persisted, accepted>>

(* The revision is read anew, after the tables were.                       *)
PersistNotes ==
    /\ up /\ persistStep = "written"
    /\ persisted' = [persisted EXCEPT !.revision = topology.revision]
    /\ persistStep' = "noted"
    /\ UNCHANGED <<evidenceVars, journalVars, up, lives, accepted, raced>>

CountsDiffer ==
    Counts # [sources |-> persisted.sources, incarnations |-> persisted.incarnations]

(* Only how many there are decides whether sources are written again.      *)
PersistSources ==
    /\ up /\ persistStep = "noted"
    /\ IF CountsDiffer
       THEN /\ Written(RegistryRecords)
            /\ persisted' = [persisted EXCEPT !.sources = Counts.sources,
                                              !.incarnations = Counts.incarnations]
       ELSE UNCHANGED <<journalVars, persisted>>
    /\ persistStep' = "sourced"
    /\ UNCHANGED <<evidenceVars, up, lives, accepted, raced>>

PersistCompacts ==
    /\ up /\ persistStep = "sourced"
    /\ Compact(Snapshot) /\ stream' = "good"
    /\ persistStep' = "compacted" /\ raced' = FALSE
    /\ UNCHANGED <<evidenceVars, up, lives, persisted, accepted>>

(* The counts of before the compaction stay; the revision is read anew.    *)
PersistEnds ==
    /\ up
    /\ \/ persistStep = "sourced" /\ UNCHANGED persisted
       \/ /\ persistStep = "compacted"
          /\ persisted' = [persisted EXCEPT !.revision = topology.revision]
    /\ Flush
    /\ persistStep' = "idle"
    /\ UNCHANGED <<evidenceVars, up, lives, accepted, raced>>

(* The process exits or crashes, with all it held in memory.               *)
ProcessEnds ==
    /\ up
    /\ LoseTail
    /\ up' = FALSE
    /\ sources' = {} /\ incarnations' = [s \in Sources |-> << >>]
    /\ UNCHANGED <<fence, admitted>>
    /\ flowGenerations' = NoEntities /\ pathGenerations' = NoEntities
    /\ topology' = EmptyTopology /\ uncounted' = {}
    /\ held' = {} /\ recorded' = {} /\ dropped' = {}
    /\ persistStep' = "idle" /\ persisted' = NothingPersisted
    /\ accepted' = {} /\ raced' = FALSE
    /\ UNCHANGED <<worldVars, lives>>

(* The revisions of paths are read back, not counted out.                  *)
Boot ==
    /\ ~up /\ lives < MaxLives
    /\ OpenFlushed
    /\ LET state == ReadBack(file')
       IN  /\ topology' = state.topology
           /\ uncounted' = {state.topology.paths[p].revision :
                                p \in DOMAIN state.topology.paths}
           /\ sources' = state.sources
           /\ incarnations' = state.incarnations
           /\ held' = state.held
    /\ up' = TRUE /\ lives' = lives + 1
    /\ UNCHANGED <<fence, admitted, generationVars, worldVars, historyVars,
                   persistStep, persisted, accepted, raced>>

RecoveryNext ==
    \/ Happens
    \/ Administered
    \/ \E item \in sent : Ingested(item)
    \/ PersistTopology \/ PersistNotes \/ PersistSources
    \/ PersistCompacts \/ PersistEnds
    \/ ProcessEnds \/ Boot

RecoverySpec == RecoveryInit /\ [][RecoveryNext]_recoveryVars

-----------------------------------------------------------------------------
(* "A record recovered from disk is never fresh until it is" sent again:   *)
(* whatever this process did not itself let in is not admitted, though its *)
(* source be declared, its epoch live again and its instant the present.   *)
RestartRevivesNothing ==
    \A item \in held :
        Admits(item.observation, now) => AsRecovered(item) \notin held /\ item \in accepted

(* What was declared, revisions left aside.                                *)
Declarations(topo) ==
    [links |-> topo.links, flows |-> topo.flows,
     paths |-> [p \in DOMAIN topo.paths |-> topo.paths[p].shape]]

IsTable(record) == record.kind = "entry" /\ record.body.kind \in TableKinds

(* The bounds of a load leave none of the tables' records out.  Every      *)
(* record counts, and persist writes all the tables for each revision: a   *)
(* journal outgrows the bounds though the tables are small.                *)
Loadable(records) ==
    LET all == Readable(records)
    IN  /\ Len(all) <= MaxRecordsLoaded
        /\ Cardinality({k \in DOMAIN all : IsTable(all[k])}) <= MaxTopologyLoaded

(* What persist remembers as written a restart would declare again: "so a  *)
(* restart recovers the topology ... that the evidence refers to"          *)
(* (engine.cpp:790).  Three exceptions: a crash tore the journal; the      *)
(* journal outgrew what a load reads; a declaration came between the       *)
(* writing of the tables and the reading of their revision, which then     *)
(* counts as written and is not.                                           *)
NotedIsRecoverable ==
    (/\ persisted.revision = topology.revision
     /\ ~raced /\ Torn \notin Range(file) /\ Loadable(file))
        => Declarations(ReadBack(file).topology) = Declarations(topology)

IsOf(record, kind, id) ==
    record.kind = "entry" /\ record.body.kind = kind /\ record.body.id = id

EntitiesIn(records, kind) ==
    {r.body.id : r \in {q \in Range(records) : q.kind = "entry" /\ q.body.kind = kind}}

(* What the last record of an entity declares.                             *)
LastOf(records, kind, id) ==
    records[Max({k \in DOMAIN records : IsOf(records[k], kind, id)})].body.content

(* After a restart every entity is declared as its last readable record    *)
(* declares it, however often it was written and replaced, as long as the  *)
(* bounds of the load leave no record of a table out.                      *)
RecoveryIsLastDeclared ==
    [][up' /\ ~up /\ Loadable(file') =>
        LET records == Readable(file)
            last(kind) == [id \in EntitiesIn(records, kind) |-> LastOf(records, kind, id)]
        IN  Declarations(topology') =
                [links |-> last("links"), flows |-> last("flows"),
                 paths |-> [p \in EntitiesIn(records, "paths") |-> last("paths")[p].shape]]
      ]_recoveryVars

==============================================================================
