# Loss Observatory: specification and verification

TLA+ models of the Loss Observatory runtime, the TLC runs that check them, and
TLAPS proofs about its core. Every definition is translated from the C++ under
`src/` and `include/`; `PROJECT.json` names the lines each one stands for.

To run one check: `tlc -config IngestDoor.cfg MCIngestDoor`; one proof:
`tlapm IngestDoor_proofs.tla`. The table of runs below says which module goes
with which configuration.

## 1. The system

The runtime takes in evidence of packet loss from several sources, keeps a
bounded amount of it, and answers questions about it: is a flow losing packets,
where on its path, since when. It would rather say "unknown" than guess, so most
of its code decides what may *not* be used.

| Component | State it keeps | Operations | Who calls it |
| --- | --- | --- | --- |
| Source registry (`model/source.cpp`) | declared sources; per source the list of incarnations (epochs); per (source, epoch) a high-water mark and a window of seen sequences | register, activate, activate a known epoch, restore, retire, `observe_sequence` | script, recovery, the store |
| Evidence store (`evidence/store.cpp`) | items per subject, identity memory, insertion order, counters | `submit`, `restore`, `mark_all_recovered`, `snapshot` | engine, recovery |
| Bounded queue (`core/bounded.hpp`) | items, closed flag, two condition variables | `push`, `pop`, `close`, `close_after_drain` | engine callers and workers |
| Engine (`engine.cpp`) | lifecycle state, workers, registered batches, stop source | `start`, `stop`, `request_stop`, `ingest`, `ingest_batch`, `classify`, `load`, `persist` | everybody |
| Episode tracker (`episode.cpp`) | episodes by identity, index of open ones by (flow, generation) | `observe`, `close_idle`, `seal_all`, `restore`, eviction | engine |
| Journal (`persist.cpp`) | one append-only file, a stream, its statistics | `open_session`, `append_*`, `flush`, `compact`, `load`, `close` | engine |
| Topology registry (`model/topology.cpp`) | declared links, paths, queues and flows, a revision counted from 1 in every process | upserts, lookups | script, recovery, freshness |
| Generation registry (`model/generation.cpp`) | two bounded tables: per entity and generation the first and last instant it was seen | `observe_*`, `correlate_*` | ingest, freshness |
| Freshness (`freshness.cpp`) | none: a ladder of objections over one observation and three registries | `assess_freshness` | engine |
| Validation (`evidence/evidence.cpp`, `model/method.cpp`) | none: what an item must be, and the canonical order | `validate`, `canonical_less` | store, derivation |
| Counter algebra (`evidence/counter.cpp`) | none: the ladder that turns two readings into a delta or an objection | `build_counter_series`, `derive_counter_deltas` | derivation |
| Derivation (`evidence/derive.cpp`) | none: evidence in, normalised observations of loss out | `derive_observations` | engine, anew for every query |
| Conflict (`conflict.cpp`), classification (`classify.cpp`) | none: tallies, claims, contradictions, the ladder of verdicts | `evaluate`, `classify` | engine, localization |
| Localization (`localize.cpp`) | none: hops, their classes, segments and counts | `localize` | engine |
| Aggregator (`aggregate.cpp`) | bounded windows of totals; beside it, in the engine, the bounded set of observations already added | `add`, `record_aggregates` | engine |
| Script, report, export, locctl, testkit | parsers, formatters, fixtures | | users and tests |

Every stateful component has one mutex and calls no other component while it
holds it, so an operation of one component is atomic and a call that crosses
components is not. What is hard here follows from that:

* `submit` asks the registry and then the store, in two critical sections;
  epochs come and go between them, and several threads submit at once.
* Two bounds of the store share one insertion order.
* Batches, workers, `stop` and `request_stop` share a queue, two condition
  variables, a third one per batch, an atomic state and a stop token.
* Recording an episode is observe, find and append, with no lock over the
  three; `stop` closes, seals, persists, appends and closes the journal while
  other threads may still classify.
* The journal may end anywhere when the process dies, and the next process
  appends to what is there before it reads it.
* Evidence arrives late, repeatedly and out of order, while the declarations it
  is about are replaced and declared back; whether it may be used is decided
  again at every question.
* `persist` writes what is declared without a lock that would keep declarations
  from changing; revisions are compared across processes that each count their
  own. A stream that failed once stays failed, and several steps of `stop` may
  fail one by one.
* A drop counter of finite width wraps, is reset without notice, is rebound or
  restarted; its readings come late and out of order, and a query only sees those
  that have come by then. The pipeline is a long composition of small rules over
  pooled counts, in which one wrong pooling is a wrong verdict.

`PROJECT.json` lists these hazards one by one, at the line where each bites,
with the properties that cover it or the reason none does.

### What makes each component correct

* Registry: nothing inside the window is admitted twice; a retired epoch admits
  nothing; the mark is the newest admission.
* Store: only what the fence admitted is held unmarked; no identity twice while
  it is remembered; bounds hold, the oldest goes first, evictions are counted.
* Engine: every slot of a batch gets one outcome, and a true one; nothing is lost
  silently or takes effect twice; whoever waits is woken; stop ends.
* Tracker: one open episode per binding; open episodes survive the bound; closed
  ones are never changed.
* Journal and recovery: what was flushed stays readable; recovery revives
  nothing and keeps the youngest of what it restores; a clean stop writes down
  everything.
* Freshness: what is admitted was measured at what is declared now, as far as
  the registry counted the revision it cites, belongs to
  the generation that was current then, by whatever order it arrived; nothing
  recovered is admitted.
* Derivation: no loss is believed that did not happen; every item is behind an
  observation, rejected, or covered by a note that a bound was hit; no report of
  an endpoint is counted twice; what rests on recovered evidence says so.
* Aggregate: all queries together add no more loss than there was; a bucket holds
  all of its window or none of it.
* Verdict: observations that are not current sway nothing; loss has a witness; a drop
  counter that advanced is never reported as absence; sources that contradict one
  another are reported; segments tile the path, count each observation once, and
  are no finer than their evidence.

## 2. The modules

| Module | Models | Extends |
| --- | --- | --- |
| `SlidingWindow` | the window that both the fence and the identity memory keep | |
| `SourceRegistry` | `SourceRegistry`, the fence included | `SlidingWindow` |
| `EvidenceStore` | `EvidenceStore` after the fence | `SlidingWindow` |
| `IngestDoor` | `submit` across the two, with threads | `SourceRegistry`, `EvidenceStore` |
| `BoundedQueue` | `BoundedQueue<T>`, with its wait sets | |
| `IngestContract` | what `ingest_batch` promises, with no threads in it | |
| `EngineLifecycle` | the threads of the engine around the queue; implements `IngestContract` | `BoundedQueue` |
| `EpisodeTracker` | `EpisodeTracker` | |
| `Journal` | the file, the stream and the reader's rule for damage | |
| `EpisodeHistory` | recording, stopping, crashing and recovering episodes | `EpisodeTracker`, `Journal` |
| `GenerationRegistry` | `GenerationRegistry`: windows, eviction, correlation | |
| `TopologyRegistry` | `TopologyRegistry`, as operators on one record | `GenerationRegistry` |
| `Freshness` | `assess_freshness` | `SourceRegistry`, `TopologyRegistry` |
| `CurrentEvidence` | sources, operators and time around `ingest` and freshness, in one process | `Freshness` |
| `EvidenceRecovery` | the same across processes: `persist`, crash, `load` | `CurrentEvidence`, `Journal` |
| `Ordering` | the orders the standard library is given | |
| `CheckedArithmetic` | saturating sums, ratios in basis points | |
| `EvidenceModel` | granularities, the method table, `validate`, the canonical order | `Ordering` |
| `CounterAlgebra` | series and the ladder over two readings | `EvidenceModel` |
| `Derivation` | `derive_observations` | `CounterAlgebra`, `CheckedArithmetic` |
| `Aggregation` | `BoundedAggregator` and `record_aggregates` | `Derivation` |
| `Metering` | a device, its readings on their way, queries, restarts | `Aggregation` |
| `Conflict` | `ConflictDetector` | `Ordering` |
| `Classification` | tallies, claims and verdicts | `CheckedArithmetic`, `Conflict` |
| `Localization` | hops, segments, attribution | `Derivation`, `Classification` |
| `Verdict` | `classify` and `localize` of the engine, while evidence arrives and ages | `Localization` |
| `MC*` | instances for TLC | the module of that name |
| `*_proofs` | lemmas and theorems | the module of that name |

### How state and actions correspond to the code

*Door.* A thread's `submit` is two steps, `PassFence` (everything up to the
switch over the fence outcome) and `ReachStore` (the block under the store's
mutex); `inHand` is the item in between. A refusal by the fence changes only a
counter and is not a step. `admitted` and `stored` are history: what the fence
let through and what the store inserted, in order; no guard reads them. An epoch
is an abstract value: the hash that `activate_incarnation` computes is any epoch
the source does not list.

*Engine.* One action per critical section or atomic access: reading the state at the
entry of `ingest_batch`, registering the batch, each `push`, each notification after
an unlock, each `pop`, the store's and the journal's part of `submit_sync`, reporting
to the batch, and the five stages of `stop`. The store may reject what it is given.
What it accepted goes to the journal, which takes no record without an open session
and may fail with one; then `persistence_failures_` counts it (`failures`) and the
outcome stays as the store gave it. `ingest`, and `ingest_batch` of an engine without
workers, submit on the caller's own thread and meet neither queue nor batch: they are
a thread of the door. A thread in a wait set takes no step until it is notified, the
stop callback fires, or it wakes spuriously; then it evaluates its predicate again,
as `condition_variable_any` does. `request_stop` is four steps, since it stores
`Draining` according to a state it read before. `stop` and `start` are called by one
controller.

*Episodes.* An identity is the record of what the code hashes, with the salt of
the loop that resolves collisions; the order of two hashes is arbitrary, so where
the code prefers the lower identity the model may choose. `life` numbers the
process that opened an episode and is history. The journal is a sequence of
records of which a prefix is flushed; a crash keeps any longer prefix and may
leave one torn record, which no reader passes. `stream` is the state of `stream_`:
good, failed (every later append is refused) or none. `StreamFails` is a write or
flush that fails, with the end of the buffer written, cut or torn; a compaction
heals a failed stream, or fails itself: before it touches the stream, or after
closing it unchecked, and then the reopening may fail too. `clean` is
`stopped_cleanly`, to which each step of `stop` adds its result. `Load` reads record
by record and restores `MaxEpisodesLoaded` of them, a record that names an episode
again counting like the first; `LoadEnds` may come at any record, since records of
other kinds count against `max_records_loaded` too.

*Current evidence.* `Measure` makes a message that may be delivered at any later time
and more than once; it carries what freshness will read (subject, source, epoch,
generation, the revision it cites, its instants) and, as history, the path and shape
its source saw. `Deliver` is `submit_sync`: `record_generations`, which comes before
the door and counts refused evidence too, and then the door, of which only liveness
of the epoch and identity matter here. Declarations come with the revisions a caller
can know: none, the one that `find_path` returned, or a number of the operator's own
(`OwnNumbers`, the script's `rev=`), which a new path keeps. `uncounted` remembers,
as history, the revisions that paths have without the registry having counted them
out. `Admits` is the whole ladder, in its order. `recorded` and `dropped` are
history.

*Recovery.* `persist` is four or five steps (`PersistTopology`, `PersistNotes`,
`PersistSources`, `PersistCompacts` or not, `PersistEnds`), because declarations may
change between them and the revision is read twice. `ProcessEnds` loses memory and an
end of the journal; `Boot` opens a session and folds what is readable through the
same upserts that operators use, with replacement allowed and within the bounds of
`load`; all but the one on evidence count a record that repeats another. The
generation tables are not journaled and start empty. `accepted` is what the door of
this process let in, as history.

*Contract.* `IngestContract` knows callers, slots, outcomes and effects: a slot takes
effect in the store and is then journaled or counted as a failure to journal; it is
answered as accepted after that, as rejected if it never takes effect, or as
cancelled if it has not; `request_stop` makes the last promise void (`abrupt`).
`EngineLifecycle` instantiates it with a refinement mapping: a batch is accepted when
its caller is past the refusals, effects are the variables `stored`, `journaled` and
`failures`, outcomes are the results themselves.

*Metering.* The device is the environment: it drops packets, and its counter is
reset, restarted, rebound or its clock set back. A `Reading` carries, as history,
what was really dropped when it was taken; no operator of the pipeline reads it.
`Deliver` is an admission, `Query` is what `classify`, `localize` and `explain` do
before they answer: derive anew from all that is held, then `RecordAggregates`.
Derivation is a pure function of the set held: the series with both bounds, the
whole ladder over neighbouring readings in the order of the code, probes, sequence
reports, the pairing of endpoint reports, the cut at `max_observations`, the
rejections. Integers have a width: words of `FullWidth` bits stand for 64,
`NarrowWidths` for 16 and 32, `Scale` for 10000 basis points.

*Verdict.* A behaviour is what arrives, expires and is recovered before one
question, and the answer; what may arrive is `Unseen`, for the store lets an identity
in once. `Classify` is `Classifier::classify`: freshness splits
the observations, the admissible ones are tallied per source and pooled, each
source makes a claim, `Evaluate` of `Conflict` looks for contradictions and for a
single source that outranks the rest, the ladder names a class. `Localize` is
`Localizer::localize`: relevance, coverage of hops, the class of each hop, runs of
equal neighbours, attribution of each observation to the run of its first hop, the
cuts. That an item is not current is here one fact about it (`expired`); which
facts make it so is module `Freshness`, checked by `current_evidence`.

### Abstractions

Names, texts, reasons, summaries and times that no decision reads are left out,
and so are statistics and bound notes other than those a property is about. In the
ingest modules (door, engine, episodes, freshness) payloads are left out, as are
the checks of a single item that come before any change of state (they are
`Valid` of `EvidenceModel`); their sets of inputs hold what passes them. Identities
that the code hashes are tuples of what is hashed and never collide, except where
the code handles collisions (episodes, incarnations). In the topology registry
queues are kept like links and a path is the set of places on it; in localization
a path is the list of its hops. The manifest is written with the first session
record and stands or falls with it. Of the bounds of `load`, the one on episodes is in
`EpisodeHistory` and the others are in `EvidenceRecovery`.

## 3. What the runs check

| Run | Module, configuration | Instance |
| --- | --- | --- |
| `ingest_door` | `MCIngestDoor`, `IngestDoor.cfg` | 2 threads, 1 source, 2 epochs, sequences 1..3 with a window of 2, 5 measurements on 4 subjects, 2 items in the store, 1 per subject, 3 subjects, 2 identities remembered, 4 insertions |
| `engine_safety` | `MCEngineLifecycle`, `EngineSafety.cfg` | 2 batches of 2, 2 workers, a queue of 1, 1 canceller, 3 calls of start and stop, 1 rejection or failed append |
| `engine_liveness` | `MCEngineLifecycle`, `EngineLiveness.cfg` | the same with batches of 1 |
| `episode_history` | `MCEpisodeHistory`, `EpisodeHistory.cfg` | 2 bindings, 2 instants, 2 threads, a bound of 1 episode, 2 processes, 3 classifications and failures of the journal together, compaction from 3 records on, 2 records restored per load |
| `current_evidence` | `MCCurrentEvidence`, `CurrentEvidence.cfg` | 2 flows of which 1 may be declared, 1 path of 2 shapes, 1 link, 2 generations, 2 instants, tables of 1 entity, 3 measurements, 4 measurements and declarations together, 1 number of the operator's own (3) |
| `evidence_recovery` | `MCEvidenceRecovery`, `EvidenceRecovery.cfg` | 1 flow, 1 path of 2 shapes, 1 source with 1 epoch, 1 measurement, 3 measurements and declarations together, 2 processes, appends while the journal is shorter than 5 records, a load of 6 records with 3 of tables, 1 source and 1 item |
| `derivation` | `MCMetering`, `Metering.cfg` | a counter of 2 bits, 2 packets dropped, 3 readings, 1 fault or process restart, 4 endpoint reports of 2 flows, 2 queries, 3 items held, 3 observations, 1 series, 1 bucket |
| `verdict` | `MCVerdict`, `Verdict.cfg` | 8 items about a path of 3 hops, up to 4 of them held and 1 expired, path declared or not, authority of the sources equal or not, 2 subjects to classify, 2 caps to localize under (`Link`, which only the queue's evidence goes beyond, and `Path`, which forbids naming hops), 2 segments, 2 items in a result |
| `first_record_wins`, `torn_tail` | `MCEpisodeHistory` | one thread, no symmetry, up to 3 processes, loads that the bound does not cut; see section 4 |
| `foreign_flow`, `segment_cap` | `MCVerdict` | as `verdict`; see section 4 |

Every module has a type invariant with the bounds of its structures: `TypeOK`,
`RecoveryTypeOK`.

`ingest_door`: `NoReplayWithinWindow` says the fence is sound over its whole
history; `OnlyThroughTheDoor` that what is held unmarked was admitted under the
very source and epoch it names; `NoMeasurementTwice` that the identity memory
works although two threads may carry one measurement past the fence;
`OldestEvictedFirst` that the insertion order does its duty until the subject
bound has bitten; `OrderNeverEmptyWhenPopped` that `pop_front` is never called on
an empty deque.

`engine_safety`: `IngestContractHolds` is the refinement: everything that threads,
queue, condition variables, `stop` and `request_stop` do together is allowed by
`IngestContract`, so every slot gets one outcome, a true one, and nothing takes
effect twice or after it was reported as rejected or cancelled. True means of
"accepted": it is in the store, and in the journal or among the failures counted.
It does not mean journaled (section 4). `OutstandingIsUndone` is what
the waiting of a caller rests on: three parties decrement or clear one counter;
`NeverDroppedSilently` follows a slot between the parties. `engine_liveness`:
`BatchesReturn`, `StopReturns`, and `QueuedIsProcessed`: what is queued ends up
rejected, or in the store and then journaled or counted as a failure.

`episode_history`: `NothingResumes` and `HistoryIsFrozen` about the tracker under
concurrency, eviction and recovery; `RecoveryKeepsYoungest`,
`FlushedStaysReadable` and `CleanStopIsComplete` about what survives. The first of
these says, after every record of a load, that the history holds the youngest of the
episodes restored so far; those that the bound of the load leaves out are not among
them (section 4). The last says
that a stop which reports success has every retained episode, closed and as memory
held it, on disk, whichever write or compaction failed before.

`current_evidence`: `FreshSawThisShape` says that evidence which cites a revision
that the registry counted out and is admitted was measured over the path, of the very
shape, that its subject has now, although paths are replaced and declared back and
flows rebound, and although operators number other paths themselves (of a number of
theirs it does not hold, section 4); `ArrivalOrderCannotMatter` compares `correlate`,
which sees windows widened in order of arrival, with a definition over the set of all
recordings.
`evidence_recovery`: `RestartRevivesNothing` (a measurement held but not let in by
this process is never admitted, though its epoch be live again), `NotedIsRecoverable`
(what `persist` noted as written a restart would declare again, unless a declaration
raced it, the journal is torn, or it holds more records than a load reads:
`Loadable`) and `RecoveryIsLastDeclared` (after `Boot` of a loadable journal each
entity is as its last readable record has it).

`derivation`: `LossIsReal` compares every delta that would be believed with what
the device really dropped between the two readings; `EachItemHeard` that no report
is used for two comparisons and nothing is passed over without a word;
`RecoveredTaints` that either end of an interval or comparison passes its mark on;
`AggregatesAreReal` that all queries together add no more than was dropped, unless
a reading came late into an interval that was already aggregated (that case does
count twice, see section 4); `BucketsAreComplete` that a bucket holds all that was
added of its window.

`verdict`: `StaleObservationsCannotSway` asks the same question without the
observations that are not current and compares the answers. Current is said of the
evidence and not by the ladder: nothing the observation rests on comes from a
journal, and the item that dates it has not expired. That is the later reading of an
interval and the sender's report of a comparison; the other end may have expired and
still decide what the observation says, which is a disagreement of section 4. A
verdict must also not have been cut (`Uncut`, likewise). `LossIsWitnessed` and
`DirectLossIsNotHidden` look for the observation behind a verdict or a segment.
`ConflictIsReported` relates the verdict to the claims and to the observations of
different sources; its exception for a total at the top of its word is explained in
section 5. `CountedInOnePlace`, `SegmentsTileThePath` and
`NothingFinerThanEvidence` relate the segments to the path and to what covers each
hop; the first says, also when segments were cut off, that those left hold exactly
what covers a hop of theirs, each observation once.

*Bounds.* They are the smallest at which each mechanism works: a window of two is the
smallest that is both full and partly full; three sequences make accepted, reordered,
replayed and forgotten all happen; a store of two items with one per subject makes
both evictions happen, in either order and after one another; five measurements with
two remembered make the memory forget. A queue of one slot with two batches of two
makes producers wait, workers wait and a close meet both. Three calls of the
controller are a start, a stop and a start again. A bound of one episode with two
bindings makes eviction meet open and closed episodes, old and young; two processes
are one crash or stop and one recovery. `TornTail.cfg` uses a third process because a
torn record has to be appended to and then read. Three measurements are the least
with which a window is widened backwards while another generation competes; a table
of one entity with two flows makes eviction happen. One path with two shapes,
declared, replaced and declared back, is the least history in which equal content has
different revisions. A table bound of one flow makes a refused declaration happen.
Three is a number that the registry too comes to within a run, after and before the
operator. A load of three records of tables is one short of what two rounds of
`persist` write, and a load of two episode records one short of two episodes of which
one is written again: both bounds cut loads of journals whose tables and histories
are within theirs.
In `derivation` two bits are the narrowest counter that wraps after a plausible step
and resets to a value a wrap cannot explain; three readings are a baseline, one
interval and a reading that comes late into it; four endpoint reports let two senders
compete for a receiver and one be undeclared; three observations and one bucket make
both bounds bite. In `verdict` four items are the least with which two sources
contradict one another while a counter series has a delta; the eight cover probes, a
series, injected reports, another flow's report and three granularities, on a path
whose indices have a gap; two segments for three hops make the cut bite; and with two
items in a result observations are cut before they are classified (section 4).
`MaxAttempts`, `MaxCalls`, `MaxSetbacks`, `MaxLives`, `MaxInstant`, `MaxSequence`,
`MaxNow`, `MaxMeasured`, `MaxEvents`, `MaxRecords`, `MaxRevision`, `MaxDropped`,
`MaxReadings`, `MaxHeld`, `MaxQueries`, `MaxFaults` and `MaxExpired` bound a run and
stand for nothing in the code.

*Deadlock* is checked except where a bound on insertions, events, queries or
processes, or the one question of a behaviour, stops the run itself:
`MCIngestDoor`, `MCCurrentEvidence`, `MCEvidenceRecovery`, `MCMetering`,
`MCVerdict`.

*Symmetry* is used for threads and bindings in the two safety runs, where nothing
distinguishes them, and not in the liveness run.

*Fairness.* Weak fairness of each worker, of each caller inside `ingest_batch`, of
the controller inside `start` or `stop` and of each thread inside
`request_stop`: a thread that can run is scheduled, and a mutex is handed over in
the end. Nobody is obliged to call anything, and a spurious wake-up is never
relied on.

## 4. Disagreements with the documentation

Each of the first table has a run that must find the statement violated;
`findings` in `PROJECT.json` quotes the text.

| Run | The text | The code |
| --- | --- | --- |
| `first_record_wins` | a restart observes an episode as it stood | `restore` keeps the first record of an identity |
| `torn_tail` | a truncated journal loses only the tail | the next session is appended behind the damage, and no reader gets there |
| `foreign_flow` | observations about the flow feed its aggregate | every observation whose subject is any flow or any path does |
| `segment_cap` | no segment is finer than the caller's cap | the cap bounds the answer's granularity, not that of its segments |

Without a run of their own. *Bounds and identity:*

* The per-subject eviction pops the front of the insertion order, whichever
  subject's item it names; the store can then exceed `max_items` and never evict
  the forgotten item (`evidence/store.cpp:119`, against `store.hpp:110`).
* Evicting a closed episode erases the index entry of the open one of the same
  binding, which is then tracked by nobody (`episode.cpp:278`).
* An entity dropped from the generation table counts as one nothing was recorded
  of, to which freshness does not object (`model/generation.cpp:42` and `:67`).
* Each process counts revisions from 1 while recovered paths keep theirs: a
  replaced path may take a revision it had before (`model/topology.cpp:313`).
* A new path keeps a revision that its declaration names (`model/topology.cpp:317`,
  the script's `rev=`). Declared as revision 3 while the registry counts 2, and then
  replaced, its new shape is revision 3 too, and evidence that cites 3 of the old
  shape is admitted: "a changed path shape would keep validating evidence recorded
  against a shape it no longer has" (`model/topology.cpp:315`). TLC finds it in
  `FreshSawThisShape` without its exception `uncounted`.
* `aggregated_ids_` full means that nothing is aggregated again (`engine.cpp:408`).

*Lifecycle and journal:*

* Activating a known epoch leaves it behind the entry that `current_incarnation`
  returns (`model/source.cpp:131`, against `model/source.hpp:130`).
* `request_stop` may set a stopped engine back to draining (`engine.cpp:126`);
  after it a slot reported as not processed may have been stored
  (`engine.cpp:366`).
* A declaration between lines 794 and 799 of `engine.cpp` counts as persisted and
  is not.
* `load` gives a path that the journal holds in two versions a new revision while
  the flow bound to it keeps its own, so evidence about the flow is stale until it
  is declared again.
* An item reported as accepted may not be in the journal: an append that fails is
  counted in `persistence_failures_` and nowhere else (`engine.cpp:296`).
* `load` restores at most `max_episodes_loaded` episode records, and counts a record
  that names an episode again like the first (`persist.cpp:1313`). The journal holds
  them in the order of writing: a history within its own bound, recorded often, loses
  at a restart the episodes written last, which are as a rule the youngest.
* `load` likewise restores at most `max_topology_loaded` records of the tables
  (`persist.cpp:1164`), while `persist` writes all tables anew for every revision.
  After enough revisions the last declarations are the ones a restart does not
  apply, against "so a restart recovers the topology" (`engine.cpp:790`);
  `max_records_loaded` (`persist.cpp:1103`) does the same to records of any kind.
  TLC finds it in `NotedIsRecoverable` and `RecoveryIsLastDeclared` without their
  condition `Loadable`.
* A failed compaction reopens the journal behind whatever its unchecked close left
  (`persist.cpp:1376`), and with no stream at all a flush reports success
  (`persist.cpp:877`). A stop is still told apart, since its appends then fail.

*Evidence:*

* Endpoint reports about anything but flows share one group, so two ends of
  different entities are compared (`evidence/derive.cpp:498`, against
  `model/method.cpp:27`, "compared for the same flow").
* The loss of counters, which has no denominator, is pooled over what probes
  offered (`classify.cpp:97`, against `docs/ARCHITECTURE.md`, where no denominator
  is invented); localization adds what throughput counters offered.
* Probes that lost packets, but at a pooled ratio under one basis point, or under
  `suspected_ratio_bp` while a drop counter stands still, are reported as no loss
  (`classify.hpp:24`); totals that saturate may confirm a loss of zero.
* The ladder of one source's claim is not the ladder of the verdict; an authority
  with no opinion resolves a contradiction of others; and once it is resolved the
  verdict still comes from the pool (`README.md:24` of the repository says the
  authority resolves).
* An observation about a flow with a fine granularity, which only injected
  evidence has, is attributed to every hop; ambiguity is not flagged when two
  segments assert loss in different classes (`localize.cpp:529`, against
  `localize.hpp:95`); the number of unobserved hops is a difference of indices
  (`localize.cpp:525`).
* `classify` cuts the observations about a subject to `max_result_items`, oldest
  first, before it asks which are fresh (`engine.cpp:485`), and notes no bound: old
  evidence can leave no room for the fresh. The verdict is then that nothing is
  current, or that no loss was seen although a later drop counter advanced, against
  `docs/EVIDENCE_MODEL.md:139` and "Bounded behaviour is reported, never hidden"
  (`README.md:119`). TLC finds both with the cut at two, in the properties
  `StaleObservationsCannotSway` and `DirectLossIsNotHidden` without their condition
  `Uncut`, which names the verdicts for which the statements are true.
* "Both endpoints of the interval decide whether it is current"
  (`evidence/derive.cpp:478`), and "a comparison is only as current as the older of
  the two reports" (`:563`). Only the mark of recovery is taken from both. Age,
  epoch, generation and revision are those of one item, the later reading or the
  sender's report; an expired baseline or an expired receiver's report still decides
  class and counts. With a fresh later reading and an expired baseline the answer is
  `SuspectedLoss`, without the baseline `IncompleteEvidence`.
  `StaleObservationsCannotSway` therefore speaks of observations, by the item that
  dates them, and not of items.
* The classifier is not told of bounds by `localize`; observations of endpoints
  ignore `max_observations` (`evidence/derive.hpp:140`).
* `max_points_per_series` keeps the oldest points; the key of a series does not
  hold the subject; `Reset` and `Unresolved` are not used as `counter.hpp:16`
  describes them; a topology change as a discontinuity is never produced.
* A reading that comes late into an interval already aggregated makes two more
  intervals, which are added too.

## 5. What is proved

The theorems hold for all values of the constants that satisfy the named assumptions
of the modules: bounds are positive, identities that the code orders are numbers,
inputs are made of what their sets say. Five assumptions say more. `EvidenceStore`:
there are finitely many subjects (their identities have a fixed width), since the
store's item count sums over them. `EngineLifecycle`: finitely many callers (the
mapping counts what they wait for) and at least one worker (with none the engine has
no queue and `ingest_batch` is a loop of `submit_sync`). `CurrentEvidence`: the
instants that time reaches are instants of observation. `MeteringAssumption`: a
counter has at least one value, since the prover knows nothing of exponents.
`VerdictAssumption` says of items, hops and requests what their C++ types do, and
that items passed `validate`, as everything in the store has. TLC evaluates all of
them in the runs.

*The door.* `IngestDoor_proofs`, for any number of threads:

* `TypeCorrect`: types, the bounds on window, identity memory, buckets, subjects
  and insertion order.
* `OrderOutlastsBuckets`: `OrderNeverEmptyWhenPopped`.
* `FenceIsSound`: `NoReplayWithinWindow`, and that the mark is the newest
  admission.
* `StoredOnce`: `NoMeasurementTwice`.
* `OnlyDoor`: `OnlyThroughTheDoor`.
* `OldestGoesFirst`: `OldestEvictedFirst`.

Neither `NoReplayWithinWindow` nor `NoMeasurementTwice` is inductive: both say
something of a log, while the code only looks at a window. The strengthening is
that the window is exactly the end of the log (`IsWindow`), as long as the
window's capacity or the whole log. The lemmas about sliding show that it keeps
this, that an element not in the window extends a log without repetition to one
without repetition, and that such a window is injective and forgets just its
oldest element. The fence uses them with the sequences of one (source, epoch)
(`FenceInv`), the store with its identities (`MemoryInv`, which also ties the set
`seen_ids_` to the deque beside it). `TypeInv` adds to `TypeOK` that the insertion
order is not empty once any bucket is not: an insertion pops at most one from the
front when it is full and always adds one at the end, and this is what keeps
`pop_front` defined although order and buckets drift apart. `OnlyDoor` rests on
`AdmittedGrows` (the log of admissions only grows) and on the fact that eviction
and marking never turn a marked item into an unmarked one. `OldestGoesFirst` says
that order and buckets agree as long as no bucket was full. What is kept is a
one-to-one correspondence of the order's entries with the places in the buckets
(`Matched`), which an insertion extends (`MatchedByAppend`). The eviction erases by
identity, from the first bucket that holds it; when the identity memory is smaller
than the store this need not be the item that the front was pushed for, and then
the two entries of that name change places in the correspondence
(`MatchedByErase`). Numbers and identities agree because correspondences count
(`MatchedCount`, and `ItemCountIs` for the sum over the buckets).

*The engine.* `EngineLifecycle_proofs`, for any number of callers, workers and
threads that call `request_stop`, any batch size, any capacity of the queue, any
number of starts, stops, rejections and failed appends:

* `TypeCorrect`; `OutstandingCounts`: `OutstandingIsUndone`; `NothingDropped`:
  `NeverDroppedSilently`.
* `EngineImplementsContract`: `IngestContractHolds`, the refinement. Every step of
  the engine, under the mapping of `EngineLifecycle`, is a step of the contract or
  leaves the contract's state alone.
* `EngineAnswersAreTrue`, `EngineAnswersStand`: what `IngestContract_proofs` proves
  of the contract (`AnswersAreTrue`, `AnswersStand`: what is reported as accepted is
  in the store, and journaled or counted as a failure to journal; what is reported as
  rejected is in neither; what is reported as cancelled is not either, unless
  `request_stop` was called; who has returned has all answers; no outcome is ever
  replaced) therefore holds of the engine's own results.

The invariant has a part for each thing that could go wrong. `SlotInv`: a slot that
was handed over is at one position of the queue or in the hand of one worker, so
nothing takes effect twice. `EffectInv`: how far its evidence has come, by what its
worker does. `OutcomeInv`: the counter is the number of slots without an answer; a
slot that is stored has one or a worker that will still give it, which is why
`stop` may fill in "cancelled" only where nothing was stored. `PendingInv` and
`StopInv`: nobody answers for a slot that is on its way, and a worker leaves only
when the queue is empty and will stay so. Both hold only while `request_stop` has
not been called: it clears the queue under the workers' hands, which is the
disagreement of section 4.

*Episodes and their journal.* `EpisodeHistory_proofs`, for any number of bindings,
threads, processes and events and any bounds, those of `load` among them:

* `TypeCorrect`; `NeverResumed`: `NothingResumes`; `ClosedStaysAsItIs`:
  `HistoryIsFrozen`; `RecoveryIsByAge`: `RecoveryKeepsYoungest`; `DiskOnlyGrows`:
  `FlushedStaysReadable`; `CleanStopIsTrue`: `CleanStopIsComplete`.

`RecoveryKeepsYoungest` speaks of every turn of a loop, since the loop may end at
any; `RecoveryInv` adds where the loop is. `Noted` is what the records up to there
name that were restored: a record past the bound adds nothing to it, and one within
it adds the episode it names. The step needs that evicting the oldest of one more
than the bound leaves the youngest ones, also when identities tie.
`CleanStopIsComplete` needs to know, at each stage of `stop`, what the stages before
have reached (`StoppingInv`): once sealed nothing is open; once appended, unless a
write failed, the last entry of each retained episode is what memory holds
(`Described`); and only then does a flush that reports success say anything.

*Current evidence.* `CurrentEvidence_proofs`, for any number of sources, flows,
paths, generations, instants, measurements and declarations:

* `FreshIsSeen`: `FreshSawThisShape`, with any numbers for operators to write, under
  every policy that does not waive topology revisions (the default one does not; one
  that does gives the promise up by design).
* `OrderOfArrivalCannotMatter`: `ArrivalOrderCannotMatter`, under every policy.
* `TypeCorrect`, with the bound of the generation tables.

The first needs no look at the evidence held: `RevisionsInv` says that a revision
which the registry counted out names one declaration of one path, that the registry
counts past all of them, and that flows are bound to declared paths; `CitationsInv`
that whatever path has the counted revision that a measurement cites is the path that
was seen, in the shape it was seen in. A declaration keeps both because what it
counts out is new, because what is replaced loses the revision it had, and because
any other number a new path comes with is remembered in `uncounted` for good. The
numbers of operators cannot be left out of the exception: they may be given to two
paths, or be counted out later (section 4).

For the second, `RecordingsInv` says of every entity that was never dropped that
the table has exactly the generations recorded of it and that each window spans
exactly the instants recorded (`Spans`). That the code's choice among the windows
is the definition over the recordings needs that of the generations that started
one outranks all others: `OneOutranks` finds it in three steps (covering, last
start, largest identity). Recording is a recursion over a set, which is solved by
`RecursionByMax`: the least cardinality at which a solution fails to exist is a
contradiction.

*Recovery.* `EvidenceRecovery_proofs`, for any number of processes, declarations,
sources and measurements, any length of the journal and any place where a crash
cuts it:

* `RecoveryTyped`: `RecoveryTypeOK`; `NothingRevived`: `RestartRevivesNothing`;
  `NotedRecovers`: `NotedIsRecoverable`; `LastDeclared`: `RecoveryIsLastDeclared`.
  The bounds of `load` are any; the last two are about journals within them
  (`Loadable`), the first two about all.

The records are tied to the tables by two predicates. `NamedIn`: whatever entity a
record declares is declared. `SaidBy`: whatever is declared is so as its last record
says. The loop of `load` keeps both from record to record (`OneMoreRead`, then
`ReadBackSays` by the least counterexample), provided that no declaration is refused
because a table is full or a bound of the load is reached. The second is `Loadable`,
which a journal inherits from any longer one (`PrefixLoadable`). The first is what
`CapacityInv` is for: at every moment, between processes too, there are tables within
their limits that declare all that is readable; while a process runs its own are
such, since nothing is ever undeclared, and a crash only shortens what is readable
(`CutIs`). `SaysInv` follows the note of the revision through the steps of `persist`:
the journal says what is declared as soon as the tables are written and for as long
as the remembered revision is the present one. Writing tables behind others, writing
records of no entity and compacting keep it (`WritingSays`, `LongerSays`,
`Compacted`); a declaration ends it, because its revision is new, or is what `raced`
records. Two tables said by the same records declare the same (`SameDeclarations`),
revisions aside. For the evidence it is enough that what is held unmarked was let in
by this process and has no marked copy beside it (`EvidenceInv`).

*The counters.* `LossNeverInvented` (`Metering_proofs`): `LossIsReal` for any
width, any number of readings, drops, resets, restarts, rebindings, clock
settings and process restarts, any policy and any reports. It speaks of every pair
of readings, not only of neighbours. `LossIsReal` is not inductive, because a
reading says nothing of the device later. The strengthening (`ReadingsInv`) has
two parts: a counter that nobody restarted or rebound has moved on from any
reading by no more than was dropped since (`CounterIsBehind`: wrapping and
resetting only make it fall behind), and so have any two readings of one
incarnation and generation (`MovesAreReal`); the latter follows from the former
when a reading is taken. The ladder then believes a delta only within one
incarnation and generation, in the order of the sequence, and unwrapped.

*The verdict.* `Verdict_proofs`, for any items, sources, topologies and authorities,
any policies, any width of words and any length of paths and results:

* `TypeCorrect`: `TypeOK`; `StaleObservationsNeverSway`: `StaleObservationsCannotSway`;
  `LossIsAlwaysWitnessed`: `LossIsWitnessed`; `DirectLossIsNeverHidden`:
  `DirectLossIsNotHidden`; `ConflictIsAlwaysReported`: `ConflictIsReported`;
  `SegmentsAlwaysTile`: `SegmentsTileThePath`; `NothingEverFiner`:
  `NothingFinerThanEvidence`.
* `DerivationIsOrdered`: what `Derive` returns is all that is derived, in the strict
  order of observations.
* Of `Classify` as a function, for any sequence of observations:
  `AbsenceHearsCounters`, `NothingFreshNothingSaid`, `StaleAddsNothing`,
  `LossHasAWitness`, `TiedSourcesStopTheVerdict`, `ConflictHasAWitness`. Confidence
  and the list of claims may differ with stale evidence, as the code means them to.

The inductive invariant (`IInv`) is short, because a question is asked once and
nothing happens after it: the evidence held are finitely many valid items, typed and
with identities of their own (`Proper`), and the answer, once there is one, is what
the pipeline makes of the evidence and the registries (`Answered`). `Recover` keeps
it because to mark an item changes no identity (`MarkedIs`). The work is in what
follows from it, along the pipeline:

* *Order.* Each order the code sorts by is one of tuples of numbers under keys that
  no two elements share, so a strict total one (`KeysOrder`), and what counts its
  predecessors is the sorted sequence (`SortedByKey`).
* *Derivation.* Each kind of observation is a `Statement`, a record that counts in
  words, loses no more than was offered where it says that it is valid, and is named
  after its kind and its items; statements of one derivation never share a name
  (`StatementsDiffer`). The pairing of endpoints and the deltas of the series are
  folds, of which only this much is needed. An observation is marked recovered exactly
  if one of the items it rests on is (`HistoryOf`), which with the item that dates it
  makes `Fresh` of the ladder the same as current (`FreshIsCurrent`).
* *Classification.* `AmongAmong`: a selection of a selection is the selection of
  what both want, in the same order; so each source's tally is added up from the
  same observations whether the stale ones are left out first or last.
* *Localization.* What a hop shows is what the classifier makes of the fresh evidence
  about it (`HereIs`), so the theorems about `Classify` hold hop by hop. The
  sorted starts of runs cut the path into intervals within which hops show the same
  (`NoStartNoChange`), so that a segment tells what each of its hops shows
  (`TiledTells`). Attributing counts changes nothing else of a segment
  (`AttributedIs`).

Two conditions are worth a word. `LossToConfirm` asks for a `confirmed_ratio_bp`
above zero: the default is 100 (`classify.hpp:183`), nothing checks it, and at zero
`Classifier::classify` calls loss confirmed on covered evidence of no loss at all.
And a total at the top of its word is its own exception because a ratio whose
*offered* total overflows also sets the lost total to the top
(`classify.cpp:111-127`): neither a loss nor a conflict then needs a lost packet.

*Recursion.* The library's induction theorems take an operator as a parameter,
which the installed provers cannot instantiate. Where a proof needs what a
particular recursive function computes, it argues by the least counterexample
(`Least`, `LeastFailure`, `ReachesEach`), which is first-order.

*Only model-checked:* what the long folds of `Metering` compute (`EachItemHeard`,
`RecoveredTaints`, `AggregatesAreReal`, `BucketsAreComplete`) and its types;
`CountedInOnePlace`, an equation of sums over sets and over segments; and
everything about liveness, which is out of the prover's reach, as is ENABLED.

## 6. Not modelled

* The script language, `locctl`, reports, explain and export: parsing and formatting
  around the operations above, called one at a time.
* The testkit; identities, hashes, times and byte encodings; checksums, except that a
  damaged record is recognised; versions.
* Two controllers that call `stop` at once, which the code does not support (both
  join the same threads), and a classification that races `stop` beyond what
  `EpisodeHistory` has.
* The manifest as a record of its own; failing writes in `EvidenceRecovery`, whose
  subject is declarations; `EpisodeHistory` has them.
* Operations without a caller on these paths: `clear`, `set_limits`, `try_push`,
  `try_pop`, filters of queries.
* `explain` as a query of its own: it derives and aggregates as `classify` does,
  which is `Query` of `Metering`.

## 7. Plan

1. `CountedInOnePlace`, by sums over the segments; then `RecoveredTaints` and
   `EachItemHeard` of `Metering`, from the lemmas about derivation in
   `Verdict_proofs`.
2. Counter series and freshness in one model: expiry by age within a series that is
   read while it grows.
