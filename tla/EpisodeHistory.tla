---------------------------- MODULE EpisodeHistory ----------------------------
(***************************************************************************)
(* The engine's episode history across processes: classifying threads feed *)
(* the tracker and the journal (record_episode in src/src/engine.cpp), the *)
(* engine stops or the process dies, and the next process opens a session  *)
(* on the same journal and recovers what it can read.                      *)
(*                                                                         *)
(* A process starts, loads and then classifies, in the order of locctl.    *)
(* Each thread holds no lock between the tracker's and the journal's, so   *)
(* observe, find and append are steps of their own; so are the parts of    *)
(* stop.  A process ends at any point, by an exit or a crash.              *)
(*                                                                         *)
(* A write may fail at any time, and so may a compaction.                  *)
(*                                                                         *)
(* Abstracted: the other records of the journal, except that writing them  *)
(* may fail persist, and that they count against max_records_loaded, so    *)
(* that this bound may end a recovery anywhere; the classification, which  *)
(* is one of loss, absence or neither.                                     *)
(***************************************************************************)
EXTENDS EpisodeTracker, Journal

CONSTANTS
    Threads,            \* the threads that classify
    MaxLives,           \* bound of a run: processes
    MaxEvents,          \* bound of a run: classifications and failures of the journal
    MaxJournal,         \* max_journal_bytes, in records
    MaxEpisodesLoaded   \* max_episodes_loaded

ASSUME HistoryAssumption ==
    /\ MaxLives \in Nat
    /\ MaxEvents \in Nat
    /\ MaxJournal \in Nat
    /\ MaxEpisodesLoaded \in Nat

VARIABLES
    pc,       \* how far the process is
    life,     \* the ordinal of the process
    cursor,   \* the next record load reads; 1 when nothing is loaded
    looking,  \* per thread, the identity it is to look up, if any
    writing,  \* per thread, the copy it is to append, if any
    events,   \* how many classifications and failures there were
    clean,    \* stopped_cleanly of stop
    raced     \* history: a thread recorded after the engine began to stop

processVars == <<pc, life, cursor, events, clean, raced>>
threadVars == <<looking, writing>>
vars == <<trackerVars, journalVars, processVars, threadVars>>

Up == {"running", "idle_closed", "sealed", "persisted", "appended", "stopped"}

Phases == {"down", "opening", "loading"} \cup Up

TypeOK ==
    /\ TrackerTypeOK
    /\ \A k \in DOMAIN file :
          \/ file[k] \in {Session, Torn}
          \/ file[k].kind = "entry" /\ file[k].body \in LossEpisode
    /\ flushed \in 0..Len(file)
    /\ stream \in Streams
    /\ pc \in Phases
    /\ life \in 0..MaxLives
    /\ cursor \in Nat
    /\ \A t \in Threads :
          /\ looking[t] \subseteq EpisodeId /\ writing[t] \subseteq LossEpisode
          /\ Cardinality(looking[t]) + Cardinality(writing[t]) <= 1
    /\ events \in 0..MaxEvents
    /\ clean \in BOOLEAN
    /\ raced \in BOOLEAN

Init ==
    /\ TrackerInit
    /\ JournalInit
    /\ pc = "down"
    /\ life = 0
    /\ cursor = 1
    /\ looking = [t \in Threads |-> {}]
    /\ writing = [t \in Threads |-> {}]
    /\ events = 0
    /\ clean = TRUE
    /\ raced = FALSE

-----------------------------------------------------------------------------
(* Starting: start() opens the session and flushes it, load() reads back.  *)

Start ==
    /\ pc = "down"
    /\ life < MaxLives
    /\ OpenSession
    /\ pc' = "opening"
    /\ life' = life + 1
    /\ UNCHANGED <<trackerVars, cursor, events, clean, raced, threadVars>>

StartFlushes ==
    /\ pc = "opening"
    /\ stream = "good"
    /\ Flush
    /\ pc' = "loading"
    /\ UNCHANGED <<trackerVars, life, cursor, events, clean, raced, threadVars>>

Loaded == cursor > Len(Readable(OnDisk))

EntriesBefore(records, k) == {j \in 1..(k - 1) : records[j].kind = "entry"}

(* Is the k-th record restored?  episodes_restored counts the records that *)
(* were, an episode as often as it is named; at the bound the later ones   *)
(* are refused.                                                            *)
IsRestored(records, k) ==
    /\ records[k].kind = "entry"
    /\ Cardinality(EntriesBefore(records, k)) < MaxEpisodesLoaded

Load ==
    /\ pc = "loading"
    /\ ~Loaded
    /\ IF IsRestored(Readable(OnDisk), cursor)
       THEN Restore(Readable(OnDisk)[cursor].body)
       ELSE UNCHANGED trackerVars
    /\ cursor' = cursor + 1
    /\ UNCHANGED <<journalVars, pc, life, events, clean, raced, threadVars>>

(* At the last readable record, or before it at max_records_loaded.        *)
LoadEnds ==
    /\ pc = "loading"
    /\ pc' = "running"
    /\ cursor' = 1
    /\ UNCHANGED <<trackerVars, journalVars, life, events, clean, raced, threadVars>>

-----------------------------------------------------------------------------
(* Recording: record_episode of one thread.                                *)

Idle(t) == looking[t] = {} /\ writing[t] = {}

Racing == raced' = (raced \/ pc # "running")

Event == events < MaxEvents /\ events' = events + 1

(* The first half: observe, and the identity it returns.                   *)
Classify(t) ==
    /\ pc \in Up
    /\ Idle(t)
    /\ Event
    /\ \E b \in Bindings, at \in Instants :
          \/ ObserveFirstLoss(b, at, life) /\ looking' = [looking EXCEPT ![t] = {FreshId(b, at)}]
          \/ /\ ObserveMoreLoss(b, at) \/ ObserveAbsence(b) \/ ObserveNeither(b)
             /\ looking' = [looking EXCEPT ![t] = Tracked(b)]
    /\ Racing
    /\ UNCHANGED <<journalVars, pc, life, cursor, clean, writing>>

(* find: the episode as it stands now, if it is still there.               *)
FindEpisode(t) ==
    /\ looking[t] # {}
    /\ writing' = [writing EXCEPT ![t] = {e \in episodes : e.id \in looking[t]}]
    /\ looking' = [looking EXCEPT ![t] = {}]
    /\ Racing
    /\ UNCHANGED <<trackerVars, journalVars, pc, life, cursor, events, clean>>

(* append_episode, which fails without a good stream.                      *)
JournalEpisode(t) ==
    \E e \in writing[t] :
        /\ AppendAll(<<e>>)
        /\ writing' = [writing EXCEPT ![t] = {}]
        /\ Racing
        /\ UNCHANGED <<trackerVars, pc, life, cursor, events, clean, looking>>

-----------------------------------------------------------------------------
(* Persisting and stopping.                                                *)

(* episodes(): the history in the order of the identities, which are       *)
(* hashes, so in any order.                                                *)
Histories == SetToSeqs(episodes)

(* persist, and whether it succeeds: compaction when the journal is long,  *)
(* otherwise a flush.  Without a stream declarations cannot be written,    *)
(* but where none changed only the flush is left, and that succeeds.       *)
Persisted(ok) ==
    \/ /\ Len(file) >= MaxJournal
       /\ \/ /\ \E history \in Histories : Compact(history)
             /\ ok = (stream' = "good")
          \/ CompactionFails /\ ~ok
       /\ IF ok THEN UNCHANGED events ELSE Event
    \/ /\ Flush
       /\ ok \in {FlushReports, stream = "good"}
       /\ UNCHANGED events

Persist ==
    /\ pc = "running"
    /\ \E ok \in BOOLEAN : Persisted(ok)
    /\ UNCHANGED <<trackerVars, pc, life, cursor, clean, raced, threadVars>>

StopClosesIdle ==
    /\ pc = "running"
    /\ \E now \in Instants : CloseIdle(now)
    /\ pc' = "idle_closed"
    /\ UNCHANGED <<journalVars, life, cursor, events, clean, raced, threadVars>>

StopSeals ==
    /\ pc = "idle_closed"
    /\ SealAll("ClosedExplicitly")
    /\ pc' = "sealed"
    /\ UNCHANGED <<journalVars, life, cursor, events, clean, raced, threadVars>>

StopPersists ==
    /\ pc = "sealed"
    /\ \E ok \in BOOLEAN : Persisted(ok) /\ clean' = ok
    /\ pc' = "persisted"
    /\ UNCHANGED <<trackerVars, life, cursor, raced, threadVars>>

StopAppends ==
    /\ pc = "persisted"
    /\ \E history \in Histories : AppendAll(history)
    /\ clean' = (clean /\ (stream = "good" \/ episodes = {}))
    /\ pc' = "appended"
    /\ UNCHANGED <<trackerVars, life, cursor, events, raced, threadVars>>

(* A plausible bug: the result of the last flush is not looked at.         *)
StopClosesRegardless ==
    /\ pc = "appended"
    /\ Close
    /\ pc' = "stopped"
    /\ UNCHANGED <<trackerVars, life, cursor, events, clean, raced, threadVars>>

(* flush and close.                                                        *)
StopCloses ==
    /\ pc = "appended"
    /\ Close
    /\ clean' = (clean /\ FlushReports)
    /\ pc' = "stopped"
    /\ UNCHANGED <<trackerVars, life, cursor, events, raced, threadVars>>

-----------------------------------------------------------------------------

(* A write fails, and with it every later one.                             *)
StreamFails ==
    /\ pc # "down"
    /\ WriteFails
    /\ Event
    /\ UNCHANGED <<trackerVars, pc, life, cursor, clean, raced, threadVars>>

(* The process ends: memory is gone, and what was not flushed may be.      *)
ProcessEnds ==
    /\ pc # "down"
    /\ LoseTail
    /\ pc' = "down"
    /\ episodes' = {}
    /\ openIndex' = {}
    /\ evicted' = 0
    /\ looking' = [t \in Threads |-> {}]
    /\ writing' = [t \in Threads |-> {}]
    /\ clean' = TRUE
    /\ raced' = FALSE
    /\ cursor' = 1
    /\ UNCHANGED <<life, events>>

(* The last process of a run has ended.                                    *)
Ended ==
    /\ pc = "down"
    /\ life = MaxLives
    /\ UNCHANGED vars

Next ==
    \/ Start \/ StartFlushes \/ Load \/ LoadEnds
    \/ \E t \in Threads : Classify(t) \/ FindEpisode(t) \/ JournalEpisode(t)
    \/ Persist
    \/ StopClosesIdle \/ StopSeals \/ StopPersists \/ StopAppends \/ StopCloses
    \/ StreamFails
    \/ ProcessEnds
    \/ Ended

Spec == Init /\ [][Next]_vars

-----------------------------------------------------------------------------
(* Properties of the tracker.                                              *)

(* An open episode was opened by this process: recovery revives none, and  *)
(* no later observation can extend one ("episodes never resume across a    *)
(* restart").                                                              *)
NothingResumes ==
    \A e \in Opened(episodes) : e.life = life

(* A closed episode is history: while it is retained, nothing a thread     *)
(* observes or stop does changes it.                                       *)
HistoryIsFrozen ==
    [][ \A e \in episodes, f \in episodes' :
            IsClosed(e) /\ e.id = f.id /\ pc' # "down" => f = e ]_vars

-----------------------------------------------------------------------------
(* Properties of recovery.                                                 *)

Recovered == pc = "loading" /\ Loaded

Bodies(records) == {r.body : r \in {r \in ToSet(records) : r.kind = "entry"}}

(* The last record of an identity.                                         *)
LastRecord(records, i) ==
    records[SelectLastInSeq(records, LAMBDA r : r.kind = "entry" /\ r.body.id = i)].body

(* After every record of a load, so wherever it ends, the history holds    *)
(* the youngest of the episodes restored so far, as many as the bound      *)
(* allows, in whatever order and however often their records were written. *)
(* Those that the bound on the records restored leaves out are not among   *)
(* them, and they are the ones written last.                               *)
RecoveryKeepsYoungest ==
    pc = "loading" =>
        LET records  == Readable(OnDisk)
            restored == {k \in 1..(cursor - 1) : IsRestored(records, k)}
            named    == {records[k].body.id : k \in restored}
            kept     == IdsOf(episodes)
        IN  /\ kept \subseteq named
            /\ Cardinality(kept) = Min({Cardinality(named), MaxEpisodes})
            /\ \A i \in named \ kept, j \in kept : i.start <= j.start

(* What was flushed and readable stays readable whatever happens next, a   *)
(* crash included; a compaction replaces it by all that is retained.       *)
FlushedStaysReadable ==
    [][ \/ IsPrefix(Readable(OnDisk), Readable(file'))
        \/ /\ pc \in {"running", "sealed"} /\ pc' # "down"
           /\ episodes \subseteq Bodies(Readable(file')) ]_vars

(* A stop that reports success and that no thread races leaves nothing     *)
(* open, and on disk the last record of every retained episode is what     *)
(* memory held, whatever failed before; unless a reader would not get that *)
(* far, because of damage it was appended behind.                          *)
CleanStopIsComplete ==
    pc = "stopped" /\ clean /\ ~raced /\ Readable(OnDisk) = OnDisk =>
        \A e \in episodes :
            /\ IsClosed(e)
            /\ e.id \in IdsOf(Bodies(OnDisk))
            /\ LastRecord(OnDisk, e.id) = e

(* Refuted: a restart observes an episode as it stood, not as it was first *)
(* opened.  restore keeps the first record of an identity.                 *)
RecoveredAsItStood ==
    Recovered =>
        \A e \in episodes : e.last = LastRecord(Readable(OnDisk), e.id).last

(* Refuted: a truncated journal loses only the damaged tail.  The next     *)
(* session is appended behind the damage, where no reader gets.            *)
OnlyTheTailIsLost ==
    \A k \in DOMAIN OnDisk : OnDisk[k] # Torn => k <= Len(Readable(OnDisk))

==============================================================================
