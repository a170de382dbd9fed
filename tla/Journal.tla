------------------------------- MODULE Journal -------------------------------
(***************************************************************************)
(* The append-only journal of PersistenceStore (src/src/persist.cpp) as a  *)
(* file that outlives the process.  Records go to a stream that reaches    *)
(* the disk in order, at the latest when it is flushed; a crash keeps any  *)
(* part of what was not flushed, and may keep half a record.  A reader     *)
(* stops at the first record it cannot verify and never resynchronises.    *)
(* A stream that has failed once takes nothing more, until a compaction    *)
(* replaces it.                                                            *)
(*                                                                         *)
(* Abstracted: the encoding, checksum and bounds of one record; the        *)
(* manifest, which is written with the first session record and stands or  *)
(* falls with it.                                                          *)
(***************************************************************************)
EXTENDS Integers, Sequences, SequencesExt

VARIABLES
    file,     \* the records of <instance>.loj, the unflushed ones included
    flushed,  \* how many of them are known to be on disk
    stream    \* stream_: good, failed, or none while the file is not open

journalVars == <<file, flushed, stream>>

Streams == {"good", "failed", "none"}

(* The record of a session, and what is left of one written half.          *)
Session == [kind |-> "session"]
Torn    == [kind |-> "torn"]

Entry(body) == [kind |-> "entry", body |-> body]

Entries(bodies) == [k \in DOMAIN bodies |-> Entry(bodies[k])]

JournalInit ==
    /\ file = << >>
    /\ flushed = 0
    /\ stream = "none"

OnDisk == SubSeq(file, 1, flushed)

(* What load reads back: everything before the first damaged record.       *)
(* SelectInSeq is 0 when no record is damaged.                             *)
Readable(records) ==
    LET damaged == SelectInSeq(records, LAMBDA r : r = Torn)
    IN  IF damaged = 0 THEN records ELSE SubSeq(records, 1, damaged - 1)

-----------------------------------------------------------------------------
(* What a session does.                                                    *)

(* write_record_locked, once per body; refused unless the stream is good.  *)
AppendAll(bodies) ==
    /\ file' = IF stream = "good" THEN file \o Entries(bodies) ELSE file
    /\ UNCHANGED <<flushed, stream>>

(* A plausible bug: the file is opened without the append mode.            *)
OpenSessionTruncating ==
    /\ file' = <<Session>>
    /\ flushed' = 0
    /\ stream' = "good"

(* open_session: the file is opened for appending, whatever its end.       *)
OpenSession ==
    /\ file' = Append(file, Session)
    /\ stream' = "good"
    /\ UNCHANGED flushed

(* start: the session is opened and flushed before anything else.          *)
OpenFlushed ==
    /\ file' = Append(file, Session)
    /\ flushed' = Len(file')
    /\ stream' = "good"

(* flush_locked, which reports success when there is no stream at all.     *)
Flush ==
    /\ flushed' = IF stream = "good" THEN Len(file) ELSE flushed
    /\ UNCHANGED <<file, stream>>

FlushReports == stream # "failed"

(* close: a last flush; what a failed stream still holds stays unflushed.  *)
Close ==
    /\ flushed' = IF stream = "good" THEN Len(file) ELSE flushed
    /\ stream' = "none"
    /\ UNCHANGED file

(* A plausible bug: what is on disk is still counted as before.            *)
CompactKeepingCount(bodies) ==
    /\ file' = <<Session>> \o Entries(bodies)
    /\ stream' \in {"good", "none"}
    /\ UNCHANGED flushed

(* compact: a session record and the live state, flushed to another file   *)
(* before the rename that puts it in place; reopening it may then fail.    *)
Compact(bodies) ==
    /\ file' = <<Session>> \o Entries(bodies)
    /\ flushed' = Len(file')
    /\ stream' \in {"good", "none"}

-----------------------------------------------------------------------------
(* What fails.                                                             *)

(* Of the unflushed end some is written, and of the next record a part.    *)
TailSettles ==
    \E k \in flushed..Len(file) :
        /\ \/ file' = SubSeq(file, 1, k)
           \/ k < Len(file) /\ file' = Append(SubSeq(file, 1, k), Torn)
        /\ flushed' = Len(file')

(* The process dies: the end of the stream is lost at some byte.           *)
LoseTail == TailSettles /\ stream' = "none"

(* A write or a flush fails: what was buffered is written up to some byte, *)
(* the record it was about perhaps by half.                                *)
WriteFails ==
    /\ stream = "good"
    /\ stream' = "failed"
    /\ \E k \in flushed..Len(file) :
          file' \in {SubSeq(file, 1, k), Append(SubSeq(file, 1, k), Torn)}
    /\ UNCHANGED flushed

(* compact gives up: before it touches the stream, or after; then it has   *)
(* closed the stream, unchecked, and opens the original file again.        *)
CompactionFails ==
    \/ UNCHANGED journalVars
    \/ TailSettles /\ stream' \in Streams

==============================================================================
