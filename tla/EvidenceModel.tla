----------------------------- MODULE EvidenceModel -----------------------------
(***************************************************************************)
(* The vocabulary of evidence: granularities, measurement methods, what an *)
(* item must be to be stored, and the canonical order                      *)
(* (src/src/evidence/evidence.cpp, src/src/model/method.cpp,               *)
(* src/include/loss_observatory/model/granularity.hpp).                    *)
(*                                                                         *)
(* An item is a record of its header -- id, source, epoch, generation,     *)
(* sequence, observed_at, subject, granularity, method, recovered -- and   *)
(* its payload, a record whose kind says which other fields it has.        *)
(* Identities are numbers and Nil is the nil one.  Abstracted: the note,   *)
(* and the header fields only freshness reads (received_at and the         *)
(* topology revision), which derivation copies.                            *)
(***************************************************************************)
EXTENDS Ordering

CONSTANTS
    FullWidth,       \* bits of a word, standing for 64
    NarrowWidths     \* the other supported counter widths, for 16 and 32

ASSUME WidthAssumption ==
    /\ FullWidth \in Nat
    /\ NarrowWidths \subseteq 1..(FullWidth - 1)

Nil == 0

SupportedWidths == NarrowWidths \cup {FullWidth}

(* A counter need not declare its width.                                   *)
Undeclared == 0

DeclarableWidths == SupportedWidths \cup {Undeclared}

(* The numeric order of the enumeration: a larger number is a finer claim. *)
Fineness ==
    [Unknown |-> 0, Flow |-> 1, Path |-> 2, Hop |-> 3, Link |-> 4, Queue |-> 5]

Granularities == DOMAIN Fineness

FinerThan(g, h) == Fineness[g] > Fineness[h]

CoarserOf(g, h) == IF FinerThan(g, h) THEN h ELSE g

(* Subjects are ordered by kind, then by identity.                         *)
SubjectRank ==
    [Unknown |-> 0, Flow |-> 1, Path |-> 2, Hop |-> 3, Link |-> 4, Queue |-> 5, Source |-> 6]

-----------------------------------------------------------------------------
(* kSemantics: what each method can ever justify and what it needs.        *)
Methods ==
    [CounterDelta       |-> [finest |-> "Queue", needs_clocks |-> FALSE,
                             synthetic |-> FALSE, implemented |-> TRUE],
     ProbeRoundTrip     |-> [finest |-> "Path", needs_clocks |-> FALSE,
                             synthetic |-> FALSE, implemented |-> TRUE],
     ProbeOneWay        |-> [finest |-> "Link", needs_clocks |-> TRUE,
                             synthetic |-> FALSE, implemented |-> FALSE],
     SequenceGap        |-> [finest |-> "Flow", needs_clocks |-> FALSE,
                             synthetic |-> FALSE, implemented |-> TRUE],
     EndpointComparison |-> [finest |-> "Flow", needs_clocks |-> FALSE,
                             synthetic |-> FALSE, implemented |-> TRUE],
     SyntheticInjection |-> [finest |-> "Queue", needs_clocks |-> FALSE,
                             synthetic |-> TRUE, implemented |-> TRUE]]

DefaultMethod ==
    [counter |-> "CounterDelta", probe |-> "ProbeRoundTrip",
     sequence |-> "SequenceGap", endpoint |-> "EndpointComparison"]

(* What the payload of each kind must say of itself.                       *)
PayloadValid(payload) ==
    CASE payload.kind = "counter"  -> /\ payload.counter # Nil
                                      /\ payload.scope # "Unknown"
                                      /\ payload.width \in DeclarableWidths
      [] payload.kind = "probe"    -> payload.probe # Nil
      [] payload.kind = "sequence" -> TRUE
      [] payload.kind = "endpoint" -> payload.role # "Unknown" /\ payload.node # Nil

(* validate: asked of every item before anything is stored.  Among its     *)
(* demands: no claim is finer than its method can support, and the method  *)
(* is the one of the payload -- so a one-way probe never gets in.          *)
Valid(item) ==
    /\ item.id # Nil /\ item.source # Nil /\ item.epoch # Nil
    /\ item.subject.kind # "Unknown"
    /\ item.method \in DOMAIN Methods
    /\ item.granularity # "Unknown"
    /\ ~FinerThan(item.granularity, Methods[item.method].finest)
    /\ item.observed_at # 0
    /\ item.method \in {DefaultMethod[item.payload.kind], "SyntheticInjection"}
    /\ PayloadValid(item.payload)

-----------------------------------------------------------------------------
(* canonical_less.                                                         *)
CanonicalLess(a, b) ==
    Precedes(<<a.observed_at, a.source, a.sequence, a.id>>,
             <<b.observed_at, b.source, b.sequence, b.id>>)

===============================================================================
