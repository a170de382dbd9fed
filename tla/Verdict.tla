-------------------------------- MODULE Verdict --------------------------------
(***************************************************************************)
(* What the engine answers about loss (classify and localize,              *)
(* src/src/engine.cpp:455-520) while evidence arrives, ages, is superseded *)
(* and comes back from a journal.  The whole pipeline is behind an answer: *)
(* derivation, freshness, tallies, claims, conflict, hops and segments.    *)
(*                                                                         *)
(* A behaviour is the evidence up to one question and its answer.  The     *)
(* freshness ladder is module Freshness; here an item expires when any     *)
(* rung of it would turn it away.                                          *)
(***************************************************************************)
EXTENDS Localization

CONSTANTS
    Evidence,          \* the items sources may send
    Topologies,        \* what may be declared of the flow
    Authorities,       \* what authority the sources may have
    Subjects,          \* the subjects asked about
    Requests,          \* the localizations asked for
    MaxResultItems,    \* config_.max_result_items
    MaxHeld,           \* bound of a run: items delivered
    MaxExpired         \* bound of a run: items that expire

ASSUME VerdictAssumption ==
    /\ \A item \in Evidence : Valid(item) /\ Typed(item)
    /\ \A topology \in Topologies :
          topology.hops \in Seq([id : Nat, index : Nat, node : Nat, ingress_port : Nat,
                                egress_port : Nat, ingress_link : Nat, egress_link : Nat])
    /\ Requests \subseteq [flow : Nat, cap : Granularities, max_segments : Nat]
    /\ {MaxResultItems, MaxHeld, MaxExpired} \subseteq Nat

VARIABLES
    held,         \* the evidence retained
    expired,      \* the items of it that are no longer current
    topology,     \* what is declared of the flow
    authority,    \* what authority each source has
    answer        \* the answer, once a question was asked

vars == <<held, expired, topology, authority, answer>>

NoAnswer == [asked |-> "Nothing"]

Init ==
    /\ held = {} /\ expired = {}
    /\ topology \in Topologies
    /\ authority \in Authorities
    /\ answer = NoAnswer

-----------------------------------------------------------------------------
(* The store lets an identity in once.                                     *)
Unseen == {item \in Evidence : item.id \notin {i.id : i \in held}}

Deliver(item) ==
    /\ answer = NoAnswer
    /\ Cardinality(held) < MaxHeld
    /\ held' = held \cup {item}
    /\ UNCHANGED <<expired, topology, authority, answer>>

(* It grows too old, its incarnation is retired, its generation or the     *)
(* topology it cites is superseded.                                        *)
Expire(item) ==
    /\ answer = NoAnswer
    /\ Cardinality(expired) < MaxExpired
    /\ expired' = expired \cup {item.id}
    /\ UNCHANGED <<held, topology, authority, answer>>

(* A new process has all of it back, marked.                               *)
Recover ==
    /\ answer = NoAnswer
    /\ held' = {[item EXCEPT !.recovered = TRUE] : item \in held}
    /\ UNCHANGED <<expired, topology, authority, answer>>

Context(bounded) == [expired |-> expired, authority |-> authority, bounded |-> bounded]

About(observations, subject) ==
    Among(observations, {o \in ToSet(observations) : o.subject = subject})

(* The observations about one subject, cut to what a result may hold: the  *)
(* first ones, be they fresh or not, and nothing says so.                  *)
Selected(result, subject) == FirstOf(About(result.observations, subject), MaxResultItems)

(* classify_observations: a bound that the derivation hit is the           *)
(* classifier's to know of.                                                *)
Classified(observations, result) == Classify(observations, Context(result.truncated))

(* classify.                                                               *)
AskClass(subject) ==
    LET result == Derive(held)
    IN  /\ answer = NoAnswer
        /\ answer' = [asked |-> "Class", subject |-> subject,
                      verdict |-> Classified(Selected(result, subject), result)]
        /\ UNCHANGED <<held, expired, topology, authority>>

(* localize asks for no more segments than a result may hold.              *)
Effective(request) ==
    [request EXCEPT !.max_segments = IF @ = 0 \/ @ > MaxResultItems THEN MaxResultItems ELSE @]

(* localize.  It does not tell the classifier of bounds.                   *)
AskLocation(request) ==
    LET observations == Derive(held).observations
    IN  /\ answer = NoAnswer
        /\ answer' = [asked |-> "Location", request |-> request,
                      location |-> Localize(observations, Effective(request), topology,
                                            Context(FALSE))]
        /\ UNCHANGED <<held, expired, topology, authority>>

Next ==
    \/ \E item \in Unseen : Deliver(item)
    \/ \E item \in held : Expire(item)
    \/ Recover
    \/ \E subject \in Subjects : AskClass(subject)
    \/ \E request \in Requests : AskLocation(request)

Spec == Init /\ [][Next]_vars

-----------------------------------------------------------------------------
TypeOK ==
    /\ {i.id : i \in held} \subseteq {i.id : i \in Evidence}
    /\ expired \subseteq {i.id : i \in held}
    /\ answer.asked = "Class" =>
          /\ {answer.verdict.lost, answer.verdict.offered} \subseteq Words
          /\ answer.verdict.ratio_bp \in 0..Scale
          /\ answer.verdict.score \in 0..100
    /\ answer.asked = "Location" =>
          /\ answer.location.achieved \in Granularities
          /\ \A k \in DOMAIN answer.location.segments :
                {answer.location.segments[k].lost,
                 answer.location.segments[k].offered} \subseteq Words

-----------------------------------------------------------------------------
(* Notation of the properties.                                             *)

Now == Context(FALSE)

Observations == Derive(held).observations

(* The items an observation rests on: one, or the two ends of an interval  *)
(* or of a comparison.  The last reading, and the sender's report, date it.*)
RestsOn(o) == {item \in held : item.id \in {o.id[2], o.id[3]}}

(* What it is dated by is current, and none of it is from a journal.       *)
IsCurrent(o) ==
    /\ o.evidence_id \notin expired
    /\ \A item \in RestsOn(o) : ~item.recovered

FreshAbout(subject) ==
    {o \in ToSet(Observations) : o.subject = subject /\ Fresh(o, Now)}

(* All the observations about a subject fit into a result.                 *)
Uncut(subject) == Len(About(Observations, subject)) <= MaxResultItems

(* What is relevant to a localization, the fresh evidence about hops, and  *)
(* those of it that cover one position.                                    *)
OfInterest == Relevant(Observations, answer.request, topology)

FreshOnHops(relevant) == {o \in ToSet(relevant) : Fresh(o, Now) /\ HopScoped(o)}

FreshAt(position, relevant) ==
    {o \in FreshOnHops(relevant) : position \in CoveredHops(o, answer.request, topology)}

FreshIn(segment, relevant) ==
    UNION {FreshAt(position, relevant) : position \in segment.first..segment.last}

(* A total of what covers one position went over the top of its word.      *)
Overfull(position, relevant) ==
    Tally(Among(relevant, FreshAt(position, relevant))).saturated

Segments == answer.location.segments

ByHops == \A k \in DOMAIN Segments : Segments[k].kind # "FlowWide"

Saturated == \E k \in DOMAIN Segments : Segments[k].lost = Top

Witness(observations) == \E o \in observations : o.validity = "Valid" /\ o.lost > 0

DirectWitness(observations) == \E o \in observations : IsDirect(o) /\ o.lost > 0

-----------------------------------------------------------------------------
(* "No rule can promote stale or unsupported evidence into loss"           *)
(* (classify.hpp:259): an observation that rests on an item from a journal,*)
(* or that an expired item dates, changes neither class, counts nor        *)
(* segments of an answer that the current ones give; alone such yield      *)
(* StaleEvidence and no segment.  Two things the code leaves out: the end  *)
(* that does not date it, the earlier reading or the receiver's report,    *)
(* may have expired and still decides what an observation says; and a      *)
(* verdict is given of no more observations than fit into a result, where  *)
(* stale ones take up room, hence Uncut.                                   *)
StaleObservationsCannotSway ==
    LET all     == Observations
        current == Among(all, {o \in ToSet(all) : IsCurrent(o)})
        told(location) == <<location.klass, location.segments, location.achieved>>
    IN  /\ answer.asked = "Class" /\ Uncut(answer.subject) =>
              LET about == About(current, answer.subject)
                  alone == Classify(about, Now)
                  said  == answer.verdict
              IN  IF about # << >>
                  THEN <<said.klass, said.lost, said.offered, said.ratio_bp>>
                          = <<alone.klass, alone.lost, alone.offered, alone.ratio_bp>>
                  ELSE said.klass \in {"StaleEvidence", "AbsentEvidence"}
        /\ answer.asked = "Location" =>
              LET about == Relevant(current, answer.request, topology)
              IN  IF about # << >>
                  THEN told(answer.location)
                          = told(Localize(current, Effective(answer.request), topology, Now))
                  ELSE Segments = << >>

(* A verdict that asserts loss, and a segment at each of its hops, rests   *)
(* on a fresh, valid observation that lost something there -- unless a     *)
(* total went over the top of its word.                                    *)
LossIsWitnessed ==
    /\ answer.asked = "Class" =>
          (AssertsLoss(answer.verdict.klass) /\ ~answer.verdict.saturated =>
              Witness(FreshAbout(answer.subject)))
    /\ answer.asked = "Location" /\ ByHops =>
          LET relevant == OfInterest
          IN  \A k \in DOMAIN Segments : AssertsLoss(Segments[k].klass) =>
                  \A position \in Segments[k].first..Segments[k].last :
                      Witness(FreshAt(position, relevant)) \/ Overfull(position, relevant)

(* No verdict or segment reports an absence of loss where a fresh counter  *)
(* of drops advanced, unless a result had no room for it.                  *)
DirectLossIsNotHidden ==
    /\ answer.asked = "Class" =>
          (AssertsAbsence(answer.verdict.klass) /\ Uncut(answer.subject) =>
              ~DirectWitness(FreshAbout(answer.subject)))
    /\ answer.asked = "Location" /\ ByHops =>
          LET relevant == OfInterest
          IN  \A k \in DOMAIN Segments :
                  AssertsAbsence(Segments[k].klass) =>
                      ~DirectWitness(FreshIn(Segments[k], relevant))

(* "When no source strictly outranks the others, the result stays          *)
(* unresolved" (conflict.hpp): while two of the highest-ranking fresh      *)
(* sources say opposite things the verdict takes neither side; and it      *)
(* takes none only because fresh sources do contradict each other -- or a  *)
(* total of one of them reached the top of its word.                       *)
ConflictIsReported ==
    answer.asked = "Class" =>
        LET fresh == {c \in answer.verdict.claims : c.fresh}
            klass == answer.verdict.klass
        IN  /\ (\E a, b \in Foremost(fresh) : ClassDiverges(a, b)) =>
                   klass = "ConflictingEvidence"
            /\ klass = "ConflictingEvidence" =>
                   \/ \E a, b \in FreshAbout(answer.subject) :
                          a.source # b.source /\ Witness({a, b})
                   \/ \E c \in fresh : c.lost = Top

(* The segments share out the counts of the fresh evidence about hops:     *)
(* each observation is counted in one of them, although it may cover many  *)
(* hops of several.  Once segments are cut off at the end, those left hold *)
(* exactly what covers a hop of theirs, and what is counted nowhere covers *)
(* none (Localizer::localize, src/src/localize.cpp:444-470).               *)
CountedInOnePlace ==
    answer.asked = "Location" /\ ByHops /\ Segments # << >> /\ ~Saturated =>
        LET counts(field(_)) == FoldLeft(LAMBDA n, s : n + field(s), 0, Segments)
            last   == Segments[Len(Segments)].last
            placed == {o \in FreshOnHops(OfInterest) :
                          \E position \in CoveredHops(o, answer.request, topology) :
                              position <= last}
        IN  /\ counts(LAMBDA s : s.lost) = MapThenSumSet(LAMBDA o : o.lost, placed)
            /\ counts(LAMBDA s : s.observation_count) = Cardinality(placed)

(* Segments follow one another along the path and leave no hop out, but    *)
(* for those cut off at the end; hops without fresh evidence of their own  *)
(* "are reported as unobserved, never as clean" (localize.cpp:550).        *)
SegmentsTileThePath ==
    answer.asked = "Location" /\ ByHops /\ Segments # << >> =>
        /\ Segments[1].first = 1
        /\ \A k \in 2..Len(Segments) : Segments[k].first = Segments[k - 1].last + 1
        /\ \/ Segments[Len(Segments)].last = Len(topology.hops)
           \/ answer.location.truncated
        /\ LET relevant == OfInterest
           IN  \A k \in DOMAIN Segments :
                  \A position \in Segments[k].first..Segments[k].last :
                      Segments[k].kind = "UnobservedSpan" <=> FreshAt(position, relevant) = {}

(* No segment claims to be finer than the fresh evidence at each of its    *)
(* hops, nor the answer than any fresh evidence or what was asked for.     *)
NothingFinerThanEvidence ==
    answer.asked = "Location" =>
        LET relevant == OfInterest
            finest   == Finest(Admissible(relevant, Now))
        IN  /\ \A k \in DOMAIN Segments :
                  IF Segments[k].kind = "FlowWide"
                  THEN ~FinerThan(Segments[k].granularity, finest)
                  ELSE \A position \in Segments[k].first..Segments[k].last :
                          Segments[k].kind = "Observed" =>
                              \E o \in FreshAt(position, relevant) :
                                  ~FinerThan(Segments[k].granularity, o.granularity)
            /\ finest # "Unknown" /\ answer.request.cap # "Unknown" =>
                  ~FinerThan(answer.location.achieved, CoarserOf(finest, answer.request.cap))

-----------------------------------------------------------------------------
(* What the repository says and the code does not do.                      *)

(* "The granularity of every emitted segment is never finer than ... the   *)
(* caller's cap" (localize.hpp:114).                                       *)
SegmentsKeepTheCap ==
    answer.asked = "Location" =>
        \A k \in DOMAIN Segments : ~FinerThan(Segments[k].granularity, answer.request.cap)

(* "Every observation about the flow feeds the aggregate"                  *)
(* (localize.cpp:215), and nothing else does: a flow that none of the      *)
(* fresh evidence covers is not said to lose.                              *)
AggregateIsOfTheFlow ==
    answer.asked = "Location" /\ PathKnown(topology) /\ AssertsLoss(answer.location.klass) =>
        \E o \in ToSet(Observations) :
            Fresh(o, Now) /\ CoveredHops(o, answer.request, topology) # {}

===============================================================================
