------------------------------ MODULE Localization ------------------------------
(***************************************************************************)
(* Where on its path a flow loses (src/src/localize.cpp).  Every           *)
(* observation covers some hops of the declared path; hops are classified  *)
(* each by what covers them, equal neighbours make a segment, and each     *)
(* observation's counts are put into the segment of the first hop it       *)
(* covers.                                                                 *)
(*                                                                         *)
(* A topology is what is declared of the requested flow: the path it is    *)
(* bound to (Nil for none), its hops in the order of their indices, none   *)
(* if the path is not declared, and the queues.  A request is a flow, a    *)
(* cap on the granularity and a limit on the segments.                     *)
(*                                                                         *)
(* Abstracted: reasons, notes, rationale, and the identifiers of evidence. *)
(***************************************************************************)
EXTENDS Derivation, Classification

CONSTANT MaxSegments     \* LocalizePolicy::max_segments

ASSUME LocalizationAssumption == MaxSegments \in Nat

PathKnown(topology) == topology.path # Nil /\ topology.declared

Positions(topology) == DOMAIN topology.hops

SegmentLimit(request) ==
    IF request.max_segments = 0 THEN MaxSegments ELSE Smaller(request.max_segments, MaxSegments)

-----------------------------------------------------------------------------
(* Coverage.                                                               *)

(* The positions on the path an observation speaks about.                  *)
CoveredHops(o, request, topology) ==
    LET positions == Positions(topology)
        hop(i)    == topology.hops[i]
        named     == {i \in positions : hop(i).id = o.subject.id}
    IN  CASE o.subject.kind = "Flow" -> IF o.subject.id = request.flow THEN positions ELSE {}
          [] o.subject.kind = "Path" ->
                IF PathKnown(topology) /\ o.subject.id = topology.path THEN positions ELSE {}
          [] o.subject.kind = "Hop" -> IF named = {} THEN {} ELSE {Min(named)}
          [] o.subject.kind = "Link" ->
                {i \in positions : o.subject.id \in {hop(i).ingress_link, hop(i).egress_link}}
          [] o.subject.kind = "Queue" ->
                IF o.subject.id \notin DOMAIN topology.queues THEN {}
                ELSE LET queue == topology.queues[o.subject.id]
                     IN  {i \in positions :
                            /\ hop(i).node = queue.node
                            /\ queue.port \in {hop(i).ingress_port, hop(i).egress_port}}
          [] OTHER -> {}

(* Whatever is about a flow or a path is taken along, be it another one.   *)
Relevant(observations, request, topology) ==
    Among(observations, {o \in ToSet(observations) :
        \/ o.subject.kind \in {"Flow", "Path"}
        \/ CoveredHops(o, request, topology) # {}})

HopScoped(o) == FinerThan(o.granularity, "Path")

(* The finest granularity of observations, or of segments.                 *)
Finest(observations) ==
    LET all == {o.granularity : o \in ToSet(observations)}
    IN  CHOOSE g \in all \cup {"Unknown"} : \A h \in all : ~FinerThan(h, g)

-----------------------------------------------------------------------------
(* Hops and segments.                                                      *)

NotObserved == [observed |-> FALSE, klass |-> "Unknown", granularity |-> "Unknown"]

Observed(here, context) ==
    IF here = << >> THEN NotObserved
    ELSE [observed |-> TRUE, klass |-> Classify(here, context).klass,
          granularity |-> Finest(here)]

(* A plausible bug: whatever covers a hop counts as evidence about it.     *)
HopStateOfAnything(position, admitted, request, topology, context) ==
    Observed(Among(admitted, {o \in ToSet(admitted) :
                position \in CoveredHops(o, request, topology)}),
             context)

(* What one hop shows, by the evidence as fine as a hop that covers it.    *)
HopState(position, admitted, request, topology, context) ==
    Observed(Among(admitted, {o \in ToSet(admitted) :
                HopScoped(o) /\ position \in CoveredHops(o, request, topology)}),
             context)

HopStates(admitted, request, topology, context) ==
    [position \in Positions(topology) |->
        HopState(position, admitted, request, topology, context)]

(* A plausible bug: a hop nobody observed goes with the one before it.     *)
RunStartsSkippingGaps(states) ==
    {i \in DOMAIN states : \/ i = 1
                           \/ states[i] # states[i - 1] /\ states[i].observed}

(* Where a run of equal hops starts.                                       *)
RunStarts(states) ==
    {i \in DOMAIN states : i = 1 \/ states[i] # states[i - 1]}

RunEnd(states, first) ==
    LET later == {i \in RunStarts(states) : i > first}
    IN  IF later = {} THEN Len(states) ELSE Min(later) - 1

Segment(kind, first, last, klass, granularity) ==
    [kind |-> kind, first |-> first, last |-> last, klass |-> klass,
     granularity |-> granularity, lost |-> 0, offered |-> 0, ratio_defined |-> FALSE,
     ratio_bp |-> 0, observation_count |-> 0]

(* A segment of hops nobody observed is incomplete, never clean.           *)
RunSegment(states, first) ==
    IF states[first].observed
    THEN Segment("Observed", first, RunEnd(states, first), states[first].klass,
                 states[first].granularity)
    ELSE Segment("UnobservedSpan", first, RunEnd(states, first), "IncompleteEvidence", "Unknown")

RunSegments(states) ==
    LET starts == Sorted(RunStarts(states), <)
    IN  [k \in DOMAIN starts |-> RunSegment(states, starts[k])]

-----------------------------------------------------------------------------
(* Counts.                                                                 *)

(* A plausible bug: an observation counts in every segment it covers.      *)
PlacedWide(segment, o, covered) ==
    \E position \in covered : segment.first <= position /\ position <= segment.last

(* The segment an observation is counted in: that of its first hop.        *)
Placed(segment, o, covered) ==
    /\ covered # {}
    /\ segment.first <= Min(covered) /\ Min(covered) <= segment.last

(* Either total going over the top takes both to it.                       *)
WithCounts(segment, o) ==
    LET over == Overflows(segment.lost, o.lost) \/ Overflows(segment.offered, o.offered)
    IN  [segment EXCEPT !.lost = IF over THEN Top ELSE @ + o.lost,
                        !.offered = IF over THEN Top ELSE @ + o.offered,
                        !.ratio_defined = @ \/ o.ratio_defined,
                        !.observation_count = @ + 1]

WithRatio(segment) ==
    IF segment.offered = 0 THEN segment
    ELSE [segment EXCEPT !.ratio_defined = TRUE,
                         !.ratio_bp = BasisPoints(segment.lost, segment.offered)]

(* A segment of observed hops with the counts placed in it.                *)
Attributed(segment, admitted, request, topology) ==
    LET placed == Among(admitted, {o \in ToSet(admitted) :
                    HopScoped(o) /\ Placed(segment, o, CoveredHops(o, request, topology))})
    IN  IF segment.kind = "UnobservedSpan" THEN segment
        ELSE WithRatio(FoldLeft(WithCounts, segment, placed))

-----------------------------------------------------------------------------
(* Results.                                                                *)

(* The whole flow or path as one segment, as the classifier saw it, over   *)
(* all its hops or none.                                                   *)
WholeSegment(aggregate, granularity, hops) ==
    [Segment("FlowWide", Smaller(1, hops), hops, aggregate.klass, granularity)
        EXCEPT !.lost = aggregate.lost, !.offered = aggregate.offered,
               !.ratio_defined = aggregate.ratio_defined, !.ratio_bp = aggregate.ratio_bp,
               !.observation_count = aggregate.admitted]

Result(aggregate, finest, segments, achieved, ambiguous, truncated) ==
    [klass |-> aggregate.klass, evidence_granularity |-> finest, segments |-> segments,
     achieved |-> achieved, ambiguous |-> ambiguous, truncated |-> truncated]

(* No hop can be named, for the path is not declared or has none inside.   *)
FlowAnswer(aggregate, finest, request) ==
    Result(aggregate, finest,
           <<WholeSegment(aggregate, CoarserOf(CoarserOf(request.cap, finest), "Flow"), 0)>>,
           "Flow", TRUE, FALSE)

(* No hop may be named: the evidence is too coarse, or the caller says so. *)
PathAnswer(aggregate, finest, request, hops) ==
    LET reached == CoarserOf(request.cap, finest)
    IN  Result(aggregate, finest, <<WholeSegment(aggregate, reached, hops)>>,
               reached, TRUE, FALSE)

(* Two segments that assert loss in the same class are alternatives.       *)
SeveralCandidates(segments) ==
    \E i, j \in DOMAIN segments :
        /\ i # j /\ segments[i].klass = segments[j].klass
        /\ segments[i].kind = "Observed" /\ segments[j].kind = "Observed"
        /\ AssertsLoss(segments[i].klass)

(* What makes a per-hop answer ambiguous, each noted with its reason.      *)
Ambiguous(segments, finest) ==
    \/ \E k \in DOMAIN segments : segments[k].kind = "UnobservedSpan"
    \/ SeveralCandidates(segments)
    \/ ~FinerThan(finest, "Hop")

(* The finest of the observed segments, kept to the evidence and the cap.  *)
Achieved(segments, finest, request) ==
    LET reached == Finest(Among(segments, {s \in ToSet(segments) : s.kind = "Observed"}))
    IN  CoarserOf(IF reached = "Unknown" THEN "Flow" ELSE reached,
                  CoarserOf(request.cap, finest))

(* The per-hop result.  The achieved granularity keeps the cap; that of a  *)
(* segment is what its hops' evidence has.                                 *)
HopAnswer(aggregate, finest, request, segments, truncated) ==
    Result(aggregate, finest, segments, Achieved(segments, finest, request),
           Ambiguous(segments, finest), truncated)

(* Runs past the limit are dropped before counts are attributed.           *)
ByHop(aggregate, admitted, runs, request, topology) ==
    HopAnswer(aggregate, Finest(admitted), request,
              [k \in DOMAIN FirstOf(runs, SegmentLimit(request)) |->
                  Attributed(runs[k], admitted, request, topology)],
              Len(runs) > SegmentLimit(request))

(* How fine the answer may be, by evidence, declarations and caller.       *)
Located(aggregate, admitted, request, topology, context) ==
    LET finest == Finest(admitted)
        hops   == Len(topology.hops)
    IN  IF admitted = << >>
        THEN Result(aggregate, "Unknown", << >>, "Unknown", TRUE, FALSE)
        ELSE IF ~PathKnown(topology) \/ hops < 2
        THEN FlowAnswer(aggregate, finest, request)
        ELSE IF ~FinerThan(CoarserOf(request.cap, finest), "Path")
        THEN PathAnswer(aggregate, finest, request, hops)
        ELSE ByHop(aggregate, admitted,
                   RunSegments(HopStates(admitted, request, topology, context)),
                   request, topology)

LocalizeBy(relevant, request, topology, context) ==
    Located(Classify(relevant, context), Admissible(relevant, context),
            request, topology, context)

(* Localizer::localize.                                                    *)
Localize(observations, request, topology, context) ==
    LocalizeBy(Relevant(observations, request, topology), request, topology, context)

===============================================================================
