---------------------------- MODULE SourceRegistry ----------------------------
(***************************************************************************)
(* The registry of telemetry sources (src/src/model/source.cpp): which     *)
(* sources are declared, the incarnations (epochs) each has had, and the   *)
(* sequence fence of every (source, epoch).  Every operation runs under    *)
(* the registry's one mutex, so each is one atomic action.                 *)
(*                                                                         *)
(* Abstracted: descriptors (name, kind, authority) and incarnation names   *)
(* and times, which no decision here reads.  The epoch that                *)
(* activate_incarnation hashes from (source, ordinal, name, instant) is    *)
(* any epoch the source does not list yet.                                 *)
(***************************************************************************)
EXTENDS SlidingWindow, FiniteSets

CONSTANTS
    Sources,         \* source identities the deployment may declare
    Epochs,          \* incarnation epochs
    MaxSequence,     \* bound of a run: sequence numbers are 1..MaxSequence
    MaxSources,      \* max_sources_
    SequenceWindow   \* sequence_window_

ASSUME RegistryAssumption ==
    /\ MaxSequence \in Nat \ {0}
    /\ MaxSources \in Nat \ {0}
    /\ SequenceWindow \in Nat \ {0}

VARIABLES
    sources,       \* sources_: the declared sources
    incarnations,  \* incarnations_: per source, in order of first activation
    fence,         \* sequences_: per source and epoch
    admitted       \* history: the sequences each fence let through, in order

registryVars == <<sources, incarnations, fence, admitted>>

SequenceNumbers == 1..MaxSequence

Incarnation == [epoch : Epochs, retired : BOOLEAN]

SequenceState == [high_water : 0..MaxSequence, seen : Seq(SequenceNumbers)]

RegistryTypeOK ==
    /\ sources \subseteq Sources
    /\ incarnations \in [Sources -> Seq(Incarnation)]
    /\ fence \in [Sources -> [Epochs -> SequenceState]]
    /\ admitted \in [Sources -> [Epochs -> Seq(SequenceNumbers)]]

RegistryInit ==
    /\ sources = {}
    /\ incarnations = [s \in Sources |-> << >>]
    /\ fence = [s \in Sources |-> [e \in Epochs |-> [high_water |-> 0, seen |-> << >>]]]
    /\ admitted = [s \in Sources |-> [e \in Epochs |-> << >>]]

-----------------------------------------------------------------------------
(* Incarnations.                                                           *)

KnownEpoch(s, e) == \E i \in DOMAIN incarnations[s] : incarnations[s][i].epoch = e

(* The position of epoch e in the list of source s, when it is known.      *)
PositionOf(s, e) == CHOOSE i \in DOMAIN incarnations[s] : incarnations[s][i].epoch = e

(* current_incarnation: always the last entry, retired or not.             *)
Current(s) == incarnations[s][Len(incarnations[s])]

Retired(e) == [epoch |-> e, retired |-> TRUE]
Live(e)    == [epoch |-> e, retired |-> FALSE]

AllRetired(list) == [i \in DOMAIN list |-> Retired(list[i].epoch)]

(* Activation of an epoch the source does not list: by                     *)
(* activate_incarnation, which derives a fresh one, or at the end of the   *)
(* loop of activate_incarnation_with_epoch.                                *)
Activated(list, e) == Append(AllRetired(list), Live(e))

(* activate_incarnation_with_epoch on a listed epoch: the loop retires the *)
(* entries it passes and returns at the match, so the entries behind it    *)
(* keep their state and the order of the list is unchanged.                *)
Reactivated(list, k) ==
    [i \in DOMAIN list |-> IF i < k THEN Retired(list[i].epoch)
                           ELSE IF i = k THEN Live(list[i].epoch)
                           ELSE list[i]]

RegisterSource(s) ==
    /\ s \notin sources
    /\ Cardinality(sources) < MaxSources
    /\ sources' = sources \cup {s}
    /\ UNCHANGED <<incarnations, fence, admitted>>

ActivateIncarnation(s, e) ==
    /\ s \in sources
    /\ ~KnownEpoch(s, e)
    /\ incarnations' = [incarnations EXCEPT ![s] = Activated(@, e)]
    /\ UNCHANGED <<sources, fence, admitted>>

ActivateWithKnownEpoch(s, e) ==
    /\ s \in sources
    /\ KnownEpoch(s, e)
    /\ incarnations' = [incarnations EXCEPT ![s] = Reactivated(@, PositionOf(s, e))]
    /\ UNCHANGED <<sources, fence, admitted>>

(* restore_incarnation: retired on arrival; a listed epoch is left alone.  *)
RestoreIncarnation(s, e) ==
    /\ s \in sources
    /\ ~KnownEpoch(s, e)
    /\ incarnations' = [incarnations EXCEPT ![s] = Append(@, Retired(e))]
    /\ UNCHANGED <<sources, fence, admitted>>

RetireIncarnation(s, e) ==
    /\ KnownEpoch(s, e)
    /\ incarnations' = [incarnations EXCEPT ![s][PositionOf(s, e)] = Retired(e)]
    /\ UNCHANGED <<sources, fence, admitted>>

-----------------------------------------------------------------------------
(* The sequence fence.                                                     *)

Admissible(outcome) == outcome \in {"Accepted", "Reordered"}

(* A plausible bug: a reading behind the high-water mark is not looked up. *)
AppliedWithoutLookup(state, q) ==
    IF state.seen = << >> \/ q > state.high_water THEN "Accepted"
    ELSE IF q = state.high_water THEN "Replayed"
    ELSE "Reordered"

(* apply_fence: the decision ...                                           *)
Applied(state, q) ==
    IF state.seen = << >> THEN "Accepted"
    ELSE IF q \in Range(state.seen) THEN "Replayed"
    ELSE IF q > state.high_water THEN "Accepted"
    ELSE "Reordered"

(* ... and what an admitted sequence leaves behind.                        *)
HighWater(state, q) ==
    IF state.seen = << >> \/ q > state.high_water THEN q ELSE state.high_water

(* A plausible bug: the window is trimmed only when the mark moves.        *)
ObservedWithoutTrim(state, q) ==
    [high_water |-> HighWater(state, q),
     seen       |-> IF q > state.high_water THEN Slide(state.seen, q, SequenceWindow)
                    ELSE Append(state.seen, q)]

Observed(state, q) ==
    [high_water |-> HighWater(state, q),
     seen       |-> Slide(state.seen, q, SequenceWindow)]

(* observe_sequence.                                                       *)
FenceOutcome(s, e, q) ==
    IF s \notin sources THEN "UnknownSource"
    ELSE IF incarnations[s] = << >> THEN "NoActiveIncarnation"
    ELSE IF Current(s) # Live(e) THEN "StaleEpoch"
    ELSE Applied(fence[s][e], q)

ObserveSequence(s, e, q) ==
    /\ Admissible(FenceOutcome(s, e, q))
    /\ fence' = [fence EXCEPT ![s][e] = Observed(@, q)]
    /\ admitted' = [admitted EXCEPT ![s][e] = Append(@, q)]
    /\ UNCHANGED <<sources, incarnations>>

-----------------------------------------------------------------------------
(* Every operation but observe_sequence, which the ingest path calls.      *)
Administer ==
    \E s \in Sources :
        \/ RegisterSource(s)
        \/ \E e \in Epochs :
              \/ ActivateIncarnation(s, e)
              \/ ActivateWithKnownEpoch(s, e)
              \/ RestoreIncarnation(s, e)
              \/ RetireIncarnation(s, e)

==============================================================================
