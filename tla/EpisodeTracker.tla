---------------------------- MODULE EpisodeTracker ----------------------------
(***************************************************************************)
(* The bounded history of loss episodes (src/src/episode.cpp).  Every      *)
(* action is one critical section of the tracker's mutex.                  *)
(*                                                                         *)
(* An episode is found under an identity hashed from (flow, generation,    *)
(* start), re-hashed with a salt while that identity is taken: here it is  *)
(* the record of what is hashed.  A binding is the pair (flow,             *)
(* generation) that keys the index of open episodes.  The order of two     *)
(* hashes is arbitrary, so where the code prefers the lower identity the   *)
(* choice is free.                                                         *)
(*                                                                         *)
(* Abstracted: totals, ratios, sources, evidence lists and closed_at,      *)
(* which no decision here reads; last stands for all that an observation   *)
(* adds to an episode.                                                     *)
(***************************************************************************)
EXTENDS Integers, FiniteSets, FiniteSetsExt

CONSTANTS
    Bindings,     \* (flow, generation) pairs
    MaxInstant,   \* bound of a run: instants are 1..MaxInstant
    MaxEpisodes,  \* max_episodes
    IdleTimeout   \* idle_timeout

ASSUME TrackerAssumption ==
    /\ MaxInstant \in Nat \ {0}
    /\ MaxEpisodes \in Nat \ {0}
    /\ IdleTimeout \in Nat

VARIABLES
    episodes,   \* episodes_
    openIndex,  \* open_by_flow_: the identities, each keyed by its binding
    evicted     \* evicted_

trackerVars == <<episodes, openIndex, evicted>>

Instants == 1..MaxInstant

EpisodeStates == {"Open", "ClosedByAbsence", "ClosedByIdle", "ClosedByRestart",
                  "ClosedExplicitly"}

EpisodeId == [binding : Bindings, start : Instants, salt : Nat]

(* life is history: the process that opened the episode.                   *)
LossEpisode == [id : EpisodeId, last : Instants, state : EpisodeStates, life : Nat]

IdsOf(group) == {e.id : e \in group}

TrackerTypeOK ==
    /\ episodes \subseteq LossEpisode
    /\ Cardinality(IdsOf(episodes)) = Cardinality(episodes)
    /\ openIndex \subseteq EpisodeId
    /\ \A i, j \in openIndex : i.binding = j.binding => i = j
    /\ evicted \in Nat

TrackerInit ==
    /\ episodes = {}
    /\ openIndex = {}
    /\ evicted = 0

-----------------------------------------------------------------------------

IsOpen(e) == e.state = "Open"

IsClosed(e) == ~IsOpen(e)

Opened(group) == {e \in group : IsOpen(e)}

Tracked(b) == {i \in openIndex : i.binding = b}

(* The index without the entries of these bindings.                        *)
Untracked(index, bindings) == {i \in index : i.binding \notin bindings}

(* A plausible bug: the identity is used whether or not it is taken.       *)
FreshIdUnsalted(b, at) == [binding |-> b, start |-> at, salt |-> 0]

(* make_episode_id and the loop that salts it.                             *)
FreshId(b, at) ==
    LET Salted(n) == [binding |-> b, start |-> at, salt |-> n]
        taken     == {i.salt : i \in {i \in IdsOf(episodes) : i.binding = b /\ i.start = at}}
    IN  Salted(CHOOSE n \in 0..Cardinality(taken) :
                   n \notin taken /\ \A m \in 0..(n - 1) : m \in taken)

Born(b, at, life) ==
    [id |-> FreshId(b, at), last |-> at, state |-> "Open", life |-> life]

(* A plausible bug: any closed episode may go, however recent.             *)
AnyVictims(group) ==
    {v \in SUBSET {e \in group : IsClosed(e)} :
        Cardinality(v) = (IF Cardinality(group) > MaxEpisodes
                          THEN Min({Cardinality(group) - MaxEpisodes,
                                    Cardinality({e \in group : IsClosed(e)})})
                          ELSE 0)}

(* evict_locked: the sets of episodes its loop may remove from a group.    *)
(* It removes until the bound holds or none is closed: the oldest while    *)
(* that is a closed one, and once the oldest is open the closed one of     *)
(* lowest identity, which may be any.                                      *)
Victims(group) ==
    LET closed == {e \in group : IsClosed(e)}
        excess == Cardinality(group) - MaxEpisodes
    IN  {v \in SUBSET closed :
            /\ Cardinality(v) = IF excess > 0 THEN Min({excess, Cardinality(closed)}) ELSE 0
            /\ \A e \in v, k \in closed \ v :
                  k.id.start < e.id.start =>
                      \E o \in Opened(group) : o.id.start <= k.id.start}

(* The end of an insertion: the bound, and the index entry that goes with  *)
(* the binding of each victim.                                             *)
Settle(group, index) ==
    \E v \in Victims(group) :
        /\ episodes' = group \ v
        /\ openIndex' = Untracked(index, {e.id.binding : e \in v})
        /\ evicted' = evicted + Cardinality(v)

Changed(chosen, Change(_)) ==
    {IF e \in chosen THEN Change(e) ELSE e : e \in episodes}

-----------------------------------------------------------------------------
(* Operations.  Observations that name no tracked episode and assert no    *)
(* loss change nothing and return no identity.                             *)

(* A plausible bug: a loss opens an episode whatever is tracked.           *)
ObserveEveryLoss(b, at, life) ==
    LET e == Born(b, at, life) IN Settle(episodes \cup {e}, openIndex \cup {e.id})

(* observe, loss, nothing tracked: a new episode.                          *)
ObserveFirstLoss(b, at, life) ==
    /\ Tracked(b) = {}
    /\ LET e == Born(b, at, life) IN Settle(episodes \cup {e}, openIndex \cup {e.id})

Extended(e, at) == [e EXCEPT !.last = IF at > @ THEN at ELSE @]

(* observe, loss, an episode tracked: it is extended.                      *)
ObserveMoreLoss(b, at) ==
    /\ Tracked(b) # {}
    /\ episodes' = Changed({e \in episodes : e.id \in Tracked(b)},
                           LAMBDA e : Extended(e, at))
    /\ UNCHANGED <<openIndex, evicted>>

(* observe, absence of loss: the tracked episode is closed.                *)
ObserveAbsence(b) ==
    /\ Tracked(b) # {}
    /\ episodes' = Changed({e \in episodes : e.id \in Tracked(b)},
                           LAMBDA e : [e EXCEPT !.state = "ClosedByAbsence"])
    /\ openIndex' = Untracked(openIndex, {b})
    /\ UNCHANGED evicted

(* observe, neither: the tracked episode is only named.                    *)
ObserveNeither(b) ==
    /\ Tracked(b) # {}
    /\ UNCHANGED trackerVars

CloseIdle(now) ==
    LET idle == {e \in Opened(episodes) : now - e.last > IdleTimeout}
    IN  /\ episodes' = Changed(idle, LAMBDA e : [e EXCEPT !.state = "ClosedByIdle"])
        /\ openIndex' = Untracked(openIndex, {e.id.binding : e \in idle})
        /\ UNCHANGED evicted

(* A plausible bug: only what the index names is sealed, so that an open   *)
(* episode the index lost stays open.                                      *)
SealTracked(state) ==
    /\ episodes' = Changed({e \in Opened(episodes) : e.id \in openIndex},
                           LAMBDA e : [e EXCEPT !.state = state])
    /\ openIndex' = {}
    /\ UNCHANGED evicted

SealAll(state) ==
    /\ episodes' = Changed(Opened(episodes), LAMBDA e : [e EXCEPT !.state = state])
    /\ openIndex' = {}
    /\ UNCHANGED evicted

(* A plausible bug: recovery keeps the state that was recorded.            *)
SealedAsRecorded(e) == e

Sealed(e) == IF IsOpen(e) THEN [e EXCEPT !.state = "ClosedByRestart"] ELSE e

(* restore: sealed on arrival; a known identity is left as it is.          *)
Restore(e) ==
    IF e.id \in IdsOf(episodes)
    THEN UNCHANGED trackerVars
    ELSE Settle(episodes \cup {Sealed(e)}, openIndex)

==============================================================================
