------------------------- MODULE IngestContract_proofs -------------------------
(***************************************************************************)
(* What a caller of ingest_batch can rely on, for any number of callers    *)
(* and items: consequences of the contract that the engine is shown to     *)
(* keep (run engine_safety).                                               *)
(***************************************************************************)
EXTENDS IngestContract, TLAPS

Items == 1..BatchSize
Outcomes == {"none", "accepted", "rejected", "cancelled"}

ContractTypeOK ==
    /\ accepted \subseteq Callers /\ returned \subseteq Callers
    /\ outcome \in [Callers -> [Items -> Outcomes]]
    /\ abrupt \in BOOLEAN

(* Nothing is journaled, or counted as not, that is not in the store, nor  *)
(* is anything in the store of a call that was refused.                    *)
EffectsAreAccepted ==
    /\ recorded \cup failed \subseteq effective
    /\ recorded \cap failed = {}
    /\ \A c \in Callers, i \in Items : <<c, i>> \in effective => c \in accepted

(* "accepted" is true of a slot, its evidence being in the store and       *)
(* journaled or counted as not; so is "rejected", and unless request_stop  *)
(* was called so is "cancelled": its evidence is not in the store.         *)
OutcomesAreTrue ==
    \A c \in Callers, i \in Items :
        /\ outcome[c][i] = "accepted" =>
               <<c, i>> \in effective /\ <<c, i>> \in recorded \cup failed
        /\ outcome[c][i] = "rejected" => <<c, i>> \notin effective
        /\ outcome[c][i] = "cancelled" /\ ~abrupt => <<c, i>> \notin effective

(* Who has returned has an outcome for every slot.                         *)
ReturnedIsAnswered == \A c \in returned : Open(c) = {}

IInv == ContractTypeOK /\ EffectsAreAccepted /\ OutcomesAreTrue /\ ReturnedIsAnswered

(* An outcome once given is never replaced.                                *)
OutcomesStand ==
    \A c \in Callers, i \in Items :
        outcome[c][i] # "none" => outcome'[c][i] = outcome[c][i]

-----------------------------------------------------------------------------
LEMMA InitHolds == Init => IInv
  BY DEF Init, IInv, ContractTypeOK, Items, Outcomes, EffectsAreAccepted, OutcomesAreTrue,
         ReturnedIsAnswered

(* Cancelling open slots of some callers, none of which has taken effect   *)
(* unless request_stop was called, gives true outcomes and replaces none.  *)
LEMMA CancellationKeeps ==
    ASSUME IInv, NEW callers \in SUBSET Callers,
           NEW slots \in [callers -> SUBSET Items],
           \A c \in callers : slots[c] \subseteq Open(c) /\ Cancellable(c, slots[c]),
           outcome' = [c \in Callers |-> IF c \in callers THEN Cancelled(c, slots[c])
                                         ELSE outcome[c]],
           UNCHANGED <<accepted, effective, recorded, failed, abrupt>>
    PROVE  /\ outcome' \in [Callers -> [Items -> Outcomes]]
           /\ OutcomesAreTrue' /\ OutcomesStand
           /\ \A c \in Callers : Open(c)' \subseteq Open(c)
           /\ \A c \in callers : slots[c] = Open(c) => Open(c)' = {}
  <1>1. \A c \in Callers : outcome[c] \in [Items -> Outcomes]
    BY DEF IInv, ContractTypeOK
  <1>2. ASSUME NEW c \in Callers, NEW i \in Items
        PROVE  outcome'[c][i] = IF c \in callers /\ i \in slots[c] THEN "cancelled"
                                ELSE outcome[c][i]
    <2>1. CASE c \in callers
      BY <2>1 DEF Cancelled, Items
    <2>2. CASE c \notin callers
      BY <2>2
    <2> QED BY <2>1, <2>2
  <1>3. outcome' \in [Callers -> [Items -> Outcomes]]
    <2>1. ASSUME NEW c \in Callers
          PROVE  outcome'[c] \in [Items -> Outcomes]
      <3>1. CASE c \in callers
        <4>1. outcome'[c] = [i \in Items |-> IF i \in slots[c] THEN "cancelled"
                                             ELSE outcome[c][i]]
          BY <3>1 DEF Cancelled, Items
        <4> QED BY <4>1, <1>1 DEF Outcomes
      <3>2. CASE c \notin callers
        BY <3>2, <1>1
      <3> QED BY <3>1, <3>2
    <2> QED BY <2>1
  <1>4. \A c \in callers : \A i \in slots[c] :
            /\ i \in Items /\ outcome[c][i] = "none"
            /\ abrupt \/ <<c, i>> \notin effective
    BY DEF Open, Items, Cancellable
  <1>5. OutcomesAreTrue'
    <2>1. ASSUME NEW c \in Callers, NEW i \in Items
          PROVE  /\ outcome'[c][i] # "cancelled" => outcome'[c][i] = outcome[c][i]
                 /\ outcome'[c][i] = "cancelled" /\ ~abrupt => <<c, i>> \notin effective
      <3>1. CASE c \in callers /\ i \in slots[c]
        BY <3>1, <1>2, <1>4
      <3>2. CASE ~(c \in callers /\ i \in slots[c])
        BY <3>2, <1>2 DEF IInv, OutcomesAreTrue
      <3> QED BY <3>1, <3>2
    <2>2. ASSUME NEW c \in Callers, NEW i \in Items
          PROVE  /\ outcome'[c][i] = "accepted" =>
                        <<c, i>> \in effective /\ <<c, i>> \in recorded \cup failed
                 /\ outcome'[c][i] = "rejected" => <<c, i>> \notin effective
      BY <2>1 DEF IInv, OutcomesAreTrue
    <2> QED BY <2>1, <2>2 DEF OutcomesAreTrue
  <1>6. OutcomesStand
    BY <1>2, <1>4 DEF OutcomesStand
  <1>7. \A c \in Callers : Open(c)' \subseteq Open(c)
    BY <1>2 DEF Open, Items
  <1>8. \A c \in callers : slots[c] = Open(c) => Open(c)' = {}
    BY <1>2 DEF Open, Items
  <1> QED BY <1>3, <1>5, <1>6, <1>7, <1>8

(* The steps that give no outcome.                                         *)
LEMMA EffectsKeep ==
    ASSUME IInv,
           \/ \E c \in Callers : Accept(c)
           \/ \E c \in Callers, i \in Items : TakeEffect(c, i)
           \/ \E slot \in effective : Record(slot)
           \/ RequestStop
           \/ UNCHANGED vars
    PROVE  IInv' /\ OutcomesStand
  <1> USE DEF IInv, ContractTypeOK, EffectsAreAccepted, OutcomesAreTrue, ReturnedIsAnswered,
              OutcomesStand, Open
  <1>1. CASE \E c \in Callers : Accept(c)
    BY <1>1 DEF Accept
  <1>2. CASE \E c \in Callers, i \in Items : TakeEffect(c, i)
    BY <1>2 DEF TakeEffect, Items
  <1>3. CASE \E slot \in effective : Record(slot)
    BY <1>3 DEF Record
  <1>4. CASE RequestStop
    BY <1>4 DEF RequestStop
  <1>5. CASE UNCHANGED vars
    BY <1>5 DEF vars
  <1> QED BY <1>1, <1>2, <1>3, <1>4, <1>5

(* The steps of a worker that reports.                                     *)
LEMMA AnsweringKeeps ==
    ASSUME IInv, NEW c \in Callers, NEW i \in Items,
           AnswerAccepted(c, i) \/ AnswerRejected(c, i)
    PROVE  IInv' /\ OutcomesStand
  <1>1. PICK answer \in {"accepted", "rejected"} :
            /\ outcome' = [outcome EXCEPT ![c][i] = answer]
            /\ answer = "accepted" => <<c, i>> \in recorded \cup failed
            /\ answer = "rejected" => <<c, i>> \notin effective
            /\ outcome[c][i] = "none"
            /\ UNCHANGED <<accepted, returned, effective, recorded, failed, abrupt>>
    BY DEF AnswerAccepted, AnswerRejected, Open
  <1>2. outcome' \in [Callers -> [Items -> Outcomes]]
    BY <1>1 DEF IInv, ContractTypeOK, Outcomes
  <1>3. \A d \in Callers, j \in Items :
            outcome'[d][j] = IF d = c /\ j = i THEN answer ELSE outcome[d][j]
    BY <1>1 DEF IInv, ContractTypeOK
  <1>4. OutcomesAreTrue' /\ OutcomesStand
    BY <1>1, <1>3 DEF IInv, OutcomesAreTrue, OutcomesStand, EffectsAreAccepted
  <1>5. ReturnedIsAnswered'
    BY <1>1, <1>3 DEF IInv, ContractTypeOK, ReturnedIsAnswered, Open, Items
  <1> QED BY <1>1, <1>2, <1>4, <1>5 DEF IInv, ContractTypeOK, EffectsAreAccepted

(* The steps that cancel.                                                  *)
LEMMA CancellingKeeps ==
    ASSUME IInv,
           \/ \E c \in Callers, i \in Items : AnswerCancelled(c, i)
           \/ \E callers \in SUBSET Callers : CancelBatches(callers)
           \/ \E c \in Callers : Return(c)
    PROVE  IInv' /\ OutcomesStand
  <1>1. CASE \E c \in Callers, i \in Items : AnswerCancelled(c, i)
    <2>1. PICK c \in Callers, i \in Items : AnswerCancelled(c, i)
      BY <1>1
    <2> DEFINE slots == [d \in {c} |-> {i}]
    <2>2. /\ slots \in [{c} -> SUBSET Items] /\ slots[c] = {i}
          /\ {c} \in SUBSET Callers
          /\ i \in Open(c) /\ Cancellable(c, {i})
          /\ outcome' = [outcome EXCEPT ![c] = Cancelled(c, {i})]
          /\ UNCHANGED <<accepted, returned, effective, recorded, failed, abrupt>>
      BY <2>1 DEF AnswerCancelled
    <2>3. outcome' = [d \in Callers |-> IF d \in {c} THEN Cancelled(d, slots[d])
                                        ELSE outcome[d]]
      BY <2>2 DEF IInv, ContractTypeOK
    <2> DEFINE callers == {c}
    <2>4. /\ callers \in SUBSET Callers /\ slots \in [callers -> SUBSET Items]
          /\ \A d \in callers : slots[d] \subseteq Open(d) /\ Cancellable(d, slots[d])
          /\ outcome' = [d \in Callers |-> IF d \in callers THEN Cancelled(d, slots[d])
                                           ELSE outcome[d]]
          /\ UNCHANGED <<accepted, effective, recorded, failed, abrupt>>
          /\ c \in callers
      BY <2>2, <2>3
    <2> HIDE DEF slots, callers
    <2>5. /\ outcome' \in [Callers -> [Items -> Outcomes]]
          /\ OutcomesAreTrue' /\ OutcomesStand
          /\ \A d \in Callers : Open(d)' \subseteq Open(d)
      BY <2>4, <2>2, CancellationKeeps
    <2> QED BY <2>2, <2>5 DEF IInv, ContractTypeOK, EffectsAreAccepted, ReturnedIsAnswered
  <1>2. CASE \E callers \in SUBSET Callers : CancelBatches(callers)
    <2>1. PICK callers \in SUBSET Callers : CancelBatches(callers)
      BY <1>2
    <2> DEFINE slots == [d \in callers |-> Open(d)]
    <2>2. /\ slots \in [callers -> SUBSET Items]
          /\ \A d \in callers : slots[d] = Open(d) /\ Cancellable(d, slots[d])
          /\ outcome' = [d \in Callers |-> IF d \in callers THEN Cancelled(d, slots[d])
                                           ELSE outcome[d]]
          /\ UNCHANGED <<accepted, returned, effective, recorded, failed, abrupt>>
      BY <2>1 DEF CancelBatches, Open, Items
    <2> HIDE DEF slots
    <2>3. /\ outcome' \in [Callers -> [Items -> Outcomes]]
          /\ OutcomesAreTrue' /\ OutcomesStand
          /\ \A d \in Callers : Open(d)' \subseteq Open(d)
      BY <2>2, CancellationKeeps
    <2> QED BY <2>2, <2>3 DEF IInv, ContractTypeOK, EffectsAreAccepted, ReturnedIsAnswered
  <1>3. CASE \E c \in Callers : Return(c)
    <2>1. PICK c \in Callers : Return(c)
      BY <1>3
    <2> DEFINE slots == [d \in {c} |-> Open(d)]
    <2>2. /\ slots \in [{c} -> SUBSET Items] /\ slots[c] = Open(c)
          /\ {c} \in SUBSET Callers
          /\ Cancellable(c, Open(c))
          /\ outcome' = [outcome EXCEPT ![c] = Cancelled(c, Open(c))]
          /\ returned' = returned \cup {c}
          /\ UNCHANGED <<accepted, effective, recorded, failed, abrupt>>
      BY <2>1 DEF Return, Open, Items
    <2>3. outcome' = [d \in Callers |-> IF d \in {c} THEN Cancelled(d, slots[d])
                                        ELSE outcome[d]]
      BY <2>2 DEF IInv, ContractTypeOK
    <2> DEFINE callers == {c}
    <2>4. /\ callers \in SUBSET Callers /\ slots \in [callers -> SUBSET Items]
          /\ \A d \in callers : slots[d] \subseteq Open(d) /\ Cancellable(d, slots[d])
          /\ outcome' = [d \in Callers |-> IF d \in callers THEN Cancelled(d, slots[d])
                                           ELSE outcome[d]]
          /\ UNCHANGED <<accepted, effective, recorded, failed, abrupt>>
          /\ c \in callers
      BY <2>2, <2>3
    <2> HIDE DEF slots, callers
    <2>5. /\ outcome' \in [Callers -> [Items -> Outcomes]]
          /\ OutcomesAreTrue' /\ OutcomesStand
          /\ \A d \in Callers : Open(d)' \subseteq Open(d)
          /\ Open(c)' = {}
      BY <2>4, <2>2, CancellationKeeps
    <2> QED BY <2>2, <2>5 DEF IInv, ContractTypeOK, EffectsAreAccepted, ReturnedIsAnswered
  <1> QED BY <1>1, <1>2, <1>3

LEMMA NextKeeps == IInv /\ [Next]_vars => IInv' /\ OutcomesStand
  <1> SUFFICES ASSUME IInv, [Next]_vars PROVE IInv' /\ OutcomesStand
    OBVIOUS
  <1>1. \/ \E c \in Callers : Accept(c)
        \/ \E c \in Callers, i \in Items : TakeEffect(c, i)
        \/ \E slot \in effective : Record(slot)
        \/ RequestStop
        \/ UNCHANGED vars
        \/ \E c \in Callers, i \in Items : AnswerAccepted(c, i) \/ AnswerRejected(c, i)
        \/ \E c \in Callers, i \in Items : AnswerCancelled(c, i)
        \/ \E callers \in SUBSET Callers : CancelBatches(callers)
        \/ \E c \in Callers : Return(c)
    BY DEF Next, Items
  <1> QED BY <1>1, EffectsKeep, AnsweringKeeps, CancellingKeeps

(* Whoever has returned has a true outcome for every slot: "accepted" is   *)
(* said of what is in the store and was journaled or counted as a failure  *)
(* to journal, "rejected" of what is not in the store, and "cancelled" too *)
(* unless request_stop was called.                                         *)
THEOREM AnswersAreTrue ==
    Spec => [](EffectsAreAccepted /\ OutcomesAreTrue /\ ReturnedIsAnswered)
  <1>1. IInv => EffectsAreAccepted /\ OutcomesAreTrue /\ ReturnedIsAnswered
    BY DEF IInv
  <1> QED BY <1>1, InitHolds, NextKeeps, PTL DEF Spec

(* An outcome, once given, stands: neither stop nor a late worker replaces *)
(* it.                                                                     *)
THEOREM AnswersStand == Spec => [][OutcomesStand]_vars
  <1>1. IInv /\ [Next]_vars => [OutcomesStand]_vars
    BY NextKeeps
  <1>2. IInv /\ [Next]_vars => IInv'
    BY NextKeeps
  <1> QED BY <1>1, <1>2, InitHolds, PTL DEF Spec

==============================================================================
