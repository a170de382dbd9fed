----------------------------- MODULE MCIngestDoor -----------------------------
(***************************************************************************)
(* A small deployment for TLC: one source and two epochs, five measured    *)
(* identities about four subjects of which the store has room for three.   *)
(* Identity and subject go together, as in the program, where a            *)
(* measurement is about one thing.                                         *)
(***************************************************************************)
EXTENDS IngestDoor, TLC

CONSTANTS s1, e1, e2, m1, m2, m3, m4, m5, t1, t2

SubjectOf == m1 :> 1 @@ m2 :> 1 @@ m3 :> 2 @@ m4 :> 3 @@ m5 :> 4

Reading(id, e, q) ==
    [id |-> id, subject |-> SubjectOf[id], recovered |-> FALSE,
     from |-> [source |-> s1, epoch |-> e, sequence |-> q]]

MCProvenance == [source : Sources, epoch : Epochs, sequence : SequenceNumbers]
MCSubmittable ==
    {Reading(m, e1, q) : m \in {m1, m2, m3}, q \in SequenceNumbers}
        \cup {Reading(m3, e2, 2), Reading(m4, e1, 3), Reading(m5, e1, 3)}

MCRecoverable == {Reading(m, e1, 1) : m \in {m2, m3}}

==============================================================================
