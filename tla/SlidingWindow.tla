---------------------------- MODULE SlidingWindow ----------------------------
(***************************************************************************)
(* The bounded deque that the runtime uses as a memory of the last n       *)
(* things: `push_back` followed by `while (size() > n) pop_front()`.  The  *)
(* sequence fence, the measurement-identity memory and the insertion order *)
(* of the evidence store are all such deques.                              *)
(*                                                                         *)
(* IsWindow and NoRepeatWithin relate a window to the unbounded log of     *)
(* everything ever pushed; they are what the invariants and the lemmas of  *)
(* IngestDoor_proofs are stated with.                                      *)
(***************************************************************************)
EXTENDS Naturals, Sequences, Functions

(* Push x.  A window never holds more than n elements, so the loop that    *)
(* trims it pops at most once.                                             *)
Slide(w, x, n) == Append(IF Len(w) < n THEN w ELSE Tail(w), x)

(* w holds the most recent n elements of log, in order.                    *)
IsWindow(w, log, n) ==
    /\ Len(w) = IF Len(log) < n THEN Len(log) ELSE n
    /\ \A k \in 1..Len(w) : w[k] = log[(Len(log) - Len(w)) + k]

(* Two equal entries of log have at least n other entries between them.    *)
NoRepeatWithin(log, n) ==
    \A i, j \in DOMAIN log : i < j /\ log[i] = log[j] => j - i > n

==============================================================================
