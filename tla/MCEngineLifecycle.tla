-------------------------- MODULE MCEngineLifecycle --------------------------
(***************************************************************************)
(* The engine with named threads for TLC.  Threads of one kind are         *)
(* interchangeable, which the safety run uses; the liveness run does not.  *)
(***************************************************************************)
EXTENDS EngineLifecycle, TLC

CONSTANTS c1, c2, w1, w2, k1

ThreadSymmetry == Permutations(Callers) \cup Permutations(Workers)

==============================================================================
