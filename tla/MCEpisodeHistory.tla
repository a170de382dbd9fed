--------------------------- MODULE MCEpisodeHistory ---------------------------
(* Instances of EpisodeHistory for TLC.                                    *)
EXTENDS EpisodeHistory, TLC

CONSTANTS b1, b2, t1, t2

HistoryBindings == {b1, b2}

HistoryThreads == {t1, t2}

OneThread == {t1}

(* Bindings and threads are interchangeable.                               *)
HistorySymmetry == Permutations(HistoryBindings) \cup Permutations(HistoryThreads)

==============================================================================
