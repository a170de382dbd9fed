SPECIFICATION Spec
CONSTANTS
    b1 = b1
    b2 = b2
    t1 = t1
    t2 = t2
    Bindings <- HistoryBindings
    Threads <- OneThread
    MaxInstant = 2
    MaxEpisodes = 1
    IdleTimeout = 0
    MaxLives = 2
    MaxEvents = 3
    MaxJournal = 3
    MaxEpisodesLoaded = 9
INVARIANT
    RecoveredAsItStood
