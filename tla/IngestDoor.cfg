CONSTANTS
    s1 = s1
    e1 = e1
    e2 = e2
    m1 = m1
    m2 = m2
    m3 = m3
    m4 = m4
    m5 = m5
    t1 = t1
    t2 = t2
    NoItem = NoItem
    Threads = {t1, t2}
    Sources = {s1}
    Epochs = {e1, e2}
    Ids = {m1, m2, m3, m4, m5}
    Subjects = {1, 2, 3, 4}
    Provenance <- MCProvenance
    Submittable <- MCSubmittable
    Recoverable <- MCRecoverable
    MaxSequence = 3
    MaxSources = 1
    SequenceWindow = 2
    MaxItems = 2
    MaxItemsPerSubject = 1
    MaxSubjects = 3
    MaxIdsTracked = 2
    MaxAttempts = 4

SPECIFICATION Spec

INVARIANT
    TypeOK
    NoReplayWithinWindow
    OnlyThroughTheDoor
    NoMeasurementTwice
    OldestEvictedFirst
    OrderNeverEmptyWhenPopped

CHECK_DEADLOCK FALSE
