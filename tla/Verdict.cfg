SPECIFICATION Spec
CONSTANTS
    FullWidth = 4
    NarrowWidths = {2, 3}
    CounterPolicy <- MCCounterPolicy
    Word = 16
    Scale = 4
    DeclaredSubjects = {}
    DerivePolicy <- MCDerivePolicy
    LossPolicy <- MCLossPolicy
    MaxSegments = 2
    Evidence <- MCEvidence
    Topologies <- MCTopologies
    Authorities <- MCAuthorities
    Subjects <- MCSubjects
    Requests <- MCRequests
    MaxResultItems = 2
    MaxHeld = 4
    MaxExpired = 1
INVARIANTS
    TypeOK
    StaleObservationsCannotSway
    LossIsWitnessed
    DirectLossIsNotHidden
    ConflictIsReported
    CountedInOnePlace
    SegmentsTileThePath
    NothingFinerThanEvidence
CHECK_DEADLOCK FALSE
