SPECIFICATION RecoverySpec
CONSTANTS
    h1 = h1
    Sources = {s1}
    Epochs = {e1}
    MaxSequence = 1
    MaxSources = 1
    SequenceWindow = 1
    Flows <- OneFlow
    Paths <- OnePath
    Generations <- OneGeneration
    Instants <- OneInstant
    MaxEntities = 1
    Links <- None
    Contents = {c1}
    Shapes <- TwoShapes
    Places = {h1}
    MaxLinks = 1
    MaxPaths = 1
    MaxFlows = 1
    MaxRevision = 7
    OwnNumbers = {}
    Policy <- StrictPolicy
    MaxNow = 1
    MaxMeasured = 1
    MaxEvents = 3
    MaxRecordsLoaded = 6
    MaxTopologyLoaded = 3
    MaxSourcesLoaded = 1
    MaxEvidenceLoaded = 1
    MaxLives = 2
    MaxRecords = 5
CHECK_DEADLOCK FALSE
INVARIANTS
    RecoveryTypeOK
    RestartRevivesNothing
    NotedIsRecoverable
PROPERTIES
    RecoveryIsLastDeclared
