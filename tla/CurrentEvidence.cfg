SPECIFICATION Spec
CONSTANTS
    h1 = h1
    Sources = {s1}
    Epochs = {e1}
    MaxSequence = 1
    MaxSources = 1
    SequenceWindow = 1
    Flows <- TwoFlows
    Paths <- OnePath
    Generations <- TwoGenerations
    Instants <- TwoInstants
    MaxEntities = 1
    Links <- OneLink
    Contents = {c1}
    Shapes <- TwoShapes
    Places = {h1}
    MaxLinks = 1
    MaxPaths = 1
    MaxFlows = 1
    MaxRevision = 5
    Policy <- StrictPolicy
    OwnNumbers = {3}
    MaxNow = 2
    MaxMeasured = 3
    MaxEvents = 4
CHECK_DEADLOCK FALSE
INVARIANTS
    TypeOK
    FreshSawThisShape
    ArrivalOrderCannotMatter
