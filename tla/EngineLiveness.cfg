CONSTANTS
    c1 = c1
    c2 = c2
    w1 = w1
    w2 = w2
    k1 = k1
    NoSlot = NoSlot
    Callers = {c1, c2}
    Workers = {w1, w2}
    Cancellers = {k1}
    BatchSize = 1
    MaxCalls = 3
    MaxSetbacks = 1
    Capacity = 1

SPECIFICATION Spec

PROPERTY
    BatchesReturn
    StopReturns
    QueuedIsProcessed
