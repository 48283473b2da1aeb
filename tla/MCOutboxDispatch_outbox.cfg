CONSTANTS
    e1 = e1
    e2 = e2
    c1 = c1
    c2 = c2
    d1 = d1
    w1 = w1
    w2 = w2
    Event = {e1, e2}
    Consumer = {c1, c2, d1}
    Worker = {w1, w2}
    HandlersOf <- MixedHandlers
    Driver = {d1}
    Invalid = {}
    Lost = {}
    Slot = {c2}
    Messy <- NoPair
    Poison <- SecondPair
    MaxAttempts = 2
    OutliveRetention = FALSE
    MaxFaults = 1
    MaxRepeats = 1
    NoRow = NoRow
    NoEvent = NoEvent
    NoConsumer = NoConsumer
SPECIFICATION Spec
SYMMETRY Symmetric
INVARIANTS DoneIsDelivered CheckpointVouches
PROPERTY ImplementsDeliveryQueue
