CONSTANTS
    e1 = e1
    e2 = e2
    c1 = c1
    c2 = c2
    d1 = d1
    w1 = w1
    w2 = w2
    Event = {e1, e2}
    Consumer = {c1, d1}
    Worker = {w1}
    HandlersOf <- RetryHandlers
    Driver = {d1}
    Invalid = {e2}
    Lost = {e1}
    Slot = {}
    Messy <- FirstPair
    Poison <- FirstPair
    MaxAttempts = 2
    OutliveRetention = FALSE
    MaxFaults = 2
    MaxRepeats = 3
    NoRow = NoRow
    NoEvent = NoEvent
    NoConsumer = NoConsumer
SPECIFICATION FairSpec
PROPERTIES SettlesOnceClean
