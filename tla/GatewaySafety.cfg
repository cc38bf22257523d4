SPECIFICATION Spec
CONSTANTS
    h1 = h1
    h2 = h2
    h3 = h3
    pGated = pGated
    pOpen = pOpen
    NoJob = NoJob
    Handlers = {h1, h2, h3}
    Providers = {pGated}
    MaxConcurrent <- LimitTwo
    Retries = 2
    Countable = {pGated}
    Responsive = {}
SYMMETRY HandlerSymmetry
INVARIANTS
    TypeOK
    Placed
    SlotsMatchHolders
    MessageCallsBounded
    ThrottledOnlyAfterRetries
PROPERTIES
    NoReplayUnlessThrottled
    LatchNeedsAnAnswer
    ImplementsGate
