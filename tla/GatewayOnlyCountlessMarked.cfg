SPECIFICATION Spec
CONSTANTS
    h1 = h1
    h2 = h2
    h3 = h3
    pGated = pGated
    pOpen = pOpen
    NoJob = NoJob
    Handlers = {h1, h2}
    Providers = {pGated}
    MaxConcurrent <- LimitOne
    Retries = 1
    Countable = {pGated}
    Responsive = {}
INVARIANT
    OnlyCountlessMarked
