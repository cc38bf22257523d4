SPECIFICATION FairSpec
CONSTANTS
    own = own
    shared = shared
    encoded = encoded
    NoRate = NoRate
    c1 = c1
    c2 = c2
    NoTable = NoTable
    NoDoc = NoDoc
    Message = Message
    MaxRate = 5
    Conns = {c1, c2}
    Ids = {own, shared, encoded}
    Configs <- AllConfigs
    Lists <- AllLists
    Origins <- AllOrigins
INVARIANTS
    TypeOK
    RepliesAreCutOnlyLate
    ServedPricesAreFinal
    RowsAreAcceptable
    SettingsAreServedAsChecked
PROPERTIES
    ImplementsService
    StartsWhateverProvidersDo
    StopsWhenTold
CHECK_DEADLOCK FALSE
