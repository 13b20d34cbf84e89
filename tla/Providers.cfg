SPECIFICATION Spec
CONSTANTS
    Lookups = {l1, l2}
    MaxLookups = 3
    MovyServers = 2
    MovyPayloads <- MCMovyPayloads
    MaxSeeds = 2
    Servers = 2
    Heights = {1}
    Windows = {w1, w2, w3}
    NoWindow = NoWindow
    WasmCacheMax = 2
    Origins = {o1}
    None = None
    ListLengths = {2}
    ServerParallelism = 2
    MaxScans = 2
    JsSlots = 2
    BrowserSlots = 1
    Workers = {b1, b2, b3}
    NoWorker = NoWorker
    ProviderSets <- MCProviderSets
    MaxCinesrc = 2
SYMMETRY Symmetry
INVARIANTS
    PlaysBest
    WasmCacheKept
    NothingLeaks
    JoinersAreHeard
PROPERTIES
    RetryIsRescanned
CHECK_DEADLOCK FALSE
