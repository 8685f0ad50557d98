SPECIFICATION Spec
SYMMETRY Forks
CONSTANTS
    Hash = {g, x, y}
    GenesisHash = g
    g = g
    x = x
    y = y
    DkgInterval = 4
    WindowStart = 1
    WindowEnd = 2
    DIP0003Height = 2
    DIP0003EnforcementHeight = 5
    MaxSigners = 2
    MaxHeight = 6
    Reader = {}
    NoHash = NoHash
    NoQc = NoQc
    Unset = Unset
INVARIANTS
    CacheAgrees
    MinedMatchesChain
    CommitmentUntilFirst
PROPERTY UndoneIsMinable
