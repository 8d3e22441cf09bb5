SPECIFICATION MCSpec
CONSTANTS
    Empty = ""
    Hosts <- MCHosts
    IPs <- MCIPs
    Rank <- MCRank
    Locals <- MCLocals
    GroupNames = {"etcd", "master"}
    Unknown = "worker"
    Entries <- AllViews
    MaxGroups = 2
    MaxNodes = 3
    MaxArgs = 2
    OptionSet <- MCOptions
INVARIANTS
    TypeOK
    TurnsDistinct
    NamedNodesTargeted
    EveryResultShown
PROPERTY ImplementsFanOut
