SPECIFICATION StatusSpec
CONSTANTS
    Empty = ""
    Hosts <- MCHosts
    IPs <- MCIPs
    Rank <- MCRank
    StatusConfigs <- MCConfigs
    Locals <- MCLocals
    StatusArgs <- MCGroupArgs
    CheckArgs <- MCCheckArgs
INVARIANT WithoutArgumentsAll
