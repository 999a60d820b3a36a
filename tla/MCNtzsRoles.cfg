\* Every instruction of admin.rs, with any key as its argument; and the vectors
\* behind its lists, with one key more than they hold.
CONSTANTS
    a = a
    b = b
    c = c
    NoKey = NoKey
    Key <- MCKey
    Wallet <- MCKey
    Deployer <- MCKey
    MinterArg <- MCKey
    ForwarderArg <- MCKey
    BlacklistArg <- MCKey
    InternalArg <- MCKey
    ExternalArg <- MCKey
    TrustedArg <- MCKey
    MaxU64 = 1
    MaxAuthorities = 2
    MaxForwarders = 2
    MaxBlacklisted = 2
    MaxInternal = 2
    MaxExternal = 2
    MaxContracts = 2
    Capacity = 2
SYMMETRY KeySymmetry
SPECIFICATION MCSpec
INVARIANTS
    RolesExcludeBlacklisted
    ListsFit
    VectorsAligned
    ListFits
PROPERTIES
    ImplementsApprovals
    ImplementsKeySet
