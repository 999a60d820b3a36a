\* Two admin contracts of either version, which the owner may exchange; the token
\* or bob trusted.
CONSTANTS
    alice = alice
    bob = bob
    token = token
    forwarder = forwarder
    ops = ops
    ops2 = ops2
    Address <- MCAddress
    Wallet <- MCWallet
    AdminContract = {ops, ops2}
    FirstAdmin = ops
    AdminOwner = alice
    TokenOwner = alice
    MaxU256 = 2
    MinterArg = {alice}
    ForwarderArg = {}
    TrustedArg = {token, bob}
    BlacklistArg = {bob}
    InternalArg = {}
    ExternalArg = {}
    Token = token
    DirectCaller <- MCWallet
    DirectCall <- MCMintCall
    Forwarder = forwarder
    NewForwarder = {}
SPECIFICATION TokenSpec
INVARIANTS
    AmountNeedsApproval
PROPERTIES
    NewMoneyApproved
    PausedAdminStopsMint
    FirstVersionBarsFromIssue
