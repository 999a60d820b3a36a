\* What the upgrade does to balances.
CONSTANTS
    alice = alice
    bob = bob
    token = token
    forwarder = forwarder
    newForwarder = newForwarder
    ops = ops
    Address <- MCAddress
    Wallet <- MCWallet
    AdminContract = {ops}
    FirstAdmin = ops
    AdminOwner = alice
    TokenOwner = alice
    ForwarderOwner = alice
    MaxU256 = 1
    MinterArg = {bob}
    ForwarderArg = {bob}
    TrustedArg = {token, forwarder}
    BlacklistArg = {bob}
    InternalArg = {alice}
    ExternalArg = {bob}
    BridgeArg = {bob}
    Token = token
    DirectCaller = {alice}
    DirectCall <- MCDirectCall
    Forwarder = forwarder
    NewForwarder = {newForwarder}
    Request <- MCRequest
SPECIFICATION ChainSpec
PROPERTIES
    UpgradeKeepsBalances
