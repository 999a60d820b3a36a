\* Requests executed in any order, for a signer who is a minter at the time.
CONSTANTS
    alice = alice
    bob = bob
    token = token
    forwarder = forwarder
    ops = ops
    Address <- MCAddress
    Wallet <- MCWallet
    AdminContract = {ops}
    FirstAdmin = ops
    AdminOwner = alice
    TokenOwner = alice
    ForwarderOwner = alice
    MaxU256 = 2
    MinterArg = {bob}
    ForwarderArg = {bob}
    TrustedArg = {token, forwarder}
    BlacklistArg = {bob}
    InternalArg = {}
    ExternalArg = {}
    BridgeArg = {bob}
    Token = token
    DirectCaller = {alice}
    DirectCall <- MCDirectCall
    Forwarder = forwarder
    NewForwarder = {}
    Request <- MCRequest
SPECIFICATION TronSpec
PROPERTIES
    TronNewMoneyApproved
    SignerNeverPays
    TronImplementsContract
    BarredMoneyOnlyRetires
