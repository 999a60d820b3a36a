\* Requests that compete for a nonce, two relayers, a forwarder that is replaced,
\* a token that is upgraded.
CONSTANTS
    alice = alice
    bob = bob
    token = token
    forwarder = forwarder
    newForwarder = newForwarder
    ops = ops
    Address <- MCAddress
    Wallet <- MCWallet
    AdminContract = {ops}
    FirstAdmin = ops
    AdminOwner = alice
    TokenOwner = alice
    ForwarderOwner = alice
    MaxU256 = 2
    MinterArg = {bob}
    ForwarderArg = {bob}
    TrustedArg = {token}
    BlacklistArg = {bob}
    InternalArg = {alice}
    ExternalArg = {bob}
    BridgeArg = {bob}
    Token = token
    DirectCaller = {alice}
    DirectCall <- MCDirectCall
    Forwarder = forwarder
    NewForwarder = {newForwarder}
    Request <- MCRequest
SPECIFICATION ChainSpec
INVARIANTS
    EvmForwarderTypeOK
    EvmConservation
    OneRequestPerNonce
PROPERTIES
    FrozenUntilDestroyed
    SignersDecide
    ImplementsContract
