\* A relayer that submits messages late, twice and out of order, and holders who
\* also call the SPL program themselves.
CONSTANTS
    alice = alice
    bob = bob
    aliceAta = aliceAta
    bobAta = bobAta
    aliceAuth = aliceAuth
    bobAuth = bobAuth
    mintPda = mintPda
    NoKey = NoKey
    NoNonce = NoNonce
    Key <- MCKey
    Wallet <- MCWallet
    Deployer = {alice}
    TokenAccount <- MCTokenAccount
    AtaOwner <- MCAtaOwner
    TransferAuth <- MCTransferAuth
    MintPda = mintPda
    HoldersCallSpl = TRUE
    home = home
    other = other
    Config = {home, other}
    Home = home
    Request <- CompetingRequests
    MinterArg = {alice}
    ForwarderArg = {bob}
    BlacklistArg = {}
    InternalArg = {}
    ExternalArg = {}
    TrustedArg = {}
    MaxU64 = 2
    MaxAuthorities = 1
    MaxForwarders = 1
    MaxBlacklisted = 1
    MaxInternal = 1
    MaxExternal = 1
    MaxContracts = 1
SPECIFICATION ProgramSpec
INVARIANTS
    ForwarderTypeOK
    ForwardedInOrder
    UnusedRequestGoesThrough
PROPERTIES
    HandedOverPaysByRequest
    SupplyBacked
