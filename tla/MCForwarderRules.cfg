\* The program alone, holders using its instructions, while the admin changes
\* the rules.
CONSTANTS
    alice = alice
    bob = bob
    aliceAta = aliceAta
    bobAta = bobAta
    aliceAuth = aliceAuth
    bobAuth = bobAuth
    mintPda = mintPda
    NoKey = NoKey
    NoNonce = NoNonce
    Key <- MCKey
    Wallet <- MCWallet
    Deployer = {alice}
    TokenAccount <- MCTokenAccount
    AtaOwner <- MCAtaOwner
    TransferAuth <- MCTransferAuth
    MintPda = mintPda
    HoldersCallSpl = FALSE
    home = home
    other = other
    Config = {home, other}
    Home = home
    Request <- AliceRequest
    MinterArg = {bob}
    ForwarderArg = {bob}
    BlacklistArg = {alice, aliceAta}
    InternalArg = {bob}
    ExternalArg = {alice, aliceAta}
    TrustedArg = {}
    MaxU64 = 2
    MaxAuthorities = 1
    MaxForwarders = 1
    MaxBlacklisted = 1
    MaxInternal = 1
    MaxExternal = 1
    MaxContracts = 1
SPECIFICATION ProgramSpec
INVARIANT
    NoSupplyBeforeHandover
PROPERTIES
    RedemptionNeverCredits
    FrozenMoneyOnlyBurns
    ImplementsPolicy
