\* Two runs of deploy.ts; two transactions of transfer-ownership.js left
\* behind by killed runs.  Every mint may be deployed and every contract
\* transferred, and then there is nothing left to do.
CONSTANTS
    m1 = m1
    m2 = m2
    Mint <- MCMint
    NoMint = NoMint
    Deployer = Deployer
    MintPda = MintPda
    MaxPending = 2
SPECIFICATION ScriptsSpec
INVARIANTS
    HandoverLast
PROPERTIES
    RunEnds
    UndisturbedRunDeploys
    ImplementsProgram
    HandedOverInOrder
    TransferRunEnds
    UndisturbedTransferCompletes
CHECK_DEADLOCK FALSE
