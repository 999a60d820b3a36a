--------------------------- MODULE NtzsDeployment ---------------------------
(***************************************************************************)
(* The deployment script of the Solana program (migrations/deploy.ts) with *)
(* the helpers it calls, against a chain that takes transactions at its    *)
(* own pace.  Each run of the script generates a new mint and sends five   *)
(* transactions for it, one after another, each once the one before is     *)
(* confirmed.  The run ends when one of them fails.                        *)
(*                                                                         *)
(* A transaction that was sent may be lost, may be refused, and may land   *)
(* long after the script stopped waiting for it.  The two initialisations  *)
(* in the middle need no signature of the deployer: anybody may be first.  *)
(***************************************************************************)
EXTENDS Naturals, Sequences, SequencesExt

CONSTANTS Mint,       \* the keypairs the script generates, one per run
          NoMint,     \* before the first run
          Deployer,   \* the wallet of the script's provider
          MintPda     \* the program's mint-authority PDA

ASSUME DeploymentAssumption ==
    /\ NoMint \notin Mint \cup {Deployer, MintPda}
    /\ Deployer # MintPda

VARIABLES mint,       \* the mint of the latest run, saved in mintKeypair.json
          runs,       \* the mints of all runs
          pc,         \* the step the script is at; 0 when it does not run
          reply,      \* what it knows of the transaction of this step
          inFlight,   \* transactions that were sent and not decided
          landed,     \* mint -> the steps that took effect
          disturbed   \* did anything interfere with the latest run?

deploymentVars == <<mint, runs, pc, reply, inFlight, landed, disturbed>>

-----------------------------------------------------------------------------
(* The script *)

\* Mutant of Plan: metadata is created after the authority is given away.
PlanMetadataLast ==
    <<"initialize", "secondary", "third", "handover", "metadata">>

\* The transactions of a run, in the order of deploy.ts and initializeToken.
Plan == <<"initialize", "secondary", "third", "metadata", "handover">>

Step == Range(Plan)

DeploymentInit ==
    /\ mint = NoMint
    /\ runs = {}
    /\ pc = 0
    /\ reply = "none"
    /\ inFlight = {}
    /\ landed = [m \in Mint |-> {}]
    /\ disturbed = FALSE

\* Somebody runs the script; the new keypair replaces the saved one.
StartRun ==
    /\ pc = 0
    /\ \E m \in Mint \ runs :
          /\ mint' = m
          /\ runs' = runs \cup {m}
    /\ pc' = 1
    /\ reply' = "none"
    /\ disturbed' = FALSE
    /\ UNCHANGED <<inFlight, landed>>

\* What the program, the metadata program and the SPL program accept: a step
\* takes effect once, after initialize; metadata is created under the signature
\* of the mint's authority, which the deployer is until the handover.
Accepted(m, step) ==
    /\ step \notin landed[m]
    /\ step # "initialize" => "initialize" \in landed[m]
    /\ step = "metadata" => "handover" \notin landed[m]

Running == pc > 0

\* A transaction is simulated before it is sent.
Send ==
    /\ Running
    /\ reply = "none"
    /\ Accepted(mint, Plan[pc])
    /\ inFlight' = inFlight \cup {<<mint, Plan[pc]>>}
    /\ reply' = "pending"
    /\ UNCHANGED <<mint, runs, pc, landed, disturbed>>

SimulationFails ==
    /\ Running
    /\ reply = "none"
    /\ ~Accepted(mint, Plan[pc])
    /\ reply' = "failed"
    /\ UNCHANGED <<mint, runs, pc, inFlight, landed, disturbed>>

\* After the last step the script only reads the mint and logs what it read.
Proceed ==
    /\ Running
    /\ reply = "ok"
    /\ pc' = IF pc = Len(Plan) THEN 0 ELSE pc + 1
    /\ reply' = "none"
    /\ UNCHANGED <<mint, runs, inFlight, landed, disturbed>>

\* Mutant of Stop: initializeToken logs its errors without throwing them.
StopNotAtAll ==
    /\ Running
    /\ reply = "failed"
    /\ pc' = IF pc \in 2 .. 3 THEN 4 ELSE 0
    /\ reply' = "none"
    /\ UNCHANGED <<mint, runs, inFlight, landed, disturbed>>

\* Mutant of Stop: the step is tried again, for ever.
StopRetries ==
    /\ Running
    /\ reply = "failed"
    /\ reply' = "none"
    /\ UNCHANGED <<mint, runs, pc, inFlight, landed, disturbed>>

\* An error ends the run: initializeToken throws it on, main logs it.
Stop ==
    /\ Running
    /\ reply = "failed"
    /\ pc' = 0
    /\ reply' = "none"
    /\ UNCHANGED <<mint, runs, inFlight, landed, disturbed>>

-----------------------------------------------------------------------------
(* What may happen to it *)

\* The answer to the transaction <<m, step>>, if the script waits for one.
Answer(m, step, result) ==
    reply' = IF /\ Running /\ reply = "pending"
                /\ <<m, step>> = <<mint, Plan[pc]>>
               THEN result ELSE reply

Land(m, step) ==
    /\ <<m, step>> \in inFlight
    /\ Accepted(m, step)
    /\ landed' = [landed EXCEPT ![m] = @ \cup {step}]
    /\ inFlight' = inFlight \ {<<m, step>>}
    /\ Answer(m, step, "ok")
    /\ UNCHANGED <<mint, runs, pc, disturbed>>

\* A transaction is refused when its turn comes, or expires before that.
Drop(m, step) ==
    /\ <<m, step>> \in inFlight
    /\ inFlight' = inFlight \ {<<m, step>>}
    /\ Answer(m, step, "failed")
    /\ disturbed' = (disturbed \/ m = mint)
    /\ UNCHANGED <<mint, runs, pc, landed>>

\* The script loses its connection or its patience; the transaction lives on.
LoseAnswer ==
    /\ Running
    /\ reply = "pending"
    /\ reply' = "failed"
    /\ disturbed' = TRUE
    /\ UNCHANGED <<mint, runs, pc, inFlight, landed>>

Kill ==
    /\ Running
    /\ pc' = 0
    /\ reply' = "none"
    /\ disturbed' = TRUE
    /\ UNCHANGED <<mint, runs, inFlight, landed>>

InitializedByAnybody(m, step) ==
    /\ step \in {"secondary", "third"}
    /\ Accepted(m, step)
    /\ landed' = [landed EXCEPT ![m] = @ \cup {step}]
    /\ disturbed' = (disturbed \/ m = mint)
    /\ UNCHANGED <<mint, runs, pc, reply, inFlight>>

-----------------------------------------------------------------------------

ScriptStep == Send \/ SimulationFails \/ Proceed \/ Stop

ChainStep == \E m \in Mint, step \in Step : Land(m, step) \/ Drop(m, step)

DeploymentNext ==
    \/ StartRun
    \/ ScriptStep
    \/ ChainStep
    \/ LoseAnswer
    \/ Kill
    \/ \E m \in Mint, step \in Step : InitializedByAnybody(m, step)

\* The script runs on by itself, and the chain decides every transaction, if
\* only because its blockhash expires.
DeploymentFairness ==
    /\ WF_deploymentVars(ScriptStep)
    /\ WF_deploymentVars(ChainStep)

DeploymentSpec ==
    DeploymentInit /\ [][DeploymentNext]_deploymentVars /\ DeploymentFairness

-----------------------------------------------------------------------------
(* Properties *)

\* The mints all of whose steps took effect.
Deployed == {m \in Mint : landed[m] = Step}

\* The program can mint only once all its accounts and the metadata exist: the
\* handover is the last step that takes effect, whatever gets lost, arrives
\* late or is done by somebody else (deploy.ts:43-114,
\* token_initializer.ts:54-84).
HandoverLast == \A m \in Mint : "handover" \in landed[m] => m \in Deployed

\* A run always ends, whatever the chain does to its transactions
\* (deploy.ts:114-131).
RunEnds == Running ~> ~Running

\* A run nothing interferes with ends with a complete deployment, so each step
\* finds on the chain what it needs, also while transactions of an earlier run
\* are still on their way (deploy.ts:43-113).
UndisturbedRunDeploys ==
    pc = 1 ~> ~Running /\ (disturbed \/ mint \in Deployed)

-----------------------------------------------------------------------------
(* The deployed program *)

Has(m, step) == step \in landed[m]

\* Mutant of Authority: the authority goes to the token's config account.
AuthorityToConfig(m) ==
    IF Has(m, "handover") THEN m
    ELSE IF Has(m, "initialize") THEN Deployer ELSE NoMint

\* The mint's authority, as the steps leave it.
Authority(m) ==
    IF Has(m, "handover") THEN MintPda
    ELSE IF Has(m, "initialize") THEN Deployer ELSE NoMint

\* The program of the mint m, with nobody in its lists and no accounts yet.
Program(m) ==
    INSTANCE NtzsToken
      WITH Key <- {Deployer, MintPda}, NoKey <- NoMint,
           Wallet <- {Deployer}, Deployer <- {Deployer},
           TokenAccount <- {}, AtaOwner <- <<>>, TransferAuth <- <<>>,
           HoldersCallSpl <- FALSE, MaxU64 <- 1,
           MaxAuthorities <- 1, MaxForwarders <- 1, MaxBlacklisted <- 1,
           MaxInternal <- 1, MaxExternal <- 1, MaxContracts <- 1,
           MinterArg <- {}, ForwarderArg <- {}, BlacklistArg <- {},
           InternalArg <- {}, ExternalArg <- {}, TrustedArg <- {},
           created <-
             { phase \in {"primary", "secondary", "third"} :
                 Has(m, IF phase = "primary" THEN "initialize" ELSE phase) },
           admin <- IF Has(m, "initialize") THEN Deployer ELSE NoMint,
           canMint <- [k \in IF Has(m, "initialize") THEN {Deployer} ELSE {} |-> 0],
           canForward <- {}, blacklist <- {}, internalWhitelist <- {},
           externalWhitelist <- {}, trusted <- {},
           mintPaused <- FALSE, transferPaused <- FALSE,
           accountOwner <- <<>>, balance <- <<>>, supply <- 0,
           mintAuthority <- Authority(m)

\* Whatever runs of the script do to the chain, at whatever pace, each of their
\* mints behaves as the program's specification says, and its authority passes
\* to the PDA that mint signs with (deploy.ts:43-113, transfer_authority.ts:20-27).
ImplementsProgram ==
    /\ \A m \in Mint : Program(m)!TokenInit
    /\ [][\A m \in Mint : [Program(m)!TokenNext]_(Program(m)!tokenVars)]_deploymentVars
=============================================================================
