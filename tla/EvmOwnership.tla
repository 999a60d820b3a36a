---------------------------- MODULE EvmOwnership ----------------------------
(***************************************************************************)
(* The script that takes an EVM deployment out of the deployer's hands     *)
(* (scripts/transfer-ownership.js): it transfers the ownership of the      *)
(* three contracts, and then of the ProxyAdmin that may upgrade two of     *)
(* them, one transaction after another.  It may be killed at any point and *)
(* run again, while its last transaction is still on the way.              *)
(*                                                                         *)
(* The contract names are those the script asks for.  Which of them the    *)
(* build has compiled is left open.  Of this repository it compiles no     *)
(* contract "nTZS", so that today every run ends at the third contract:    *)
(* what is said below of a build with all artifacts holds once it does.    *)
(***************************************************************************)
EXTENDS Naturals, Sequences, SequencesExt

CONSTANT MaxPending   \* bound on the transactions on their way

ASSUME OwnershipAssumption == MaxPending \in Nat

VARIABLES compiled,      \* the contracts the build has an artifact of
          ownedBy,       \* contract -> "deployer", "new owner", "nobody"
          phase,         \* what the script is about to do
          at,            \* the contract it is at
          pending,       \* the deployer's transactions, in nonce order
          interfered     \* did anything interfere with the latest run?

ownershipVars == <<compiled, ownedBy, phase, at, pending, interfered>>

\* The contracts in the order of the script.
Order == <<"Admin", "Forwarder", "nTZS", "ProxyAdmin">>

Contract == Range(Order)

Deployers == {c \in Contract : ownedBy[c] = "deployer"}

Idle == phase = "idle"

\* A ProxyAdmin is nobody's if there is none: the admin slot of the proxy is zero.
OwnershipInit ==
    /\ compiled \in SUBSET Contract
    /\ \E owner \in {"deployer", "nobody"} :
          ownedBy = [[c \in Contract |-> "deployer"] EXCEPT !["ProxyAdmin"] = owner]
    /\ phase = "idle"
    /\ at = 1
    /\ pending = <<>>
    /\ interfered = FALSE

\* MaxPending bounds how many transactions killed runs leave behind.
StartTransfer ==
    /\ Idle
    /\ Len(pending) < MaxPending
    /\ phase' = "look"
    /\ at' = 1
    /\ interfered' = (pending # <<>>)
    /\ UNCHANGED <<compiled, ownedBy, pending>>

\* On to the next contract; after the last one the script only reads and logs.
Advance ==
    /\ phase' = IF at = Len(Order) THEN "idle" ELSE "look"
    /\ at' = IF at = Len(Order) THEN 1 ELSE at + 1

GiveUp ==
    /\ phase' = "idle"
    /\ at' = 1

\* Mutant of GetContractFails: a contract without an artifact is left out.
GetContractSkips ==
    /\ phase = "look"
    /\ Order[at] \notin compiled
    /\ Advance
    /\ UNCHANGED <<compiled, ownedBy, pending, interfered>>

\* getContractAt throws, which ends the script.
GetContractFails ==
    /\ phase = "look"
    /\ Order[at] \notin compiled
    /\ GiveUp
    /\ UNCHANGED <<compiled, ownedBy, pending, interfered>>

\* Mutant of LookAtOwner: a contract that is somebody else's ends the script.
LookAtOwnerOrFail ==
    /\ phase = "look"
    /\ Order[at] \in compiled
    /\ \/ Order[at] \in Deployers /\ phase' = "send" /\ UNCHANGED at
       \/ Order[at] \notin Deployers /\ GiveUp
    /\ UNCHANGED <<compiled, ownedBy, pending, interfered>>

\* The script reads the owner and passes over a contract that is somebody
\* else's.  Of the ProxyAdmin it only reads whether there is one.
LookAtOwner ==
    /\ phase = "look"
    /\ Order[at] \in compiled
    /\ LET goesOn == IF Order[at] = "ProxyAdmin" THEN ownedBy[Order[at]] # "nobody"
                                                 ELSE Order[at] \in Deployers
       IN  \/ goesOn /\ phase' = "send" /\ UNCHANGED at
           \/ ~goesOn /\ Advance
    /\ UNCHANGED <<compiled, ownedBy, pending, interfered>>

\* Mutant of SendTransfer: a transfer that is refused is tried again.
SendTransferInsists ==
    /\ phase = "send"
    /\ IF Order[at] \in Deployers
         THEN /\ pending' = Append(pending, Order[at])
              /\ phase' = "wait"
         ELSE /\ phase' = "look"
              /\ UNCHANGED pending
    /\ UNCHANGED <<compiled, ownedBy, at, interfered>>

\* Estimating the gas of a transaction executes it on the present state, so a
\* transfer that is refused there is not sent.
SendTransfer ==
    /\ phase = "send"
    /\ IF Order[at] \in Deployers
         THEN /\ pending' = Append(pending, Order[at])
              /\ phase' = "wait"
              /\ UNCHANGED at
         ELSE /\ GiveUp
              /\ UNCHANGED pending
    /\ UNCHANGED <<compiled, ownedBy, interfered>>

\* The script's own transaction is the last of those on their way.  Mined after
\* another transfer of the same contract, it is reverted, and wait() throws.
Mine ==
    /\ pending # <<>>
    /\ pending' = Tail(pending)
    /\ ownedBy' = [ownedBy EXCEPT ![Head(pending)] = "new owner"]
    /\ IF phase = "wait" /\ Len(pending) = 1
         THEN /\ phase' = IF Head(pending) \in Deployers THEN "mined" ELSE "reverted"
         ELSE UNCHANGED phase
    /\ UNCHANGED <<compiled, at, interfered>>

Waited ==
    /\ \/ phase = "mined" /\ Advance
       \/ phase = "reverted" /\ GiveUp
    /\ UNCHANGED <<compiled, ownedBy, pending, interfered>>

\* The script is killed, or loses its node; what it sent will be mined.
KillTransfer ==
    /\ ~Idle
    /\ GiveUp
    /\ interfered' = TRUE
    /\ UNCHANGED <<compiled, ownedBy, pending>>

\* The deployer transfers a contract by other means.  It is one account, so
\* what it sent before comes first.  Nobody gives a contract back to it.
TransferByHand(c) ==
    /\ pending = <<>>
    /\ c \in Deployers
    /\ ownedBy' = [ownedBy EXCEPT ![c] = "new owner"]
    /\ interfered' = TRUE
    /\ UNCHANGED <<compiled, phase, at, pending>>

TransferStep ==
    \/ GetContractFails
    \/ LookAtOwner
    \/ SendTransfer
    \/ Waited

OwnershipNext ==
    \/ StartTransfer
    \/ TransferStep
    \/ Mine
    \/ KillTransfer
    \/ \E c \in Contract : TransferByHand(c)

\* The script runs on by itself; the network mines what it was sent.
OwnershipFairness ==
    /\ WF_ownershipVars(TransferStep)
    /\ WF_ownershipVars(Mine)

OwnershipSpec ==
    OwnershipInit /\ [][OwnershipNext]_ownershipVars /\ OwnershipFairness

-----------------------------------------------------------------------------
(* Properties *)

\* What the script mines of Order[i] finds every earlier contract transferred.
InOrder ==
    pending # <<>> /\ pending' = Tail(pending) =>
        \A i, j \in 1 .. Len(Order) :
            Head(pending) = Order[i] /\ j < i => Order[j] \notin Deployers

\* The right to upgrade leaves the deployer last, and the contracts before it in
\* the order of the script, whatever was left out, killed, run again or mined
\* late: no transfer takes effect while an earlier contract is still the
\* deployer's (transfer-ownership.js:31-104).
HandedOverInOrder == [][InOrder]_ownershipVars

\* A run always ends, also when a transfer is refused or reverted
\* (transfer-ownership.js:142-147).
TransferRunEnds == ~Idle ~> Idle

\* With all artifacts, a run nothing interferes with leaves no contract with the
\* deployer, also when earlier runs stopped half-way: it passes over what they
\* transferred, and a ProxyAdmin that does not exist (transfer-ownership.js:38, 56, 74,
\* 99).  Of this repository's sources the build lacks one artifact (see above).
UndisturbedTransferCompletes ==
    phase = "look" /\ at = 1 /\ compiled = Contract
        ~> Idle /\ (interfered \/ Deployers = {})
=============================================================================
