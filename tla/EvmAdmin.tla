----------------------------- MODULE EvmAdmin -----------------------------
(***************************************************************************)
(* The admin contract of the EVM chains (evm-contracts/Operations.sol, and *)
(* Operations2.sol, the second version): who may mint and forward, how     *)
(* much, who is blacklisted, and which contracts may revoke approvals.     *)
(* The first version cannot be paused, keeps the amount of an approval     *)
(* that is revoked, and lets only the owner reset an amount.               *)
(*                                                                         *)
(* Several of these contracts can be deployed, and the token and the       *)
(* forwarder each name the one they ask, so admin[c] is the storage of     *)
(* contract c; a mapping to bool is the set of the addresses it maps to    *)
(* true.  One action is one call that does not revert; a call that reverts *)
(* is no step.                                                             *)
(***************************************************************************)
EXTENDS Naturals

CONSTANTS Address,         \* every address that plays a part
          Wallet,          \* the addresses that sign transactions
          AdminContract,   \* the deployed admin contracts
          AdminOwner,      \* their owner, who deployed them
          MaxU256

CONSTANTS MinterArg, ForwarderArg, TrustedArg, BlacklistArg, InternalArg,
          ExternalArg      \* the addresses the owner passes, per mapping

ASSUME EvmAdminAssumption ==
    /\ Wallet \subseteq Address
    /\ AdminOwner \in Wallet
    /\ MaxU256 \in Nat
    /\ MinterArg \subseteq Address
    /\ ForwarderArg \subseteq Address
    /\ TrustedArg \subseteq Address
    /\ BlacklistArg \subseteq Address
    /\ InternalArg \subseteq Address
    /\ ExternalArg \subseteq Address

VARIABLE admin   \* contract -> its mappings

Amount == 0 .. MaxU256

Storage == [version : {1, 2},
            canForward : SUBSET Address,
            canMint : SUBSET Address,
            mintAmount : [Address -> Amount],
            trustedContract : SUBSET Address,
            isBlackListed : SUBSET Address,
            isExternalSenderWhitelisted : SUBSET Address,
            isInternalUserWhitelisted : SUBSET Address,
            paused : BOOLEAN]

\* initialize runs in the transaction that deploys the contract
\* (scripts/deploy.js): the deployer may forward and mint, but no amount.
Initialized(version) == [version |-> version,
                         canForward |-> {AdminOwner},
                         canMint |-> {AdminOwner},
                         mintAmount |-> [a \in Address |-> 0],
                         trustedContract |-> {},
                         isBlackListed |-> {},
                         isExternalSenderWhitelisted |-> {},
                         isInternalUserWhitelisted |-> {},
                         paused |-> FALSE]

\* A contract keeps the version it was deployed with: the second lays its
\* storage out differently.
AdminInit == admin \in [AdminContract -> {Initialized(1), Initialized(2)}]

-----------------------------------------------------------------------------
(* What the owner or a trusted contract may do *)

OwnerOrTrustedContract(c, sender) ==
    sender = AdminOwner \/ sender \in admin[c].trustedContract

AddCanMint(c, sender, user) ==
    /\ ~admin[c].paused
    /\ OwnerOrTrustedContract(c, sender)
    /\ user \notin admin[c].isBlackListed
    /\ user \notin admin[c].canMint
    /\ admin' = [admin EXCEPT ![c].canMint = @ \cup {user}]

\* Mutant of LeftAmount: the second version keeps it too.
LeftAmountAlways(c, user) == admin[c].mintAmount[user]

\* What is left of an amount when the approval is revoked.
LeftAmount(c, user) == IF admin[c].version = 1 THEN admin[c].mintAmount[user] ELSE 0

\* Mutant of RemoveCanMint: works while paused.
RemoveCanMintWhilePaused(c, sender, user) ==
    /\ OwnerOrTrustedContract(c, sender)
    /\ user \in admin[c].canMint
    /\ admin' = [admin EXCEPT ![c].canMint = @ \ {user},
                              ![c].mintAmount[user] = LeftAmount(c, user)]

RemoveCanMint(c, sender, user) ==
    /\ ~admin[c].paused
    /\ OwnerOrTrustedContract(c, sender)
    /\ user \in admin[c].canMint
    /\ admin' = [admin EXCEPT ![c].canMint = @ \ {user},
                              ![c].mintAmount[user] = LeftAmount(c, user)]

RemoveMintAmount(c, sender, user) ==
    /\ ~admin[c].paused
    /\ OwnerOrTrustedContract(c, sender)
    /\ admin[c].version = 1 => sender = AdminOwner
    /\ admin' = [admin EXCEPT ![c].mintAmount[user] = 0]

\* The call as the contract sees it, whoever signed it.
TrustedCall(c, sender, user) ==
    \/ AddCanMint(c, sender, user)
    \/ RemoveCanMint(c, sender, user)
    \/ RemoveMintAmount(c, sender, user)

-----------------------------------------------------------------------------
(* What only the owner may do *)

AddMintAmount(c, user, amount) ==
    /\ ~admin[c].paused
    /\ user \in admin[c].canMint
    /\ admin' = [admin EXCEPT ![c].mintAmount[user] = amount]

AddCanForward(c, user) ==
    /\ ~admin[c].paused
    /\ user \notin admin[c].isBlackListed \cup admin[c].canForward
    /\ admin' = [admin EXCEPT ![c].canForward = @ \cup {user}]

RemoveCanForward(c, user) ==
    /\ ~admin[c].paused
    /\ user \in admin[c].canForward
    /\ admin' = [admin EXCEPT ![c].canForward = @ \ {user}]

AddTrustedContract(c, contract) ==
    /\ ~admin[c].paused
    /\ contract \notin admin[c].trustedContract
    /\ admin' = [admin EXCEPT ![c].trustedContract = @ \cup {contract}]

RemoveTrustedContract(c, contract) ==
    /\ ~admin[c].paused
    /\ contract \in admin[c].trustedContract
    /\ admin' = [admin EXCEPT ![c].trustedContract = @ \ {contract}]

WhitelistExternalSender(c, user) ==
    /\ ~admin[c].paused
    /\ user \notin admin[c].isExternalSenderWhitelisted
    /\ admin' = [admin EXCEPT ![c].isExternalSenderWhitelisted = @ \cup {user}]

BlacklistExternalSender(c, user) ==
    /\ ~admin[c].paused
    /\ user \in admin[c].isExternalSenderWhitelisted
    /\ admin' = [admin EXCEPT ![c].isExternalSenderWhitelisted = @ \ {user}]

WhitelistInternalUser(c, user) ==
    /\ ~admin[c].paused
    /\ user \notin admin[c].isInternalUserWhitelisted
    /\ admin' = [admin EXCEPT ![c].isInternalUserWhitelisted = @ \cup {user}]

BlacklistInternalUser(c, user) ==
    /\ ~admin[c].paused
    /\ user \in admin[c].isInternalUserWhitelisted
    /\ admin' = [admin EXCEPT ![c].isInternalUserWhitelisted = @ \ {user}]

\* Blacklisting takes no role away.
AddBlackList(c, evilUser) ==
    /\ ~admin[c].paused
    /\ evilUser \notin admin[c].isBlackListed
    /\ admin' = [admin EXCEPT ![c].isBlackListed = @ \cup {evilUser}]

RemoveBlackList(c, clearedUser) ==
    /\ ~admin[c].paused
    /\ clearedUser \in admin[c].isBlackListed
    /\ admin' = [admin EXCEPT ![c].isBlackListed = @ \ {clearedUser}]

\* pause and unpause; each wants the contract in the other state.
PauseAdmin(c) ==
    /\ admin[c].version = 2
    /\ admin' = [admin EXCEPT ![c].paused = ~@]

\* The owner's calls, pausing apart.
OwnerCall(c) ==
    \/ \E user \in MinterArg, amount \in Amount : AddMintAmount(c, user, amount)
    \/ \E user \in ForwarderArg : AddCanForward(c, user) \/ RemoveCanForward(c, user)
    \/ \E contract \in TrustedArg :
          AddTrustedContract(c, contract) \/ RemoveTrustedContract(c, contract)
    \/ \E user \in ExternalArg :
          WhitelistExternalSender(c, user) \/ BlacklistExternalSender(c, user)
    \/ \E user \in InternalArg :
          WhitelistInternalUser(c, user) \/ BlacklistInternalUser(c, user)
    \/ \E user \in BlacklistArg : AddBlackList(c, user) \/ RemoveBlackList(c, user)

-----------------------------------------------------------------------------

AdminNext ==
    \E c \in AdminContract :
        \/ \E sender \in Wallet, user \in MinterArg : TrustedCall(c, sender, user)
        \/ OwnerCall(c)
        \/ PauseAdmin(c)

AdminSpec == AdminInit /\ [][AdminNext]_admin

-----------------------------------------------------------------------------
(* Properties *)

EvmAdminTypeOK == admin \in [AdminContract -> Storage]

\* In the second version no amount outlives the approval it was granted with:
\* whoever becomes a minter again, by the owner or by a trusted contract, may
\* issue nothing until the owner grants a new amount (Operations2.sol:91-110).
AmountNeedsApproval ==
    \A c \in AdminContract, a \in Address :
        admin[c].version = 2 /\ admin[c].mintAmount[a] > 0 => a \in admin[c].canMint
=============================================================================
