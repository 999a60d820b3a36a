----------------------------- MODULE NtzsRoles -----------------------------
(***************************************************************************)
(* The control part of the Solana program: who administers the token, who  *)
(* may mint, forward and redeem, and who is blacklisted                    *)
(* (instructions/admin.rs, instructions/initialize.rs and the part of      *)
(* instructions/mint.rs that spends a mint approval).                      *)
(*                                                                         *)
(* One action is one instruction that succeeds.  An instruction that       *)
(* returns an error rolls back everything it did, so it is no step at all. *)
(*                                                                         *)
(* Each list is one account.  The accounts come into being in three        *)
(* instructions (Initialize, InitializeSecondary, InitializeThird), and an *)
(* instruction fails as long as one of its accounts does not exist;        *)
(* "created" holds the initialisation instructions that have run.          *)
(***************************************************************************)
EXTENDS MintApprovals

CONSTANTS NoKey,              \* no key: there is no admin yet
          Wallet,             \* the keys that sign instructions
          Deployer,           \* the wallets that may deploy the token
          MaxForwarders,      \* CanForward::MAX_FORWARDERS
          MaxBlacklisted,     \* BlackList::MAX_BLACKLISTED
          MaxInternal,        \* InternalWhiteList::MAX_INTERNAL_WHITELISTED
          MaxExternal,        \* ExternalWhiteList::MAX_EXTERNAL_WHITELISTED
          MaxContracts        \* TrustedContracts::MAX_CONTRACTS

CONSTANTS MinterArg, ForwarderArg, BlacklistArg, InternalArg, ExternalArg,
          TrustedArg   \* the keys the admin passes as user, per list

ASSUME RolesAssumption ==
    /\ Wallet \subseteq Key
    /\ Deployer \subseteq Wallet
    /\ NoKey \notin Key
    /\ {MaxForwarders, MaxBlacklisted, MaxInternal, MaxExternal,
        MaxContracts} \subseteq Nat
    /\ MinterArg \subseteq Key
    /\ ForwarderArg \subseteq Key
    /\ BlacklistArg \subseteq Key
    /\ InternalArg \subseteq Key
    /\ ExternalArg \subseteq Key
    /\ TrustedArg \subseteq Key

VARIABLES created,             \* initialisation instructions that have run
          admin,               \* TokenConfig.admin
          canForward,          \* CanForward.forwarders
          blacklist,           \* BlackList.blacklist
          internalWhitelist,   \* InternalWhiteList.whitelist
          externalWhitelist,   \* ExternalWhiteList.whitelist
          trusted              \* TrustedContracts.contracts

rolesVars == <<created, admin, canMint, canForward, blacklist,
               internalWhitelist, externalWhitelist, trusted>>

Forwarders == INSTANCE KeySet WITH members <- canForward, Capacity <- MaxForwarders
Blacklisted == INSTANCE KeySet WITH members <- blacklist, Capacity <- MaxBlacklisted
Internal == INSTANCE KeySet WITH members <- internalWhitelist, Capacity <- MaxInternal
External == INSTANCE KeySet WITH members <- externalWhitelist, Capacity <- MaxExternal
Trusted == INSTANCE KeySet WITH members <- trusted, Capacity <- MaxContracts

-----------------------------------------------------------------------------
(* Initialisation *)

Phase == {"primary", "secondary", "third"}

RolesInit ==
    /\ created = {}
    /\ admin = NoKey
    /\ canMint = [x \in {} |-> 0]
    /\ canForward = {}
    /\ blacklist = {}
    /\ internalWhitelist = {}
    /\ externalWhitelist = {}
    /\ trusted = {}

Initialize(initializer) ==
    /\ created = {}
    /\ created' = {"primary"}
    /\ admin' = initializer
    /\ canMint' = OneApproval(initializer)
    /\ UNCHANGED <<canForward, blacklist, internalWhitelist, externalWhitelist,
                   trusted>>

\* The last two need nothing but the mint, run in either order and may be
\* signed by anybody; each runs once, because an account is created once.
InitializeSecondary ==
    /\ "primary" \in created /\ "secondary" \notin created
    /\ created' = created \cup {"secondary"}
    /\ blacklist' = {}
    /\ canForward' = {}
    /\ trusted' = {}
    /\ UNCHANGED <<admin, canMint, internalWhitelist, externalWhitelist>>

InitializeThird ==
    /\ "primary" \in created /\ "third" \notin created
    /\ created' = created \cup {"third"}
    /\ internalWhitelist' = {}
    /\ externalWhitelist' = {}
    /\ UNCHANGED <<admin, canMint, canForward, blacklist, trusted>>

-----------------------------------------------------------------------------
(* Mint approvals *)

AddCanMint(signer, user) ==
    /\ {"primary", "secondary"} \subseteq created
    /\ signer = admin \/ signer \in trusted
    /\ user \notin blacklist
    /\ \/ user \in Minters /\ UNCHANGED canMint
       \/ user \notin Minters /\ AddAuthority(user)
    /\ UNCHANGED <<created, admin, canForward, blacklist, internalWhitelist,
                   externalWhitelist, trusted>>

RemoveCanMint(signer, user) ==
    /\ {"primary", "secondary"} \subseteq created
    /\ signer = admin \/ signer \in trusted
    /\ canMint' = WithoutApproval(user)
    /\ UNCHANGED <<created, admin, canForward, blacklist, internalWhitelist,
                   externalWhitelist, trusted>>

SetMintAmount(signer, user, amount) ==
    /\ "primary" \in created
    /\ signer = admin
    /\ amount >= 1
    /\ PutMintAmount(user, amount)
    /\ UNCHANGED <<created, admin, canForward, blacklist, internalWhitelist,
                   externalWhitelist, trusted>>

\* Mutant of RemoveMintAmount: counts the amount down instead of clearing it.
RemoveMintAmountSubtracts(signer, user) ==
    /\ "primary" \in created
    /\ signer = admin
    /\ PutMintAmount(user, canMint[user] - 1)
    /\ UNCHANGED <<created, admin, canForward, blacklist, internalWhitelist,
                   externalWhitelist, trusted>>

RemoveMintAmount(signer, user) ==
    /\ "primary" \in created
    /\ signer = admin
    /\ PutMintAmount(user, 0)
    /\ UNCHANGED <<created, admin, canForward, blacklist, internalWhitelist,
                   externalWhitelist, trusted>>

\* Mutant of AuthorizeMint: the approval outlives the mint.
AuthorizeMintAgain(signer, receiver, amount) ==
    /\ {"primary", "secondary"} \subseteq created
    /\ signer \notin blacklist
    /\ receiver \notin blacklist
    /\ \/ signer \in Minters /\ amount = canMint[signer]
       \/ signer \in canForward \ Minters
    /\ UNCHANGED rolesVars

\* The checks of the mint instruction on its signer and on the owner of the
\* receiving account, and the approval it uses up.  A forwarder that holds no
\* approval mints any amount; one that does is bound by it.
AuthorizeMint(signer, receiver, amount) ==
    /\ {"primary", "secondary"} \subseteq created
    /\ signer \notin blacklist
    /\ receiver \notin blacklist
    /\ \/ /\ signer \in Minters
          /\ amount = canMint[signer]
          /\ canMint' = WithoutApproval(signer)
       \/ /\ signer \in canForward \ Minters
          /\ UNCHANGED canMint
    /\ UNCHANGED <<created, admin, canForward, blacklist, internalWhitelist,
                   externalWhitelist, trusted>>

-----------------------------------------------------------------------------
(* Blacklist and trusted contracts *)

\* Mutant of AddBlackList: the forwarders are forgotten.
AddBlackListKeepsForwarder(signer, user) ==
    /\ created = Phase
    /\ signer = admin
    /\ user \notin blacklist
    /\ Blacklisted!Insert(user)
    /\ canMint' = WithoutApproval(user)
    /\ Internal!Delete(user)
    /\ External!Delete(user)
    /\ Trusted!Delete(user)
    /\ UNCHANGED <<created, admin, canForward>>

\* A key that is blacklisted loses every role it has.
AddBlackList(signer, user) ==
    /\ created = Phase
    /\ signer = admin
    /\ user \notin blacklist
    /\ Blacklisted!Insert(user)
    /\ canMint' = WithoutApproval(user)
    /\ Internal!Delete(user)
    /\ External!Delete(user)
    /\ Forwarders!Delete(user)
    /\ Trusted!Delete(user)
    /\ UNCHANGED <<created, admin>>

RemoveBlackList(signer, user) ==
    /\ "secondary" \in created
    /\ signer = admin
    /\ Blacklisted!Delete(user)
    /\ UNCHANGED <<created, admin, canMint, canForward, internalWhitelist,
                   externalWhitelist, trusted>>

\* Unlike every other list, this one is not checked against the blacklist.
AddTrustedContract(signer, contract) ==
    /\ "secondary" \in created
    /\ signer = admin
    /\ Trusted!InsertIfAbsent(contract)
    /\ UNCHANGED <<created, admin, canMint, canForward, blacklist,
                   internalWhitelist, externalWhitelist>>

RemoveTrustedContract(signer, contract) ==
    /\ "secondary" \in created
    /\ signer = admin
    /\ Trusted!Delete(contract)
    /\ UNCHANGED <<created, admin, canMint, canForward, blacklist,
                   internalWhitelist, externalWhitelist>>

-----------------------------------------------------------------------------
(* Whitelists and forwarders *)

WhitelistInternalUser(signer, user) ==
    /\ created = Phase
    /\ signer = admin
    /\ user \notin blacklist
    /\ Internal!InsertIfAbsent(user)
    /\ UNCHANGED <<created, admin, canMint, canForward, blacklist,
                   externalWhitelist, trusted>>

BlacklistInternalUser(signer, user) ==
    /\ created = Phase
    /\ signer = admin
    /\ Internal!Delete(user)
    /\ UNCHANGED <<created, admin, canMint, canForward, blacklist,
                   externalWhitelist, trusted>>

WhitelistExternalUser(signer, user) ==
    /\ created = Phase
    /\ signer = admin
    /\ user \notin blacklist
    /\ External!InsertIfAbsent(user)
    /\ UNCHANGED <<created, admin, canMint, canForward, blacklist,
                   internalWhitelist, trusted>>

BlacklistExternalUser(signer, user) ==
    /\ {"primary", "third"} \subseteq created
    /\ signer = admin
    /\ External!Delete(user)
    /\ UNCHANGED <<created, admin, canMint, canForward, blacklist,
                   internalWhitelist, trusted>>

AddCanForward(signer, forwarder) ==
    /\ {"primary", "secondary"} \subseteq created
    /\ signer = admin
    /\ forwarder \notin blacklist
    /\ Forwarders!InsertIfAbsent(forwarder)
    /\ UNCHANGED <<created, admin, canMint, blacklist, internalWhitelist,
                   externalWhitelist, trusted>>

RemoveCanForward(signer, forwarder) ==
    /\ {"primary", "secondary"} \subseteq created
    /\ signer = admin
    /\ Forwarders!Delete(forwarder)
    /\ UNCHANGED <<created, admin, canMint, blacklist, internalWhitelist,
                   externalWhitelist, trusted>>

-----------------------------------------------------------------------------

\* The instructions of admin.rs.
AdminStep ==
    \E signer \in Wallet :
        \/ \E user \in MinterArg :
              \/ AddCanMint(signer, user)
              \/ RemoveCanMint(signer, user)
              \/ \E amount \in Amount : SetMintAmount(signer, user, amount)
              \/ RemoveMintAmount(signer, user)
        \/ \E user \in BlacklistArg :
              AddBlackList(signer, user) \/ RemoveBlackList(signer, user)
        \/ \E contract \in TrustedArg :
              \/ AddTrustedContract(signer, contract)
              \/ RemoveTrustedContract(signer, contract)
        \/ \E user \in InternalArg :
              \/ WhitelistInternalUser(signer, user)
              \/ BlacklistInternalUser(signer, user)
        \/ \E user \in ExternalArg :
              \/ WhitelistExternalUser(signer, user)
              \/ BlacklistExternalUser(signer, user)
        \/ \E forwarder \in ForwarderArg :
              \/ AddCanForward(signer, forwarder)
              \/ RemoveCanForward(signer, forwarder)

RolesNext ==
    \/ \E initializer \in Deployer : Initialize(initializer)
    \/ InitializeSecondary
    \/ InitializeThird
    \/ AdminStep
    \/ \E signer \in Wallet, receiver \in Key, amount \in Amount :
          AuthorizeMint(signer, receiver, amount)

RolesSpec == RolesInit /\ [][RolesNext]_rolesVars

-----------------------------------------------------------------------------
(* Properties *)

RolesTypeOK ==
    /\ ApprovalsTypeOK
    /\ created \subseteq Phase
    /\ admin \in Wallet \cup {NoKey}
    /\ canForward \subseteq Key
    /\ blacklist \subseteq Key
    /\ internalWhitelist \subseteq Key
    /\ externalWhitelist \subseteq Key
    /\ trusted \subseteq Key

\* The keys that may mint, forward or redeem.
RoleHolders == Minters \cup canForward \cup internalWhitelist \cup externalWhitelist

\* No blacklisted key holds a role, in whatever order the instructions that
\* grant roles and the one that blacklists interleave: add_blacklist clears
\* every list (admin.rs:318-337) and every grant checks the blacklist
\* (admin.rs:51, 522, 579, 729).  Trusted contracts are not part of this:
\* add_trusted_contract does not check the blacklist (admin.rs:419-437).
RolesExcludeBlacklisted == RoleHolders \cap blacklist = {}

\* The inductive form of it: the approval that initialize gives the deployer
\* without a check is safe because nobody is blacklisted before the blacklist
\* has an account (initialize.rs:163-166, 187-189).
RolesInv ==
    /\ RolesExcludeBlacklisted
    /\ "secondary" \notin created => blacklist = {}

\* The lists fill up independently and none outgrows its account, although
\* Initialize writes the first approval without asking the list
\* (initialize.rs:165-166, can_mint.rs:20-31).
ListsFit ==
    /\ Cardinality(Minters) <= MaxAuthorities
    /\ Cardinality(canForward) <= MaxForwarders
    /\ Cardinality(blacklist) <= MaxBlacklisted
    /\ Cardinality(internalWhitelist) <= MaxInternal
    /\ Cardinality(externalWhitelist) <= MaxExternal
    /\ Cardinality(trusted) <= MaxContracts
=============================================================================
