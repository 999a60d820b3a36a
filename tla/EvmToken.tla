----------------------------- MODULE EvmToken -----------------------------
(***************************************************************************)
(* The token contract of the EVM chains, first version                     *)
(* (evm-contracts/ntzs.sol) and second (ntzs2.sol), and the upgrade from   *)
(* one to the other behind its proxy (scripts/upgrades.js), with the admin *)
(* contracts it asks, which may be of either version.                      *)
(*                                                                         *)
(* A Call names an operation and its arguments, so that a forwarder can    *)
(* carry it.  It has a caller and, at the end of its data, the address     *)
(* that a trusted forwarder appends.  Within one call the token calls the  *)
(* admin contract; all of it takes effect or none of it.                   *)
(*                                                                         *)
(* Both versions of the token inherit a balance mapping, an allowance      *)
(* mapping and a supply from ERC20Upgradeable, and both declare three      *)
(* variables of the same names after it.  The first version overrides the  *)
(* operations and uses its own variables; the second uses the inherited    *)
(* ones, which the first never wrote.  balances, allowances and            *)
(* totalSupply are what the version in force reads.                        *)
(***************************************************************************)
EXTENDS EvmAdmin, FiniteSetsExt

CONSTANTS Token,            \* the address of the token contract
          TokenOwner,
          DirectCaller,     \* the wallets that call the token themselves
          DirectCall,       \* the calls they make
          Forwarder,        \* the forwarder contract, trusted at first
          FirstAdmin,       \* the admin contract of initialize
          NewForwarder      \* the contracts that may replace the forwarder

Op == {"transfer", "transferFrom", "approve", "increaseAllowance",
       "decreaseAllowance", "mint", "burnByUser", "pause", "destroyBlackFunds",
       "updateForwarderContract"}

\* "from" counts for transferFrom only, "amount" where there is an amount.
Call == [op : Op, from : Address, user : Address, amount : Amount]

ASSUME EvmTokenAssumption ==
    /\ IsFiniteSet(Address)
    /\ Token \in Address \ Wallet
    /\ TokenOwner \in Wallet
    /\ DirectCaller \subseteq Wallet
    /\ DirectCall \subseteq Call
    /\ Forwarder \in Address \ Wallet
    /\ FirstAdmin \in AdminContract
    /\ NewForwarder \subseteq Address \ Wallet

VARIABLES balances,
          allowances,     \* owner -> spender -> amount
          totalSupply,
          paused,
          trustedForwarderContract,
          adminOperationsContract,
          version         \* of the code behind the proxy

settings == <<paused, trustedForwarderContract, adminOperationsContract, version>>
tokenVars == <<balances, allowances, totalSupply, settings>>
evmVars == <<admin, tokenVars>>

\* initialize, in the transaction that deploys the proxy (scripts/deploy.js);
\* either version may be the one deployed.
TokenInit ==
    /\ AdminInit
    /\ balances = [a \in Address |-> 0]
    /\ allowances = [a \in Address |-> [s \in Address |-> 0]]
    /\ totalSupply = 0
    /\ paused = FALSE
    /\ trustedForwarderContract = Forwarder
    /\ adminOperationsContract = FirstAdmin
    /\ version \in {1, 2}

\* customSender of the first version, _msgSender of the second.
MsgSender(caller, appended) ==
    IF caller = trustedForwarderContract THEN appended ELSE caller

\* The first version takes the sender from the end of the data in mint only.
Sender(caller, appended) == IF version = 1 THEN caller ELSE MsgSender(caller, appended)

DeployerOrForwarder(caller) == caller \in {TokenOwner, trustedForwarderContract}

\* The admin contract the token asks.
Asked == admin[adminOperationsContract]

BlackListed(a) == a \in Asked.isBlackListed

-----------------------------------------------------------------------------
(* Money *)

\* A redemption goes to the internal user and is burnt there at once.
Redeems(from, to) ==
    /\ to \in Asked.isInternalUserWhitelisted
    /\ from \in Asked.isExternalSenderWhitelisted

Moved(from, to, amount) ==
    [[balances EXCEPT ![from] = @ - amount] EXCEPT ![to] = @ + amount]

\* Mutant of Burned: the supply is forgotten.
BurnedKeepsSupply(from, amount) ==
    /\ amount <= balances[from]
    /\ balances' = [balances EXCEPT ![from] = @ - amount]
    /\ UNCHANGED totalSupply

Burned(from, amount) ==
    /\ amount <= balances[from]
    /\ balances' = [balances EXCEPT ![from] = @ - amount]
    /\ totalSupply' = totalSupply - amount

Transfer(sender, to, amount) ==
    /\ ~paused
    /\ ~BlackListed(sender) /\ ~BlackListed(to)
    /\ \/ /\ Redeems(sender, to)
          /\ Burned(sender, amount)
       \/ /\ ~Redeems(sender, to)
          /\ amount <= balances[sender]
          /\ balances' = Moved(sender, to, amount)
          /\ UNCHANGED totalSupply
    /\ UNCHANGED <<admin, allowances, settings>>

\* Mutant of SpentAllowance: nothing is used up.
UnspentAllowance(from, sender, amount) == allowances

\* An allowance of the largest amount is never used up.
SpentAllowance(from, sender, amount) ==
    IF allowances[from][sender] = MaxU256
      THEN allowances
      ELSE [allowances EXCEPT ![from][sender] = @ - amount]

\* Mutant of TransferFrom: asks only for the parties to the call.
TransferFromOfAnybody(sender, from, to, amount) ==
    /\ ~paused
    /\ ~BlackListed(sender) /\ ~BlackListed(to)
    /\ amount <= allowances[from][sender]
    /\ allowances' = SpentAllowance(from, sender, amount)
    /\ amount <= balances[from]
    /\ balances' = Moved(from, to, amount)
    /\ UNCHANGED <<admin, totalSupply, settings>>

\* Mutant of TransferFrom: the allowance is spent without a check.
TransferFromUnchecked(sender, from, to, amount) ==
    /\ ~paused
    /\ ~BlackListed(sender) /\ ~BlackListed(from) /\ ~BlackListed(to)
    /\ allowances' = SpentAllowance(from, sender, amount)
    /\ amount <= balances[from]
    /\ balances' = Moved(from, to, amount)
    /\ UNCHANGED <<admin, totalSupply, settings>>

TransferFrom(sender, from, to, amount) ==
    /\ ~paused
    /\ ~BlackListed(sender) /\ ~BlackListed(from) /\ ~BlackListed(to)
    /\ amount <= allowances[from][sender]
    /\ allowances' = SpentAllowance(from, sender, amount)
    /\ amount <= balances[from]
    /\ balances' = Moved(from, to, amount)
    /\ UNCHANGED <<admin, totalSupply, settings>>

\* Never refused: neither pause nor blacklist matter.
Approve(sender, spender, amount) ==
    /\ allowances' = [allowances EXCEPT ![sender][spender] = amount]
    /\ UNCHANGED <<admin, balances, totalSupply, settings>>

\* The same for what is allowed already and more of it, or less.
IncreaseAllowance(sender, spender, added) ==
    /\ allowances[sender][spender] + added <= MaxU256
    /\ Approve(sender, spender, allowances[sender][spender] + added)

DecreaseAllowance(sender, spender, subtracted) ==
    /\ subtracted <= allowances[sender][spender]
    /\ Approve(sender, spender, allowances[sender][spender] - subtracted)

\* Mutant of NewMoney: an approval is good for less than its amount too.
NewMoneyUpTo(minter, to, amount) ==
    /\ ~paused
    /\ minter \in Asked.canMint
    /\ amount <= Asked.mintAmount[minter]
    /\ totalSupply + amount <= MaxU256
    /\ totalSupply' = totalSupply + amount
    /\ balances' = [balances EXCEPT ![to] = @ + amount]
    /\ UNCHANGED <<allowances, settings>>

\* What an approval is good for: its exact amount.
NewMoney(minter, to, amount) ==
    /\ ~paused
    /\ minter \in Asked.canMint
    /\ amount = Asked.mintAmount[minter]
    /\ totalSupply + amount <= MaxU256
    /\ totalSupply' = totalSupply + amount
    /\ balances' = [balances EXCEPT ![to] = @ + amount]
    /\ UNCHANGED <<allowances, settings>>

\* Mutant of MayReceive: the first version asks as the second does.
MayReceiveEither(caller, sender, to) ==
    \/ version = 1 /\ DeployerOrForwarder(caller)
       /\ (~BlackListed(sender) \/ ~BlackListed(to))
    \/ version = 2 /\ (~BlackListed(sender) \/ ~BlackListed(to))

\* The second version refuses only if signer and receiver are both blacklisted.
MayReceive(caller, sender, to) ==
    \/ version = 1 /\ DeployerOrForwarder(caller)
       /\ ~BlackListed(sender) /\ ~BlackListed(to)
    \/ version = 2 /\ (~BlackListed(sender) \/ ~BlackListed(to))

\* The token revokes the approval itself and fails if the admin contract does
\* not let it.
Mint(caller, sender, to, amount) ==
    /\ MayReceive(caller, sender, to)
    /\ NewMoney(sender, to, amount)
    /\ RemoveCanMint(adminOperationsContract, Token, sender)

BurnByUser(sender, amount) ==
    /\ ~paused
    /\ \/ version = 1 /\ DeployerOrForwarder(sender)
       \/ version = 2 /\ ~BlackListed(sender)
    /\ Burned(sender, amount)
    /\ UNCHANGED <<admin, allowances, settings>>

\* The funds of a blacklisted user are burnt as a whole, paused or not.
DestroyBlackFunds(sender, user) ==
    /\ sender = TokenOwner
    /\ BlackListed(user)
    /\ Burned(user, balances[user])
    /\ UNCHANGED <<admin, allowances, settings>>

-----------------------------------------------------------------------------
(* The owner's settings *)

\* pause and unpause; each wants the contract in the other state.
PauseToken(sender) ==
    /\ sender = TokenOwner
    /\ paused' = ~paused
    /\ UNCHANGED <<admin, balances, allowances, totalSupply,
                   trustedForwarderContract, adminOperationsContract, version>>

\* Called by the owner himself; signed and forwarded, it comes to a forwarded call
\* that fails and one that he makes.
UpdateAdminOperationsAddress(sender, c) ==
    /\ sender = TokenOwner
    /\ adminOperationsContract' = c
    /\ UNCHANGED <<admin, balances, allowances, totalSupply, paused,
                   trustedForwarderContract, version>>

UpdateForwarderContract(sender, forwarder) ==
    /\ sender = TokenOwner
    /\ trustedForwarderContract' = forwarder
    /\ UNCHANGED <<admin, balances, allowances, totalSupply, paused,
                   adminOperationsContract, version>>

\* The pause and the addresses of the other contracts are read where they were
\* written; balances, allowances and supply are not.
Upgrade ==
    /\ version = 1
    /\ version' = 2
    /\ balances' = [a \in Address |-> 0]
    /\ allowances' = [a \in Address |-> [s \in Address |-> 0]]
    /\ totalSupply' = 0
    /\ UNCHANGED <<admin, paused, trustedForwarderContract, adminOperationsContract>>

-----------------------------------------------------------------------------

\* The operations that act for their sender.
SenderCall(sender, call) ==
    \/ call.op = "transfer" /\ Transfer(sender, call.user, call.amount)
    \/ call.op = "transferFrom"
       /\ TransferFrom(sender, call.from, call.user, call.amount)
    \/ call.op = "approve" /\ Approve(sender, call.user, call.amount)
    \/ call.op = "increaseAllowance" /\ IncreaseAllowance(sender, call.user, call.amount)
    \/ call.op = "decreaseAllowance" /\ DecreaseAllowance(sender, call.user, call.amount)
    \/ call.op = "burnByUser" /\ BurnByUser(sender, call.amount)
    \/ call.op = "pause" /\ PauseToken(sender)
    \/ call.op = "destroyBlackFunds" /\ DestroyBlackFunds(sender, call.user)
    \/ call.op = "updateForwarderContract"
       /\ call.user \in NewForwarder
       /\ UpdateForwarderContract(sender, call.user)

TokenCall(caller, appended, call) ==
    \/ SenderCall(Sender(caller, appended), call)
    \/ call.op = "mint"
       /\ Mint(caller, MsgSender(caller, appended), call.user, call.amount)

TokenNext ==
    \/ AdminNext /\ UNCHANGED tokenVars
    \/ \E w \in DirectCaller, call \in DirectCall : TokenCall(w, w, call)
    \/ \E c \in AdminContract : UpdateAdminOperationsAddress(TokenOwner, c)
    \/ Upgrade

TokenSpec == TokenInit /\ [][TokenNext]_evmVars

-----------------------------------------------------------------------------
(* Properties *)

EvmTokenTypeOK ==
    /\ EvmAdminTypeOK
    /\ balances \in [Address -> Amount]
    /\ allowances \in [Address -> [Address -> Amount]]
    /\ totalSupply \in Amount
    /\ paused \in BOOLEAN
    /\ trustedForwarderContract \in Address \ Wallet
    /\ adminOperationsContract \in AdminContract
    /\ version \in {1, 2}

\* Every call that touches a balance keeps the sum equal to the supply, a
\* redemption, a destruction of funds and an upgrade included (ntzs.sol:122-404,
\* ntzs2.sol:109-261).
EvmConservation ==
    totalSupply = MapThenSumSet(LAMBDA a : balances[a], Address)

\* In the second version money is frozen while the token is paused or its holder
\* blacklisted: no call of anybody, by allowance or by redemption either, takes
\* any of it, except that the owner may destroy all that a blacklisted holder has
\* (ntzs2.sol:109-180, 229-261).
FrozenUntilDestroyed ==
    [][\A h \in Address :
          /\ version = 2
          /\ paused \/ BlackListed(h)
          /\ balances'[h] < balances[h]
          => /\ BlackListed(h)
             /\ balances'[h] = 0
             /\ totalSupply' = totalSupply - balances[h]]_evmVars

\* New money is exactly the amount of an approval in the admin contract asked,
\* and that approval is gone afterwards (ntzs.sol:258-270, ntzs2.sol:203-217,
\* Operations2.sol:91-100).
NewMoneyApproved ==
    [][totalSupply' > totalSupply =>
          \E k \in Asked.canMint :
              /\ totalSupply' - totalSupply = Asked.mintAmount[k]
              /\ k \notin admin'[adminOperationsContract].canMint]_evmVars

\* Pausing the admin contract stops minting too, although the token does not
\* look at that pause: the approval could not be revoked (ntzs2.sol:214-217,
\* Operations2.sol:91-93).
PausedAdminStopsMint ==
    [][Asked.paused => totalSupply' <= totalSupply]_evmVars

\* Under the first version nobody who is blacklisted gets new money, or loses
\* the approval for it, whether the owner mints or a request does
\* (ntzs.sol:245-273).
FirstVersionBarsFromIssue ==
    [][/\ version = 1
       /\ totalSupply' > totalSupply
       => /\ \A a \in Address : balances'[a] > balances[a] => ~BlackListed(a)
          /\ \E k \in Asked.canMint : /\ ~BlackListed(k)
                                      /\ k \notin admin'[adminOperationsContract].canMint]_evmVars

-----------------------------------------------------------------------------
(* What the contract promises *)

Contract == INSTANCE ContractPolicy WITH
    Holder <- Address,
    MaxAmount <- MaxU256,
    balance <- balances,
    supply <- totalSupply,
    allowance <- allowances,
    approval <- [k \in Asked.canMint |-> Asked.mintAmount[k]],
    barred <- Asked.isBlackListed,
    canMove <- ~paused

\* Both versions keep the promises of ContractPolicy, whoever calls and whatever
\* requests are executed; only the upgrade between them does not
\* (ntzs.sol:122-404, ntzs2.sol:109-279).
ImplementsContract ==
    /\ Contract!PolicyInit
    /\ [][version' = version => Contract!PolicyNext]_(Contract!policyVars)

\* Short of the upgrade no version pays anybody out of the money of a blacklisted
\* holder: what he loses leaves the supply, and during a pause he loses all of it
\* and nobody else loses any (ntzs.sol:122-404, ntzs2.sol:109-261,
\* tron-contract/contracts/ntzs.sol:94-221).
BarredMoneyOnlyRetires ==
    [][\A h \in Address :
          /\ version' = version
          /\ paused \/ BlackListed(h)
          /\ balances'[h] < balances[h]
          => /\ BlackListed(h)
             /\ totalSupply' = totalSupply - (balances[h] - balances'[h])
             /\ paused => balances'[h] = 0]_evmVars

-----------------------------------------------------------------------------
(* What the code says of itself and does not do. *)

\* "Preserved variables from V1" (ntzs2.sol:295): the upgrade keeps what every
\* holder has.
UpgradeKeepsBalances ==
    [][version' # version =>
          balances' = balances /\ totalSupply' = totalSupply]_evmVars
=============================================================================
