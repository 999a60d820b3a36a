# nTZS stablecoin: TLA+ models, model checking and proofs

nTZS (cNGN in older parts of the code) is a regulated, fiat-backed token with
three implementations: an Anchor program on Solana, upgradeable contracts on
EVM chains, and a variant of those contracts on Tron.  This directory models
the Solana program, both versions of the EVM contracts and the Tron contracts,
states what each kind of chain promises as an abstract specification, checks the
models with TLC and proves with TLAPS all that is checked of them except what
rests on fairness or ENABLED (section 5).

## 1. Inventory

Paths are relative to `src/`.

### Solana program (`solana-contract/programs/ntzs/src`)

| Part | State | Operations | Hard behaviour |
|---|---|---|---|
| mint approvals (`state/can_mint.rs`) | `authorities`, `mint_amounts`: two parallel vectors | add, remove, set amount | keeping the vectors aligned; a full list |
| key lists (`state/{blacklist,can_forward,internal_whitelist,external_whitelist,trusted_contracts}.rs`) | one vector of keys per account | add, remove, membership | a full list; remove drops the first position only |
| administration (`instructions/{initialize,admin}.rs`) | `TokenConfig.admin` and the six lists | three initialisations, 14 instructions that change a list | blacklisting against the grants of roles, by several signers, before the accounts all exist |
| token (`instructions/{mint,burn,transfer,pause}.rs`) | `mint_paused`, `transfer_paused`; balances and supply live in the SPL program | mint, burn, transfer, pause | an approval is set in one transaction and spent in another; a transfer may be a redemption, which burns |
| forwarding (`instructions/forwarder.rs`, `state/can_forward.rs`) | `is_executed` (a lock) per token configuration, one `UserNonce` per user and configuration | initialize_user_nonce, execute | messages are lost, repeated, delayed and reordered by relayers; the configuration whose rules apply is the one the caller names |

An instruction is atomic: if any check or any call it makes fails, everything
it did is rolled back.  Concurrency is therefore the interleaving of whole
instructions, signed by the admin, trusted contracts, minters, forwarders,
holders and anybody else, in any order.  The parts share state: mint reads the
blacklist, the approvals and the forwarders; transfer and execute read the
blacklist and both whitelists; add_blacklist writes all six lists.

What makes the parts correct:

* approvals and lists: the vectors behave as a bounded map and bounded sets;
* administration: no blacklisted key can mint, forward or redeem, whatever was
  granted when (trusted contracts are not checked, admin.rs:419-437); the lists stay within the space of their accounts;
* token: money appears only by spending an approval once, in its exact amount,
  or at the word of a forwarder; it moves only between parties that are not
  blacklisted, while transfers are not paused; it disappears only by burning;
  a redemption is never moved;
* forwarding: under one configuration each message counts at most once and
  never after a later one; an account handed to the program pays only against a
  message unused under the configuration it is submitted to; nothing of an
  earlier execution stands in the way of the next.

### Solana clients (`solana-contract/{app,migrations,utils,tests}`)

The scripts in `app` call one instruction each.  Three of their steps matter to
the program: creating token accounts, handing the mint's authority to the
program after deployment (`utils/transfer_authority.ts`) and handing a user's
account to the program before forwarding (`app/forward_tx.ts`).

| Script | State | Operations | Hard behaviour |
|---|---|---|---|
| Solana deployment (`migrations/deploy.ts`, `utils/{token_initializer,transfer_authority}.ts`) | the mint of the run, saved in a file; how far the run has come; what the chain has of each mint | five transactions in sequence: three initialisations, metadata, handover of the mint | stops after any of them, is run again with another mint; a transaction is lost, or lands after its run has given up on it; two of the initialisations can be done by anybody |
| EVM handover (`scripts/transfer-ownership.js`) | how far the run has come; the owners of four contracts | reads an owner, transfers, waits; three contracts, then the ProxyAdmin | stops half-way and is run again while its last transaction is on the way; the owner it read is stale when its transfer is mined |

What makes them correct: the right to mint, and the right to upgrade, change
hands last, after everything before them took effect; a run always ends; a run
nothing interferes with does all it should, whatever earlier runs left behind;
and what a deployment does to the chain is what the program allows.

### EVM contracts (`evm-contracts`), Tron contracts (`tron-contract/contracts`)

| Part | State | Operations | Hard behaviour |
|---|---|---|---|
| token (`ntzs.sol`, `ntzs2.sol`) | balances, allowances, supply, pause, addresses of the other contracts | transfer, transferFrom, mint, burnByUser, destroyBlackFunds, pause, replacing the other contracts | mint calls back into the admin contract; the signer of a forwarded call is appended to its data |
| admin (`Operations.sol`, `Operations2.sol`) | mappings: canForward, canMint, mintAmount, blacklist, whitelists, trusted contracts | add and remove for each | the token revokes approvals, so it must be a trusted contract |
| forwarder (`forwarder.sol`) | nonces, processed hashes, bridges, pause | execute, executeByBridge | a call that fails after the nonce was used; a different nonce rule on Tron |
| proxies and scripts (`proxy/`, `scripts/`) | implementation, owner | upgrade from the first to the second version | storage under new code |

A call of a contract is one transaction, with every call it makes of another
contract; if it reverts nothing happened.  The exception is the forwarder,
which catches the failure of the call it makes.  What interleaves is the calls
of the owner, of trusted contracts, of holders and spenders, and of relayers
who submit signed requests when they like, and again.

What makes the parts correct:

* admin: an amount is good only together with the approval it was granted for;
* token: balances add up to the supply; money of a blacklisted holder goes to
  nobody, and during a pause money only leaves by being destroyed; new money uses up an
  approval of its exact amount in the admin contract asked, whichever that is;
* forwarder: the two defences against replay (nonce and hash) agree; a holder
  who only signs requests loses only what he signed for;
* upgrade: what holders have survives it.

Not modelled, not this project's code: `evm-contracts/.deps` (vendored OpenZeppelin),
`tron-contract/build` (compiler output), `test/execute.js` (a manual script
against a test network).

## 2. Modules

| Module | Models | State and actions |
|---|---|---|
| `ListLimits` | | the constants the lists and the vectors share |
| `MintApprovals` | what `CanMint` promises | `canMint`, a map from approved keys to amounts |
| `CanMintVec` | `state/can_mint.rs` | the two vectors; implements `MintApprovals` under `ApprovalMap` |
| `KeySet` | what the five list accounts promise | `members`, a bounded set |
| `KeyVec` | the vector in each of the five list files | `keys`; implements `KeySet` under `Range(keys)` |
| `NtzsRoles` | `initialize.rs`, `admin.rs`, the approval part of `mint.rs` | one action per instruction; extends `MintApprovals`, five instances of `KeySet` |
| `SplToken` | the SPL token program (external) | owners, balances, supply, mint authority; every operation names its signer |
| `NtzsToken` | `mint.rs`, `burn.rs`, `transfer.rs`, `pause.rs` | extends `NtzsRoles`, composes `SplToken` |
| `NtzsForwarder` | `forwarder.rs`, `UserNonce`; the whole program | extends `NtzsToken`; `isExecuted`, `nonce`, `forwarded` per configuration; `ProgramSpec` has every instruction |
| `StablecoinPolicy` | abstract: what the Solana program promises | `Issue`, `Move`, `Retire`, `Govern`, and the gap `MoveOutside`; implemented by `NtzsForwarder` |
| `ContractPolicy` | abstract: what the EVM and Tron contracts promise | `Issue`, `Pay` (by the holder or within an allowance), `Retire`, `Seize`, `Allow`, `Govern`; implemented by `EvmForwarder` and `TronForwarder` |
| `EvmAdmin` | `Operations.sol`, `Operations2.sol` | `admin`: contract -> its version and mappings; one action per function |
| `EvmToken` | `ntzs.sol`, `ntzs2.sol`, over OpenZeppelin's ERC-20; `upgrades.js` | extends `EvmAdmin`; `TokenCall` is a call as the token sees it, whoever signed it; `version`, `Upgrade` |
| `EvmForwarder` | `forwarder.sol` | extends `EvmToken`; `ChainSpec` has the three contracts |
| `TronForwarder` | `tron-contract/contracts` | extends `EvmForwarder`, replacing what differs |
| `NtzsDeployment` | `migrations/deploy.ts` and its helpers, against a chain at its own pace | `pc`, `reply`: where the script is and what it knows; `inFlight`, `landed`: the transactions; for each mint an instance of `NtzsToken` as its abstract specification |
| `EvmOwnership` | `scripts/transfer-ownership.js` | `phase`, `at`: what the script is about to do and to which contract; `pending`: the deployer's transactions in nonce order; `ownedBy` |
| `SumProofs` | | lemmas about sums over finite sets, for the books of both kinds of chain |
| `NtzsRolesProofs`, `NtzsProgramProofs`, `NtzsPolicyProofs`, `EvmProofs`, `TronProofs`, `ScriptProofs`, `VectorProofs` | theorems | section 5 |
| `MC...` | values for the constants | section 3 |

Conventions of the translation:

* One action is one instruction that succeeds, with all it does: mint spends
  the approval and mints; add_blacklist clears the five other lists; execute
  checks, writes the nonce and transfers.  An instruction that fails changes
  nothing and is no step.
* `created` says which initialisation instructions have run.  Anchor refuses an
  instruction one of whose accounts does not exist, so each action has the
  conjunct that its accounts exist.
* A list file's `add` refuses a full list before it looks for the key; the
  handlers look first.  `Insert` and `InsertIfAbsent` keep the two apart.
  Where `remove` of a missing key is an error in one file and `Ok` in another,
  neither changes state.
* PDAs are keys no wallet has: `TransferAuth[t]`, `MintPda`.  A CPI with seeds
  signs for its PDA; one without does not.  The burn in execute has no seeds
  (forwarder.rs:308), so the SPL program refuses it whenever the account
  belongs to the PDA; therefore `Execute` transfers or fails.
* The ed25519 checks of execute (forwarder.rs:166-251) come down to: the
  instruction before this one verified a signature of this message by the key
  of the sender account.  `Request` is the set of messages that were signed.
  Amount and action of the message are never compared with what is executed,
  so `Execute` takes account, recipient and amount from the caller.
* `execute` takes and releases its lock in one atomic instruction, so the lock
  is never seen taken; `UnusedRequestGoesThrough` is what would fail if it
  were left behind.
* Mint and token accounts are those of one mint, the mint at hand.  The program
  serves others beside it: `initialize` is open for any mint, and whoever calls
  it is the admin there.  Every instruction but one derives all its accounts
  from one mint.  `execute` takes blacklist, forwarders, pause and nonce from the
  `token_config` that the caller names (forwarder.rs:27-56) and the whitelists
  from the mint of the account that pays (58-68); it compares that mint with its
  `mint` account (136-139) and with nothing else, and it does not compare
  `sender` with `from`.  So `Config` is the set of configurations, `Home` the
  one of the mint at hand, and `Execute` takes any of them as a parameter.
  `Permits` is what the named configuration asks: for `Home` it is what the
  modelled admin decided, for any other it is left open, which includes that it
  allows everything.  `Accept` is the lock, the nonce and the event of that
  configuration, `PayForwarded` the payment of an account of the mint at hand.
  `ExecuteForOtherMint` is the same instruction when the paying account is of
  another mint; of what is modelled it uses a nonce and emits an event.
* Amounts and nonces are `0 .. MaxU64`.  Additions are guarded where the SPL
  program uses checked arithmetic.
* A payment is two updates, one inside the other (`[[balance EXCEPT ![t] = @ - n]
  EXCEPT ![u] = @ + n]`), as the code subtracts first and adds then: whoever pays
  himself ends with what he had.  The short form with two updates in one EXCEPT
  means the same, but the proof system gives its second `@` the old value.
* EVM and Tron: an action is a call that does not revert, and a `mapping(address => bool)` is a set of addresses.
  `OwnerCall` and the forwarder's settings are calls of the owner.  `admin` has
  several contracts because token and forwarder each name the one they ask and
  either may be told to ask another.  `pause` and `unpause` are one action,
  each of them refusing in the other's state.
* A request that is executed uses up nonce and hash and then either has the
  effect of its call or none.  Any call may fail, as the relayer chooses how
  much gas it gets; so `ExecuteTransaction` leaves the choice open.
* `increaseAllowance` and `decreaseAllowance` start from the allowance at the
  moment of the call, of which a spender may have used a part since the request
  was signed.  The sum is checked by the compiler, the difference by a `require`
  (ntzs.sol:212, 223-229); the second version and Tron have the same two.
* Either version of each contract may be deployed.  A check made twice, or where
  a balance changes instead of at the start of the call, makes no difference to
  a call that takes effect as a whole or not at all, so the two versions of the
  token differ in three places only: from which operations on they look for the
  signer of a forwarded call (`Sender`), who may mint to whom (`MayReceive`) and
  who may burn (`BurnByUser`).  `TronForwarder` takes from `EvmForwarder` what
  does the same there, and redefines the rest.
* `balances`, `allowances` and `totalSupply` are what the version in force
  reads.  Both versions inherit three variables from ERC20Upgradeable and
  declare three more; the first uses its own, the second the inherited ones.
  `Upgrade` is the moment at which the other ones begin to be read.  An admin
  contract keeps its version: `Operations2` has one more base contract in front
  of its mappings, which the upgrade tool refuses to put behind an old proxy.
* The scripts: `Plan` is the order of the five transactions.  A script looks only
  at what it has been told (`reply`), the chain only at what was sent to it
  (`inFlight`, `pending`), and between the two an answer may be lost.
  `disturbed` and `interfered` are history: they record that something outside
  the script happened during the latest run, and no action reads them.
* A Solana transaction is simulated before it is sent, and a transaction that
  would be refused at that moment is never sent; the same holds for ethers,
  which estimates the gas.  What is mined or lands later may still be refused.
* `compiled` is the set of contracts the build has an artifact of.  As the
  repository stands, the sources define no contract "nTZS" (nor "Ntzs", which
  `deploy.js` and `upgrades.js` ask for), so a run of `transfer-ownership.js`
  ends at the third contract; `OwnershipInit` leaves the set open, and what is
  said of a build with all artifacts is said of the script and not of today's
  sources.  A proxy may have no ProxyAdmin, whose address is then zero and which
  the script skips (transfer-ownership.js:99): `OwnershipInit` leaves that open
  too.

## 3. Runs

| Run | Question | Instance |
|---|---|---|
| `roles` | can a blacklisted key hold a role, can a list outgrow its account?  Do the vectors implement the map and the sets? | 3 keys that can be anything (admin, trusted, minter, ...), lists of 2, amounts 0..1, symmetric; the vectors with the same keys and bounds |
| `forwarder_order` | under each configuration, do messages count once and in order, and does an unused message always go through; does a handed-over account pay without one; is new money backed, even if wallets also call the SPL program? | two configurations; nonces 0..2 of one sender, two messages compete for one nonce; `HoldersCallSpl`; amounts 0..2 |
| `forwarder_rules` | does the whole program implement the policy, from its deployment on; is a redemption ever credited, or frozen money anything but burnt? | two configurations, one message; pausing, blacklisting, whitelisting of wallets and account addresses at any time |
| `forwarder_sender`, `forwarder_redeem`, `forwarder_replay` | expected violations, section 4 | as above, smaller; two configurations in `forwarder_replay` only |
| `evm_admins` | is new money always approved, whichever admin contract is asked? | two admin contracts of either version; the token, or a wallet, trusted or not; the owner mints; amounts 0..2 |
| `evm_chain` | do the books balance, does frozen money stay, do nonces and hashes agree; can a signer lose more than he signed for or allowed, or allow more than he signed; do the contracts implement their policy? | 8 requests: the same call with two amounts of gas, several calls for one nonce (transfer and approve; burn, increaseAllowance and decreaseAllowance), one that replaces the forwarder; owner and bridge as relayers; either version of each contract, and the upgrade; amounts 0..2 (2 is the unlimited allowance) |
| `tron` | is new money approved where requests need not be in order; does a request cost its signer anything, does barred money go to anybody; do the contracts implement their policy? | 7 requests with gaps and repetitions of nonces, one of them for the admin contract; the forwarder has an account; the owner pauses, blacklists and destroys |
| `scripts` | do the rights to mint and to upgrade move last, does every run end, does an undisturbed run finish, does the deployment implement the program? | two runs of `deploy.ts`; any runs of `transfer-ownership.js` with two transactions on their way; any artifacts missing |
| `evm_upgrade`, `tron_sender` | expected violations, section 4 | as above, smaller |

Why the bounds are enough to be interesting.  Every list reaches its limit
(more keys than places), which the program does at 50 or 100.  Three keys are a
signer, a user and a third party; in `roles` any of them can be all three.
`MaxU64 = 2` makes 2 + 1 overflow, distinguishes "nothing", "some" and "all" of
a balance, and lets an approval differ from another.  Three nonces allow
overtaking, repetition and a gap.  One configuration beside `Home` is enough: it
may allow anything already, and messages under two such differ in nothing that
a property sees.  Two accounts are enough for a transfer;
properties speak of two accounts at most.  On the EVM two wallets, the token
and the forwarder are all the parties a call has; the third party of a
transferFrom is the owner or the holder himself.  Amounts of 0, 1 and the
maximum distinguish an allowance that is used up from one that never is.

`HoldersCallSpl`: on Solana the owner of a token account may call the SPL
program directly and so pass by the pause, the blacklist and the redemption
rule, and the deployer, as long as he holds the mint, may mint there.  No client
in the repository does so.  Properties about the program's rules are checked
without such calls (`forwarder_rules`), among them `NoSupplyBeforeHandover`,
which the deployer could break by himself; properties about messages and about
what the program mints are checked with them (`forwarder_order`), and there
`SupplyBacked` speaks of the time after the handover.  Accounts that are handed
over belong to a PDA, which signs only inside execute.

`ImplementsPolicy` is refinement of `StablecoinPolicy`.  An account pays as its
owner, until it is handed over; then it pays as its own address (`SendsAs`),
because that is the key execute compares with the blacklist
(forwarder.rs:159).  The mapping states what the code does; that the comment
beside it says something else is a finding below.  A message submitted under a
configuration other than `Home` obeys none of the rules of the mint at hand.
The policy has this as an action of its own, `MoveOutside`: it moves money of
accounts that are handed over (`entrusted`), creates and destroys none, and
leaves a trace (`outside`, the messages taken elsewhere).  Nobody else's account
and no other instruction is concerned, and that is what the refinement shows of
it; `FrozenMoneyOnlyBurns` and `HandedOverPaysByRequest` name the same exception.
`RedemptionNeverCredits` needs none, because the whitelists are the mint's own;
but it speaks of the key an account answers for, not of the wallet behind it
(section 4).

`ImplementsContract` is refinement of `ContractPolicy`.  An approval is what the
admin contract in force has, the barred are those on its blacklist, and money
can move unless the token is paused; exchanging the admin contract therefore
replaces approvals and blacklist at once, which `Govern` allows.  The upgrade is
the one step left out: it takes every balance to 0 (section 4).  Tron has no
upgrade, so there the specification is implemented without exception
(`TronImplementsContract`).  Every action of the policy changes balances and
supply by the same amounts, so a run that checks the refinement checks the books
too.  One policy for all chains would promise less: on Solana a payment has one
sender and no allowance, and there are redemptions that must not be moved; a
contract lets others spend within an allowance, issues to a barred receiver in
its second version, and can seize.

`RolesTypeOK` has no run of its own: it is a conjunct of `TokenTypeOK` and so of
`ForwarderTypeOK`.  The types of the scripts' variables, `RolesInv` and
`Conservation` are used in proofs only: the first say nothing about the scripts,
the second adds to `RolesExcludeBlacklisted` what makes it inductive, and the
third holds because the SPL program keeps its books, whatever this program does.

Two runs of `deploy.ts` are one whose transactions are late and one after it;
what they send differs in the mint, so a third run repeats the second.  Two
transactions of killed runs of `transfer-ownership.js` are enough for one to be
refused because of the other, and `ScriptProofs` removes the bound for the
order.  `roles` checks the vectors in behaviours of their own (`part`), which
share nothing with those of the program; in a vector of two, dropping one shifts
or exposes the other, and `VectorProofs` removes the bounds.

Deadlock checking is on except in `scripts`: the admin of a program can always
pause or unpause, and a list can change, but the scripts may have deployed every
mint and transferred every contract, and then there is nothing left to do.

Fairness.  On the chains none is assumed: every instruction is a transaction
somebody may choose to send, and nothing in the code schedules one, so no
liveness is claimed there; "a message goes through" is stated as enabledness
instead.  The scripts are programs that run by themselves, so each of their
steps is weakly fair, as is the chain's decision on what they wait for: a Solana
transaction expires with its blockhash, and an EVM network mines what its nonce
allows.  Without the latter `wait()` never returns, which is what ethers does.
The operator, a kill, a lost answer and what other people do are not fair.  Forks
are not modelled: a transaction that was confirmed stays.

## 4. Where the documentation and the code differ

A run with an expected violation shows each of these:

* `BlacklistedSenderRefused`: the comment at forwarder.rs:160 has the sender
  checked against the blacklist; the key checked is the token account's.
* `RedemptionGoesThrough`: the comment at forwarder.rs:301 claims authority
  for the burn; the call carries no signature of the PDA and is refused.
* `MessageUsedOnce`: the comment at forwarder.rs:272 says that the nonce prevents
  replay; it does so under one configuration, and the caller names it (33-56).
* `UpgradeKeepsBalances`: ntzs2.sol:295 calls its variables preserved from the
  first version; the second version never reads them.
* `RequestSpendsOwnMoney`: README.md:38 has the token contract recover the
  original sender of a forwarded call; on Tron only mint does, and what a request
  of a transfer or a burn spends is the forwarder's.

The last is also why `SignerNeverPays` holds on Tron.

The following are part of the models as the code has them, and have no run of
their own:

* Readme.Md:134 (Solana) has the forwarder execute "the requested token
  operation"; account, recipient and amount are arguments of the instruction,
  which are not compared with the message (forwarder.rs:259-274, 330), so
  `Execute` takes them from its caller.
* The comment at forwarder.rs:296-297 has a payment of a whitelisted external
  sender to an internal user burnt; the key looked up is the token account's
  (159, 298), so the money of a whitelisted wallet that handed its account over
  is moved.  It has the cause of `BlacklistedSenderRefused`.
* The message of ntzs2.sol:201 is "Signer or receiver is blacklisted"; the
  condition refuses only when both are (`MayReceive`).
* The comment at Forwarder.sol:118 (Tron) has the nonce verified; the line that
  did is commented out, so requests are executed in any order, which
  `TronNewMoneyApproved` is checked against.

## 5. Proofs

TLAPS proves the following for every value of the constants that satisfies the
`ASSUME`s of the modules (`ApprovalsAssumption`, `RolesAssumption`,
`TokenAssumption`, `ForwarderAssumption`: limits are naturals, the program's
own addresses are keys, the token accounts are a finite set;
`EvmAdminAssumption`, `EvmTokenAssumption`, `EvmForwarderAssumption`: the owners
are wallets, the token and the forwarder are not, requests are well typed, and
the addresses are a finite set, as on every chain they are;
`DeploymentAssumption`, `OwnershipAssumption`: the deployer is not the program's
mint authority, "no mint" is none of the keys, and the bound on pending
transactions is a natural).

| Theorem | Statement |
|---|---|
| `RolesTypeCorrect` | `RolesSpec => []RolesTypeOK` |
| `BlacklistedHoldNoRole` | `RolesSpec => []RolesExcludeBlacklisted` |
| `ExclusionHolds` | `RolesSpec => []RolesInv` |
| `ListsNeverOverflow` | `RolesSpec => []ListsFit` |
| `ProgramTypeCorrect` | `ProgramSpec => []ForwarderTypeOK` |
| `ProgramImplementsRoles` | `ProgramSpec => RolesSpec` |
| `ProgramBlacklistedHoldNoRole`, `ProgramListsNeverOverflow` | the two role theorems for the whole program |
| `ProgramForwardsInOrder` | `ProgramSpec => []ForwardedInOrder`, for any set of configurations |
| `ProgramPaysByRequest` | `ProgramSpec => HandedOverPaysByRequest` |
| `ProgramMintsAfterHandover` | `ProgramSpec => []NoSupplyBeforeHandover`, if `~HoldersCallSpl` |
| `ProgramSupplyBacked` | `ProgramSpec => SupplyBacked` |
| `ProgramTakesUnusedRequest` | `ProgramSpec => [](... Submittable ... => ExecuteMay)`: `UnusedRequestGoesThrough` with the conditions of `Execute` in place of ENABLED |
| `ProgramImplementsPolicy` | `ProgramSpec => ImplementsPolicy`, if `~HoldersCallSpl` |
| `ProgramRedemptionsBurn` | `ProgramSpec => RedemptionNeverCredits`, if `~HoldersCallSpl` |
| `ProgramFreezes` | `ProgramSpec => FrozenMoneyOnlyBurns`, if `~HoldersCallSpl` |
| `ChainTypeCorrect`, `ChainConserves` | `ChainSpec => []EvmForwarderTypeOK`, `[]EvmConservation` |
| `ChainAmountNeedsApproval` | `ChainSpec => []AmountNeedsApproval` |
| `ChainOneRequestPerNonce` | `ChainSpec => []OneRequestPerNonce` |
| `ChainFreezes` | `ChainSpec => FrozenUntilDestroyed` |
| `ChainSignersDecide` | `ChainSpec => SignersDecide` |
| `ChainTurnIsNoReplay` | in `ChainSpec`, a request that has its turn (`Verify`) is not on record as processed |
| `ChainNewMoneyApproved`, `ChainPausedAdminStopsMint`, `ChainFirstVersionBars` | `ChainSpec => NewMoneyApproved`, `PausedAdminStopsMint`, `FirstVersionBarsFromIssue` |
| `ChainImplementsContract` | `ChainSpec => ImplementsContract` |
| `ChainOnlyRetiresBarred` | `ChainSpec => BarredMoneyOnlyRetires` |
| `TronTypeCorrect`, `TronConserves`, `TronAmountNeedsApproval` | `TronSpec => []EvmForwarderTypeOK`, `[]EvmConservation`, `[]AmountNeedsApproval` |
| `TronIssues`, `TronSignerNeverPays` | `TronSpec => TronNewMoneyApproved`, `TronSpec => SignerNeverPays` |
| `TronKeepsContract`, `TronOnlyRetiresBarred` | `TronSpec => TronImplementsContract`, `TronSpec => BarredMoneyOnlyRetires` |
| `VectorsStayAligned`, `ListStaysFit` | `VecSpec => []VectorsAligned`, `ListSpec => []ListFits` |
| `VectorsImplementApprovals`, `ListImplementsKeySet` | `VecSpec => ImplementsApprovals`, `ListSpec => ImplementsKeySet` |
| `DeploymentHandsOverLast` | `DeploymentSpec => []HandoverLast` |
| `DeploymentImplementsProgram` | `DeploymentSpec => ImplementsProgram` |
| `DeploymentFailsOnlyDisturbed`, `DeploymentEndsDeployed` | no step of an undisturbed run is refused; a run that is over was disturbed or its mint is deployed |
| `DeploymentDeploysIfItEnds` | `DeploymentSpec /\ RunEnds => UndisturbedRunDeploys` |
| `OwnershipHandedOverInOrder` | `OwnershipSpec => HandedOverInOrder` |
| `OwnershipRevertsOnlyInterfered`, `OwnershipEndsComplete` | no transfer of a run without interference is reverted; the step that ends such a run leaves the deployer nothing, if all artifacts exist |
| `OwnershipCompletesIfItEnds` | `OwnershipSpec /\ TransferRunEnds => UndisturbedTransferCompletes` |

How they are obtained:

* *Types first.*  On Solana every later invariant is proved relative to the type
  invariant, which is inductive by itself.  It carries arithmetic: supply and
  approvals never leave u64.
* *Exclusion.*  `RolesExcludeBlacklisted` alone is not inductive: `initialize`
  gives the deployer an approval without asking the blacklist.  `RolesInv` adds
  what makes that harmless: until the secondary accounts exist the blacklist is
  empty, and they cannot exist before `initialize` has run.
* *Lists fit.*  A list is compared with its limit by its cardinality, which
  says something only of a finite set, so the invariant of the proof adds
  finiteness; every list grows by one key behind its bound, or shrinks.
* *From the part to the whole.*  Every step of the program either is a step of
  the administration or leaves the lists alone (`ProgramImplementsRoles`), so
  the role theorems need no second proof.
* *Order.*  `ForwardedInOrder` relates, for each configuration, the history of
  forwarded messages to the nonce stored there and is inductive as it stands: the
  last message carries the stored nonce, and with no nonce there is no message.
  A step changes one user's part of one configuration (`Accepted`).
* *Backing and handover.*  The program makes money in one action only, which needs
  both initialisations and the mint's authority; authority leaves the deployer
  once, and the PDA it goes to is nobody's wallet.
* *The books.*  A recipient has room because the balances add up to the supply
  (`Conservation`, the lemma `ProgramConserves`), which is a sum over a set of
  unknown size.  A proof by
  induction on the set would take its hypothesis as an operator; `SumProofs` has
  instead the smallest counterexample: among the subsets of a finite set for
  which a statement fails one is smallest, and the element that the fold picks
  from it leads to a smaller one.  So the fold is shown to exist, to be a
  natural, not to depend on the order of picking (`SumWithout`), to change by as
  much as one value does (`SumChanged`) and not by a payment (`SumMoved`).  Each
  operation of the SPL program is then one of these.
* *The unused message.*  ENABLED is out of the prover's reach, so `Execute` is
  split into what it asks (`ExecuteMay`) and one new value for every variable
  (`ExecuteDoes`), and `ExecuteIs` says that it is both and no more.  Two things
  it asks are not in the caller's hands.  The lock is free between instructions
  (`LockFree`).  And the recipient has room: what two accounts hold together
  fits u64, because it is part of a supply that does (`TwoBalancesFit`).
* *Refinement.*  One lemma per action: which policy step it is, with the
  sender as `SendsAs` gives it; everything else governs.  What the policy promises
  then holds of the program: `ProgramFreezes` is proved of `Issue`, `Move`,
  `MoveOutside`, `Retire` and `Govern` alone.  An execution is a `Move` under
  `Home` and a `MoveOutside` under any other configuration, as its event is
  recorded there and the account that pays is handed over.
* *The EVM chain.*  `TokenInv` and `ReplayInv` together are inductive.  For the
  token one lemma per operation says what it may do to frozen money and to the
  money of anybody but its sender (`SenderDecides`); the forwarder's part is
  that a sender who is a wallet is the signer of the request, because its own
  address is none.  A call of an admin contract is reduced to replacing the
  storage of one contract (`Replaced`).  `OneRequestPerNonce` is inductive with
  its types only.
* *Types and books of the EVM chain.*  Neither is inductive alone.  A transfer is
  not compared with the largest number, so a balance stays in 256 bits only
  because it is part of the supply; and a burn is compared with the holder's
  balance only, so the supply stays a natural only because the balance is part
  of it.  `MoneyTypes` has both and is inductive; the three theorems about new
  money need it where the upgrade sets the supply to 0, which would be new money
  if it had been negative before.
* *Two defences against replay.*  By `OneRequestPerNonce` a hash on record has a
  nonce below the signer's next one, so a request that has its turn is new, also
  after requests that failed and used their nonces up.
* *Tron.*  The lemmas about single operations are those of the EVM chain.  A
  wallet that only signs has given no allowance, which is inductive because
  every call but mint acts for its caller; so no call can take from it.
* *The promises of the contracts.*  One lemma per operation of the token says
  which action of `ContractPolicy` it is (`TransferPays`, `DestructionSeizes`,
  `MintIssues`, ...); for the two versions it is the same action, as they differ
  in who may do it.  Of the invariants only the types are needed, so that what is
  paid is a number no larger than a balance (`MoneyTypes`).  A call of an admin
  contract changes rules or nothing the token sees (`RestGoverns`), a request is
  its call or no change.  `BarredMoneyOnlyRetires`
  is then proved of the policy alone (`PromisesRetire`), once for both chains.
* *The vectors.*  That they are injective and of one length is the inductive
  invariant of `CanMintVec`.  Appending to two such vectors, dropping the same
  position of both, or exchanging one amount changes the map they stand for in
  one place; without injectivity removing a key would leave a second one behind.
* *The deployment.*  `HandoverLast` alone says nothing of a run half-way.  The
  invariant adds that what the script has passed has landed, and that what is on
  its way was sent after everything before it had landed; since nothing that
  landed is undone, a handover that arrives late still finds all it needs.  Each
  step that takes effect is one instruction of the program of its mint, or, as
  metadata, none; with `InitializedFirst` the first of them finds nothing.
* *The handover of the EVM contracts.*  A transaction on its way for one contract
  was sent when every earlier one was no longer the deployer's, and nobody gives
  one back to him.
* *Runs nothing interferes with.*  While a run is undisturbed the chain has of its
  mint exactly the steps that the script has passed, and only the one it waits
  for is on its way (`QuietRun`); earlier runs cannot matter, as nothing happens
  to a mint before its own run starts.  For the EVM contracts nothing but the
  transfer in hand is on its way, and that contract is still the deployer's
  (`QuietTransfer`); what a killed run sent has the earlier nonce and is mined
  first, so such a leftover counts as interference.  So the next step is never
  refused and the end of a run is the end of its plan: of the two liveness
  properties only that runs end is left.

Only model-checked: `UnusedRequestGoesThrough` itself (ENABLED; its content is
`ProgramTakesUnusedRequest`), and `RunEnds` and `TransferRunEnds`, with them that
undisturbed runs finish without assuming that they end (liveness under fairness).

## 6. What is not modelled

Not modelled on Solana: what the admins of other configurations decide (left
open), the wording of events and errors, token metadata, rent
and account sizes beyond the number of entries, the freeze authority (nobody
uses it), `get_mint_amount` (a read), and the scripts in `app` and `tests`, each
of which sends one instruction at a time.

Not modelled on EVM and Tron: coins sent with a request, events, the proxies,
which are vendored.  The owner of a contract is a constant of `EvmToken` and
`EvmForwarder`, as no property there depends on which wallet it is; how the
ownership moves is `EvmOwnership`.  Reentrancy cannot happen between these
contracts: the token calls only the admin contract, which calls nobody.

Scripts not modelled: `deploy.js`, whose steps each deploy a new contract and
depend on nothing an earlier run left; `impadd.js` and `test/execute.js`, which
keep no state; the Tron migrations, whose steps a person joins by writing the
address of one into the source of the next (and `2_deploy_admin.js` names two
variables, lines 25-26, that it does not define, so it stops after its second
deployment).  Giving a contract back to the deployer, which
`transfer-ownership.js` does not expect, is left out of `EvmOwnership`.
