--------------------------- MODULE TronForwarder ---------------------------
(***************************************************************************)
(* The contracts on Tron (tron-contract/contracts), where they differ from *)
(* those of EvmForwarder.                                                  *)
(*                                                                         *)
(*   - Operations.sol is like the second version, but cannot be paused.    *)
(*   - ntzs.sol has one version.  In mint it asks as the second one does,  *)
(*     and takes the sender from the end of the data; every other operation *)
(*     acts for its caller, so for the forwarder if the call is forwarded. *)
(*     burnByUser does not ask the blacklist.  The pause is checked where  *)
(*     balances change (_beforeTokenTransfer), which comes to the same.    *)
(*   - Forwarder.sol does not compare the nonce, and serves minters only.  *)
(***************************************************************************)
EXTENDS EvmForwarder

\* Mutant of TronBurnByUser: the pause is not looked at.
TronBurnWhilePaused(sender, amount) ==
    /\ Burned(sender, amount)
    /\ UNCHANGED <<admin, allowances, settings>>

TronBurnByUser(sender, amount) ==
    /\ ~paused
    /\ Burned(sender, amount)
    /\ UNCHANGED <<admin, allowances, settings>>

\* Mutant of TronMint: the approval is not revoked.
TronMintKeepsApproval(caller, appended, to, amount) ==
    /\ MayReceive(caller, MsgSender(caller, appended), to)
    /\ NewMoney(MsgSender(caller, appended), to, amount)
    /\ UNCHANGED admin

TronMint(caller, appended, to, amount) ==
    Mint(caller, MsgSender(caller, appended), to, amount)

TronCall(caller, appended, call) ==
    \/ call.op = "mint" /\ TronMint(caller, appended, call.user, call.amount)
    \/ call.op = "burnByUser" /\ TronBurnByUser(caller, call.amount)
    \/ call.op # "burnByUser" /\ SenderCall(caller, call)

\* Mutant of TronInnerCall: every operation acts for the signer.
TronInnerCallForSigner(req) ==
    \/ req.to = Token /\ TronCall(req.from, req.from, req.call)
    \/ req.to \in AdminContract /\ AdminCall(req.to, req.call)

TronInnerCall(req) ==
    \/ req.to = Token /\ TronCall(Forwarder, req.from, req.call)
    \/ req.to \in AdminContract /\ AdminCall(req.to, req.call)

TronExecuteTransaction(relayer, req) ==
    /\ Allowed(relayer, req)
    /\ req.from \in admin[forwarderAdmin].canMint
    /\ UseUp(req)
    /\ TronInnerCall(req) \/ UNCHANGED evmVars

TronExecute(req) ==
    ~forwarderPaused /\ TronExecuteTransaction(ForwarderOwner, req)

TronExecuteByBridge(bridge, req) ==
    bridge \in authorizedBridges /\ TronExecuteTransaction(bridge, req)

TronAdminNext ==
    \E c \in AdminContract :
        \/ \E sender \in Wallet, user \in MinterArg : TrustedCall(c, sender, user)
        \/ OwnerCall(c)

TronTokenNext ==
    \/ TronAdminNext /\ UNCHANGED tokenVars
    \/ \E w \in DirectCaller, call \in DirectCall : TronCall(w, w, call)
    \/ \E c \in AdminContract : UpdateAdminOperationsAddress(TokenOwner, c)

TronNext ==
    \/ TronTokenNext /\ UNCHANGED forwarderVars
    \/ \E req \in Request :
          TronExecute(req) \/ \E bridge \in Wallet : TronExecuteByBridge(bridge, req)
    \/ ForwarderSettings

TronInit ==
    /\ ForwarderInit
    /\ version = 2
    /\ \A c \in AdminContract : admin[c].version = 2

TronSpec == TronInit /\ [][TronNext]_chainVars

-----------------------------------------------------------------------------
(* Properties *)

\* New money is exactly the amount of an approval that is gone afterwards, even
\* though requests may be executed out of order and by any relayer
\* (tron-contract/contracts/ntzs.sol:176-204, Forwarder.sol:134-187).
TronNewMoneyApproved ==
    [][totalSupply' > totalSupply =>
          \E k \in Asked.canMint :
              /\ totalSupply' - totalSupply = Asked.mintAmount[k]
              /\ k \notin admin'[adminOperationsContract].canMint]_chainVars

\* A wallet that only signs requests never loses money by them, nor gives anybody
\* an allowance: what a request spends or allows is the forwarder's, which is not
\* what is said of the token (RequestSpendsOwnMoney).  It loses money only when its
\* blacklisted funds are destroyed (tron-contract/contracts/ntzs.sol:54-63, 94-174,
\* 206-212).
SignerNeverPays ==
    [][\A w \in Wallet \ DirectCaller :
          /\ balances'[w] < balances[w] => BlackListed(w) /\ balances'[w] = 0
          /\ allowances'[w] = allowances[w]]_chainVars

\* The Tron contracts keep the promises of ContractPolicy, to holders and to the
\* forwarder that holds what requests bring it
\* (tron-contract/contracts/ntzs.sol:65-212).
TronImplementsContract == Contract!PolicySpec

-----------------------------------------------------------------------------
(* What is said of the token and it does not do. *)

\* "The token contract recovers the original sender's address using the trusted
\* forwarder pattern" (README.md:38): a request to transfer or to burn that moves
\* any money takes it from its signer.  Only mint recovers him
\* (tron-contract/contracts/ntzs.sol:54-63, 94-119, 181, 206-212).
RequestSpendsOwnMoney ==
    [][\A req \in Request :
          /\ TxHash(req) \in processedTxHashes' \ processedTxHashes
          /\ req.call.op \in {"transfer", "burnByUser"}
          /\ balances' # balances
          => balances'[req.from] < balances[req.from]]_chainVars
=============================================================================
