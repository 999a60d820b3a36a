--------------------------- MODULE EvmForwarder ---------------------------
(***************************************************************************)
(* The forwarder contract of the EVM chains (evm-contracts/forwarder.sol)  *)
(* with the token and the admin contracts that it calls.                   *)
(*                                                                         *)
(* Request is the set of the requests that their "from" has signed.  The   *)
(* owner and the authorized bridges submit them, any of them, at any time  *)
(* and again.  The contract called sees the forwarder as its caller, and   *)
(* the token takes the sender from the end of the data.                    *)
(***************************************************************************)
EXTENDS EvmToken

CONSTANTS Request, ForwarderOwner, BridgeArg

AdminOp == {"addCanMint", "removeCanMint", "removeMintAmount"}

ASSUME EvmForwarderAssumption ==
    /\ Request \subseteq [from : Wallet,
                          to : {Token} \cup AdminContract,
                          nonce : Nat,
                          gas : Nat,
                          call : [op : Op \cup AdminOp, from : Address,
                                  user : Address, amount : Amount]]
    /\ Token \notin AdminContract
    /\ ForwarderOwner \in Wallet
    /\ BridgeArg \subseteq Wallet

VARIABLES nonces,
          processedTxHashes,
          authorizedBridges,
          forwarderPaused,
          forwarderAdmin       \* the forwarder's adminOperationsContract

forwarderVars == <<nonces, processedTxHashes, authorizedBridges,
                   forwarderPaused, forwarderAdmin>>
chainVars == <<evmVars, forwarderVars>>

ForwarderInit ==
    /\ TokenInit
    /\ nonces = [w \in Wallet |-> 0]
    /\ processedTxHashes = {}
    /\ authorizedBridges = {}
    /\ forwarderPaused = FALSE
    /\ forwarderAdmin = FirstAdmin

-----------------------------------------------------------------------------
(* Executing a request *)

\* The hash that prevents replay covers all of the request but its gas.
TxHash(req) == [from |-> req.from, to |-> req.to, nonce |-> req.nonce,
                call |-> req.call]

\* That the signature is the sender's is what Request means.
Verify(req) == req.nonce = nonces[req.from]

Allowed(relayer, req) ==
    /\ req.from \in admin[forwarderAdmin].canForward
    /\ {relayer, req.from} \cap admin[forwarderAdmin].isBlackListed = {}

PreventReplay(req) ==
    /\ TxHash(req) \notin processedTxHashes
    /\ processedTxHashes' = processedTxHashes \cup {TxHash(req)}

\* To an admin contract the forwarder is just another caller.
AdminCall(c, call) ==
    /\ \/ call.op = "addCanMint" /\ AddCanMint(c, Forwarder, call.user)
       \/ call.op = "removeCanMint" /\ RemoveCanMint(c, Forwarder, call.user)
       \/ call.op = "removeMintAmount" /\ RemoveMintAmount(c, Forwarder, call.user)
    /\ UNCHANGED tokenVars

InnerCall(req) ==
    \/ req.to = Token /\ TokenCall(Forwarder, req.from, req.call)
    \/ req.to \in AdminContract /\ AdminCall(req.to, req.call)

UseUp(req) ==
    /\ PreventReplay(req)
    /\ nonces' = [nonces EXCEPT ![req.from] = req.nonce + 1]
    /\ UNCHANGED <<authorizedBridges, forwarderPaused, forwarderAdmin>>

\* Mutant of ExecuteTransaction: a failed call gives the nonce back.
ExecuteTransactionKeepsNonce(relayer, req) ==
    /\ Allowed(relayer, req)
    /\ Verify(req)
    /\ \/ InnerCall(req) /\ UseUp(req)
       \/ /\ PreventReplay(req)
          /\ UNCHANGED <<evmVars, nonces, authorizedBridges, forwarderPaused,
                         forwarderAdmin>>

\* A call that fails is reported, not reverted: the request is used up.  Any
\* call may fail, because the relayer chooses the gas.
ExecuteTransaction(relayer, req) ==
    /\ Allowed(relayer, req)
    /\ Verify(req)
    /\ UseUp(req)
    /\ InnerCall(req) \/ UNCHANGED evmVars

Execute(req) == ~forwarderPaused /\ ExecuteTransaction(ForwarderOwner, req)

\* Bridges work while the forwarder is paused.
ExecuteByBridge(bridge, req) ==
    bridge \in authorizedBridges /\ ExecuteTransaction(bridge, req)

-----------------------------------------------------------------------------
(* The owner's settings *)

AuthorizeBridge(bridge) ==
    /\ authorizedBridges' = authorizedBridges \cup {bridge}
    /\ UNCHANGED <<evmVars, nonces, processedTxHashes, forwarderPaused,
                   forwarderAdmin>>

DeauthorizeBridge(bridge) ==
    /\ authorizedBridges' = authorizedBridges \ {bridge}
    /\ UNCHANGED <<evmVars, nonces, processedTxHashes, forwarderPaused,
                   forwarderAdmin>>

PauseForwarder ==
    /\ forwarderPaused' = ~forwarderPaused
    /\ UNCHANGED <<evmVars, nonces, processedTxHashes, authorizedBridges,
                   forwarderAdmin>>

UpdateForwarderAdmin(c) ==
    /\ forwarderAdmin' = c
    /\ UNCHANGED <<evmVars, nonces, processedTxHashes, authorizedBridges,
                   forwarderPaused>>

ForwarderSettings ==
    \/ \E bridge \in BridgeArg : AuthorizeBridge(bridge) \/ DeauthorizeBridge(bridge)
    \/ PauseForwarder
    \/ \E c \in AdminContract : UpdateForwarderAdmin(c)

ForwarderNext ==
    \/ TokenNext /\ UNCHANGED forwarderVars
    \/ \E req \in Request :
          Execute(req) \/ \E bridge \in Wallet : ExecuteByBridge(bridge, req)
    \/ ForwarderSettings

ChainSpec == ForwarderInit /\ [][ForwarderNext]_chainVars

-----------------------------------------------------------------------------
(* Properties *)

EvmForwarderTypeOK ==
    /\ EvmTokenTypeOK
    /\ nonces \in [Wallet -> Nat]
    /\ processedTxHashes \subseteq {TxHash(req) : req \in Request}
    /\ authorizedBridges \subseteq Wallet
    /\ forwarderPaused \in BOOLEAN
    /\ forwarderAdmin \in AdminContract

\* The two defences against replay agree: for every nonce a signer has used one
\* request is on record, and none for a later nonce.  So no request is executed
\* twice, requests are executed in the order of their nonces without a gap, and
\* none that has its turn is refused as a replay (forwarder.sol:79-141).
OneRequestPerNonce ==
    /\ \A h \in processedTxHashes : h.nonce < nonces[h.from]
    /\ \A g, h \in processedTxHashes :
          g.from = h.from /\ g.nonce = h.nonce => g = h
    /\ \A w \in Wallet : \A n \in 0 .. nonces[w] - 1 :
          \E h \in processedTxHashes : h.from = w /\ h.nonce = n

\* The step executes a request of w, the next in turn, for this operation.
Signed(w, op, amount) ==
    \E req \in Request :
        /\ req.from = w /\ req.to = Token
        /\ req.nonce = nonces[w]
        /\ nonces'[w] = nonces[w] + 1
        /\ req.call.op = op
        /\ req.call.amount = amount

AllowedTo(s, w, amount) ==
    /\ allowances[w][s] >= amount
    /\ allowances[w][s] # MaxU256 => allowances'[w][s] = allowances[w][s] - amount

\* A holder who never calls the token but only signs requests loses money only by
\* executing a request of his for that amount, to a spender within an allowance
\* of his, to the destruction of blacklisted funds, or to the upgrade, whatever
\* relayers, spenders and owners do.  An allowance of his rises only when a request
\* of his is executed that sets it or adds to it, to that value or by that much
\* (forwarder.sol:112-154, ntzs.sol:122-287, ntzs2.sol:109-180, 229-279).
SignersDecide ==
    [][\A w \in Wallet \ DirectCaller :
          /\ balances'[w] < balances[w] =>
                \/ Signed(w, "transfer", balances[w] - balances'[w])
                \/ Signed(w, "burnByUser", balances[w] - balances'[w])
                \/ \E s \in Address : AllowedTo(s, w, balances[w] - balances'[w])
                \/ BlackListed(w) /\ balances'[w] = 0
                \/ version' # version
          /\ \A s \in Address :
                allowances'[w][s] > allowances[w][s] =>
                    \/ Signed(w, "approve", allowances'[w][s])
                    \/ Signed(w, "increaseAllowance",
                              allowances'[w][s] - allowances[w][s])]_chainVars
=============================================================================
