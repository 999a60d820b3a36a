----------------------------- MODULE TronProofs -----------------------------
(* Theorems about the contracts on Tron.  What the token does is proved in  *)
(* EvmProofs, operation by operation; here it is put together as the Tron   *)
(* contracts put it together.                                               *)
EXTENDS TronForwarder, EvmProofs

\* A wallet that only signs requests never allows anybody anything.
NoSignerAllows ==
    \A w \in Wallet \ DirectCaller, s \in Address : allowances[w][s] = 0

TronInv == TokenInv /\ NoSignerAllows

\* A wallet loses and allows nothing unless it is blacklisted.
NeverPays(w) ==
    /\ balances'[w] < balances[w] => BlackListed(w) /\ balances'[w] = 0
    /\ allowances'[w] = allowances[w]

SignersPayNothing == \A w \in Wallet \ DirectCaller : NeverPays(w)

\* What a step must do to be right.
TronStepOK == TronInv' /\ SignersPayNothing /\ IssueStep

\* A step that changes no balance, allowance or supply is right.
LEMMA TronMoneyAtRest ==
    ASSUME TronInv, TokenInv', UNCHANGED <<balances, allowances, totalSupply>>
    PROVE  TronStepOK
<1>1. Wallet \subseteq Address
  BY EvmAdminAssumption
<1>2. NoSignerAllows' /\ SignersPayNothing
  BY <1>1 DEF TronInv, TokenInv, MoneyTypes, NoSignerAllows, SignersPayNothing, NeverPays
<1>3. IssueStep
  BY MoneyFacts DEF TronInv, TokenInv, IssueStep
<1> QED
  BY <1>2, <1>3 DEF TronInv, TronStepOK

\* A step that acts for somebody who calls the token himself, or for the
\* forwarder, leaves the signers alone.
LEMMA SignersLeftAlone ==
    ASSUME TronInv, TokenInv', NEW sender \in Address \ (Wallet \ DirectCaller), NEW call,
           SenderDecides(sender, call)
    PROVE  NoSignerAllows' /\ SignersPayNothing
<1> SUFFICES ASSUME NEW w \in Wallet \ DirectCaller
             PROVE  /\ \A s \in Address : allowances'[w][s] = 0
                    /\ NeverPays(w)
  BY DEF NoSignerAllows, SignersPayNothing
<1>1. w \in Address /\ w # sender
  BY EvmAdminAssumption
<1>2. /\ allowances[w] \in [Address -> Amount] /\ allowances'[w] \in [Address -> Amount]
      /\ balances[w] \in Nat /\ balances'[w] \in Nat
  BY <1>1 DEF TronInv, TokenInv, MoneyTypes
<1>3. \A s \in Address : allowances[w][s] = 0 /\ allowances'[w][s] = 0
  <2>1. \A s \in Address : /\ allowances[w][s] = 0
                           /\ ~(allowances'[w][s] > allowances[w][s])
                           /\ allowances'[w][s] \in Nat
    BY <1>1, <1>2, Amounts DEF TronInv, NoSignerAllows, SenderDecides
  <2> QED
    BY <2>1
<1>4. allowances'[w] = allowances[w]
  BY <1>2, <1>3
<1>5. ASSUME balances'[w] < balances[w]
      PROVE  BlackListed(w) /\ balances'[w] = 0
  <2>1. ~AllowedTo(sender, w, balances[w] - balances'[w])
    BY <1>2, <1>3, <1>5 DEF AllowedTo
  <2> QED
    BY <1>1, <1>5, <2>1 DEF SenderDecides
<1> QED
  BY <1>3, <1>4, <1>5 DEF NeverPays

\* Minting takes from nobody.
LEMMA TronMintOK ==
    ASSUME TronInv, NEW caller, NEW sender \in Address, NEW to \in Address,
           NEW amount \in Amount, Mint(caller, sender, to, amount)
    PROVE  TronStepOK
<1>1. /\ TokenInv'
      /\ UNCHANGED allowances
      /\ \A a \in Address : ~(balances'[a] < balances[a])
      /\ IssueStep
  BY MintEffect DEF TronInv
<1>2. NoSignerAllows' /\ SignersPayNothing
  BY <1>1, EvmAdminAssumption DEF TronInv, NoSignerAllows, SignersPayNothing, NeverPays
<1> QED
  BY <1>1, <1>2 DEF TronStepOK, TronInv

\* A burn takes from its sender only, blacklisted or not.
LEMMA TronBurnOK ==
    ASSUME TronInv, NEW sender \in Address \ (Wallet \ DirectCaller), NEW amount \in Amount,
           TronBurnByUser(sender, amount)
    PROVE  TronStepOK
<1>1. MoneyTypes /\ amount \in Nat /\ totalSupply \in Nat
  BY Amounts, MoneyFacts DEF TronInv, TokenInv
<1>2. /\ balances' \in [Address -> Nat]
      /\ totalSupply' \in Amount
      /\ totalSupply' = SumOver(balances', Address)
      /\ totalSupply' = totalSupply - amount
      /\ \A a \in Address : balances'[a] < balances[a] => a = sender
      /\ UNCHANGED <<admin, allowances, settings>>
  BY <1>1, BurnedEffect DEF TronBurnByUser
<1>3. TokenInv'
  <2>1. MoneyTypes'
    <3>1. allowances' \in [Address -> [Address -> Amount]]
      BY <1>1, <1>2 DEF MoneyTypes
    <3> QED
      BY <1>2, <3>1, MoneyFacts
  <2> QED
    BY <1>2, <2>1 DEF TronInv, TokenInv, AdminInv, EvmAdminTypeOK, AmountNeedsApproval,
                      SettingTypes, settings
<1>4. NoSignerAllows' /\ SignersPayNothing
  BY <1>2, EvmAdminAssumption DEF TronInv, NoSignerAllows, SignersPayNothing, NeverPays
<1>5. IssueStep
  BY <1>1, <1>2 DEF IssueStep
<1> QED
  BY <1>3, <1>4, <1>5 DEF TronStepOK, TronInv

\* A call of the token acts for its caller, who is no signer, and mints for
\* whomever it is appended.
LEMMA TronCallOK ==
    ASSUME TronInv, NEW caller \in Address \ (Wallet \ DirectCaller),
           NEW appended \in Address, NEW call, TypedCall(call),
           TronCall(caller, appended, call)
    PROVE  TronStepOK
<1>1. CASE TronMint(caller, appended, call.user, call.amount)
  <2>1. MsgSender(caller, appended) \in Address
    BY DEF MsgSender
  <2> QED
    BY <1>1, <2>1, TronMintOK DEF TronMint, TypedCall
<1>2. CASE TronBurnByUser(caller, call.amount)
  BY <1>2, TronBurnOK DEF TypedCall
<1>3. CASE SenderCall(caller, call)
  <2>1. /\ MoneyTypes' /\ SettingTypes' /\ UNCHANGED admin
        /\ totalSupply' <= totalSupply
        /\ SenderDecides(caller, call)
    BY <1>3, SenderCallEffect DEF TronInv
  <2>2. TokenInv'
    BY <2>1 DEF TronInv, TokenInv, AdminInv, EvmAdminTypeOK, AmountNeedsApproval
  <2>3. IssueStep
    <3>1. totalSupply \in Nat /\ totalSupply' \in Nat
      BY <2>1, MoneyFacts, Amounts DEF MoneyTypes, TronInv, TokenInv
    <3> QED
      BY <2>1, <3>1 DEF IssueStep
  <2> QED
    BY <2>1, <2>2, <2>3, SignersLeftAlone DEF TronStepOK, TronInv
<1> QED
  BY <1>1, <1>2, <1>3 DEF TronCall

\* A request that is executed is right, whatever its nonce.
LEMMA TronRequestOK ==
    ASSUME TronInv, NEW req \in Request, TronInnerCall(req)
    PROVE  TronStepOK
<1>0. /\ req.from \in Address
      /\ TypedCall(req.call)
      /\ Forwarder \in Address \ (Wallet \ DirectCaller)
      /\ Forwarder \in Address
  BY EvmAdminAssumption, EvmTokenAssumption, EvmForwarderAssumption DEF TypedCall
<1>1. CASE TronCall(Forwarder, req.from, req.call)
  BY <1>0, <1>1, TronCallOK
<1>2. CASE req.to \in AdminContract /\ AdminCall(req.to, req.call)
  <2>1. TrustedCall(req.to, Forwarder, req.call.user)
    BY <1>2 DEF AdminCall, TrustedCall
  <2>2. AdminInv'
    BY <1>0, <1>2, <2>1, TrustedCallKeeps DEF TronInv, TokenInv, TypedCall
  <2>3. TokenInv'
    BY <1>2, <2>2
       DEF AdminCall, TronInv, TokenInv, MoneyTypes, SettingTypes, tokenVars, settings
  <2> QED
    BY <1>2, <2>3, TronMoneyAtRest DEF AdminCall, tokenVars
<1> QED
  BY <1>1, <1>2 DEF TronInnerCall

\* A call that is not forwarded is right.
LEMMA TronTokenNextOK ==
    ASSUME TronInv, TronTokenNext
    PROVE  TronStepOK
<1>1. CASE TronAdminNext /\ UNCHANGED tokenVars
  <2>1. AdminNext
    BY <1>1 DEF TronAdminNext, AdminNext
  <2>2. TokenInv'
    BY <1>1, <2>1, AdminNextKeeps
       DEF TronInv, TokenInv, MoneyTypes, SettingTypes, tokenVars, settings
  <2> QED
    BY <1>1, <2>2, TronMoneyAtRest DEF tokenVars
<1>2. ASSUME NEW w \in DirectCaller, NEW call \in DirectCall, TronCall(w, w, call)
      PROVE  TronStepOK
  <2>1. /\ w \in Address \ (Wallet \ DirectCaller) /\ w \in Address
        /\ TypedCall(call)
    BY EvmAdminAssumption, EvmTokenAssumption DEF TypedCall, Call
  <2> QED
    BY <1>2, <2>1, TronCallOK
<1>3. ASSUME NEW c \in AdminContract, UpdateAdminOperationsAddress(TokenOwner, c)
      PROVE  TronStepOK
  <2>1. TokenInv'
    BY <1>3 DEF UpdateAdminOperationsAddress, TronInv, TokenInv, AdminInv, EvmAdminTypeOK,
                AmountNeedsApproval, MoneyTypes, SettingTypes
  <2> QED
    BY <1>3, <2>1, TronMoneyAtRest DEF UpdateAdminOperationsAddress
<1> QED
  BY <1>1, <1>2, <1>3 DEF TronTokenNext

\* Every step of the chain is right.
LEMMA TronStep == TronInv /\ [TronNext]_chainVars => TronStepOK
<1> SUFFICES ASSUME TronInv, [TronNext]_chainVars
             PROVE  TronStepOK
  OBVIOUS
<1>1. ASSUME UNCHANGED evmVars
      PROVE  TronStepOK
  <2>1. TokenInv'
    BY <1>1 DEF TronInv, TokenInv, AdminInv, EvmAdminTypeOK, AmountNeedsApproval,
                MoneyTypes, SettingTypes, evmVars, tokenVars, settings
  <2> QED
    BY <1>1, <2>1, TronMoneyAtRest DEF evmVars, tokenVars
<1>2. CASE TronTokenNext
  BY <1>2, TronTokenNextOK
<1>3. ASSUME NEW req \in Request,
             TronExecute(req) \/ \E bridge \in Wallet : TronExecuteByBridge(bridge, req)
      PROVE  TronStepOK
  <2>1. TronInnerCall(req) \/ UNCHANGED evmVars
    BY <1>3 DEF TronExecute, TronExecuteByBridge, TronExecuteTransaction
  <2> QED
    BY <1>1, <2>1, TronRequestOK
<1>4. CASE ForwarderSettings
  <2>1. UNCHANGED evmVars
    BY <1>4 DEF ForwarderSettings, AuthorizeBridge, DeauthorizeBridge, PauseForwarder,
                UpdateForwarderAdmin
  <2> QED
    BY <1>1, <2>1
<1>5. CASE UNCHANGED chainVars
  BY <1>1, <1>5 DEF chainVars
<1> QED
  BY <1>2, <1>3, <1>4, <1>5 DEF TronNext

\* The invariant of every Tron chain.
LEMMA TronInvariant == TronSpec => []TronInv
<1>1. TronInit => TronInv
  <2> SUFFICES ASSUME TronInit PROVE TronInv
    OBVIOUS
  <2>1. TokenInv
    BY ChainInit DEF TronInit, ChainInv
  <2>2. NoSignerAllows
    BY EvmAdminAssumption DEF TronInit, ForwarderInit, TokenInit, NoSignerAllows
  <2> QED
    BY <2>1, <2>2 DEF TronInv
<1>2. TronInv /\ [TronNext]_chainVars => TronInv'
  BY TronStep DEF TronStepOK
<1> QED
  BY <1>1, <1>2, PTL DEF TronSpec

-----------------------------------------------------------------------------
(* The promises of ContractPolicy *)

\* Every call of the token keeps the promises, for whomever it acts.
LEMMA TronCallKeepsPromises ==
    ASSUME TokenInv, NEW caller \in Address, NEW appended \in Address,
           NEW call, TypedCall(call), TronCall(caller, appended, call)
    PROVE  Contract!PolicyNext
<1> USE DEF TypedCall
<1>1. CASE TronMint(caller, appended, call.user, call.amount)
  BY <1>1, MintIssues DEF TronMint, MsgSender
<1>2. CASE TronBurnByUser(caller, call.amount)
  BY <1>2, BurnRetires DEF TronBurnByUser, TokenInv
<1>3. CASE SenderCall(caller, call)
  BY <1>3, SenderCallKeepsPromises DEF TokenInv
<1> QED
  BY <1>1, <1>2, <1>3 DEF TronCall

\* Every step of the chain does: there is no upgrade.
LEMMA TronNextKeepsPromises ==
    ASSUME TokenInv, TronNext
    PROVE  Contract!PolicyNext
<1> USE DEF Contract!PolicyNext
<1>1. ASSUME UNCHANGED tokenVars
      PROVE  Contract!PolicyNext
  BY <1>1, RestGoverns DEF tokenVars
<1>2. CASE TronTokenNext
  <2>1. ASSUME NEW d \in DirectCaller, NEW call \in DirectCall, TronCall(d, d, call)
        PROVE  Contract!PolicyNext
    <3>1. d \in Address /\ TypedCall(call)
      BY EvmAdminAssumption, EvmTokenAssumption DEF TypedCall, Call
    <3> QED
      BY <2>1, <3>1, TronCallKeepsPromises
  <2>2. ASSUME NEW c \in AdminContract, UpdateAdminOperationsAddress(TokenOwner, c)
        PROVE  Contract!PolicyNext
    BY <2>2, RestGoverns DEF UpdateAdminOperationsAddress
  <2> QED
    BY <1>1, <1>2, <2>1, <2>2 DEF TronTokenNext
<1>3. ASSUME NEW req \in Request,
             TronExecute(req) \/ \E bridge \in Wallet : TronExecuteByBridge(bridge, req)
      PROVE  Contract!PolicyNext
  <2>1. CASE TronCall(Forwarder, req.from, req.call)
    <3>1. Forwarder \in Address /\ req.from \in Address /\ TypedCall(req.call)
      BY EvmAdminAssumption, EvmTokenAssumption, EvmForwarderAssumption DEF TypedCall
    <3> QED
      BY <2>1, <3>1, TronCallKeepsPromises
  <2>2. CASE AdminCall(req.to, req.call) \/ UNCHANGED evmVars
    BY <1>1, <2>2 DEF AdminCall, evmVars
  <2> QED
    BY <1>3, <2>1, <2>2
       DEF TronExecute, TronExecuteByBridge, TronExecuteTransaction, TronInnerCall
<1>4. CASE ForwarderSettings
  BY <1>1, <1>4 DEF ForwarderSettings, AuthorizeBridge, DeauthorizeBridge, PauseForwarder,
                    UpdateForwarderAdmin, evmVars
<1> QED
  BY <1>2, <1>3, <1>4 DEF TronNext

-----------------------------------------------------------------------------
(* Theorems *)

\* New money uses up an approval of its amount, in whatever order requests are
\* executed (tron-contract/contracts/ntzs.sol:176-204, Forwarder.sol:134-187).
THEOREM TronIssues == TronSpec => TronNewMoneyApproved
<1> DEFINE Approved == totalSupply' > totalSupply =>
                          \E k \in Asked.canMint :
                             /\ totalSupply' - totalSupply = Asked.mintAmount[k]
                             /\ k \notin admin'[adminOperationsContract].canMint
<1>1. TronInv /\ [TronNext]_chainVars => [Approved]_chainVars
  BY TronStep DEF TronStepOK, IssueStep
<1> QED
  BY <1>1, TronInvariant, PTL DEF TronSpec, TronNewMoneyApproved

\* No request costs its signer anything or allows anybody anything: only mint
\* looks for the signer (tron-contract/contracts/ntzs.sol:54-63, 94-147).
THEOREM TronSignerNeverPays == TronSpec => SignerNeverPays
<1>1. TronInv /\ [TronNext]_chainVars => [SignersPayNothing]_chainVars
  BY TronStep DEF TronStepOK
<1> QED
  BY <1>1, TronInvariant, PTL DEF TronSpec, SignerNeverPays, SignersPayNothing, NeverPays

\* Every recorded amount is still approved on Tron too, requests for the admin
\* contract in any order included (tron-contract/contracts/Operations.sol).
THEOREM TronAmountNeedsApproval == TronSpec => []AmountNeedsApproval
<1>1. TronInv => AmountNeedsApproval
  BY DEF TronInv, TokenInv, AdminInv
<1> QED
  BY <1>1, TronInvariant, PTL

\* The supply is the sum of the balances on Tron too, where the pause is looked at
\* when balances change and a blacklisted holder may burn
\* (tron-contract/contracts/ntzs.sol:94-212).
THEOREM TronConserves == TronSpec => []EvmConservation
<1>1. TronInv => EvmConservation
  BY Books DEF TronInv, TokenInv, MoneyTypes
<1> QED
  BY <1>1, TronInvariant, PTL

\* All of the state keeps its types, the nonces too, which a request may set to any
\* number (tron-contract/contracts/Forwarder.sol:134-187).
THEOREM TronTypeCorrect == TronSpec => []EvmForwarderTypeOK
<1>1. TronInit => ForwarderTypes
  BY ForwarderStartTypes DEF TronInit
<1>2. ForwarderTypes /\ [TronNext]_chainVars => ForwarderTypes'
  <2> SUFFICES ASSUME ForwarderTypes, [TronNext]_chainVars
               PROVE  ForwarderTypes'
    OBVIOUS
  <2>1. CASE UNCHANGED forwarderVars
    BY <2>1, ForwarderKeepsTypes
  <2>2. ASSUME NEW req \in Request,
               TronExecute(req) \/ \E bridge \in Wallet : TronExecuteByBridge(bridge, req)
        PROVE  ForwarderTypes'
    <3>1. UseUp(req)
      BY <2>2 DEF TronExecute, TronExecuteByBridge, TronExecuteTransaction
    <3> QED
      BY <3>1, ForwarderKeepsTypes
  <2>3. CASE ForwarderSettings
    BY <2>3, ForwarderKeepsTypes
  <2> QED
    BY <2>1, <2>2, <2>3 DEF TronNext, chainVars
<1>3. TronInv /\ ForwarderTypes => EvmForwarderTypeOK
  BY TokenTypes DEF TronInv, EvmForwarderTypeOK, ForwarderTypes
<1> QED
  BY <1>1, <1>2, <1>3, TronInvariant, PTL DEF TronSpec

\* The Tron contracts implement ContractPolicy: requests executed in any order, by
\* a forwarder that pays with what is its own, break none of its promises
\* (tron-contract/contracts/ntzs.sol:65-212, Forwarder.sol:134-187).
THEOREM TronKeepsContract == TronSpec => TronImplementsContract
<1>1. TronInit => Contract!PolicyInit
  BY PolicyStart DEF TronInit, ForwarderInit
<1>2. TronInv /\ [TronNext]_chainVars => [Contract!PolicyNext]_Contract!policyVars
  <2> SUFFICES ASSUME TronInv, [TronNext]_chainVars
               PROVE  Contract!PolicyNext
    OBVIOUS
  <2>1. CASE TronNext
    BY <2>1, TronNextKeepsPromises DEF TronInv
  <2>2. CASE UNCHANGED chainVars
    BY <2>2, RestGoverns DEF chainVars, evmVars, tokenVars, Contract!PolicyNext
  <2> QED
    BY <2>1, <2>2
<1> QED
  BY <1>1, <1>2, TronInvariant, PTL DEF TronSpec, TronImplementsContract, Contract!PolicySpec

\* Nor do the Tron contracts, where a blacklisted holder may burn what he has
\* (tron-contract/contracts/ntzs.sol:94-147, 206-221).
THEOREM TronOnlyRetiresBarred == TronSpec => BarredMoneyOnlyRetires
<1>1. TronInv /\ [Contract!PolicyNext]_Contract!policyVars => [BarredRetires]_evmVars
  BY PromisesRetire DEF TronInv
<1> QED
  BY <1>1, TronInvariant, TronKeepsContract, PTL
     DEF TronImplementsContract, Contract!PolicySpec, BarredMoneyOnlyRetires, BarredRetires
=============================================================================
