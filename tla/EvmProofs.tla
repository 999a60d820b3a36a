----------------------------- MODULE EvmProofs -----------------------------
(***************************************************************************)
(* Theorems about the contracts of the EVM chains together (ChainSpec of   *)
(* EvmForwarder): approvals, the rules of minting, frozen money, replay,   *)
(* and who decides over the money of a wallet that only signs requests.    *)
(***************************************************************************)
EXTENDS EvmForwarder, SumProofs

\* The types of money and its conservation, which need each other: a burn is
\* compared with the holder's balance only, a mint with the supply only.
MoneyTypes ==
    /\ balances \in [Address -> Nat]
    /\ allowances \in [Address -> [Address -> Amount]]
    /\ totalSupply \in Amount
    /\ totalSupply = SumOver(balances, Address)

SettingTypes ==
    /\ paused \in BOOLEAN
    /\ trustedForwarderContract \in Address \ Wallet
    /\ adminOperationsContract \in AdminContract
    /\ version \in {1, 2}

AdminInv == EvmAdminTypeOK /\ AmountNeedsApproval

TokenInv == AdminInv /\ MoneyTypes /\ SettingTypes

-----------------------------------------------------------------------------
(* The admin contracts *)

\* A call of one admin contract replaces its storage.
Replaced(c, s) ==
    /\ s \in Storage
    /\ s.version = 2 => \A a \in Address : s.mintAmount[a] > 0 => a \in s.canMint
    /\ admin' = [admin EXCEPT ![c] = s]

\* Replacing the storage of a contract preserves types and approvals.
LEMMA ReplacedKeeps ==
    ASSUME AdminInv,
           NEW c \in AdminContract, NEW s, Replaced(c, s)
    PROVE  AdminInv'
<1> USE DEF AdminInv
<1>1. EvmAdminTypeOK'
  BY DEF EvmAdminTypeOK, Replaced
<1>2. AmountNeedsApproval'
  <2> SUFFICES ASSUME NEW d \in AdminContract, NEW a \in Address,
                      admin'[d].version = 2, admin'[d].mintAmount[a] > 0
               PROVE  a \in admin'[d].canMint
    BY DEF AmountNeedsApproval
  <2>1. admin'[d] = IF d = c THEN s ELSE admin[d]
    BY DEF EvmAdminTypeOK, Replaced
  <2>2. CASE d = c
    BY <2>1, <2>2 DEF Replaced
  <2>3. CASE d # c
    BY <2>1, <2>3 DEF AmountNeedsApproval
  <2> QED
    BY <2>2, <2>3
<1> QED
  BY <1>1, <1>2

\* What the owner or a trusted contract calls (Operations2.sol:78-120).
LEMMA TrustedCallKeeps ==
    ASSUME AdminInv,
           NEW c \in AdminContract, NEW sender, NEW user \in Address,
           TrustedCall(c, sender, user)
    PROVE  AdminInv'
<1> USE DEF AdminInv
<1>0. admin[c] \in Storage /\ 0 \in Amount /\ Amount \subseteq Nat
  BY EvmAdminAssumption DEF EvmAdminTypeOK, Amount
<1>1. CASE AddCanMint(c, sender, user)
  <2> DEFINE s == [admin[c] EXCEPT !.canMint = @ \cup {user}]
  <2>1. s \in Storage
    BY <1>0 DEF Storage
  <2>2. s.version = 2 => \A a \in Address : s.mintAmount[a] > 0 => a \in s.canMint
    BY <1>0 DEF Storage, AmountNeedsApproval
  <2>3. admin' = [admin EXCEPT ![c] = s]
    BY <1>0, <1>1 DEF AddCanMint, EvmAdminTypeOK
  <2>4. QED
    BY <2>1, <2>2, <2>3, ReplacedKeeps DEF Replaced
<1>2. CASE RemoveCanMint(c, sender, user)
  <2> DEFINE s == [admin[c] EXCEPT !.canMint = @ \ {user},
                                   !.mintAmount[user] = LeftAmount(c, user)]
  <2>1. LeftAmount(c, user) \in Amount
    BY <1>0 DEF LeftAmount, Storage
  <2>2. admin[c].version = 2 => LeftAmount(c, user) = 0
    BY DEF LeftAmount
  <2>3. s \in Storage
    BY <1>0, <2>1 DEF Storage
  <2>4. s.version = 2 => \A a \in Address : s.mintAmount[a] > 0 => a \in s.canMint
    BY <1>0, <2>2 DEF Storage, AmountNeedsApproval
  <2>5. admin' = [admin EXCEPT ![c] = s]
    BY <1>0, <1>2 DEF RemoveCanMint, EvmAdminTypeOK
  <2>6. QED
    BY <2>3, <2>4, <2>5, ReplacedKeeps DEF Replaced
<1>3. CASE RemoveMintAmount(c, sender, user)
  <2> DEFINE s == [admin[c] EXCEPT !.mintAmount[user] = 0]
  <2>1. s \in Storage
    BY <1>0 DEF Storage
  <2>2. s.version = 2 => \A a \in Address : s.mintAmount[a] > 0 => a \in s.canMint
    BY <1>0 DEF Storage, AmountNeedsApproval
  <2>3. admin' = [admin EXCEPT ![c] = s]
    BY <1>0, <1>3 DEF RemoveMintAmount, EvmAdminTypeOK
  <2>4. QED
    BY <2>1, <2>2, <2>3, ReplacedKeeps DEF Replaced
<1> QED
  BY <1>1, <1>2, <1>3 DEF TrustedCall

\* What only the owner calls, pausing apart (Operations2.sol:66-90, 122-190).
LEMMA OwnerCallKeeps ==
    ASSUME AdminInv,
           NEW c \in AdminContract, OwnerCall(c) \/ PauseAdmin(c)
    PROVE  AdminInv'
<1> USE DEF AdminInv
<1>0. admin[c] \in Storage
  BY DEF EvmAdminTypeOK
<1>1. ASSUME NEW user \in MinterArg, NEW amount \in Amount,
             AddMintAmount(c, user, amount)
      PROVE  AdminInv'
  <2> DEFINE s == [admin[c] EXCEPT !.mintAmount[user] = amount]
  <2>1. s \in Storage
    BY <1>0 DEF Storage
  <2>2. s.version = 2 => \A a \in Address : s.mintAmount[a] > 0 => a \in s.canMint
    BY <1>0, <1>1 DEF Storage, AmountNeedsApproval, AddMintAmount
  <2>3. admin' = [admin EXCEPT ![c] = s]
    BY <1>0, <1>1 DEF AddMintAmount, EvmAdminTypeOK
  <2>4. QED
    BY <2>1, <2>2, <2>3, ReplacedKeeps DEF Replaced
<1> DEFINE s == admin'[c]
           OthersChange == /\ s \in Storage
                           /\ s.version = admin[c].version
                           /\ s.canMint = admin[c].canMint
                           /\ s.mintAmount = admin[c].mintAmount
                           /\ admin' = [admin EXCEPT ![c] = s]
<1>2. ASSUME OthersChange
      PROVE  AdminInv'
  <2>1. Replaced(c, s)
    BY <1>2 DEF Replaced, AmountNeedsApproval
  <2>2. QED
    BY <2>1, ReplacedKeeps
<1>3. ASSUME NEW user \in ForwarderArg,
             AddCanForward(c, user) \/ RemoveCanForward(c, user)
      PROVE  OthersChange
  <2>1. ASSUME NEW S \in SUBSET Address,
               admin' = [admin EXCEPT ![c].canForward = S]
        PROVE  OthersChange
    BY <1>0, <2>1 DEF EvmAdminTypeOK, Storage
  <2>2. /\ admin[c].canForward \cup {user} \in SUBSET Address
        /\ admin[c].canForward \ {user} \in SUBSET Address
    BY <1>0, EvmAdminAssumption DEF Storage
  <2>3. QED
    BY <1>3, <2>1, <2>2 DEF AddCanForward, RemoveCanForward
<1>4. ASSUME NEW contract \in TrustedArg,
             AddTrustedContract(c, contract) \/ RemoveTrustedContract(c, contract)
      PROVE  OthersChange
  <2>1. ASSUME NEW S \in SUBSET Address,
               admin' = [admin EXCEPT ![c].trustedContract = S]
        PROVE  OthersChange
    BY <1>0, <2>1 DEF EvmAdminTypeOK, Storage
  <2>2. /\ admin[c].trustedContract \cup {contract} \in SUBSET Address
        /\ admin[c].trustedContract \ {contract} \in SUBSET Address
    BY <1>0, EvmAdminAssumption DEF Storage
  <2>3. QED
    BY <1>4, <2>1, <2>2 DEF AddTrustedContract, RemoveTrustedContract
<1>5. ASSUME NEW user \in ExternalArg,
             WhitelistExternalSender(c, user) \/ BlacklistExternalSender(c, user)
      PROVE  OthersChange
  <2>1. ASSUME NEW S \in SUBSET Address,
               admin' = [admin EXCEPT ![c].isExternalSenderWhitelisted = S]
        PROVE  OthersChange
    BY <1>0, <2>1 DEF EvmAdminTypeOK, Storage
  <2>2. /\ admin[c].isExternalSenderWhitelisted \cup {user} \in SUBSET Address
        /\ admin[c].isExternalSenderWhitelisted \ {user} \in SUBSET Address
    BY <1>0, EvmAdminAssumption DEF Storage
  <2>3. QED
    BY <1>5, <2>1, <2>2 DEF WhitelistExternalSender, BlacklistExternalSender
<1>6. ASSUME NEW user \in InternalArg,
             WhitelistInternalUser(c, user) \/ BlacklistInternalUser(c, user)
      PROVE  OthersChange
  <2>1. ASSUME NEW S \in SUBSET Address,
               admin' = [admin EXCEPT ![c].isInternalUserWhitelisted = S]
        PROVE  OthersChange
    BY <1>0, <2>1 DEF EvmAdminTypeOK, Storage
  <2>2. /\ admin[c].isInternalUserWhitelisted \cup {user} \in SUBSET Address
        /\ admin[c].isInternalUserWhitelisted \ {user} \in SUBSET Address
    BY <1>0, EvmAdminAssumption DEF Storage
  <2>3. QED
    BY <1>6, <2>1, <2>2 DEF WhitelistInternalUser, BlacklistInternalUser
<1>7. ASSUME NEW user \in BlacklistArg,
             AddBlackList(c, user) \/ RemoveBlackList(c, user)
      PROVE  OthersChange
  <2>1. ASSUME NEW S \in SUBSET Address,
               admin' = [admin EXCEPT ![c].isBlackListed = S]
        PROVE  OthersChange
    BY <1>0, <2>1 DEF EvmAdminTypeOK, Storage
  <2>2. /\ admin[c].isBlackListed \cup {user} \in SUBSET Address
        /\ admin[c].isBlackListed \ {user} \in SUBSET Address
    BY <1>0, EvmAdminAssumption DEF Storage
  <2>3. QED
    BY <1>7, <2>1, <2>2 DEF AddBlackList, RemoveBlackList
<1>8. CASE PauseAdmin(c)
  <2>1. OthersChange
    BY <1>0, <1>8 DEF PauseAdmin, EvmAdminTypeOK, Storage
  <2>2. QED
    BY <1>2, <2>1
<1> QED
  BY <1>1, <1>2, <1>3, <1>4, <1>5, <1>6, <1>7, <1>8 DEF OwnerCall

\* Whoever calls an admin contract, types and approvals stay in order.
LEMMA AdminNextKeeps == AdminInv /\ AdminNext => AdminInv'
<1> SUFFICES ASSUME AdminInv, NEW c \in AdminContract,
                    \/ \E sender \in Wallet, user \in MinterArg :
                          TrustedCall(c, sender, user)
                    \/ OwnerCall(c) \/ PauseAdmin(c)
             PROVE  AdminInv'
  BY DEF AdminNext
<1>1. MinterArg \subseteq Address
  BY EvmAdminAssumption
<1> QED
  BY <1>1, TrustedCallKeeps, OwnerCallKeeps

-----------------------------------------------------------------------------
(* Balances and allowances *)

\* An amount is a natural, and nothing is an amount.
LEMMA Amounts == Amount \subseteq Nat /\ 0 \in Amount
  BY EvmAdminAssumption DEF Amount

\* Of a payment only the payer loses, and exactly the amount.
LEMMA MovedEffect ==
    ASSUME MoneyTypes,
           NEW from \in Address, NEW to \in Address, NEW amount \in Amount,
           amount <= balances[from], balances' = Moved(from, to, amount)
    PROVE  /\ balances' \in [Address -> Nat]
           /\ SumOver(balances', Address) = SumOver(balances, Address)
           /\ \A a \in Address :
                 balances'[a] < balances[a] =>
                     a = from /\ balances[a] - balances'[a] = amount
<1>0. /\ IsFiniteSet(Address) /\ amount \in Nat
      /\ balances \in [Address -> Nat] /\ balances \in [Address -> Int]
      /\ balances[from] \in Nat /\ balances[to] \in Nat
  BY Amounts, EvmTokenAssumption DEF MoneyTypes
<1>1. CASE from = to
  <2>1. balances' = balances
    BY <1>0, <1>1 DEF Moved
  <2> QED
    BY <1>0, <2>1
<1>2. CASE from # to
  <2>1. /\ balances' \in [Address -> Nat]
        /\ balances'[from] = balances[from] - amount
        /\ balances'[to] = balances[to] + amount
        /\ \A a \in Address \ {from, to} : balances'[a] = balances[a]
    BY <1>0, <1>2 DEF Moved
  <2>2. balances[from] + balances[to] = balances'[from] + balances'[to]
    BY <1>0, <2>1
  <2>3. balances' \in [Address -> Int]
    BY <2>1
  <2>4. SumOver(balances', Address) = SumOver(balances, Address)
    BY <1>0, <1>2, <2>1, <2>2, <2>3, SumMoved
  <2> QED
    BY <1>0, <2>1, <2>4
<1> QED
  BY <1>1, <1>2

\* Of a burn only the holder loses, and the supply as much.
LEMMA BurnedEffect ==
    ASSUME MoneyTypes,
           NEW from \in Address, NEW amount \in Nat, Burned(from, amount)
    PROVE  /\ balances' \in [Address -> Nat]
           /\ balances' = [balances EXCEPT ![from] = @ - amount]
           /\ totalSupply' \in Amount
           /\ totalSupply' = SumOver(balances', Address)
           /\ totalSupply' = totalSupply - amount
           /\ \A a \in Address :
                 balances'[a] < balances[a] =>
                     a = from /\ balances[a] - balances'[a] = amount
<1>0. /\ IsFiniteSet(Address)
      /\ balances \in [Address -> Nat] /\ balances \in [Address -> Int]
      /\ balances[from] \in Nat
      /\ totalSupply = SumOver(balances, Address)
      /\ MaxU256 \in Nat /\ totalSupply \in 0 .. MaxU256
  BY EvmTokenAssumption, EvmAdminAssumption DEF MoneyTypes, Amount
<1>1. /\ balances' \in [Address -> Nat]
      /\ balances' = [balances EXCEPT ![from] = @ - amount]
      /\ balances'[from] = balances[from] - amount
      /\ \A a \in Address \ {from} : balances'[a] = balances[a]
      /\ totalSupply' = totalSupply - amount
      /\ amount <= balances[from]
  BY <1>0 DEF Burned
<1>2. SumOver(balances', Address)
         = SumOver(balances, Address) - balances[from] + balances'[from]
  <2>1. balances' \in [Address -> Int]
    BY <1>1
  <2>2. \A a \in Address \ {from} : balances'[a] = balances[a]
    BY <1>1
  <2> QED
    BY <1>0, <2>1, <2>2, SumChanged
<1>3. balances[from] <= SumOver(balances, Address)
  BY <1>0, SumBounds
<1>4. totalSupply' = SumOver(balances', Address)
  BY <1>0, <1>1, <1>2
<1>5. totalSupply' \in Amount
  BY <1>0, <1>1, <1>3 DEF Amount
<1> QED
  BY <1>0, <1>1, <1>4, <1>5

\* A spender uses up his own allowance by the amount, unless it is the largest.
LEMMA SpentEffect ==
    ASSUME MoneyTypes,
           NEW from \in Address, NEW sender \in Address, NEW amount \in Amount,
           amount <= allowances[from][sender],
           allowances' = SpentAllowance(from, sender, amount)
    PROVE  /\ allowances' \in [Address -> [Address -> Amount]]
           /\ \A a, s \in Address : allowances'[a][s] <= allowances[a][s]
           /\ AllowedTo(sender, from, amount)
<1> USE EvmAdminAssumption DEF MoneyTypes, SpentAllowance, AllowedTo, Amount
<1>1. CASE allowances[from][sender] = MaxU256
  BY <1>1
<1>2. CASE allowances[from][sender] # MaxU256
  <2>1. allowances' = [allowances EXCEPT ![from][sender] = @ - amount]
    BY <1>2
  <2>2. allowances[from][sender] - amount \in Amount
    OBVIOUS
  <2>3. \A a, s \in Address :
           allowances'[a][s] = IF a = from /\ s = sender
                                 THEN allowances[from][sender] - amount
                                 ELSE allowances[a][s]
    BY <2>1
  <2>4. allowances' \in [Address -> [Address -> Amount]]
    BY <2>1, <2>2
  <2>5. QED
    BY <1>2, <2>2, <2>3, <2>4
<1> QED
  BY <1>1, <1>2

\* The supply is a natural, and the money invariant primed is about the new state.
LEMMA MoneyFacts ==
    /\ MoneyTypes => totalSupply \in Nat
    /\ /\ balances' \in [Address -> Nat]
       /\ allowances' \in [Address -> [Address -> Amount]]
       /\ totalSupply' \in Amount
       /\ totalSupply' = SumOver(balances', Address)
       => MoneyTypes'
  BY Amounts DEF MoneyTypes

\* What is conserved is the sum of the lemmas.
LEMMA Books == EvmConservation <=> totalSupply = SumOver(balances, Address)
  BY DEF EvmConservation, SumOver, MapThenSumSet, MapThenFoldSet

\* No balance exceeds the supply, so none exceeds the largest amount.
LEMMA TokenTypes == TokenInv => EvmTokenTypeOK
<1> SUFFICES ASSUME TokenInv PROVE EvmTokenTypeOK
  OBVIOUS
<1>1. /\ balances \in [Address -> Nat]
      /\ totalSupply \in Amount
      /\ totalSupply = SumOver(balances, Address)
  BY DEF TokenInv, MoneyTypes
<1>2. balances \in [Address -> Amount]
  <2> SUFFICES ASSUME NEW a \in Address PROVE balances[a] \in Amount
    BY <1>1
  <2>1. balances[a] <= totalSupply
    BY <1>1, SumBounds, EvmTokenAssumption
  <2> QED
    BY <1>1, <2>1, EvmAdminAssumption DEF Amount
<1> QED
  BY <1>1, <1>2 DEF TokenInv, AdminInv, MoneyTypes, SettingTypes, EvmTokenTypeOK

\* Money at rest keeps its invariant.
LEMMA MoneyStays ==
    MoneyTypes /\ UNCHANGED <<balances, allowances, totalSupply>> => MoneyTypes'
  BY DEF MoneyTypes

-----------------------------------------------------------------------------
(* One call of the token *)

TypedCall(call) ==
    call.from \in Address /\ call.user \in Address /\ call.amount \in Amount

\* What no call may do to the money of a pause or a blacklisted holder.
FrozenStep ==
    \A h \in Address :
       /\ version = 2
       /\ paused \/ BlackListed(h)
       /\ balances'[h] < balances[h]
       => /\ BlackListed(h)
          /\ balances'[h] = 0
          /\ totalSupply' = totalSupply - balances[h]

\* Only the sender of a call can lose money by it or grant an allowance, but for
\* what he is allowed to spend and for destroyed funds.
SenderDecides(sender, call) ==
    /\ \A w \in Address :
          balances'[w] < balances[w] =>
             \/ /\ w = sender
                /\ call.op \in {"transfer", "burnByUser"}
                /\ call.amount = balances[w] - balances'[w]
             \/ AllowedTo(sender, w, balances[w] - balances'[w])
             \/ BlackListed(w) /\ balances'[w] = 0
    /\ \A w, s \in Address :
          allowances'[w][s] > allowances[w][s] =>
             /\ w = sender
             /\ \/ call.op = "approve" /\ call.amount = allowances'[w][s]
                \/ /\ call.op = "increaseAllowance"
                   /\ call.amount = allowances'[w][s] - allowances[w][s]

\* The sum that may be allowed and the difference are amounts.
LEMMA NewAllowance ==
    ASSUME allowances \in [Address -> [Address -> Amount]],
           NEW sender \in Address, NEW spender \in Address, NEW amount \in Amount
    PROVE  /\ allowances[sender][spender] + amount <= MaxU256 =>
                /\ allowances[sender][spender] + amount \in Amount
                /\ (allowances[sender][spender] + amount) - allowances[sender][spender]
                      = amount
           /\ amount <= allowances[sender][spender] =>
                /\ allowances[sender][spender] - amount \in Amount
                /\ ~(allowances[sender][spender] - amount > allowances[sender][spender])
<1>1. /\ allowances[sender][spender] \in 0 .. MaxU256
      /\ amount \in 0 .. MaxU256
      /\ MaxU256 \in Nat
  BY EvmAdminAssumption DEF Amount
<1> QED
  BY <1>1 DEF Amount

\* Every operation but mint keeps the types and the admin contracts, adds nothing
\* to the supply, and touches money as frozen money and the sender allow.
LEMMA SenderCallEffect ==
    ASSUME TokenInv, NEW sender \in Address, NEW call, TypedCall(call),
           SenderCall(sender, call)
    PROVE  /\ MoneyTypes' /\ SettingTypes' /\ UNCHANGED admin
           /\ UNCHANGED <<adminOperationsContract, version>>
           /\ totalSupply' <= totalSupply
           /\ FrozenStep
           /\ SenderDecides(sender, call)
<1> DEFINE Effect == /\ MoneyTypes' /\ SettingTypes' /\ UNCHANGED admin
                     /\ UNCHANGED <<adminOperationsContract, version>>
                     /\ totalSupply' <= totalSupply
                     /\ FrozenStep
                     /\ SenderDecides(sender, call)
           to == call.user
           amount == call.amount
<1>0. /\ MoneyTypes /\ SettingTypes
      /\ to \in Address /\ call.from \in Address /\ amount \in Amount /\ amount \in Nat
      /\ balances \in [Address -> Nat]
      /\ allowances \in [Address -> [Address -> Amount]]
      /\ totalSupply \in Amount /\ totalSupply \in Nat
      /\ totalSupply = SumOver(balances, Address)
  <2>1. MoneyTypes /\ SettingTypes
    BY DEF TokenInv
  <2>2. totalSupply \in Nat
    BY <2>1, MoneyFacts
  <2>3. to \in Address /\ call.from \in Address /\ amount \in Amount
    BY DEF TypedCall
  <2> QED
    BY <2>1, <2>2, <2>3, Amounts DEF MoneyTypes
<1> DEFINE LosesAsAllowed ==
             \A w \in Address :
               balances'[w] < balances[w] =>
                  \/ /\ w = sender
                     /\ call.op \in {"transfer", "burnByUser"}
                     /\ amount = balances[w] - balances'[w]
                  \/ AllowedTo(sender, w, balances[w] - balances'[w])
                  \/ BlackListed(w) /\ balances'[w] = 0
<1>b. \A w, s \in Address : allowances[w][s] \in Nat
  BY <1>0, Amounts
<1>a. ASSUME allowances' = allowances, LosesAsAllowed
      PROVE  SenderDecides(sender, call)
  <2>1. \A w, s \in Address : ~(allowances'[w][s] > allowances[w][s])
    BY <1>a, <1>b
  <2>2. QED
    BY <1>a, <2>1 DEF SenderDecides
<1>1. ASSUME call.op = "transfer", Transfer(sender, to, amount)
      PROVE  Effect
  <2>1. /\ ~paused /\ ~BlackListed(sender)
        /\ UNCHANGED <<admin, allowances, settings>>
    BY <1>1 DEF Transfer
  <2>2. /\ balances' \in [Address -> Nat]
        /\ totalSupply' \in Amount
        /\ totalSupply' = SumOver(balances', Address)
        /\ totalSupply' <= totalSupply
        /\ \A a \in Address : balances'[a] < balances[a] =>
              a = sender /\ balances[a] - balances'[a] = amount
    <3>1. CASE Burned(sender, amount)
      <4>1. /\ balances' \in [Address -> Nat]
            /\ totalSupply' \in Amount
            /\ totalSupply' = SumOver(balances', Address)
            /\ totalSupply' = totalSupply - amount
            /\ \A a \in Address : balances'[a] < balances[a] =>
                  a = sender /\ balances[a] - balances'[a] = amount
        BY <1>0, <3>1, BurnedEffect
      <4> QED
        BY <1>0, <4>1
    <3>2. CASE /\ amount <= balances[sender]
               /\ balances' = Moved(sender, to, amount)
               /\ UNCHANGED totalSupply
      <4>1. /\ balances' \in [Address -> Nat]
            /\ SumOver(balances', Address) = SumOver(balances, Address)
            /\ \A a \in Address : balances'[a] < balances[a] =>
                  a = sender /\ balances[a] - balances'[a] = amount
        BY <1>0, <3>2, MovedEffect
      <4> QED
        BY <1>0, <3>2, <4>1
    <3>3. QED
      BY <1>1, <3>1, <3>2 DEF Transfer
  <2>3. MoneyTypes' /\ SettingTypes'
    <3>1. MoneyTypes'
      BY <1>0, <2>1, <2>2, MoneyFacts
    <3> QED
      BY <1>0, <2>1, <3>1 DEF SettingTypes, settings
  <2>4. FrozenStep
    BY <2>1, <2>2 DEF FrozenStep
  <2>5. SenderDecides(sender, call)
    <3>1. LosesAsAllowed
      BY <1>1, <2>2
    <3>2. QED
      BY <1>a, <2>1, <3>1
  <2>6. QED
    BY <2>1, <2>2, <2>3, <2>4, <2>5 DEF settings
<1>2. ASSUME call.op = "transferFrom", TransferFrom(sender, call.from, to, amount)
      PROVE  Effect
  <2>1. /\ ~paused /\ ~BlackListed(call.from)
        /\ UNCHANGED <<admin, totalSupply, settings>>
    BY <1>2 DEF TransferFrom
  <2>2. /\ allowances' \in [Address -> [Address -> Amount]]
        /\ \A a, s \in Address : allowances'[a][s] <= allowances[a][s]
        /\ AllowedTo(sender, call.from, amount)
    BY <1>0, <1>2, SpentEffect DEF TransferFrom
  <2>3. /\ balances' \in [Address -> Nat]
        /\ SumOver(balances', Address) = SumOver(balances, Address)
        /\ \A a \in Address : balances'[a] < balances[a] =>
              a = call.from /\ balances[a] - balances'[a] = amount
    BY <1>0, <1>2, MovedEffect DEF TransferFrom
  <2>4. MoneyTypes' /\ SettingTypes'
    <3>1. MoneyTypes'
      BY <1>0, <2>1, <2>2, <2>3, MoneyFacts
    <3> QED
      BY <1>0, <2>1, <3>1 DEF SettingTypes, settings
  <2>5. FrozenStep
    BY <2>1, <2>3 DEF FrozenStep
  <2>6. SenderDecides(sender, call)
    <3>1. ASSUME NEW w \in Address, balances'[w] < balances[w]
          PROVE  AllowedTo(sender, w, balances[w] - balances'[w])
      <4>1. w = call.from /\ balances[w] - balances'[w] = amount
        BY <2>3, <3>1
      <4>2. QED
        BY <2>2, <4>1
    <3>2. ASSUME NEW w \in Address, NEW s \in Address
          PROVE  ~(allowances'[w][s] > allowances[w][s])
      <4>1. allowances'[w][s] \in Nat
        BY <2>2, Amounts
      <4>2. QED
        BY <2>2, <4>1, <1>b
    <3>3. QED
      BY <3>1, <3>2 DEF SenderDecides
  <2>7. QED
    BY <1>0, <2>1, <2>4, <2>5, <2>6 DEF settings
<1>c. ASSUME NEW n \in Amount, Approve(sender, to, n),
             n > allowances[sender][to] =>
                \/ call.op = "approve" /\ amount = n
                \/ call.op = "increaseAllowance" /\ amount = n - allowances[sender][to]
      PROVE  Effect
  <2>1. UNCHANGED <<admin, balances, totalSupply, settings>>
    BY <1>c DEF Approve
  <2>2. \A a, s \in Address :
           allowances'[a][s] = IF a = sender /\ s = to THEN n ELSE allowances[a][s]
    BY <1>0, <1>c DEF Approve, MoneyTypes
  <2>3. allowances' \in [Address -> [Address -> Amount]]
    BY <1>0, <1>c DEF Approve, MoneyTypes
  <2>4. MoneyTypes' /\ SettingTypes'
    <3>1. MoneyTypes'
      BY <1>0, <2>1, <2>3, MoneyFacts
    <3> QED
      BY <1>0, <2>1, <3>1 DEF SettingTypes, settings
  <2>5. \A a \in Address : ~(balances'[a] < balances[a])
    BY <1>0, <2>1 DEF MoneyTypes
  <2>6. FrozenStep
    BY <2>5 DEF FrozenStep
  <2>7. SenderDecides(sender, call)
    <3>1. ASSUME NEW w \in Address, NEW s \in Address,
                 allowances'[w][s] > allowances[w][s]
          PROVE  w = sender /\ s = to /\ allowances'[w][s] = n
      BY <2>2, <3>1, <1>b
    <3>2. QED
      BY <1>c, <2>5, <3>1 DEF SenderDecides
  <2>8. QED
    BY <1>0, <2>1, <2>4, <2>6, <2>7 DEF settings
<1>3. ASSUME call.op = "approve", Approve(sender, to, amount)
      PROVE  Effect
  BY <1>0, <1>3, <1>c
<1>9. ASSUME call.op = "increaseAllowance", IncreaseAllowance(sender, to, amount)
      PROVE  Effect
  <2> DEFINE n == allowances[sender][to] + amount
  <2>1. n \in Amount /\ n - allowances[sender][to] = amount
    BY <1>0, <1>9, NewAllowance DEF IncreaseAllowance
  <2>2. Approve(sender, to, n)
    BY <1>9 DEF IncreaseAllowance
  <2> HIDE DEF n
  <2> QED
    BY <1>9, <1>c, <2>1, <2>2
<1>10. ASSUME DecreaseAllowance(sender, to, amount)
       PROVE  Effect
  <2> DEFINE n == allowances[sender][to] - amount
  <2>1. n \in Amount /\ ~(n > allowances[sender][to])
    BY <1>0, <1>10, NewAllowance DEF DecreaseAllowance
  <2>2. Approve(sender, to, n)
    BY <1>10 DEF DecreaseAllowance
  <2> HIDE DEF n
  <2> QED
    BY <1>c, <2>1, <2>2
<1>4. ASSUME call.op = "burnByUser", BurnByUser(sender, amount)
      PROVE  Effect
  <2>1. /\ ~paused /\ (version = 2 => ~BlackListed(sender))
        /\ Burned(sender, amount)
        /\ UNCHANGED <<admin, allowances, settings>>
    BY <1>4 DEF BurnByUser
  <2>2. /\ balances' \in [Address -> Nat]
        /\ totalSupply' \in Amount
        /\ totalSupply' = SumOver(balances', Address)
        /\ totalSupply' <= totalSupply
        /\ \A a \in Address : balances'[a] < balances[a] =>
              a = sender /\ balances[a] - balances'[a] = amount
    <3>1. /\ balances' \in [Address -> Nat]
          /\ totalSupply' \in Amount
          /\ totalSupply' = SumOver(balances', Address)
          /\ totalSupply' = totalSupply - amount
          /\ \A a \in Address : balances'[a] < balances[a] =>
                a = sender /\ balances[a] - balances'[a] = amount
      BY <1>0, <2>1, BurnedEffect
    <3> QED
      BY <1>0, <3>1
  <2>3. MoneyTypes' /\ SettingTypes'
    <3>1. MoneyTypes'
      BY <1>0, <2>1, <2>2, MoneyFacts
    <3> QED
      BY <1>0, <2>1, <3>1 DEF SettingTypes, settings
  <2>4. FrozenStep
    BY <2>1, <2>2 DEF FrozenStep
  <2>5. SenderDecides(sender, call)
    <3>1. LosesAsAllowed
      BY <1>4, <2>2
    <3>2. QED
      BY <1>a, <2>1, <3>1
  <2>6. QED
    BY <2>1, <2>2, <2>3, <2>4, <2>5 DEF settings
<1>5. ASSUME DestroyBlackFunds(sender, to)
      PROVE  Effect
  <2>1. /\ BlackListed(to)
        /\ Burned(to, balances[to])
        /\ UNCHANGED <<admin, allowances, settings>>
    BY <1>5 DEF DestroyBlackFunds
  <2>2. /\ balances[to] \in Nat
        /\ balances' \in [Address -> Nat]
        /\ balances' = [balances EXCEPT ![to] = @ - balances[to]]
        /\ totalSupply' \in Amount
        /\ totalSupply' = SumOver(balances', Address)
        /\ totalSupply' = totalSupply - balances[to]
        /\ \A a \in Address : balances'[a] < balances[a] => a = to
    <3>1. balances[to] \in Nat
      BY <1>0
    <3> QED
      BY <1>0, <2>1, <3>1, BurnedEffect
  <2>3. balances'[to] = 0
    BY <1>0, <2>2
  <2>4. MoneyTypes' /\ SettingTypes'
    <3>1. MoneyTypes'
      BY <1>0, <2>1, <2>2, MoneyFacts
    <3> QED
      BY <1>0, <2>1, <3>1 DEF SettingTypes, settings
  <2>5. FrozenStep
    BY <2>1, <2>2, <2>3 DEF FrozenStep
  <2>6. SenderDecides(sender, call)
    <3>1. LosesAsAllowed
      BY <2>1, <2>2, <2>3
    <3>2. QED
      BY <1>a, <2>1, <3>1
  <2>7. totalSupply' <= totalSupply
    <3>1. balances[to] \in Nat /\ totalSupply' = totalSupply - balances[to]
      BY <2>2
    <3> QED
      BY <1>0, <3>1
  <2>8. QED
    BY <2>1, <2>4, <2>5, <2>6, <2>7 DEF settings
<1>6. ASSUME UNCHANGED <<admin, balances, allowances, totalSupply,
                         adminOperationsContract, version>>,
             paused' \in BOOLEAN,
             trustedForwarderContract' \in Address \ Wallet
      PROVE  Effect
  <2>1. MoneyTypes' /\ SettingTypes'
    <3>1. MoneyTypes'
      BY <1>0, <1>6, MoneyStays
    <3> QED
      BY <1>0, <1>6, <3>1 DEF SettingTypes
  <2>2. /\ \A a \in Address : ~(balances'[a] < balances[a])
        /\ \A a, s \in Address : ~(allowances'[a][s] > allowances[a][s])
    BY <1>0, <1>6, <1>b
  <2>3. FrozenStep /\ SenderDecides(sender, call)
    BY <2>2 DEF FrozenStep, SenderDecides
  <2>4. QED
    BY <1>0, <1>6, <2>1, <2>3
<1>7. ASSUME PauseToken(sender)
      PROVE  Effect
  BY <1>0, <1>6, <1>7 DEF PauseToken, SettingTypes
<1>8. ASSUME to \in NewForwarder, UpdateForwarderContract(sender, to)
      PROVE  Effect
  BY <1>0, <1>6, <1>8, EvmTokenAssumption DEF UpdateForwarderContract, SettingTypes
<1> QED
  BY <1>1, <1>2, <1>3, <1>4, <1>5, <1>7, <1>8, <1>9, <1>10 DEF SenderCall

\* What new money needs (ntzs.sol:245-273, ntzs2.sol:196-227).
IssueStep ==
    totalSupply' > totalSupply =>
       /\ ~Asked.paused
       /\ \E k \in Asked.canMint :
             /\ totalSupply' - totalSupply = Asked.mintAmount[k]
             /\ k \notin admin'[adminOperationsContract].canMint
             /\ version = 1 => ~BlackListed(k)
       /\ version = 1 =>
             \A a \in Address : balances'[a] > balances[a] => ~BlackListed(a)

\* Minting keeps the invariant, takes from nobody and obeys the rules of issue.
LEMMA MintEffect ==
    ASSUME TokenInv, NEW caller, NEW sender \in Address, NEW to \in Address,
           NEW amount \in Amount, Mint(caller, sender, to, amount)
    PROVE  /\ TokenInv'
           /\ UNCHANGED allowances
           /\ \A a \in Address : ~(balances'[a] < balances[a])
           /\ IssueStep
<1>0. /\ AdminInv /\ EvmAdminTypeOK /\ MoneyTypes /\ SettingTypes
      /\ adminOperationsContract \in AdminContract
      /\ amount \in Nat
      /\ balances \in [Address -> Nat]
      /\ allowances \in [Address -> [Address -> Amount]]
      /\ totalSupply \in Nat
      /\ totalSupply = SumOver(balances, Address)
  BY Amounts, MoneyFacts DEF TokenInv, AdminInv, SettingTypes, MoneyTypes
<1>1. /\ ~Asked.paused
      /\ sender \in Asked.canMint
      /\ amount = Asked.mintAmount[sender]
      /\ version = 1 => ~BlackListed(sender) /\ ~BlackListed(to)
      /\ totalSupply + amount <= MaxU256
      /\ totalSupply' = totalSupply + amount
      /\ balances' = [balances EXCEPT ![to] = @ + amount]
      /\ UNCHANGED allowances
      /\ UNCHANGED settings
  BY <1>0 DEF Mint, MayReceive, NewMoney, RemoveCanMint, Asked, SettingTypes
<1>2. AdminInv'
  BY <1>0, TrustedCallKeeps DEF Mint, TrustedCall
<1>3. sender \notin admin'[adminOperationsContract].canMint
  <2>1. Asked \in Storage
    BY <1>0 DEF EvmAdminTypeOK, Asked
  <2>2. admin'[adminOperationsContract] =
           [Asked EXCEPT !.canMint = @ \ {sender},
                         !.mintAmount[sender] =
                              LeftAmount(adminOperationsContract, sender)]
    BY <1>0 DEF Mint, RemoveCanMint, Asked, EvmAdminTypeOK
  <2>3. QED
    BY <2>1, <2>2 DEF Storage
<1>4. \A a \in Address :
         balances'[a] = IF a = to THEN balances[a] + amount ELSE balances[a]
  BY <1>0, <1>1
<1>5. MoneyTypes' /\ SettingTypes'
  <2>1. balances' \in [Address -> Nat]
    BY <1>0, <1>1
  <2>2. SumOver(balances', Address)
           = SumOver(balances, Address) - balances[to] + balances'[to]
    <3>1. /\ balances \in [Address -> Int] /\ balances' \in [Address -> Int]
          /\ IsFiniteSet(Address)
      BY <1>0, <2>1, EvmTokenAssumption
    <3>2. \A a \in Address \ {to} : balances'[a] = balances[a]
      BY <1>4
    <3> QED
      BY <3>1, <3>2, SumChanged
  <2>3. totalSupply' = SumOver(balances', Address)
    <3>1. balances[to] \in Nat /\ balances'[to] = balances[to] + amount
      BY <1>0, <1>4
    <3> QED
      BY <1>0, <1>1, <2>2, <3>1
  <2>4. totalSupply' \in Amount
    BY <1>0, <1>1, EvmAdminAssumption DEF Amount
  <2>5. MoneyTypes'
    BY <1>0, <1>1, <2>1, <2>3, <2>4, MoneyFacts
  <2> QED
    BY <1>0, <1>1, <2>5 DEF SettingTypes, settings
<1>6. /\ \A a \in Address : ~(balances'[a] < balances[a])
      /\ \A a \in Address : balances'[a] > balances[a] => a = to
  BY <1>0, <1>4
<1>7. IssueStep
  <2>1. totalSupply' - totalSupply = amount
    BY <1>0, <1>1
  <2>2. \E k \in Asked.canMint :
           /\ totalSupply' - totalSupply = Asked.mintAmount[k]
           /\ k \notin admin'[adminOperationsContract].canMint
           /\ version = 1 => ~BlackListed(k)
    BY <1>1, <1>3, <2>1
  <2>3. version = 1 =>
           \A a \in Address : balances'[a] > balances[a] => ~BlackListed(a)
    BY <1>1, <1>6
  <2>4. QED
    BY <1>1, <2>2, <2>3 DEF IssueStep
<1> QED
  BY <1>1, <1>2, <1>5, <1>6, <1>7 DEF TokenInv

\* A call of the token, made by anybody or carried by the forwarder.
LEMMA TokenCallEffect ==
    ASSUME TokenInv, NEW caller \in Address, NEW appended \in Address,
           NEW call, TypedCall(call), TokenCall(caller, appended, call)
    PROVE  /\ TokenInv'
           /\ FrozenStep
           /\ IssueStep
           /\ SenderDecides(Sender(caller, appended), call)
<1>1. MsgSender(caller, appended) \in Address /\ Sender(caller, appended) \in Address
  BY DEF MsgSender, Sender
<1>2. CASE SenderCall(Sender(caller, appended), call)
  <2>1. /\ MoneyTypes' /\ SettingTypes' /\ UNCHANGED admin
        /\ totalSupply' <= totalSupply
        /\ FrozenStep
        /\ SenderDecides(Sender(caller, appended), call)
    BY <1>1, <1>2, SenderCallEffect
  <2>2. AdminInv'
    BY <2>1 DEF TokenInv, AdminInv, EvmAdminTypeOK, AmountNeedsApproval
  <2>3. IssueStep
    <3>1. totalSupply \in Nat /\ totalSupply' \in Nat
      BY <2>1, MoneyFacts, Amounts DEF MoneyTypes, TokenInv
    <3> QED
      BY <2>1, <3>1 DEF IssueStep
  <2>4. QED
    BY <2>1, <2>2, <2>3 DEF TokenInv
<1>3. CASE Mint(caller, MsgSender(caller, appended), call.user, call.amount)
  <2>1. /\ TokenInv'
        /\ UNCHANGED allowances
        /\ \A a \in Address : ~(balances'[a] < balances[a])
        /\ IssueStep
    BY <1>1, <1>3, MintEffect DEF TypedCall
  <2>2. FrozenStep
    BY <2>1 DEF FrozenStep
  <2>3. \A a, s \in Address : ~(allowances'[a][s] > allowances[a][s])
    <3>1. \A a, s \in Address : allowances[a][s] \in Nat
      BY Amounts DEF TokenInv, MoneyTypes
    <3>2. QED
      BY <2>1, <3>1
  <2>4. SenderDecides(Sender(caller, appended), call)
    BY <2>1, <2>3 DEF SenderDecides
  <2>5. QED
    BY <2>1, <2>2, <2>4
<1> QED
  BY <1>2, <1>3 DEF TokenCall

-----------------------------------------------------------------------------
(* A step of the whole chain *)

\* Who decides over the money of a wallet that only signs.
SignersStep ==
    \A w \in Wallet \ DirectCaller :
       /\ balances'[w] < balances[w] =>
             \/ Signed(w, "transfer", balances[w] - balances'[w])
             \/ Signed(w, "burnByUser", balances[w] - balances'[w])
             \/ \E s \in Address : AllowedTo(s, w, balances[w] - balances'[w])
             \/ BlackListed(w) /\ balances'[w] = 0
             \/ version' # version
       /\ \A s \in Address :
             allowances'[w][s] > allowances[w][s] =>
                 \/ Signed(w, "approve", allowances'[w][s])
                 \/ Signed(w, "increaseAllowance",
                           allowances'[w][s] - allowances[w][s])

\* What every step of the chain obeys.
StepRules == FrozenStep /\ IssueStep /\ SignersStep

\* A step that changes no balance, allowance or supply keeps all the rules.
LEMMA MoneyAtRest ==
    ASSUME TokenInv, UNCHANGED <<balances, allowances, totalSupply>>
    PROVE  StepRules
<1>1. /\ \A a \in Address : ~(balances'[a] < balances[a])
      /\ \A a, s \in Address : ~(allowances'[a][s] > allowances[a][s])
      /\ ~(totalSupply' > totalSupply)
  <2>1. /\ \A a, s \in Address : allowances[a][s] \in Nat
        /\ \A a \in Address : balances[a] \in Nat
        /\ totalSupply \in Nat
    BY Amounts, MoneyFacts DEF TokenInv, MoneyTypes
  <2>2. QED
    BY <2>1
<1>2. Wallet \subseteq Address
  BY EvmAdminAssumption
<1> QED
  BY <1>1, <1>2 DEF StepRules, FrozenStep, IssueStep, SignersStep

\* The upgrade wipes all money, which is frozen in the second version only.
LEMMA UpgradeEffect ==
    ASSUME TokenInv, Upgrade
    PROVE  TokenInv' /\ StepRules
<1>1. /\ UNCHANGED <<admin, trustedForwarderContract, adminOperationsContract>>
      /\ version = 1 /\ version' = 2
      /\ balances' = [a \in Address |-> 0]
      /\ allowances' = [a \in Address |-> [s \in Address |-> 0]]
      /\ totalSupply' = 0
  BY DEF Upgrade
<1>2. TokenInv'
  <2>1. SumOver(balances', Address) = 0
    BY <1>1, EvmTokenAssumption, SumOfZeros
  <2>2. MoneyTypes'
    BY <1>1, <2>1, Amounts, MoneyFacts
  <2>3. SettingTypes' /\ AdminInv'
    BY <1>1 DEF TokenInv, AdminInv, EvmAdminTypeOK, AmountNeedsApproval, SettingTypes, Upgrade
  <2> QED
    BY <2>2, <2>3 DEF TokenInv
<1>3. \A a, s \in Address : ~(allowances'[a][s] > allowances[a][s])
  <2>1. \A a, s \in Address : allowances[a][s] \in Nat /\ allowances'[a][s] = 0
    BY <1>1, Amounts DEF TokenInv, MoneyTypes
  <2>2. QED
    BY <2>1
<1>4. SignersStep
  BY <1>1, <1>3, EvmAdminAssumption DEF SignersStep
<1>5. ~(totalSupply' > totalSupply)
  BY <1>1, MoneyFacts DEF TokenInv
<1> QED
  BY <1>1, <1>2, <1>4, <1>5 DEF StepRules, FrozenStep, IssueStep

\* A step of the token and the admin contracts that no forwarder carries.
LEMMA TokenNextEffect ==
    ASSUME TokenInv, TokenNext
    PROVE  TokenInv' /\ StepRules
<1>1. CASE AdminNext /\ UNCHANGED tokenVars
  <2>1. TokenInv'
    BY <1>1, AdminNextKeeps
       DEF TokenInv, MoneyTypes, SettingTypes, tokenVars, settings
  <2>2. QED
    BY <1>1, <2>1, MoneyAtRest DEF tokenVars
<1>2. ASSUME NEW d \in DirectCaller, NEW call \in DirectCall, TokenCall(d, d, call)
      PROVE  TokenInv' /\ StepRules
  <2>1. d \in Wallet /\ d \in Address /\ TypedCall(call)
    BY EvmAdminAssumption, EvmTokenAssumption DEF TypedCall, Call
  <2>2. Sender(d, d) = d
    BY DEF Sender, MsgSender
  <2>3. /\ TokenInv' /\ FrozenStep /\ IssueStep
        /\ SenderDecides(d, call)
    BY <1>2, <2>1, <2>2, TokenCallEffect
  <2>4. SignersStep
    BY <2>1, <2>3, EvmAdminAssumption DEF SignersStep, SenderDecides
  <2>5. QED
    BY <2>3, <2>4 DEF StepRules
<1>3. ASSUME NEW c \in AdminContract, UpdateAdminOperationsAddress(TokenOwner, c)
      PROVE  TokenInv' /\ StepRules
  <2>1. TokenInv'
    BY <1>3 DEF UpdateAdminOperationsAddress, TokenInv, AdminInv, EvmAdminTypeOK,
                AmountNeedsApproval, MoneyTypes, SettingTypes
  <2>2. QED
    BY <1>3, <2>1, MoneyAtRest DEF UpdateAdminOperationsAddress
<1> QED
  BY <1>1, <1>2, <1>3, UpgradeEffect DEF TokenNext

\* Whoever submits a request, it is the next of its signer and is used up.
LEMMA ExecutionUsesUp ==
    ASSUME NEW req,
           Execute(req) \/ \E bridge \in Wallet : ExecuteByBridge(bridge, req)
    PROVE  Verify(req) /\ UseUp(req) /\ (InnerCall(req) \/ UNCHANGED evmVars)
  BY DEF Execute, ExecuteByBridge, ExecuteTransaction

\* A request spends the money of its signer, or what somebody allowed.
LEMMA ExecutionEffect ==
    ASSUME TokenInv, nonces \in [Wallet -> Nat], NEW req \in Request,
           Verify(req), UseUp(req), InnerCall(req) \/ UNCHANGED evmVars
    PROVE  TokenInv' /\ StepRules
<1>0. /\ req.from \in Wallet /\ req.from \in Address
      /\ req.to \in {Token} \cup AdminContract
      /\ TypedCall(req.call)
      /\ Forwarder \in Address \ Wallet
  BY EvmAdminAssumption, EvmTokenAssumption, EvmForwarderAssumption DEF TypedCall
<1>1. CASE req.to = Token /\ TokenCall(Forwarder, req.from, req.call)
  <2>1. /\ TokenInv' /\ FrozenStep /\ IssueStep
        /\ SenderDecides(Sender(Forwarder, req.from), req.call)
    BY <1>0, <1>1, TokenCallEffect
  <2>2. Sender(Forwarder, req.from) \in {Forwarder, req.from}
    BY DEF Sender, MsgSender
  <2>3. \A op, amount : req.call.op = op /\ req.call.amount = amount =>
                           Signed(req.from, op, amount)
    <3>1. req.nonce = nonces[req.from] /\ nonces'[req.from] = nonces[req.from] + 1
      BY <1>0 DEF Verify, UseUp
    <3>2. QED
      BY <1>1, <3>1 DEF Signed
  <2>4. SignersStep
    <3> SUFFICES ASSUME NEW w \in Wallet \ DirectCaller
                 PROVE  SignersStep!(w)
      BY DEF SignersStep
    <3>1. w \in Address /\ Sender(Forwarder, req.from) \in Address /\ w # Forwarder
      BY <1>0, <2>2, EvmAdminAssumption
    <3>2. w = Sender(Forwarder, req.from) => w = req.from
      BY <2>2, <3>1
    <3>3. QED
      BY <2>1, <2>3, <3>1, <3>2 DEF SenderDecides
  <2>5. QED
    BY <2>1, <2>4 DEF StepRules
<1>2. CASE req.to \in AdminContract /\ AdminCall(req.to, req.call)
  <2>1. TrustedCall(req.to, Forwarder, req.call.user)
    BY <1>2 DEF AdminCall, TrustedCall
  <2>2. AdminInv'
    BY <1>0, <1>2, <2>1, TrustedCallKeeps DEF TokenInv, TypedCall
  <2>3. TokenInv'
    BY <1>2, <2>2 DEF AdminCall, TokenInv, MoneyTypes, SettingTypes, tokenVars, settings
  <2>4. QED
    BY <1>2, <2>3, MoneyAtRest DEF AdminCall, tokenVars
<1>3. CASE UNCHANGED evmVars
  <2>1. TokenInv'
    BY <1>3 DEF TokenInv, AdminInv, EvmAdminTypeOK, AmountNeedsApproval, MoneyTypes,
                SettingTypes, evmVars, tokenVars, settings
  <2>2. QED
    BY <1>3, <2>1, MoneyAtRest DEF evmVars, tokenVars
<1> QED
  BY <1>1, <1>2, <1>3 DEF InnerCall

-----------------------------------------------------------------------------
(* The promises of ContractPolicy *)

\* A call that leaves the admin contracts and the settings alone changes no rule.
LEMMA RulesStay ==
    ASSUME UNCHANGED <<admin, settings>>
    PROVE  UNCHANGED Contract!rules
  BY DEF Contract!rules, Asked, settings

\* What changes no balance, allowance or supply is a change of the rules.
LEMMA RestGoverns ==
    ASSUME UNCHANGED <<balances, allowances, totalSupply>>
    PROVE  Contract!Govern
  BY DEF Contract!Govern, Contract!ledger

\* A burn of either version, for the holder himself, retires his money.
LEMMA BurnRetires ==
    ASSUME MoneyTypes, NEW h \in Address, NEW amount \in Amount,
           ~paused, Burned(h, amount), UNCHANGED <<admin, allowances, settings>>
    PROVE  Contract!PolicyNext
<1>1. amount \in 0 .. balances[h]
  BY Amounts DEF Burned, MoneyTypes
<1>2. Contract!Retire(h, amount)
  BY RulesStay DEF Contract!Retire, Burned
<1> QED
  BY <1>1, <1>2 DEF Contract!PolicyNext

\* A transfer pays, and retires money if it redeems (ntzs.sol:122-157).
LEMMA TransferPays ==
    ASSUME MoneyTypes, NEW sender \in Address, NEW to \in Address,
           NEW amount \in Amount, Transfer(sender, to, amount)
    PROVE  Contract!PolicyNext
<1>1. ~paused /\ UNCHANGED <<admin, allowances, settings>>
  BY DEF Transfer
<1>2. CASE Burned(sender, amount)
  BY <1>1, <1>2, BurnRetires
<1>3. CASE /\ amount <= balances[sender]
           /\ balances' = Moved(sender, to, amount)
           /\ UNCHANGED totalSupply
  <2>1. amount \in 0 .. balances[sender]
    BY <1>3, Amounts DEF MoneyTypes
  <2>2. {sender, sender, to} \cap Asked.isBlackListed = {}
    BY DEF Transfer, BlackListed
  <2>3. Contract!Pay(sender, sender, to, amount)
    BY <1>1, <1>3, <2>2, RulesStay DEF Contract!Pay, Moved
  <2> QED
    BY <2>1, <2>3 DEF Contract!PolicyNext
<1> QED
  BY <1>2, <1>3 DEF Transfer

\* A payment by allowance uses the allowance up (ntzs.sol:188-205).
LEMMA TransferFromPays ==
    ASSUME MoneyTypes, NEW sender \in Address, NEW from \in Address,
           NEW to \in Address, NEW amount \in Amount,
           TransferFrom(sender, from, to, amount)
    PROVE  Contract!PolicyNext
<1>1. amount \in 0 .. balances[from]
  BY Amounts DEF TransferFrom, MoneyTypes
<1>2. {sender, from, to} \cap Asked.isBlackListed = {}
  BY DEF TransferFrom, BlackListed
<1>3. Contract!Spend(from, sender, amount)
  BY DEF TransferFrom, SpentAllowance, Contract!Spend
<1>4. Contract!Pay(sender, from, to, amount)
  BY <1>2, <1>3, RulesStay DEF TransferFrom, Moved, Contract!Pay
<1> QED
  BY <1>1, <1>4 DEF Contract!PolicyNext

\* Destroyed funds are seized, all of them (ntzs.sol:397-404, ntzs2.sol:253-261).
LEMMA DestructionSeizes ==
    ASSUME MoneyTypes, NEW sender, NEW user \in Address,
           DestroyBlackFunds(sender, user)
    PROVE  Contract!PolicyNext
<1>1. balances[user] \in Nat /\ balances \in [Address -> Nat]
  BY DEF MoneyTypes
<1>2. balances' = [balances EXCEPT ![user] = 0]
  <2>1. balances' = [balances EXCEPT ![user] = balances[user] - balances[user]]
    BY DEF DestroyBlackFunds, Burned
  <2>2. balances[user] - balances[user] = 0
    BY <1>1
  <2> QED
    BY <2>1, <2>2
<1>3. Contract!Seize(user)
  BY <1>2, RulesStay DEF DestroyBlackFunds, Burned, BlackListed, Contract!Seize
<1> QED
  BY <1>3 DEF Contract!PolicyNext

\* A new allowance is its owner's, paused and blacklisted or not.
LEMMA ApproveAllows ==
    ASSUME NEW sender \in Address, NEW spender \in Address, NEW amount \in Amount,
           Approve(sender, spender, amount)
    PROVE  Contract!PolicyNext
<1>1. Contract!Allow(sender, spender, amount)
  BY RulesStay DEF Approve, Contract!Allow, Contract!ledger
<1> QED
  BY <1>1 DEF Contract!PolicyNext, Amount

\* Minting issues: of the rules, only the approval that is used up changes
\* (ntzs.sol:245-273, ntzs2.sol:196-217).
LEMMA MintIssues ==
    ASSUME TokenInv, NEW caller, NEW sender \in Address, NEW to \in Address,
           NEW amount \in Amount, Mint(caller, sender, to, amount)
    PROVE  Contract!PolicyNext
<1> DEFINE Approvals == [k \in Asked.canMint |-> Asked.mintAmount[k]]
<1>1. /\ EvmAdminTypeOK
      /\ adminOperationsContract \in AdminContract
      /\ Asked \in Storage
  BY DEF TokenInv, AdminInv, EvmAdminTypeOK, SettingTypes, Asked
<1>2. /\ ~paused
      /\ sender \in Asked.canMint
      /\ amount = Asked.mintAmount[sender]
      /\ totalSupply + amount <= MaxU256
      /\ totalSupply' = totalSupply + amount
      /\ balances' = [balances EXCEPT ![to] = @ + amount]
      /\ UNCHANGED <<allowances, settings>>
  BY DEF Mint, NewMoney
<1>3. ~({sender, to} \subseteq Asked.isBlackListed)
  BY DEF Mint, MayReceive, BlackListed
<1>4. Asked' = [Asked EXCEPT !.canMint = @ \ {sender},
                             !.mintAmount[sender] =
                                  LeftAmount(adminOperationsContract, sender)]
  BY <1>1, <1>2 DEF Mint, RemoveCanMint, Asked, EvmAdminTypeOK, settings
<1>5. /\ Asked'.canMint = Asked.canMint \ {sender}
      /\ Asked'.isBlackListed = Asked.isBlackListed
      /\ \A k \in Asked.canMint \ {sender} : Asked'.mintAmount[k] = Asked.mintAmount[k]
  BY <1>1, <1>4 DEF Storage
<1>6. Approvals' = [k \in DOMAIN Approvals \ {sender} |-> Approvals[k]]
  BY <1>5
<1>7. Contract!Issue(sender, to)
  BY <1>2, <1>3, <1>5, <1>6 DEF Contract!Issue, settings
<1> QED
  BY <1>2, <1>7 DEF Contract!PolicyNext

\* Every operation that acts for its sender keeps the promises.
LEMMA SenderCallKeepsPromises ==
    ASSUME MoneyTypes, NEW sender \in Address, NEW call, TypedCall(call),
           SenderCall(sender, call)
    PROVE  Contract!PolicyNext
<1> USE DEF TypedCall
<1>1. CASE Transfer(sender, call.user, call.amount)
  BY <1>1, TransferPays
<1>2. CASE TransferFrom(sender, call.from, call.user, call.amount)
  BY <1>2, TransferFromPays
<1>3. CASE Approve(sender, call.user, call.amount)
  BY <1>3, ApproveAllows
<1>8. CASE IncreaseAllowance(sender, call.user, call.amount)
  BY <1>8, NewAllowance, ApproveAllows DEF IncreaseAllowance, MoneyTypes
<1>9. CASE DecreaseAllowance(sender, call.user, call.amount)
  BY <1>9, NewAllowance, ApproveAllows DEF DecreaseAllowance, MoneyTypes
<1>4. CASE BurnByUser(sender, call.amount)
  BY <1>4, BurnRetires DEF BurnByUser
<1>5. CASE PauseToken(sender)
  BY <1>5, RestGoverns DEF PauseToken, Contract!PolicyNext
<1>6. CASE DestroyBlackFunds(sender, call.user)
  BY <1>6, DestructionSeizes
<1>7. CASE UpdateForwarderContract(sender, call.user)
  BY <1>7, RestGoverns DEF UpdateForwarderContract, Contract!PolicyNext
<1> QED
  BY <1>1, <1>2, <1>3, <1>4, <1>5, <1>6, <1>7, <1>8, <1>9 DEF SenderCall

\* Every call of the token does, whoever makes it.
LEMMA TokenCallKeepsPromises ==
    ASSUME TokenInv, NEW caller \in Address, NEW appended \in Address,
           NEW call, TypedCall(call), TokenCall(caller, appended, call)
    PROVE  Contract!PolicyNext
<1>1. MsgSender(caller, appended) \in Address /\ Sender(caller, appended) \in Address
  BY DEF MsgSender, Sender
<1>2. CASE SenderCall(Sender(caller, appended), call)
  BY <1>1, <1>2, SenderCallKeepsPromises DEF TokenInv
<1>3. CASE Mint(caller, MsgSender(caller, appended), call.user, call.amount)
  BY <1>1, <1>3, MintIssues DEF TypedCall
<1> QED
  BY <1>2, <1>3 DEF TokenCall

\* A step of the token and the admin contracts does, the upgrade apart.
LEMMA TokenNextKeepsPromises ==
    ASSUME TokenInv, TokenNext, UNCHANGED version
    PROVE  Contract!PolicyNext
<1> USE DEF Contract!PolicyNext
<1>1. CASE AdminNext /\ UNCHANGED tokenVars
  BY <1>1, RestGoverns DEF tokenVars
<1>2. ASSUME NEW d \in DirectCaller, NEW call \in DirectCall, TokenCall(d, d, call)
      PROVE  Contract!PolicyNext
  <2>1. d \in Address /\ TypedCall(call)
    BY EvmAdminAssumption, EvmTokenAssumption DEF TypedCall, Call
  <2> QED
    BY <1>2, <2>1, TokenCallKeepsPromises
<1>3. ASSUME NEW c \in AdminContract, UpdateAdminOperationsAddress(TokenOwner, c)
      PROVE  Contract!PolicyNext
  BY <1>3, RestGoverns DEF UpdateAdminOperationsAddress
<1>4. ~Upgrade
  BY DEF Upgrade, TokenInv, SettingTypes
<1> QED
  BY <1>1, <1>2, <1>3, <1>4 DEF TokenNext

\* A request does, whatever it carries; if its call fails nothing happens.
LEMMA RequestKeepsPromises ==
    ASSUME TokenInv, NEW req \in Request, InnerCall(req) \/ UNCHANGED evmVars
    PROVE  Contract!PolicyNext
<1> USE DEF Contract!PolicyNext
<1>1. CASE TokenCall(Forwarder, req.from, req.call)
  <2>1. /\ Forwarder \in Address /\ req.from \in Address
        /\ TypedCall(req.call)
    BY EvmAdminAssumption, EvmTokenAssumption, EvmForwarderAssumption DEF TypedCall
  <2> QED
    BY <1>1, <2>1, TokenCallKeepsPromises
<1>2. CASE AdminCall(req.to, req.call)
  BY <1>2, RestGoverns DEF AdminCall, tokenVars
<1>3. CASE UNCHANGED evmVars
  BY <1>3, RestGoverns DEF evmVars, tokenVars
<1> QED
  BY <1>1, <1>2, <1>3 DEF InnerCall

\* The contracts begin as the policy does.
LEMMA PolicyStart == TokenInit => Contract!PolicyInit
<1> SUFFICES ASSUME TokenInit PROVE Contract!PolicyInit
  OBVIOUS
<1>1. \A k \in Address : Asked.mintAmount[k] = 0
  BY EvmTokenAssumption DEF TokenInit, AdminInit, Initialized, Asked
<1>2. Asked.canMint \subseteq Address
  BY EvmAdminAssumption, EvmTokenAssumption DEF TokenInit, AdminInit, Initialized, Asked
<1> QED
  BY <1>1, <1>2 DEF TokenInit, Contract!PolicyInit

\* What BarredMoneyOnlyRetires says of a step.
BarredRetires ==
    \A h \in Address :
       /\ version' = version
       /\ paused \/ BlackListed(h)
       /\ balances'[h] < balances[h]
       => /\ BlackListed(h)
          /\ totalSupply' = totalSupply - (balances[h] - balances'[h])
          /\ paused => balances'[h] = 0

\* Who keeps the promises pays nobody with the money of a barred holder.
LEMMA PromisesRetire ==
    ASSUME TokenInv,
           [version' = version => Contract!PolicyNext]_Contract!policyVars
    PROVE  BarredRetires
<1> SUFFICES ASSUME NEW h \in Address, version' = version,
                    paused \/ BlackListed(h), balances'[h] < balances[h]
             PROVE  /\ BlackListed(h)
                    /\ totalSupply' = totalSupply - (balances[h] - balances'[h])
                    /\ paused => balances'[h] = 0
  BY DEF BarredRetires
<1>0. balances \in [Address -> Nat] /\ totalSupply \in Nat
  BY MoneyFacts DEF MoneyTypes, TokenInv
<1>1. balances' # balances
  BY <1>0
<1>2. ASSUME NEW k \in DOMAIN [x \in Asked.canMint |-> Asked.mintAmount[x]],
             NEW g \in Address, Contract!Issue(k, g)
      PROVE  FALSE
  <2>1. Asked \in Storage
    BY DEF TokenInv, AdminInv, EvmAdminTypeOK, SettingTypes, Asked
  <2>2. k \in Asked.canMint /\ Asked.mintAmount[k] \in Nat
    BY <1>2, <2>1, Amounts DEF Storage
  <2>3. balances' = [balances EXCEPT ![g] = @ + Asked.mintAmount[k]]
    BY <1>2, <2>2 DEF Contract!Issue
  <2> QED
    BY <1>0, <2>2, <2>3
<1>3. ASSUME NEW s \in Address, NEW f \in Address, NEW g \in Address,
             NEW n \in 0 .. balances[f], Contract!Pay(s, f, g, n)
      PROVE  FALSE
  <2>1. /\ ~paused /\ ~BlackListed(f)
        /\ balances' = [[balances EXCEPT ![f] = @ - n] EXCEPT ![g] = @ + n]
    BY <1>3 DEF Contract!Pay, BlackListed
  <2>2. h = f
    BY <1>0, <2>1
  <2> QED
    BY <2>1, <2>2
<1>4. ASSUME NEW f \in Address, NEW n \in 0 .. balances[f], Contract!Retire(f, n)
      PROVE  ~paused /\ totalSupply' = totalSupply - (balances[h] - balances'[h])
  <2>1. /\ ~paused
        /\ totalSupply' = totalSupply - n
        /\ balances' = [balances EXCEPT ![f] = @ - n]
    BY <1>4 DEF Contract!Retire
  <2>2. h = f
    BY <1>0, <2>1
  <2> QED
    BY <1>0, <2>1, <2>2
<1>5. ASSUME NEW f \in Address, Contract!Seize(f)
      PROVE  /\ BlackListed(h)
             /\ balances'[h] = 0
             /\ totalSupply' = totalSupply - balances[h]
  <2>1. /\ BlackListed(f)
        /\ totalSupply' = totalSupply - balances[f]
        /\ balances' = [balances EXCEPT ![f] = 0]
    BY <1>5 DEF Contract!Seize, BlackListed
  <2>2. h = f
    BY <1>0, <2>1
  <2> QED
    BY <1>0, <2>1, <2>2
<1>6. ~Contract!Govern /\ ~UNCHANGED Contract!policyVars
  BY <1>1 DEF Contract!Govern, Contract!ledger, Contract!policyVars
<1>7. ASSUME NEW f \in Address, NEW s \in Address, NEW n, Contract!Allow(f, s, n)
      PROVE  FALSE
  BY <1>1, <1>7 DEF Contract!Allow, Contract!ledger
<1> QED
  BY <1>0, <1>2, <1>3, <1>4, <1>5, <1>6, <1>7 DEF Contract!PolicyNext

-----------------------------------------------------------------------------
(* Replay *)

ReplayInv ==
    /\ nonces \in [Wallet -> Nat]
    /\ \A h \in processedTxHashes : h.from \in Wallet /\ h.nonce \in Nat
    /\ OneRequestPerNonce

ChainInv == TokenInv /\ ReplayInv

\* To use a request up puts the one record of its nonce (forwarder.sol:88-141).
LEMMA UseUpKeepsReplayInv ==
    ASSUME ReplayInv, NEW req \in Request, Verify(req), UseUp(req)
    PROVE  ReplayInv'
<1> DEFINE w == req.from
           new == TxHash(req)
<1>0. w \in Wallet /\ req.nonce \in Nat /\ req.nonce = nonces[w]
  BY EvmForwarderAssumption DEF Verify
<1>1. /\ new.from = w /\ new.nonce = nonces[w]
      /\ processedTxHashes' = processedTxHashes \cup {new}
      /\ nonces' = [nonces EXCEPT ![w] = nonces[w] + 1]
  BY <1>0 DEF UseUp, PreventReplay, TxHash
<1> HIDE DEF new, w
<1>2. /\ nonces \in [Wallet -> Nat]
      /\ \A h \in processedTxHashes :
            h.from \in Wallet /\ h.nonce \in Nat /\ h.nonce < nonces[h.from]
      /\ \A g, h \in processedTxHashes : g.from = h.from /\ g.nonce = h.nonce => g = h
      /\ \A v \in Wallet : \A n \in 0 .. nonces[v] - 1 :
            \E h \in processedTxHashes : h.from = v /\ h.nonce = n
  BY DEF ReplayInv, OneRequestPerNonce
<1>3. /\ nonces' \in [Wallet -> Nat]
      /\ \A v \in Wallet : nonces'[v] = IF v = w THEN nonces[w] + 1 ELSE nonces[v]
  BY <1>0, <1>1, <1>2
<1>4. \A h \in processedTxHashes' :
         h.from \in Wallet /\ h.nonce \in Nat /\ h.nonce < nonces'[h.from]
  BY <1>0, <1>1, <1>2, <1>3
<1>5. \A g, h \in processedTxHashes' : g.from = h.from /\ g.nonce = h.nonce => g = h
  <2>1. \A h \in processedTxHashes : ~(h.from = w /\ h.nonce = nonces[w])
    BY <1>0, <1>2
  <2>2. QED
    BY <1>1, <1>2, <2>1
<1>6. \A v \in Wallet : \A n \in 0 .. nonces'[v] - 1 :
         \E h \in processedTxHashes' : h.from = v /\ h.nonce = n
  <2> SUFFICES ASSUME NEW v \in Wallet, NEW n \in 0 .. nonces'[v] - 1
               PROVE  \E h \in processedTxHashes' : h.from = v /\ h.nonce = n
    OBVIOUS
  <2>1. CASE v = w /\ n = nonces[w]
    BY <1>1, <2>1
  <2>2. CASE ~(v = w /\ n = nonces[w])
    <3>1. n \in 0 .. nonces[v] - 1
      BY <1>0, <1>2, <1>3, <2>2
    <3>2. QED
      BY <1>1, <1>2, <3>1
  <2>3. QED
    BY <2>1, <2>2
<1> QED
  BY <1>3, <1>4, <1>5, <1>6 DEF ReplayInv, OneRequestPerNonce

\* The types of the forwarder's own state, which no other contract touches.
ForwarderTypes ==
    /\ nonces \in [Wallet -> Nat]
    /\ processedTxHashes \subseteq {TxHash(req) : req \in Request}
    /\ authorizedBridges \subseteq Wallet
    /\ forwarderPaused \in BOOLEAN
    /\ forwarderAdmin \in AdminContract

\* A new forwarder has them.
LEMMA ForwarderStartTypes == ForwarderInit => ForwarderTypes
<1> SUFFICES ASSUME ForwarderInit PROVE ForwarderTypes
  OBVIOUS
<1>1. FirstAdmin \in AdminContract
  BY EvmTokenAssumption
<1>2. processedTxHashes = {} /\ authorizedBridges = {}
  BY DEF ForwarderInit
<1>3. /\ nonces \in [Wallet -> Nat]
      /\ forwarderPaused \in BOOLEAN
      /\ forwarderAdmin = FirstAdmin
  BY DEF ForwarderInit
<1> QED
  BY <1>1, <1>2, <1>3 DEF ForwarderTypes

\* A request used up in any order and the owner's settings keep them.
LEMMA ForwarderKeepsTypes ==
    ASSUME ForwarderTypes,
           \/ \E req \in Request : UseUp(req)
           \/ ForwarderSettings
           \/ UNCHANGED forwarderVars
    PROVE  ForwarderTypes'
<1>1. ASSUME NEW req \in Request, UseUp(req)
      PROVE  ForwarderTypes'
  <2>1. req.nonce + 1 \in Nat
    BY EvmForwarderAssumption
  <2>2. nonces' \in [Wallet -> Nat]
    BY <1>1, <2>1 DEF ForwarderTypes, UseUp
  <2>3. processedTxHashes' \subseteq {TxHash(q) : q \in Request}
    BY <1>1 DEF ForwarderTypes, UseUp, PreventReplay
  <2> QED
    BY <1>1, <2>2, <2>3 DEF ForwarderTypes, UseUp
<1>2. CASE ForwarderSettings
  BY <1>2, EvmForwarderAssumption
     DEF ForwarderTypes, ForwarderSettings, AuthorizeBridge, DeauthorizeBridge,
         PauseForwarder, UpdateForwarderAdmin
<1>3. CASE UNCHANGED forwarderVars
  BY <1>3 DEF ForwarderTypes, forwarderVars
<1> QED
  BY <1>1, <1>2, <1>3

\* Freshly deployed contracts satisfy the invariant.
LEMMA ChainInit == ForwarderInit => ChainInv
<1> SUFFICES ASSUME ForwarderInit PROVE ChainInv
  OBVIOUS
<1>0. TokenInit /\ AdminInit
  BY DEF ForwarderInit, TokenInit
<1>1. AdminInv
  <2>1. Initialized(1) \in Storage /\ Initialized(2) \in Storage
    BY EvmAdminAssumption, Amounts DEF Initialized, Storage
  <2>2. EvmAdminTypeOK
    BY <1>0, <2>1 DEF AdminInit, EvmAdminTypeOK
  <2>3. \A c \in AdminContract, a \in Address : admin[c].mintAmount[a] = 0
    BY <1>0 DEF AdminInit, Initialized
  <2>4. QED
    BY <2>2, <2>3 DEF AdminInv, AmountNeedsApproval
<1>2. MoneyTypes /\ SettingTypes
  <2>1. SumOver(balances, Address) = 0
    BY <1>0, EvmTokenAssumption, SumOfZeros DEF TokenInit
  <2> QED
    BY <1>0, <2>1, Amounts, EvmTokenAssumption DEF TokenInit, MoneyTypes, SettingTypes
<1>3. ReplayInv
  BY DEF ForwarderInit, ReplayInv, OneRequestPerNonce
<1> QED
  BY <1>1, <1>2, <1>3 DEF ChainInv, TokenInv

\* Every step of the chain keeps the invariant and the rules of a step.
LEMMA ChainStep ==
    ChainInv /\ [ForwarderNext]_chainVars => ChainInv' /\ StepRules
<1> SUFFICES ASSUME ChainInv, [ForwarderNext]_chainVars
             PROVE  ChainInv' /\ StepRules
  OBVIOUS
<1>0. TokenInv /\ ReplayInv /\ nonces \in [Wallet -> Nat]
  BY DEF ChainInv, ReplayInv
<1>1. ASSUME UNCHANGED <<nonces, processedTxHashes>>
      PROVE  ReplayInv'
  BY <1>0, <1>1 DEF ReplayInv, OneRequestPerNonce
<1>2. ASSUME UNCHANGED evmVars
      PROVE  TokenInv' /\ StepRules
  <2>1. TokenInv'
    BY <1>0, <1>2 DEF TokenInv, AdminInv, EvmAdminTypeOK, AmountNeedsApproval, MoneyTypes,
                      SettingTypes, evmVars, tokenVars, settings
  <2>2. QED
    BY <1>0, <1>2, <2>1, MoneyAtRest DEF evmVars, tokenVars
<1>3. CASE TokenNext /\ UNCHANGED forwarderVars
  BY <1>0, <1>1, <1>3, TokenNextEffect DEF ChainInv, forwarderVars
<1>4. ASSUME NEW req \in Request,
             Execute(req) \/ \E bridge \in Wallet : ExecuteByBridge(bridge, req)
      PROVE  ChainInv' /\ StepRules
  <2>1. Verify(req) /\ UseUp(req) /\ (InnerCall(req) \/ UNCHANGED evmVars)
    BY <1>4, ExecutionUsesUp
  <2>2. TokenInv' /\ StepRules
    BY <1>0, <2>1, ExecutionEffect
  <2>3. ReplayInv'
    BY <1>0, <2>1, UseUpKeepsReplayInv
  <2>4. QED
    BY <2>2, <2>3 DEF ChainInv
<1>5. CASE ForwarderSettings
  <2>1. UNCHANGED evmVars /\ UNCHANGED <<nonces, processedTxHashes>>
    BY <1>5 DEF ForwarderSettings, AuthorizeBridge, DeauthorizeBridge, PauseForwarder,
                UpdateForwarderAdmin
  <2>2. QED
    BY <1>1, <1>2, <2>1 DEF ChainInv
<1>6. CASE UNCHANGED chainVars
  BY <1>1, <1>2, <1>6 DEF ChainInv, chainVars, forwarderVars
<1> QED
  BY <1>3, <1>4, <1>5, <1>6 DEF ForwarderNext

\* The invariant holds throughout.
LEMMA ChainInvariant == ChainSpec => []ChainInv
  BY ChainInit, ChainStep, PTL DEF ChainSpec

-----------------------------------------------------------------------------
(* Theorems *)

\* No amount outlives its approval in a second-version admin contract, whoever
\* calls it: its owner, trusted contracts, the token or the forwarder
\* (Operations2.sol:91-120).
THEOREM ChainAmountNeedsApproval == ChainSpec => []AmountNeedsApproval
<1>1. ChainInv => AmountNeedsApproval
  BY DEF ChainInv, TokenInv, AdminInv
<1> QED
  BY <1>1, ChainInvariant, PTL

\* The nonce and the record of hashes agree, for any set of signed requests
\* (forwarder.sol:79-141).
THEOREM ChainOneRequestPerNonce == ChainSpec => []OneRequestPerNonce
<1>1. ChainInv => OneRequestPerNonce
  BY DEF ChainInv, ReplayInv
<1> QED
  BY <1>1, ChainInvariant, PTL

\* A request that has its turn is never refused as a replay: whatever is on record
\* of its signer has a lower nonce, although a failed call uses its nonce up too
\* (forwarder.sol:79-154).
THEOREM ChainTurnIsNoReplay ==
    ChainSpec => [](\A req \in Request : Verify(req) => TxHash(req) \notin processedTxHashes)
<1>1. ChainInv => \A req \in Request : Verify(req) => TxHash(req) \notin processedTxHashes
  <2> SUFFICES ASSUME ChainInv, NEW req \in Request, Verify(req),
                      TxHash(req) \in processedTxHashes
               PROVE  FALSE
    OBVIOUS
  <2>1. TxHash(req).from = req.from /\ TxHash(req).nonce = nonces[req.from]
    BY DEF Verify, TxHash
  <2>2. TxHash(req).nonce < nonces[TxHash(req).from]
    BY DEF ChainInv, ReplayInv, OneRequestPerNonce
  <2>3. nonces[req.from] \in Nat
    BY EvmForwarderAssumption DEF ChainInv, ReplayInv
  <2> QED
    BY <2>1, <2>2, <2>3
<1> QED
  BY <1>1, ChainInvariant, PTL

\* Frozen money of the second version leaves by destruction only
\* (ntzs2.sol:109-180, 229-261).
THEOREM ChainFreezes == ChainSpec => FrozenUntilDestroyed
<1>1. ChainInv /\ [ForwarderNext]_chainVars => [FrozenStep]_evmVars
  BY ChainStep DEF StepRules
<1> QED
  BY <1>1, ChainInvariant, PTL DEF ChainSpec, FrozenUntilDestroyed, FrozenStep

\* Who only signs requests loses money only as he signed, allowed, was frozen or
\* upgraded, whatever everybody else calls (forwarder.sol:112-154).
THEOREM ChainSignersDecide == ChainSpec => SignersDecide
<1>1. ChainInv /\ [ForwarderNext]_chainVars => [SignersStep]_chainVars
  BY ChainStep DEF StepRules
<1> QED
  BY <1>1, ChainInvariant, PTL DEF ChainSpec, SignersDecide, SignersStep

\* New money needs an approval of the admin contract asked, for its exact amount,
\* and uses it up, for any contracts, calls and requests, and whatever replaces
\* whatever (ntzs.sol:245-273, ntzs2.sol:196-227).
THEOREM ChainNewMoneyApproved == ChainSpec => NewMoneyApproved
<1> DEFINE Approved == totalSupply' > totalSupply =>
                          \E k \in Asked.canMint :
                             /\ totalSupply' - totalSupply = Asked.mintAmount[k]
                             /\ k \notin admin'[adminOperationsContract].canMint
<1>1. ChainInv /\ [ForwarderNext]_chainVars => [Approved]_evmVars
  BY ChainStep DEF StepRules, IssueStep
<1> QED
  BY <1>1, ChainInvariant, PTL DEF ChainSpec, NewMoneyApproved

\* While the admin contract asked is paused the supply does not grow, whoever
\* calls and whatever is upgraded (ntzs2.sol:214-217, Operations2.sol:91-93).
THEOREM ChainPausedAdminStopsMint == ChainSpec => PausedAdminStopsMint
<1> DEFINE Stopped == Asked.paused => totalSupply' <= totalSupply
<1>1. ChainInv /\ [ForwarderNext]_chainVars => [Stopped]_evmVars
  <2> SUFFICES ASSUME ChainInv, [ForwarderNext]_chainVars
               PROVE  Stopped
    OBVIOUS
  <2>1. IssueStep /\ ChainInv'
    BY ChainStep DEF StepRules
  <2>2. totalSupply \in Nat /\ totalSupply' \in Nat
    BY <2>1, MoneyFacts, Amounts DEF ChainInv, TokenInv, MoneyTypes
  <2> QED
    BY <2>1, <2>2 DEF IssueStep
<1> QED
  BY <1>1, ChainInvariant, PTL DEF ChainSpec, PausedAdminStopsMint

\* Under the first version a blacklisted holder gets no new money and a
\* blacklisted minter makes none (ntzs.sol:245-273).
THEOREM ChainFirstVersionBars == ChainSpec => FirstVersionBarsFromIssue
<1> DEFINE Barred == /\ version = 1
                     /\ totalSupply' > totalSupply
                     => /\ \A a \in Address :
                              balances'[a] > balances[a] => ~BlackListed(a)
                        /\ \E k \in Asked.canMint :
                              /\ ~BlackListed(k)
                              /\ k \notin admin'[adminOperationsContract].canMint
<1>1. ChainInv /\ [ForwarderNext]_chainVars => [Barred]_evmVars
  <2> SUFFICES ASSUME ChainInv, [ForwarderNext]_chainVars
               PROVE  Barred
    OBVIOUS
  <2>1. IssueStep
    BY ChainStep DEF StepRules
  <2> QED
    BY <2>1 DEF IssueStep
<1> QED
  BY <1>1, ChainInvariant, PTL DEF ChainSpec, FirstVersionBarsFromIssue

\* The supply is the sum of the balances of all addresses, however many there
\* are: through payments to oneself and to the internal user, burns, destroyed
\* funds, mints up to the largest supply, and the upgrade that reads another part
\* of the storage (ntzs.sol:122-404, ntzs2.sol:109-261).
THEOREM ChainConserves == ChainSpec => []EvmConservation
<1>1. ChainInv => EvmConservation
  BY Books DEF ChainInv, TokenInv, MoneyTypes
<1> QED
  BY <1>1, ChainInvariant, PTL

\* All of the state keeps its types.  No balance leaves 256 bits because none
\* exceeds the supply, and the supply is compared with the largest number when
\* money is made, which no receiver of a payment is (ntzs2.sol:203-217).
THEOREM ChainTypeCorrect == ChainSpec => []EvmForwarderTypeOK
<1>1. ForwarderInit => ForwarderTypes
  BY ForwarderStartTypes
<1>2. ForwarderTypes /\ [ForwarderNext]_chainVars => ForwarderTypes'
  <2> SUFFICES ASSUME ForwarderTypes, [ForwarderNext]_chainVars
               PROVE  ForwarderTypes'
    OBVIOUS
  <2>1. CASE UNCHANGED forwarderVars
    BY <2>1, ForwarderKeepsTypes
  <2>2. ASSUME NEW req \in Request,
               Execute(req) \/ \E bridge \in Wallet : ExecuteByBridge(bridge, req)
        PROVE  ForwarderTypes'
    <3>1. UseUp(req)
      BY <2>2, ExecutionUsesUp
    <3> QED
      BY <3>1, ForwarderKeepsTypes
  <2>3. CASE ForwarderSettings
    BY <2>3, ForwarderKeepsTypes
  <2> QED
    BY <2>1, <2>2, <2>3 DEF ForwarderNext, chainVars
<1>3. ChainInv /\ ForwarderTypes => EvmForwarderTypeOK
  BY TokenTypes DEF ChainInv, EvmForwarderTypeOK, ForwarderTypes
<1> QED
  BY <1>1, <1>2, <1>3, ChainInvariant, PTL DEF ChainSpec

\* The contracts of either version implement ContractPolicy, between deployment
\* and upgrade and after it, for any number of holders, calls and requests, and
\* whatever is replaced: money is issued, paid, retired, seized or allowed one
\* piece at a time and by the rules of the moment (ntzs.sol:122-404,
\* ntzs2.sol:109-279, forwarder.sol:112-154).
THEOREM ChainImplementsContract == ChainSpec => ImplementsContract
<1>1. ForwarderInit => Contract!PolicyInit
  BY PolicyStart DEF ForwarderInit
<1>2. ChainInv /\ [ForwarderNext]_chainVars
         => [version' = version => Contract!PolicyNext]_Contract!policyVars
  <2> SUFFICES ASSUME ChainInv, [ForwarderNext]_chainVars, UNCHANGED version
               PROVE  Contract!PolicyNext
    OBVIOUS
  <2>0. TokenInv
    BY DEF ChainInv
  <2>1. CASE TokenNext
    BY <2>0, <2>1, TokenNextKeepsPromises
  <2>2. ASSUME NEW req \in Request,
               Execute(req) \/ \E bridge \in Wallet : ExecuteByBridge(bridge, req)
        PROVE  Contract!PolicyNext
    BY <2>0, <2>2, ExecutionUsesUp, RequestKeepsPromises
  <2>3. CASE ForwarderSettings \/ UNCHANGED chainVars
    <3>1. UNCHANGED evmVars
      BY <2>3 DEF ForwarderSettings, AuthorizeBridge, DeauthorizeBridge, PauseForwarder,
                  UpdateForwarderAdmin, chainVars
    <3> QED
      BY <3>1, RestGoverns DEF evmVars, tokenVars, Contract!PolicyNext
  <2> QED
    BY <2>1, <2>2, <2>3 DEF ForwarderNext
<1> QED
  BY <1>1, <1>2, ChainInvariant, PTL DEF ChainSpec, ImplementsContract

\* Neither version pays anybody out of the money of a blacklisted holder, and a
\* pause stops all but the destruction of it: a consequence of the promises alone
\* (ntzs.sol:122-404, ntzs2.sol:109-261).
THEOREM ChainOnlyRetiresBarred == ChainSpec => BarredMoneyOnlyRetires
<1>1. ChainInv /\ [version' = version => Contract!PolicyNext]_Contract!policyVars
         => [BarredRetires]_evmVars
  BY PromisesRetire DEF ChainInv
<1> QED
  BY <1>1, ChainInvariant, ChainImplementsContract, PTL
     DEF ImplementsContract, BarredMoneyOnlyRetires, BarredRetires
=============================================================================
