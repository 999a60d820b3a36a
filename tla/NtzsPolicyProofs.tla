-------------------------- MODULE NtzsPolicyProofs --------------------------
(***************************************************************************)
(* The Solana program implements StablecoinPolicy, as long as holders use  *)
(* its instructions and not those of the SPL program (~HoldersCallSpl).    *)
(* Each instruction that touches a balance is matched with the policy's    *)
(* action; every other one is the issuer's government.                     *)
(***************************************************************************)
EXTENDS NtzsProgramProofs

\* The policy starts where the program starts.
LEMMA PolicyInit == ForwarderInit => Policy!PolicyInit
BY DEF ForwarderInit, TokenInit, RolesInit, Policy!PolicyInit

\* A step that touches no balance is government: no blacklisted key is
\* approved after it.
LEMMA GovernStep ==
    ASSUME RolesInv', UNCHANGED <<balance, supply>>
    PROVE  Policy!PolicyNext
<1>1. Policy!Govern
  BY DEF Policy!Govern, Policy!ledger, RolesInv, RolesExcludeBlacklisted,
         RoleHolders, Minters
<1> QED
  BY <1>1 DEF Policy!PolicyNext

\* If no owner changes, every account goes on answering for the same keys.
LEMMA SameAnswers ==
    ASSUME UNCHANGED accountOwner
    PROVE  /\ UNCHANGED [t \in TokenAccount |-> SendsAs(t)]
           /\ UNCHANGED {t \in TokenAccount : accountOwner[t] = TransferAuth[t]}
BY DEF SendsAs

\* What was forwarded under the other configurations.
Elsewhere == [c \in Config \ {Home} |-> forwarded[c]]

\* mint is the policy's Issue.
LEMMA MintIssues ==
    ASSUME TokenTypeOK, NEW w \in Wallet, NEW t \in TokenAccount,
           NEW n \in Amount, MintTokens(w, t, n), UNCHANGED Elsewhere
    PROVE  Policy!PolicyNext
<1>1. w \in DOMAIN canMint \cup canForward
  BY DEF MintTokens, AuthorizeMint, Minters
<1>2. /\ UNCHANGED <<accountOwner, canForward, blacklist, mintPaused, transferPaused>>
      /\ ~mintPaused
      /\ w \notin blacklist /\ accountOwner[t] \notin blacklist
      /\ supply' = supply + n
      /\ balance' = [balance EXCEPT ![t] = @ + n]
  BY DEF MintTokens, AuthorizeMint, Spl!MintTo, pauseVars
<1>3. \/ /\ w \in DOMAIN canMint
         /\ n = canMint[w]
         /\ canMint' = [x \in DOMAIN canMint \ {w} |-> canMint[x]]
      \/ w \in canForward \ DOMAIN canMint /\ UNCHANGED canMint
  BY DEF MintTokens, AuthorizeMint, WithoutApproval, Minters
<1>4. Policy!Issue(w, t, n)
  BY <1>2, <1>3, SameAnswers DEF Policy!Issue, Elsewhere
<1> QED
  BY <1>1, <1>4 DEF Policy!PolicyNext, Amount

\* An SPL burn while transfers are allowed is the policy's Retire.
LEMMA BurnRetires ==
    ASSUME TokenTypeOK, NEW w, NEW t \in TokenAccount, NEW n \in Amount,
           ~transferPaused, Spl!Burn(w, t, n),
           UNCHANGED <<rolesVars, pauseVars, Elsewhere>>
    PROVE  Policy!PolicyNext
<1>1. n \in 0 .. balance[t]
  BY ApprovalsAssumption DEF Spl!Burn, TokenTypeOK, Amount
<1>2. UNCHANGED Policy!rules
  BY SameAnswers DEF Policy!rules, Spl!Burn, rolesVars, pauseVars
<1>3. Policy!Retire(t, n)
  BY <1>2, SameAnswers DEF Policy!Retire, Spl!Burn, Elsewhere
<1> QED
  BY <1>1, <1>3 DEF Policy!PolicyNext

\* An SPL transfer between parties that are not blacklisted, while transfers are
\* allowed, is the policy's Move.
LEMMA TransferMoves ==
    ASSUME TokenTypeOK, NEW w, NEW t \in TokenAccount, NEW u \in TokenAccount,
           NEW n \in Amount, ~transferPaused, Spl!Transfer(w, t, u, n),
           SendsAs(t) \notin blacklist, accountOwner[u] \notin blacklist,
           UNCHANGED <<rolesVars, pauseVars, Elsewhere>>
    PROVE  Policy!PolicyNext
<1>1. n \in 0 .. balance[t]
  BY ApprovalsAssumption DEF Spl!Transfer, TokenTypeOK, Amount
<1>2. UNCHANGED Policy!rules
  BY SameAnswers DEF Policy!rules, Spl!Transfer, rolesVars, pauseVars
<1>3. UNCHANGED supply
  BY DEF Spl!Transfer
<1>4. balance' = [[balance EXCEPT ![t] = @ - n] EXCEPT ![u] = @ + n]
  BY DEF Spl!Transfer
<1>5. UNCHANGED {a \in TokenAccount : accountOwner[a] = TransferAuth[a]}
  BY SameAnswers DEF Spl!Transfer
<1>6. Policy!Move(t, u, n)
  BY <1>2, <1>3, <1>4, <1>5 DEF Policy!Move, Elsewhere
<1> QED
  BY <1>1, <1>6 DEF Policy!PolicyNext

\* An SPL transfer out of a handed-over account, when a message has been taken
\* under another configuration, is the policy's MoveOutside.
LEMMA TransferOutside ==
    ASSUME TokenTypeOK, NEW w, NEW t \in TokenAccount, NEW u \in TokenAccount,
           NEW n \in Amount, Spl!Transfer(w, t, u, n),
           accountOwner[t] = TransferAuth[t], ForwardedElsewhere,
           UNCHANGED <<rolesVars, pauseVars>>
    PROVE  Policy!PolicyNext
<1>1. n \in 0 .. balance[t]
  BY ApprovalsAssumption DEF Spl!Transfer, TokenTypeOK, Amount
<1>2. UNCHANGED Policy!rules
  BY SameAnswers DEF Policy!rules, Spl!Transfer, rolesVars, pauseVars
<1>3. UNCHANGED supply
  BY DEF Spl!Transfer
<1>4. balance' = [[balance EXCEPT ![t] = @ - n] EXCEPT ![u] = @ + n]
  BY DEF Spl!Transfer
<1>5. UNCHANGED {a \in TokenAccount : accountOwner[a] = TransferAuth[a]}
  BY SameAnswers DEF Spl!Transfer
<1>6. Elsewhere' # Elsewhere
  <2>1. PICK c \in Config \ {Home} : forwarded'[c] # forwarded[c]
    BY DEF ForwardedElsewhere
  <2>2. Elsewhere'[c] = forwarded'[c] /\ Elsewhere[c] = forwarded[c]
    BY <2>1 DEF Elsewhere
  <2>3. QED
    BY <2>1, <2>2
<1>7. Policy!MoveOutside(t, u, n)
  BY <1>2, <1>3, <1>4, <1>5, <1>6 DEF Policy!MoveOutside, Elsewhere
<1> QED
  BY <1>1, <1>7 DEF Policy!PolicyNext

\* A wallet that signs for an account is the key the account answers for.
LEMMA OwnerSendsAs ==
    ASSUME NEW t \in TokenAccount, accountOwner[t] \in Wallet
    PROVE  SendsAs(t) = accountOwner[t]
BY TokenAssumption DEF SendsAs

\* Every instruction is a step of the policy.
LEMMA PolicyTokenStep ==
    ASSUME TokenTypeOK, RolesInv', ~HoldersCallSpl, TokenNext,
           UNCHANGED Elsewhere
    PROVE  Policy!PolicyNext
<1>1. ASSUME NEW w \in Deployer, InitializeToken(w) \/ TransferMintAuthority(w)
      PROVE  Policy!PolicyNext
  BY <1>1, GovernStep
     DEF InitializeToken, TransferMintAuthority, Spl!SetMintAuthority
<1>2. ASSUME UNCHANGED splVars
      PROVE  Policy!PolicyNext
  BY <1>2, GovernStep DEF splVars
<1>3. ASSUME NEW t \in TokenAccount, CreateTokenAccount(t)
      PROVE  Policy!PolicyNext
  BY <1>3, GovernStep DEF CreateTokenAccount, Spl!CreateAccount
<1>4. ASSUME NEW w \in Wallet, NEW pause \in BOOLEAN,
             PauseMinting(w, pause) \/ PauseTransfers(w, pause)
      PROVE  Policy!PolicyNext
  BY <1>2, <1>4 DEF PauseMinting, PauseTransfers
<1>5. ASSUME NEW w \in Wallet, NEW t \in TokenAccount, NEW n \in Amount,
             MintTokens(w, t, n)
      PROVE  Policy!PolicyNext
  BY <1>5, MintIssues
<1>6. ASSUME NEW w \in Wallet, NEW t \in TokenAccount, NEW n \in Amount,
             BurnTokens(w, t, n)
      PROVE  Policy!PolicyNext
  BY <1>6, BurnRetires DEF BurnTokens
<1>7. ASSUME NEW w \in Wallet, NEW t \in TokenAccount, NEW u \in TokenAccount,
             NEW n \in Amount, TransferTokens(w, t, u, n)
      PROVE  Policy!PolicyNext
  <2>1. CASE Spl!Burn(w, t, n)
    BY <1>7, <2>1, BurnRetires DEF TransferTokens
  <2>2. CASE Spl!Transfer(w, t, u, n)
    <3>1. SendsAs(t) = w
      BY <2>2, OwnerSendsAs DEF Spl!Transfer
    <3>2. QED
      BY <1>7, <2>2, <3>1, TransferMoves DEF TransferTokens
  <2>3. QED
    BY <1>7, <2>1, <2>2 DEF TransferTokens
<1> QED
  BY <1>1, <1>2, <1>3, <1>4, <1>5, <1>6, <1>7 DEF TokenNext, HolderCallsSpl

\* With forwarding: an account in the program's hands answers for itself, and
\* Execute moves its money under the policy's rules, or in the name of another
\* configuration.
LEMMA PolicyStep ==
    ASSUME ForwarderTypeOK, RolesInv', ~HoldersCallSpl,
           [ForwarderNext]_programVars
    PROVE  [Policy!PolicyNext]_Policy!policyVars
<1>1. CASE TokenNext /\ UNCHANGED forwarderVars
  <2>1. UNCHANGED Elsewhere
    BY <1>1 DEF forwarderVars, Elsewhere
  <2>2. QED
    BY <1>1, <2>1, PolicyTokenStep DEF ForwarderTypeOK
<1>2. CASE \E c \in Config, r \in Request : InitializeUserNonce(c, r.sender)
  BY <1>2, GovernStep DEF InitializeUserNonce, tokenVars, splVars
<1>3. CASE \E w \in Wallet, t \in TokenAccount : HandOverAccount(w, t)
  BY <1>3, GovernStep DEF HandOverAccount, Spl!SetAccountOwner
<1>4. ASSUME NEW c \in Config, NEW w \in Wallet, NEW r \in Request,
             NEW t \in TokenAccount, NEW u \in TokenAccount, NEW n \in Amount,
             Execute(c, w, r, t, u, n)
      PROVE  Policy!PolicyNext
  <2>1. /\ Accept(c, r)
        /\ Permits(c, w, {t, accountOwner[u]})
        /\ Spl!Transfer(TransferAuth[t], t, u, n)
        /\ UNCHANGED <<rolesVars, pauseVars>>
    BY <1>4 DEF Execute, PayForwarded
  <2>2. accountOwner[t] = TransferAuth[t] /\ SendsAs(t) = t
    BY <2>1 DEF Spl!Transfer, SendsAs
  <2>3. CASE c = Home
    <3>1. /\ ~transferPaused
          /\ SendsAs(t) \notin blacklist /\ accountOwner[u] \notin blacklist
      BY <2>1, <2>2, <2>3 DEF Permits
    <3>2. \A d \in Config \ {Home} : forwarded'[d] = forwarded[d]
      BY <2>1, <2>3 DEF Accept, ForwarderTypeOK
    <3>3. UNCHANGED Elsewhere
      BY <3>2 DEF Elsewhere
    <3>4. QED
      BY <2>1, <3>1, <3>3, TransferMoves DEF ForwarderTypeOK
  <2>4. CASE c # Home
    <3>1. forwarded'[c] # forwarded[c]
      <4>1. forwarded'[c][r.sender] = Append(forwarded[c][r.sender], r.nonce)
        BY <2>1, Accepted
      <4>2. forwarded[c][r.sender] \in Seq(Amount) /\ r.nonce \in Amount
        BY <2>1, Accepted DEF ForwarderTypeOK
      <4>3. Append(forwarded[c][r.sender], r.nonce) # forwarded[c][r.sender]
        BY <4>2
      <4>4. QED
        BY <4>1, <4>3
    <3>2. ForwardedElsewhere
      BY <2>4, <3>1 DEF ForwardedElsewhere
    <3>3. QED
      BY <2>1, <2>2, <3>2, TransferOutside DEF ForwarderTypeOK
  <2>5. QED
    BY <2>3, <2>4
<1>5. ASSUME NEW c \in Config, NEW w \in Wallet, NEW r \in Request,
             ExecuteForOtherMint(c, w, r)
      PROVE  Policy!PolicyNext
  BY <1>5, GovernStep DEF ExecuteForOtherMint, tokenVars, splVars
<1>6. CASE UNCHANGED programVars
  <2>1. UNCHANGED <<tokenVars, Elsewhere>>
    BY <1>6 DEF programVars, forwarderVars, Elsewhere
  <2>2. QED
    BY <2>1, SameAnswers
       DEF tokenVars, splVars, rolesVars, pauseVars, Elsewhere,
           Policy!policyVars, Policy!ledger, Policy!rules
<1> QED
  BY <1>1, <1>2, <1>3, <1>4, <1>5, <1>6 DEF ForwarderNext, ExecuteStep

\* The whole program keeps the promises of StablecoinPolicy, whatever the number
\* of accounts, keys, messages and configurations: mint.rs issues, transfer.rs and
\* forwarder.rs move, burn.rs and redemptions retire, and nothing else touches a
\* balance.  Under another configuration forwarder.rs moves handed-over money
\* without the rules (MoveOutside), and that is all it can do.
THEOREM ProgramImplementsPolicy ==
    ASSUME ~HoldersCallSpl
    PROVE  ProgramSpec => ImplementsPolicy
<1>1. ForwarderInit => RolesInv
  BY ExclusionInit DEF ForwarderInit, TokenInit
<1>2. ForwarderTypeOK /\ RolesInv /\ [ForwarderNext]_programVars => RolesInv'
  BY ProgramStepOfRoles, ExclusionStep DEF ForwarderTypeOK, TokenTypeOK
<1>3. ForwarderTypeOK /\ RolesInv' /\ [ForwarderNext]_programVars
         => [Policy!PolicyNext]_Policy!policyVars
  BY PolicyStep
<1> QED
  BY <1>1, <1>2, <1>3, PolicyInit, ProgramTypeCorrect, PTL
     DEF ProgramSpec, ImplementsPolicy, Policy!PolicySpec

-----------------------------------------------------------------------------

\* A transfer that is not a redemption credits nobody the payer would redeem
\* with.
LEMMA TransferNoRedeem ==
    ASSUME TokenTypeOK, NEW w, NEW a \in TokenAccount, NEW b \in TokenAccount,
           NEW n \in Amount, Spl!Transfer(w, a, b, n),
           ~Redeems(SendsAs(a), accountOwner[b])
    PROVE  NoRedeemedCredit
<1> SUFFICES ASSUME NEW t \in TokenAccount, NEW u \in TokenAccount,
                    Redeems(SendsAs(t), accountOwner[u]),
                    balance'[t] < balance[t]
             PROVE  balance'[u] <= balance[u]
  BY DEF NoRedeemedCredit
<1>1. t = a
  BY OwnerPays
<1>2. u # b
  BY <1>1 DEF Redeems
<1>3. QED
  BY <1>2, ApprovalsAssumption DEF Spl!Transfer, TokenTypeOK, Amount

\* A burn credits nobody.
LEMMA BurnNoRedeem ==
    ASSUME TokenTypeOK, NEW w, NEW a \in TokenAccount, NEW n \in Amount,
           Spl!Burn(w, a, n)
    PROVE  NoRedeemedCredit
BY ApprovalsAssumption DEF Spl!Burn, TokenTypeOK, Amount, NoRedeemedCredit

\* In a step in which no balance shrinks there is no redemption.
LEMMA NobodyPays ==
    ASSUME \A t \in TokenAccount : ~(balance'[t] < balance[t])
    PROVE  NoRedeemedCredit
BY DEF NoRedeemedCredit

\* No instruction but a burn takes money from an account its payer would redeem
\* from.
LEMMA RedemptionTokenStep ==
    ASSUME TokenTypeOK, ~HoldersCallSpl, TokenNext
    PROVE  NoRedeemedCredit
<1>0. \A t \in TokenAccount : balance[t] \in Nat
  BY ApprovalsAssumption DEF TokenTypeOK, Amount
<1>1. ASSUME UNCHANGED balance
      PROVE  NoRedeemedCredit
  BY <1>0, <1>1, NobodyPays
<1>2. ASSUME NEW w \in Deployer, InitializeToken(w) \/ TransferMintAuthority(w)
      PROVE  NoRedeemedCredit
  BY <1>1, <1>2 DEF InitializeToken, TransferMintAuthority, Spl!SetMintAuthority
<1>3. ASSUME UNCHANGED splVars
      PROVE  NoRedeemedCredit
  BY <1>1, <1>3 DEF splVars
<1>4. ASSUME NEW t \in TokenAccount, CreateTokenAccount(t)
      PROVE  NoRedeemedCredit
  BY <1>1, <1>4 DEF CreateTokenAccount, Spl!CreateAccount
<1>5. ASSUME NEW w \in Wallet, NEW pause \in BOOLEAN,
             PauseMinting(w, pause) \/ PauseTransfers(w, pause)
      PROVE  NoRedeemedCredit
  BY <1>3, <1>5 DEF PauseMinting, PauseTransfers
<1>6. ASSUME NEW w \in Wallet, NEW t \in TokenAccount, NEW n \in Amount,
             MintTokens(w, t, n)
      PROVE  NoRedeemedCredit
  <2>1. balance' = [balance EXCEPT ![t] = @ + n]
    BY <1>6 DEF MintTokens, Spl!MintTo
  <2>2. QED
    BY <1>0, <2>1, NobodyPays, ApprovalsAssumption DEF TokenTypeOK, Amount
<1>7. ASSUME NEW w \in Wallet, NEW t \in TokenAccount, NEW n \in Amount,
             BurnTokens(w, t, n)
      PROVE  NoRedeemedCredit
  BY <1>7, BurnNoRedeem DEF BurnTokens
<1>8. ASSUME NEW w \in Wallet, NEW t \in TokenAccount, NEW u \in TokenAccount,
             NEW n \in Amount, TransferTokens(w, t, u, n)
      PROVE  NoRedeemedCredit
  <2>1. CASE Spl!Burn(w, t, n)
    BY <2>1, BurnNoRedeem
  <2>2. CASE Spl!Transfer(w, t, u, n) /\ ~Redeems(w, accountOwner[u])
    <3>1. SendsAs(t) = w
      BY <2>2, OwnerSendsAs DEF Spl!Transfer
    <3>2. QED
      BY <2>2, <3>1, TransferNoRedeem
  <2>3. QED
    BY <1>8, <2>1, <2>2 DEF TransferTokens
<1> QED
  BY <1>2, <1>3, <1>4, <1>5, <1>6, <1>7, <1>8 DEF TokenNext, HolderCallsSpl

\* No instruction credits an internal user with the money of an account that
\* answers for an external one (transfer.rs:75-91, forwarder.rs:298-314), whatever
\* the whitelists hold at the time and whatever configuration is named.
THEOREM ProgramRedemptionsBurn ==
    ASSUME ~HoldersCallSpl
    PROVE  ProgramSpec => RedemptionNeverCredits
<1>1. ForwarderTypeOK /\ [ForwarderNext]_programVars => [NoRedeemedCredit]_tokenVars
  <2> SUFFICES ASSUME ForwarderTypeOK, ForwarderNext
               PROVE  [NoRedeemedCredit]_tokenVars
    BY DEF programVars
  <2>0. \A t \in TokenAccount : balance[t] \in Nat
    BY ApprovalsAssumption DEF ForwarderTypeOK, TokenTypeOK, Amount
  <2>1. CASE TokenNext
    BY <2>1, RedemptionTokenStep DEF ForwarderTypeOK
  <2>2. CASE \E c \in Config, r \in Request : InitializeUserNonce(c, r.sender)
    BY <2>2 DEF InitializeUserNonce
  <2>3. CASE \E w \in Wallet, t \in TokenAccount : HandOverAccount(w, t)
    BY <2>0, <2>3, NobodyPays DEF HandOverAccount, Spl!SetAccountOwner
  <2>4. ASSUME NEW c \in Config, NEW w \in Wallet, NEW r \in Request,
               NEW t \in TokenAccount, NEW u \in TokenAccount, NEW n \in Amount,
               Execute(c, w, r, t, u, n)
        PROVE  NoRedeemedCredit
    <3>1. SendsAs(t) = t
      BY <2>4 DEF Execute, PayForwarded, Spl!Transfer, SendsAs
    <3>2. QED
      BY <2>4, <3>1, TransferNoRedeem DEF Execute, PayForwarded, ForwarderTypeOK
  <2>5. ASSUME NEW c \in Config, NEW w \in Wallet, NEW r \in Request,
               ExecuteForOtherMint(c, w, r)
        PROVE  UNCHANGED tokenVars
    BY <2>5 DEF ExecuteForOtherMint
  <2> QED
    BY <2>1, <2>2, <2>3, <2>4, <2>5 DEF ForwarderNext, ExecuteStep
<1> QED
  BY <1>1, ProgramTypeCorrect, PTL DEF ProgramSpec, RedemptionNeverCredits

-----------------------------------------------------------------------------

\* Under the rules of StablecoinPolicy frozen money can only be burnt, or be moved
\* in the name of another configuration when it is entrusted.
LEMMA PolicyFreezes ==
    ASSUME TokenTypeOK, [Policy!PolicyNext]_Policy!policyVars
    PROVE  OnlyBurnsWhenFrozen
<1> SUFFICES ASSUME NEW t \in TokenAccount, balance'[t] < balance[t]
             PROVE  \/ /\ ~transferPaused
                       /\ SendsAs(t) \in blacklist
                          => supply' = supply - (balance[t] - balance'[t])
                    \/ accountOwner[t] = TransferAuth[t] /\ ForwardedElsewhere
  BY DEF OnlyBurnsWhenFrozen
<1>0. balance \in [TokenAccount -> Nat] /\ supply \in Nat
  BY ApprovalsAssumption DEF TokenTypeOK, Amount
<1>1. CASE UNCHANGED balance
  BY <1>0, <1>1
<1>2. ASSUME NEW k, NEW a \in TokenAccount, NEW n \in 0 .. MaxU64, Policy!Issue(k, a, n)
      PROVE  FALSE
  <2>1. balance' = [balance EXCEPT ![a] = @ + n]
    BY <1>2 DEF Policy!Issue
  <2>2. QED
    BY <1>0, <2>1, ApprovalsAssumption
<1>3. ASSUME NEW a \in TokenAccount, NEW b \in TokenAccount, NEW n \in 0 .. balance[a],
             Policy!Move(a, b, n)
      PROVE  ~transferPaused /\ SendsAs(t) \notin blacklist
  <2>1. /\ ~transferPaused
        /\ SendsAs(a) \notin blacklist
        /\ balance' = [[balance EXCEPT ![a] = @ - n] EXCEPT ![b] = @ + n]
    BY <1>3 DEF Policy!Move
  <2>2. t = a
    BY <1>0, <2>1
  <2>3. QED
    BY <2>1, <2>2
<1>4. ASSUME NEW a \in TokenAccount, NEW n \in 0 .. balance[a], Policy!Retire(a, n)
      PROVE  ~transferPaused /\ supply' = supply - (balance[t] - balance'[t])
  <2>1. /\ ~transferPaused
        /\ supply' = supply - n
        /\ balance' = [balance EXCEPT ![a] = @ - n]
    BY <1>4 DEF Policy!Retire
  <2>2. t = a
    BY <1>0, <2>1
  <2>3. QED
    BY <1>0, <2>1, <2>2
<1>5. ASSUME NEW a \in TokenAccount, NEW b \in TokenAccount, NEW n \in 0 .. balance[a],
             Policy!MoveOutside(a, b, n)
      PROVE  accountOwner[t] = TransferAuth[t] /\ ForwardedElsewhere
  <2>1. /\ accountOwner[a] = TransferAuth[a]
        /\ Elsewhere' # Elsewhere
        /\ balance' = [[balance EXCEPT ![a] = @ - n] EXCEPT ![b] = @ + n]
    BY <1>5 DEF Policy!MoveOutside, Elsewhere
  <2>2. t = a
    BY <1>0, <2>1
  <2>3. ForwardedElsewhere
    BY <2>1 DEF Elsewhere, ForwardedElsewhere
  <2>4. QED
    BY <2>1, <2>2, <2>3
<1>6. CASE Policy!Govern
  BY <1>1, <1>6 DEF Policy!Govern, Policy!ledger
<1>7. CASE UNCHANGED Policy!policyVars
  BY <1>1, <1>7 DEF Policy!policyVars, Policy!ledger
<1> QED
  BY <1>2, <1>3, <1>4, <1>5, <1>6, <1>7 DEF Policy!PolicyNext

\* No account loses money while transfers are paused, and a blacklisted key only
\* what it burns, except what is forwarded from a handed-over account under another
\* configuration: a consequence of the refinement (burn.rs:30-54,
\* transfer.rs:53-73, forwarder.rs:27-56, 160-164).
THEOREM ProgramFreezes ==
    ASSUME ~HoldersCallSpl
    PROVE  ProgramSpec => FrozenMoneyOnlyBurns
<1>1. ForwarderTypeOK /\ [Policy!PolicyNext]_Policy!policyVars
         => [OnlyBurnsWhenFrozen]_programVars
  BY PolicyFreezes DEF ForwarderTypeOK
<1> QED
  BY <1>1, ProgramImplementsPolicy, ProgramTypeCorrect, PTL
     DEF ImplementsPolicy, Policy!PolicySpec, FrozenMoneyOnlyBurns
=============================================================================
