------------------------- MODULE NtzsProgramProofs -------------------------
(***************************************************************************)
(* Theorems about the whole Solana program (ProgramSpec of NtzsForwarder): *)
(* its types, what NtzsRolesProofs shows of the roles, and the properties  *)
(* of minting and forwarding.                                              *)
(***************************************************************************)
EXTENDS NtzsForwarder, NtzsRolesProofs, SumProofs

\* Nothing is created, minted or moved before there is a token.
LEMMA TokenTypeInit == TokenInit => TokenTypeOK
<1> SUFFICES ASSUME TokenInit PROVE TokenTypeOK
  OBVIOUS
<1>1. RolesTypeOK
  BY RolesTypeInit DEF TokenInit
<1> QED
  BY <1>1, ZeroIsAmount DEF TokenInit, TokenTypeOK

\* The SPL operations keep balances and supply within u64.
LEMMA SplTypes ==
    ASSUME TokenTypeOK,
           NEW signer, NEW t \in TokenAccount, NEW u \in TokenAccount,
           NEW n \in Amount,
           \/ Spl!MintTo(signer, t, n)
           \/ Spl!Burn(signer, t, n)
           \/ Spl!Transfer(signer, t, u, n)
    PROVE  /\ accountOwner' = accountOwner
           /\ mintAuthority' = mintAuthority
           /\ balance' \in [TokenAccount -> Amount]
           /\ supply' \in Amount
<1> USE ApprovalsAssumption DEF TokenTypeOK, Amount
<1>1. CASE Spl!MintTo(signer, t, n)
  BY <1>1 DEF Spl!MintTo
<1>2. CASE Spl!Burn(signer, t, n)
  BY <1>2 DEF Spl!Burn
<1>3. CASE Spl!Transfer(signer, t, u, n)
  BY <1>3 DEF Spl!Transfer
<1> QED
  BY <1>1, <1>2, <1>3

\* Every instruction of the token changes the roles as an instruction of
\* NtzsRoles does, or not at all.
LEMMA TokenStepOfRoles ==
    TokenTypeOK /\ [TokenNext]_tokenVars => [RolesNext]_rolesVars
<1> SUFFICES ASSUME TokenTypeOK, [TokenNext]_tokenVars
             PROVE  [RolesNext]_rolesVars
  OBVIOUS
<1>1. ASSUME NEW w \in Deployer, InitializeToken(w)
      PROVE  RolesNext
  BY <1>1 DEF InitializeToken, RolesNext
<1>2. ASSUME NEW w \in Deployer, TransferMintAuthority(w)
      PROVE  UNCHANGED rolesVars
  BY <1>2 DEF TransferMintAuthority
<1>3. ASSUME NEW t \in TokenAccount, CreateTokenAccount(t)
      PROVE  UNCHANGED rolesVars
  BY <1>3 DEF CreateTokenAccount
<1>4. ASSUME NEW w \in Wallet, NEW pause \in BOOLEAN,
             PauseMinting(w, pause) \/ PauseTransfers(w, pause)
      PROVE  UNCHANGED rolesVars
  BY <1>4 DEF PauseMinting, PauseTransfers
<1>5. ASSUME NEW w \in Wallet, NEW t \in TokenAccount, NEW n \in Amount,
             MintTokens(w, t, n)
      PROVE  RolesNext
  <2>1. accountOwner[t] \in Key
    BY <1>5 DEF MintTokens, Spl!MintTo, Spl!Exists, TokenTypeOK
  <2>2. QED
    BY <1>5, <2>1 DEF MintTokens, RolesNext
<1>6. ASSUME NEW w \in Wallet, NEW t \in TokenAccount, NEW n \in Amount,
             BurnTokens(w, t, n)
      PROVE  UNCHANGED rolesVars
  BY <1>6 DEF BurnTokens
<1>7. ASSUME NEW w \in Wallet, NEW t \in TokenAccount, NEW u \in TokenAccount,
             NEW n \in Amount,
             TransferTokens(w, t, u, n) \/ HolderCallsSpl(w, t, u, n)
      PROVE  UNCHANGED rolesVars
  BY <1>7 DEF TransferTokens, HolderCallsSpl
<1>8. CASE UNCHANGED tokenVars
  BY <1>8 DEF tokenVars
<1> QED
  BY <1>1, <1>2, <1>3, <1>4, <1>5, <1>6, <1>7, <1>8 DEF TokenNext, RolesNext

\* Type correctness of the token instructions.
LEMMA TokenTypeStep ==
    TokenTypeOK /\ [TokenNext]_tokenVars => TokenTypeOK'
<1> SUFFICES ASSUME TokenTypeOK, [TokenNext]_tokenVars
             PROVE  TokenTypeOK'
  OBVIOUS
<1> DEFINE RestTypeOK == /\ mintPaused \in BOOLEAN
                         /\ transferPaused \in BOOLEAN
                         /\ accountOwner \in [TokenAccount -> Key \cup {NoKey}]
                         /\ balance \in [TokenAccount -> Amount]
                         /\ supply \in Amount
                         /\ mintAuthority \in Key \cup {NoKey}
<1>0. RestTypeOK
  BY DEF TokenTypeOK
<1>1. RolesTypeOK'
  BY TokenStepOfRoles, RolesTypeStep DEF TokenTypeOK
<1>2. ASSUME NEW w \in Deployer, InitializeToken(w)
      PROVE  RestTypeOK'
  BY <1>0, <1>2, RolesAssumption DEF InitializeToken
<1>3. ASSUME NEW w \in Deployer, TransferMintAuthority(w)
      PROVE  RestTypeOK'
  BY <1>0, <1>3, TokenAssumption
     DEF TransferMintAuthority, Spl!SetMintAuthority, pauseVars
<1>4. ASSUME NEW t \in TokenAccount, CreateTokenAccount(t)
      PROVE  RestTypeOK'
  BY <1>0, <1>4, TokenAssumption, RolesAssumption
     DEF CreateTokenAccount, Spl!CreateAccount, pauseVars
<1>5. ASSUME NEW w \in Wallet, NEW pause \in BOOLEAN,
             PauseMinting(w, pause) \/ PauseTransfers(w, pause)
      PROVE  RestTypeOK'
  BY <1>0, <1>5 DEF PauseMinting, PauseTransfers, splVars
<1>6. ASSUME NEW w \in Wallet, NEW t \in TokenAccount, NEW n \in Amount,
             MintTokens(w, t, n)
      PROVE  RestTypeOK'
  BY <1>0, <1>6, SplTypes DEF MintTokens, pauseVars
<1>7. ASSUME NEW w \in Wallet, NEW t \in TokenAccount, NEW n \in Amount,
             BurnTokens(w, t, n)
      PROVE  RestTypeOK'
  BY <1>0, <1>7, SplTypes DEF BurnTokens, pauseVars
<1>8. ASSUME NEW w \in Wallet, NEW t \in TokenAccount, NEW u \in TokenAccount,
             NEW n \in Amount,
             TransferTokens(w, t, u, n) \/ HolderCallsSpl(w, t, u, n)
      PROVE  RestTypeOK'
  <2>1. CASE Spl!MintTo(w, u, n)
    BY <1>0, <1>8, <2>1, SplTypes DEF TransferTokens, HolderCallsSpl, pauseVars
  <2>2. CASE Spl!Burn(w, t, n) \/ Spl!Transfer(w, t, u, n)
    BY <1>0, <1>8, <2>2, SplTypes DEF TransferTokens, HolderCallsSpl, pauseVars
  <2>3. QED
    BY <1>8, <2>1, <2>2 DEF TransferTokens, HolderCallsSpl
<1>9. ASSUME UNCHANGED <<pauseVars, splVars>>
      PROVE  RestTypeOK'
  BY <1>0, <1>9 DEF pauseVars, splVars
<1>10. RestTypeOK'
  BY <1>2, <1>3, <1>4, <1>5, <1>6, <1>7, <1>8, <1>9 DEF TokenNext, tokenVars
<1> QED
  BY <1>1, <1>10 DEF TokenTypeOK

-----------------------------------------------------------------------------

\* No user has a nonce account or a forwarded message to begin with.
LEMMA ForwarderTypeInit == ForwarderInit => ForwarderTypeOK
<1> SUFFICES ASSUME ForwarderInit PROVE ForwarderTypeOK
  OBVIOUS
<1>1. forwarded \in [Config -> [Wallet -> Seq(Amount)]]
  <2>1. <<>> \in Seq(Amount)
    OBVIOUS
  <2> QED
    BY <2>1 DEF ForwarderInit
<1> QED
  BY <1>1, TokenTypeInit DEF ForwarderInit, ForwarderTypeOK

\* What Accept leaves in the three variables of forwarding, one configuration
\* and one user at a time.
LEMMA Accepted ==
    ASSUME ForwarderTypeOK, NEW c \in Config, NEW r \in Request, Accept(c, r)
    PROVE  /\ r.sender \in Wallet /\ r.nonce \in Amount /\ r.nonce \in Nat
           /\ nonce[c][r.sender] \in Nat
           /\ nonce[c][r.sender] < r.nonce
           /\ nonce'[c][r.sender] = r.nonce
           /\ forwarded'[c][r.sender] = Append(forwarded[c][r.sender], r.nonce)
           /\ \A d \in Config, v \in Wallet :
                 d # c \/ v # r.sender => /\ nonce'[d][v] = nonce[d][v]
                                         /\ forwarded'[d][v] = forwarded[d][v]
           /\ nonce' \in [Config -> [Wallet -> Amount \cup {NoNonce}]]
           /\ forwarded' \in [Config -> [Wallet -> Seq(Amount)]]
           /\ isExecuted' \in [Config -> BOOLEAN]
<1>1. r.sender \in Wallet /\ r.nonce \in Amount /\ r.nonce \in Nat
  BY ForwarderAssumption, ApprovalsAssumption DEF Amount
<1>2. nonce[c][r.sender] \in Nat
  BY <1>1, ApprovalsAssumption DEF Accept, ForwarderTypeOK, Amount
<1>3. /\ nonce[c][r.sender] < r.nonce
      /\ nonce' = [nonce EXCEPT ![c][r.sender] = r.nonce]
  BY <1>1, <1>2 DEF Accept, VerifyAndUpdateNonce
<1>4. forwarded' = [forwarded EXCEPT ![c][r.sender] = Append(forwarded[c][r.sender], r.nonce)]
  BY DEF Accept
<1>5. Append(forwarded[c][r.sender], r.nonce) \in Seq(Amount)
  BY <1>1 DEF ForwarderTypeOK
<1>6. isExecuted' \in [Config -> BOOLEAN]
  BY DEF Accept, ForwarderTypeOK
<1>7. /\ nonce' \in [Config -> [Wallet -> Amount \cup {NoNonce}]]
      /\ nonce'[c][r.sender] = r.nonce
      /\ \A d \in Config, v \in Wallet :
            d # c \/ v # r.sender => nonce'[d][v] = nonce[d][v]
  BY <1>1, <1>3 DEF ForwarderTypeOK
<1>8. /\ forwarded' \in [Config -> [Wallet -> Seq(Amount)]]
      /\ forwarded'[c][r.sender] = Append(forwarded[c][r.sender], r.nonce)
      /\ \A d \in Config, v \in Wallet :
            d # c \/ v # r.sender => forwarded'[d][v] = forwarded[d][v]
  BY <1>1, <1>4, <1>5 DEF ForwarderTypeOK
<1> QED
  BY <1>1, <1>2, <1>3, <1>6, <1>7, <1>8

\* Type correctness of the forwarding instructions: the nonce that is stored is
\* the one of a signed message.
LEMMA ForwarderTypeStep ==
    ForwarderTypeOK /\ [ForwarderNext]_programVars => ForwarderTypeOK'
<1> SUFFICES ASSUME ForwarderTypeOK, [ForwarderNext]_programVars
             PROVE  ForwarderTypeOK'
  OBVIOUS
<1> USE DEF ForwarderTypeOK
<1>1. ASSUME TokenNext, UNCHANGED forwarderVars
      PROVE  ForwarderTypeOK'
  BY <1>1, TokenTypeStep DEF forwarderVars
<1>2. ASSUME NEW c \in Config, NEW r \in Request, InitializeUserNonce(c, r.sender)
      PROVE  ForwarderTypeOK'
  <2>1. TokenTypeOK'
    BY <1>2, TokenTypeStep DEF InitializeUserNonce
  <2>2. QED
    BY <1>2, <2>1, ZeroIsAmount DEF InitializeUserNonce
<1>3. ASSUME NEW w \in Wallet, NEW t \in TokenAccount, HandOverAccount(w, t)
      PROVE  ForwarderTypeOK'
  <2>1. RolesTypeOK'
    BY <1>3, RolesTypeStep DEF HandOverAccount, TokenTypeOK
  <2>2. TokenTypeOK'
    BY <1>3, <2>1, TokenAssumption
       DEF HandOverAccount, Spl!SetAccountOwner, TokenTypeOK, pauseVars
  <2>3. QED
    BY <1>3, <2>2 DEF HandOverAccount, forwarderVars
<1>4. ASSUME NEW c \in Config, NEW w \in Wallet, NEW r \in Request,
             NEW t \in TokenAccount, NEW u \in TokenAccount, NEW n \in Amount,
             Execute(c, w, r, t, u, n)
      PROVE  ForwarderTypeOK'
  <2>1. RolesTypeOK'
    BY <1>4, RolesTypeStep DEF Execute, TokenTypeOK
  <2>2. TokenTypeOK'
    BY <1>4, <2>1, SplTypes DEF Execute, PayForwarded, TokenTypeOK, pauseVars
  <2>3. Accept(c, r)
    BY <1>4 DEF Execute
  <2>4. QED
    BY <2>2, <2>3, Accepted
<1>5. ASSUME NEW c \in Config, NEW w \in Wallet, NEW r \in Request,
             ExecuteForOtherMint(c, w, r)
      PROVE  ForwarderTypeOK'
  <2>1. TokenTypeOK'
    BY <1>5, TokenTypeStep DEF ExecuteForOtherMint
  <2>2. Accept(c, r)
    BY <1>5 DEF ExecuteForOtherMint
  <2>3. QED
    BY <2>1, <2>2, Accepted
<1>6. CASE UNCHANGED programVars
  BY <1>6, TokenTypeStep DEF programVars, forwarderVars
<1> QED
  BY <1>1, <1>2, <1>3, <1>4, <1>5, <1>6 DEF ForwarderNext, ExecuteStep

\* Every balance, the supply and every nonce fit u64 and every list holds keys,
\* whatever instructions run in whatever order (all of instructions/).
THEOREM ProgramTypeCorrect == ProgramSpec => []ForwarderTypeOK
BY ForwarderTypeInit, ForwarderTypeStep, PTL DEF ProgramSpec

-----------------------------------------------------------------------------

\* Every instruction of the program changes the roles as an instruction of
\* NtzsRoles does, or not at all.
LEMMA ProgramStepOfRoles ==
    ForwarderTypeOK /\ [ForwarderNext]_programVars => [RolesNext]_rolesVars
<1> SUFFICES ASSUME ForwarderTypeOK, [ForwarderNext]_programVars
             PROVE  [RolesNext]_rolesVars
  OBVIOUS
<1>1. CASE TokenNext
  BY <1>1, TokenStepOfRoles DEF ForwarderTypeOK
<1>2. CASE \E c \in Config, r \in Request : InitializeUserNonce(c, r.sender)
  BY <1>2 DEF InitializeUserNonce, tokenVars
<1>3. CASE \E w \in Wallet, t \in TokenAccount : HandOverAccount(w, t)
  BY <1>3 DEF HandOverAccount
<1>4. CASE ExecuteStep
  BY <1>4 DEF ExecuteStep, Execute, ExecuteForOtherMint, tokenVars
<1>5. CASE UNCHANGED programVars
  BY <1>5 DEF programVars, tokenVars
<1> QED
  BY <1>1, <1>2, <1>3, <1>4, <1>5 DEF ForwarderNext

\* Seen from its roles, the whole program behaves as NtzsRoles says
\* (instructions/admin.rs, initialize.rs, mint.rs): the other instructions open no
\* way around it.
THEOREM ProgramImplementsRoles == ProgramSpec => RolesSpec
<1>1. ForwarderInit => RolesInit
  BY DEF ForwarderInit, TokenInit
<1> QED
  BY <1>1, ProgramStepOfRoles, ProgramTypeCorrect, PTL DEF ProgramSpec, RolesSpec

\* In the whole program no blacklisted key may mint, forward or redeem
\* (admin.rs:303-347).
THEOREM ProgramBlacklistedHoldNoRole == ProgramSpec => []RolesExcludeBlacklisted
BY ProgramImplementsRoles, BlacklistedHoldNoRole, PTL

\* In the whole program no list outgrows its account (initialize.rs:46-117).
THEOREM ProgramListsNeverOverflow == ProgramSpec => []ListsFit
BY ProgramImplementsRoles, ListsNeverOverflow, PTL

-----------------------------------------------------------------------------

\* One more message at the end keeps the order of its user under its
\* configuration, because its nonce is above the stored one and the stored one is
\* above all before it.
LEMMA AcceptKeepsOrder ==
    ASSUME ForwarderTypeOK, ForwardedInOrder,
           NEW c \in Config, NEW r \in Request, Accept(c, r)
    PROVE  ForwardedInOrder'
<1> DEFINE s == r.sender
           used == forwarded[c][s]
           longer == Append(used, r.nonce)
<1>1. /\ s \in Wallet /\ r.nonce \in Nat /\ r.nonce # NoNonce
      /\ nonce[c][s] \in Nat /\ nonce[c][s] < r.nonce
      /\ nonce'[c][s] = r.nonce /\ forwarded'[c][s] = longer
      /\ \A d \in Config, v \in Wallet :
            d # c \/ v # s => nonce'[d][v] = nonce[d][v] /\ forwarded'[d][v] = forwarded[d][v]
  BY Accepted, ForwarderAssumption
<1>2. used \in Seq(Nat) /\ used \in Seq(Amount)
  BY <1>1, ApprovalsAssumption DEF ForwarderTypeOK, Amount
<1>3. /\ \A i, j \in 1 .. Len(used) : i < j => used[i] < used[j]
      /\ \A i \in 1 .. Len(used) : used[i] <= nonce[c][s]
  BY <1>1 DEF ForwardedInOrder
<1>4. \A i \in 1 .. Len(used) : used[i] \in Nat
  BY <1>2
<1>5. /\ Len(longer) = Len(used) + 1
      /\ \A i \in 1 .. Len(used) : longer[i] = used[i]
      /\ longer[Len(used) + 1] = r.nonce
      /\ Len(used) \in Nat
  BY <1>1, <1>2
<1> HIDE DEF s, used, longer
<1>6. \A i \in 1 .. Len(used) : longer[i] < r.nonce
  BY <1>1, <1>3, <1>4, <1>5
<1>7. \A i \in 1 .. Len(longer) : longer[i] <= r.nonce
  BY <1>1, <1>4, <1>5, <1>6
<1>8. ASSUME NEW i \in 1 .. Len(longer), NEW j \in 1 .. Len(longer), i < j
      PROVE  longer[i] < longer[j]
  <2>1. i \in 1 .. Len(used)
    BY <1>5, <1>8
  <2>2. CASE j \in 1 .. Len(used)
    BY <1>3, <1>5, <1>8, <2>1, <2>2
  <2>3. CASE j = Len(used) + 1
    BY <1>5, <1>6, <2>1, <2>3
  <2>4. QED
    BY <1>5, <2>2, <2>3
<1>9. ASSUME NEW d \in Config, NEW v \in Wallet, ~(d = c /\ v = s)
      PROVE  /\ \A i, j \in 1 .. Len(forwarded'[d][v]) :
                   i < j => forwarded'[d][v][i] < forwarded'[d][v][j]
             /\ \A i \in 1 .. Len(forwarded'[d][v]) : forwarded'[d][v][i] <= nonce'[d][v]
             /\ nonce'[d][v] = NoNonce => forwarded'[d][v] = <<>>
  BY <1>1, <1>9 DEF ForwardedInOrder
<1> QED
  BY <1>1, <1>7, <1>8, <1>9 DEF ForwardedInOrder

\* No other step adds a message or touches a nonce that is in use.
LEMMA OrderStep ==
    ForwarderTypeOK /\ ForwardedInOrder /\ [ForwarderNext]_programVars
        => ForwardedInOrder'
<1> SUFFICES ASSUME ForwarderTypeOK, ForwardedInOrder,
                    [ForwarderNext]_programVars
             PROVE  ForwardedInOrder'
  OBVIOUS
<1>1. ASSUME UNCHANGED <<nonce, forwarded>>
      PROVE  ForwardedInOrder'
  BY <1>1 DEF ForwardedInOrder
<1>2. ASSUME NEW c \in Config, NEW w \in Wallet, InitializeUserNonce(c, w)
      PROVE  ForwardedInOrder'
  <2>1. forwarded' = forwarded /\ forwarded[c][w] = <<>>
    BY <1>2 DEF InitializeUserNonce, ForwardedInOrder
  <2>2. \A d \in Config, v \in Wallet : d # c \/ v # w => nonce'[d][v] = nonce[d][v]
    BY <1>2 DEF InitializeUserNonce, ForwarderTypeOK
  <2>3. nonce'[c][w] = 0 /\ 0 # NoNonce
    BY <1>2, ForwarderAssumption DEF InitializeUserNonce, ForwarderTypeOK
  <2>4. QED
    BY <2>1, <2>2, <2>3 DEF ForwardedInOrder
<1>3. CASE \E c \in Config, r \in Request : InitializeUserNonce(c, r.sender)
  BY <1>2, <1>3, ForwarderAssumption
<1>4. CASE ExecuteStep
  BY <1>4, AcceptKeepsOrder DEF ExecuteStep, Execute, ExecuteForOtherMint
<1>5. ASSUME NEW w \in Wallet, NEW t \in TokenAccount, HandOverAccount(w, t)
      PROVE  UNCHANGED <<nonce, forwarded>>
  BY <1>5 DEF HandOverAccount, forwarderVars
<1> QED
  BY <1>1, <1>3, <1>4, <1>5 DEF ForwarderNext, programVars, forwarderVars

\* For any number of users, messages and configurations, however a relayer repeats
\* and reorders the messages, each nonce of a user takes effect at most once under
\* a configuration and never after a later one (can_forward.rs:83-92,
\* forwarder.rs:41-49, 272-274).
THEOREM ProgramForwardsInOrder == ProgramSpec => []ForwardedInOrder
<1>1. ForwarderInit => ForwardedInOrder
  BY DEF ForwarderInit, ForwardedInOrder
<1> QED
  BY <1>1, OrderStep, ProgramTypeCorrect, PTL DEF ProgramSpec

-----------------------------------------------------------------------------

\* Only the account an SPL operation names as its source gets poorer, and only
\* at the word of its owner.
LEMMA OwnerPays ==
    ASSUME TokenTypeOK,
           NEW signer, NEW t \in TokenAccount, NEW u \in TokenAccount,
           NEW n \in Amount,
           \/ Spl!MintTo(signer, t, n)
           \/ Spl!Burn(signer, t, n)
           \/ Spl!Transfer(signer, t, u, n),
           NEW v \in TokenAccount, balance'[v] < balance[v]
    PROVE  v = t /\ signer = accountOwner[t]
<1> USE ApprovalsAssumption DEF TokenTypeOK, Amount
<1>1. CASE Spl!MintTo(signer, t, n)
  BY <1>1 DEF Spl!MintTo
<1>2. CASE Spl!Burn(signer, t, n)
  BY <1>2 DEF Spl!Burn
<1>3. CASE Spl!Transfer(signer, t, u, n)
  BY <1>3 DEF Spl!Transfer
<1> QED
  BY <1>1, <1>2, <1>3

\* In every step but a forwarded one, an account that gets poorer belongs to the
\* wallet that signed.
LEMMA HolderPays ==
    ASSUME TokenTypeOK, TokenNext,
           NEW v \in TokenAccount, balance'[v] < balance[v]
    PROVE  accountOwner[v] \in Wallet
<1>0. balance[v] \in Nat
  BY ApprovalsAssumption DEF TokenTypeOK, Amount
<1>1. ASSUME balance' = balance
      PROVE  FALSE
  BY <1>0, <1>1
<1>2. ASSUME NEW w \in Deployer, InitializeToken(w) \/ TransferMintAuthority(w)
      PROVE  FALSE
  BY <1>1, <1>2 DEF InitializeToken, TransferMintAuthority, Spl!SetMintAuthority
<1>3. ASSUME UNCHANGED <<pauseVars, splVars>>
      PROVE  FALSE
  BY <1>1, <1>3 DEF splVars
<1>4. ASSUME NEW t \in TokenAccount, CreateTokenAccount(t)
      PROVE  FALSE
  BY <1>1, <1>4 DEF CreateTokenAccount, Spl!CreateAccount
<1>5. ASSUME NEW w \in Wallet, NEW pause \in BOOLEAN,
             PauseMinting(w, pause) \/ PauseTransfers(w, pause)
      PROVE  FALSE
  BY <1>1, <1>5 DEF PauseMinting, PauseTransfers, splVars
<1>6. ASSUME NEW w \in Wallet, NEW t \in TokenAccount, NEW n \in Amount,
             MintTokens(w, t, n)
      PROVE  FALSE
  BY <1>0, <1>6, ApprovalsAssumption
     DEF MintTokens, Spl!MintTo, TokenTypeOK, Amount
<1>7. ASSUME NEW w \in Wallet, NEW t \in TokenAccount, NEW n \in Amount,
             BurnTokens(w, t, n)
      PROVE  accountOwner[v] \in Wallet
  BY <1>7, OwnerPays DEF BurnTokens
<1>8. ASSUME NEW w \in Wallet, NEW t \in TokenAccount, NEW u \in TokenAccount,
             NEW n \in Amount,
             TransferTokens(w, t, u, n) \/ HolderCallsSpl(w, t, u, n)
      PROVE  accountOwner[v] \in Wallet
  <2>1. CASE Spl!MintTo(w, u, n)
    BY <2>1, OwnerPays
  <2>2. CASE Spl!Burn(w, t, n) \/ Spl!Transfer(w, t, u, n)
    BY <2>2, OwnerPays
  <2>3. QED
    BY <1>8, <2>1, <2>2 DEF TransferTokens, HolderCallsSpl
<1> QED
  BY <1>2, <1>3, <1>4, <1>5, <1>6, <1>7, <1>8 DEF TokenNext

\* A handed-over account has no wallet for an owner, so only Execute is left.
LEMMA PaidByRequestStep ==
    ForwarderTypeOK /\ [ForwarderNext]_programVars => [PaidByRequest]_programVars
<1> SUFFICES ASSUME ForwarderTypeOK, ForwarderNext,
                    NEW t \in TokenAccount,
                    accountOwner[t] = TransferAuth[t],
                    balance'[t] < balance[t]
             PROVE  \E c \in Config, r \in Request : UsesMessage(c, r)
  BY DEF PaidByRequest
<1>0. balance[t] \in Nat
  BY ApprovalsAssumption DEF ForwarderTypeOK, TokenTypeOK, Amount
<1>1. CASE TokenNext
  BY <1>1, HolderPays, TokenAssumption DEF ForwarderTypeOK
<1>2. CASE \E c \in Config, r \in Request : InitializeUserNonce(c, r.sender)
  BY <1>0, <1>2 DEF InitializeUserNonce, tokenVars, splVars
<1>3. CASE \E w \in Wallet, a \in TokenAccount : HandOverAccount(w, a)
  BY <1>0, <1>3 DEF HandOverAccount, Spl!SetAccountOwner
<1>4. ASSUME NEW c \in Config, NEW r \in Request, Accept(c, r)
      PROVE  UsesMessage(c, r)
  BY <1>4, Accepted, ForwarderAssumption DEF UsesMessage
<1>5. CASE ExecuteStep
  BY <1>4, <1>5 DEF ExecuteStep, Execute, ExecuteForOtherMint
<1> QED
  BY <1>1, <1>2, <1>3, <1>5 DEF ForwarderNext

\* An account in the program's hands pays only at the cost of a message that is
\* unused under the configuration it is submitted to (forwarder.rs:27-56,
\* 154-340), whatever else its former owner, the admins and the relayers do.
THEOREM ProgramPaysByRequest == ProgramSpec => HandedOverPaysByRequest
BY ProgramTypeCorrect, PaidByRequestStep, PTL
   DEF ProgramSpec, HandedOverPaysByRequest

-----------------------------------------------------------------------------

\* The accounts of the program are created once and stay.
LEMMA CreatedStays == [RolesNext]_rolesVars => created \subseteq created'
BY DEF RolesNext, AdminStep, rolesVars, Initialize, InitializeSecondary,
       InitializeThird, AddCanMint, RemoveCanMint, SetMintAmount,
       RemoveMintAmount, AuthorizeMint, AddBlackList, RemoveBlackList,
       AddTrustedContract, RemoveTrustedContract, WhitelistInternalUser,
       BlacklistInternalUser, WhitelistExternalUser, BlacklistExternalUser,
       AddCanForward, RemoveCanForward

\* The supply grows in no other instruction than mint, and the mint changes
\* hands only while nothing has been minted.
LEMMA HandoverTokenStep ==
    ~HoldersCallSpl /\ TokenTypeOK /\ NoSupplyBeforeHandover /\ TokenNext
        => NoSupplyBeforeHandover'
<1> SUFFICES ASSUME ~HoldersCallSpl, TokenTypeOK, NoSupplyBeforeHandover, TokenNext,
                    supply' > 0
             PROVE  /\ mintAuthority' = MintPda
                    /\ {"primary", "secondary"} \subseteq created'
  BY DEF NoSupplyBeforeHandover
<1> DEFINE Goal == /\ mintAuthority' = MintPda
                   /\ {"primary", "secondary"} \subseteq created'
<1>0. supply \in Nat /\ created \subseteq created'
  BY TokenStepOfRoles, CreatedStays, ApprovalsAssumption DEF TokenTypeOK, Amount
<1>1. ASSUME supply' <= supply, mintAuthority' = mintAuthority
      PROVE  Goal
  <2>1. supply > 0
    BY <1>0, <1>1, TokenTypeStep, ApprovalsAssumption DEF TokenTypeOK, Amount
  <2>2. QED
    BY <1>0, <1>1, <2>1 DEF NoSupplyBeforeHandover
<1>2. ASSUME NEW w \in Deployer, InitializeToken(w)
      PROVE  Goal
  BY <1>0, <1>2 DEF InitializeToken, Initialize, NoSupplyBeforeHandover
<1>3. ASSUME NEW w \in Deployer, TransferMintAuthority(w)
      PROVE  Goal
  <2>1. supply > 0 /\ mintAuthority = w
    BY <1>0, <1>3 DEF TransferMintAuthority, Spl!SetMintAuthority
  <2>2. QED
    BY <2>1, TokenAssumption, RolesAssumption DEF NoSupplyBeforeHandover
<1>4. ASSUME UNCHANGED splVars
      PROVE  Goal
  BY <1>0, <1>1, <1>4 DEF splVars
<1>5. ASSUME NEW t \in TokenAccount, CreateTokenAccount(t)
      PROVE  Goal
  BY <1>0, <1>1, <1>5 DEF CreateTokenAccount, Spl!CreateAccount
<1>6. ASSUME NEW w \in Wallet, NEW pause \in BOOLEAN,
             PauseMinting(w, pause) \/ PauseTransfers(w, pause)
      PROVE  Goal
  BY <1>4, <1>6 DEF PauseMinting, PauseTransfers
<1>7. ASSUME NEW w \in Wallet, NEW t \in TokenAccount, NEW n \in Amount,
             MintTokens(w, t, n)
      PROVE  Goal
  BY <1>0, <1>7 DEF MintTokens, AuthorizeMint, Spl!MintTo
<1>8. ASSUME NEW w \in Wallet, NEW t \in TokenAccount, NEW u \in TokenAccount,
             NEW n \in Amount,
             Spl!Burn(w, t, n) \/ Spl!Transfer(w, t, u, n)
      PROVE  Goal
  BY <1>0, <1>1, <1>8, ApprovalsAssumption DEF Spl!Burn, Spl!Transfer, Amount
<1> HIDE DEF Goal
<1>9. ASSUME NEW w \in Wallet, NEW t \in TokenAccount, NEW n \in Amount,
             BurnTokens(w, t, n)
      PROVE  Goal
  BY <1>8, <1>9 DEF BurnTokens
<1>10. ASSUME NEW w \in Wallet, NEW t \in TokenAccount, NEW u \in TokenAccount,
              NEW n \in Amount,
              TransferTokens(w, t, u, n) \/ HolderCallsSpl(w, t, u, n)
       PROVE  Goal
  BY <1>8, <1>10 DEF TransferTokens, HolderCallsSpl
<1>11. Goal
  BY <1>2, <1>3, <1>4, <1>5, <1>6, <1>7, <1>9, <1>10 DEF TokenNext
<1> QED
  BY <1>11 DEF Goal

\* An execution leaves the mint and the roles alone.
LEMMA ExecuteKeepsMint ==
    ExecuteStep => UNCHANGED <<supply, mintAuthority, rolesVars>>
<1>1. ASSUME NEW c, NEW w, NEW r, NEW t, NEW u, NEW n, Execute(c, w, r, t, u, n)
      PROVE  UNCHANGED <<supply, mintAuthority, rolesVars>>
  BY <1>1 DEF Execute, PayForwarded, Spl!Transfer
<1>2. ASSUME NEW c, NEW w, NEW r, ExecuteForOtherMint(c, w, r)
      PROVE  UNCHANGED <<supply, mintAuthority, rolesVars>>
  BY <1>2 DEF ExecuteForOtherMint, tokenVars, splVars
<1> QED
  BY <1>1, <1>2 DEF ExecuteStep

\* Forwarding neither mints nor hands the mint over.
LEMMA HandoverStep ==
    ~HoldersCallSpl /\ ForwarderTypeOK /\ NoSupplyBeforeHandover
      /\ [ForwarderNext]_programVars
        => NoSupplyBeforeHandover'
<1> SUFFICES ASSUME ~HoldersCallSpl, ForwarderTypeOK, NoSupplyBeforeHandover,
                    [ForwarderNext]_programVars
             PROVE  NoSupplyBeforeHandover'
  OBVIOUS
<1>1. ASSUME UNCHANGED <<supply, mintAuthority, created>>
      PROVE  NoSupplyBeforeHandover'
  BY <1>1 DEF NoSupplyBeforeHandover
<1>2. CASE TokenNext
  BY <1>2, HandoverTokenStep DEF ForwarderTypeOK
<1>3. CASE \E c \in Config, r \in Request : InitializeUserNonce(c, r.sender)
  BY <1>1, <1>3 DEF InitializeUserNonce, tokenVars, splVars, rolesVars
<1>4. CASE \E w \in Wallet, t \in TokenAccount : HandOverAccount(w, t)
  BY <1>1, <1>4 DEF HandOverAccount, Spl!SetAccountOwner, rolesVars
<1>5. CASE ExecuteStep
  BY <1>1, <1>5, ExecuteKeepsMint DEF rolesVars
<1>6. CASE UNCHANGED programVars
  BY <1>1, <1>6 DEF programVars, tokenVars, splVars, rolesVars
<1> QED
  BY <1>2, <1>3, <1>4, <1>5, <1>6 DEF ForwarderNext

\* As long as the deployer still holds the mint and does not use it himself,
\* whatever roles have been given out already, there is no money
\* (initialize.rs:34-40, mint.rs:102-130).
THEOREM ProgramMintsAfterHandover ==
    ASSUME ~HoldersCallSpl
    PROVE  ProgramSpec => []NoSupplyBeforeHandover
<1>1. ForwarderInit => NoSupplyBeforeHandover
  BY DEF ForwarderInit, TokenInit, NoSupplyBeforeHandover
<1> QED
  BY <1>1, HandoverStep, ProgramTypeCorrect, PTL DEF ProgramSpec

-----------------------------------------------------------------------------

\* Once the program holds the mint, only mint makes money, and it uses up the
\* approval it finds: no wallet can sign for the mint any more.
LEMMA NewMoneyTokenStep ==
    ASSUME TokenTypeOK, TokenNext, supply' > supply, mintAuthority = MintPda
    PROVE  NewMoneyBacked
<1>0. supply \in Nat
  BY ApprovalsAssumption DEF TokenTypeOK, Amount
<1>1. ASSUME supply' = supply
      PROVE  FALSE
  BY <1>0, <1>1
<1>2. ASSUME NEW w \in Deployer, InitializeToken(w) \/ TransferMintAuthority(w)
      PROVE  FALSE
  BY <1>1, <1>2 DEF InitializeToken, TransferMintAuthority, Spl!SetMintAuthority
<1>3. ASSUME UNCHANGED splVars
      PROVE  FALSE
  BY <1>1, <1>3 DEF splVars
<1>4. ASSUME NEW t \in TokenAccount, CreateTokenAccount(t)
      PROVE  FALSE
  BY <1>1, <1>4 DEF CreateTokenAccount, Spl!CreateAccount
<1>5. ASSUME NEW w \in Wallet, NEW pause \in BOOLEAN,
             PauseMinting(w, pause) \/ PauseTransfers(w, pause)
      PROVE  FALSE
  BY <1>3, <1>5 DEF PauseMinting, PauseTransfers
<1>6. ASSUME NEW w \in Wallet, NEW t \in TokenAccount, NEW u \in TokenAccount,
             NEW n \in Amount,
             Spl!Burn(w, t, n) \/ Spl!Transfer(w, t, u, n) \/ Spl!MintTo(w, u, n)
      PROVE  FALSE
  <2>1. CASE Spl!Burn(w, t, n) \/ Spl!Transfer(w, t, u, n)
    BY <1>0, <1>1, <2>1, ApprovalsAssumption DEF Spl!Burn, Spl!Transfer, Amount
  <2>2. CASE Spl!MintTo(w, u, n)
    BY <2>2, TokenAssumption DEF Spl!MintTo
  <2>3. QED
    BY <1>6, <2>1, <2>2
<1>7. ASSUME NEW w \in Wallet, NEW t \in TokenAccount, NEW u \in TokenAccount,
             NEW n \in Amount,
             \/ BurnTokens(w, t, n)
             \/ TransferTokens(w, t, u, n)
             \/ HolderCallsSpl(w, t, u, n)
      PROVE  FALSE
  BY <1>6, <1>7 DEF BurnTokens, TransferTokens, HolderCallsSpl
<1>8. ASSUME NEW w \in Wallet, NEW t \in TokenAccount, NEW n \in Amount,
             MintTokens(w, t, n)
      PROVE  NewMoneyBacked
  <2>1. AuthorizeMint(w, accountOwner[t], n) /\ w \in Wallet \ blacklist
    BY <1>8 DEF MintTokens, AuthorizeMint
  <2>2. supply' - supply = n
    BY <1>0, <1>8, ApprovalsAssumption DEF MintTokens, Spl!MintTo, Amount
  <2>3. w \in Minters => n = canMint[w] /\ w \notin DOMAIN canMint'
    BY <2>1, WithoutApprovalType DEF AuthorizeMint, TokenTypeOK, RolesTypeOK
  <2>4. w \in Minters \/ w \in canForward \ Minters
    BY <2>1 DEF AuthorizeMint
  <2>5. QED
    BY <2>1, <2>2, <2>3, <2>4 DEF NewMoneyBacked
<1> QED
  BY <1>2, <1>3, <1>4, <1>5, <1>7, <1>8 DEF TokenNext

\* Once the program holds the mint, new money is the exact amount of an approval
\* that is gone afterwards, or a forwarder's (mint.rs:75-130), in the whole program
\* and for all its callers.
THEOREM ProgramSupplyBacked == ProgramSpec => SupplyBacked
<1>1. ForwarderTypeOK /\ [ForwarderNext]_programVars => [NewMoneyBacked]_tokenVars
  <2> SUFFICES ASSUME ForwarderTypeOK, ForwarderNext, supply' > supply,
                      mintAuthority = MintPda
               PROVE  NewMoneyBacked
    BY DEF programVars, NewMoneyBacked
  <2>0. supply \in Nat
    BY ApprovalsAssumption DEF ForwarderTypeOK, TokenTypeOK, Amount
  <2>1. CASE TokenNext
    BY <2>1, NewMoneyTokenStep DEF ForwarderTypeOK
  <2>2. CASE \E c \in Config, r \in Request : InitializeUserNonce(c, r.sender)
    BY <2>0, <2>2 DEF InitializeUserNonce, tokenVars, splVars
  <2>3. CASE \E w \in Wallet, t \in TokenAccount : HandOverAccount(w, t)
    BY <2>0, <2>3 DEF HandOverAccount, Spl!SetAccountOwner
  <2>4. CASE ExecuteStep
    BY <2>0, <2>4, ExecuteKeepsMint
  <2> QED
    BY <2>1, <2>2, <2>3, <2>4 DEF ForwarderNext
<1> QED
  BY <1>1, ProgramTypeCorrect, PTL DEF ProgramSpec, SupplyBacked

-----------------------------------------------------------------------------

\* Conservation, with the sum as SumProofs knows it.
LEMMA Books ==
    /\ Conservation <=> supply = SumOver(balance, TokenAccount)
    /\ Conservation' <=> supply' = SumOver(balance', TokenAccount)
BY DEF Conservation, SumOver, MapThenSumSet, MapThenFoldSet

\* What an SPL operation adds to the balances it adds to the supply.
LEMMA SplConserves ==
    ASSUME TokenTypeOK, Conservation,
           NEW signer, NEW t \in TokenAccount, NEW u \in TokenAccount,
           NEW n \in Amount,
           \/ Spl!MintTo(signer, t, n)
           \/ Spl!Burn(signer, t, n)
           \/ Spl!Transfer(signer, t, u, n)
    PROVE  Conservation'
<1> DEFINE before == SumOver(balance, TokenAccount)
           after == SumOver(balance', TokenAccount)
<1>0. /\ IsFiniteSet(TokenAccount)
      /\ balance \in [TokenAccount -> Int]
      /\ balance[t] \in Int /\ balance[u] \in Int /\ supply \in Int /\ n \in Int
  BY TokenAssumption, ApprovalsAssumption DEF TokenTypeOK, Amount
<1>1. balance' \in [TokenAccount -> Int]
  <2>1. balance' \in [TokenAccount -> Amount]
    BY SplTypes
  <2>2. QED
    BY <2>1, ApprovalsAssumption DEF Amount
<1>2. supply = before
  BY Books
<1>3. CASE Spl!MintTo(signer, t, n)
  <2>1. /\ \A a \in TokenAccount \ {t} : balance'[a] = balance[a]
        /\ balance'[t] = balance[t] + n
        /\ supply' = supply + n
    BY <1>0, <1>3 DEF Spl!MintTo
  <2>2. after = before - balance[t] + balance'[t]
    BY <1>0, <1>1, <2>1, SumChanged
  <2>3. supply' = after
    BY <1>0, <1>2, <2>1, <2>2
  <2>4. QED
    BY <2>3, Books
<1>4. CASE Spl!Burn(signer, t, n)
  <2>1. /\ \A a \in TokenAccount \ {t} : balance'[a] = balance[a]
        /\ balance'[t] = balance[t] - n
        /\ supply' = supply - n
    BY <1>0, <1>4 DEF Spl!Burn
  <2>2. after = before - balance[t] + balance'[t]
    BY <1>0, <1>1, <2>1, SumChanged
  <2>3. supply' = after
    BY <1>0, <1>2, <2>1, <2>2
  <2>4. QED
    BY <2>3, Books
<1>5. CASE Spl!Transfer(signer, t, u, n) /\ t # u
  <2>1. /\ \A a \in TokenAccount \ {t, u} : balance'[a] = balance[a]
        /\ balance'[t] = balance[t] - n
        /\ balance'[u] = balance[u] + n
        /\ supply' = supply
    BY <1>0, <1>5 DEF Spl!Transfer
  <2>2. balance[t] + balance[u] = balance'[t] + balance'[u]
    BY <1>0, <2>1
  <2>3. after = before
    BY <1>0, <1>1, <1>5, <2>1, <2>2, SumMoved
  <2>4. QED
    BY <1>2, <2>1, <2>3, Books
<1>6. CASE Spl!Transfer(signer, t, u, n) /\ t = u
  <2>1. balance' = balance /\ supply' = supply
    BY <1>0, <1>6 DEF Spl!Transfer
  <2>2. QED
    BY <1>2, <2>1, Books
<1> QED
  BY <1>3, <1>4, <1>5, <1>6

\* No instruction of the program changes balances or supply but by one SPL
\* operation.
LEMMA ConservationStep ==
    ForwarderTypeOK /\ Conservation /\ [ForwarderNext]_programVars => Conservation'
<1> SUFFICES ASSUME ForwarderTypeOK, Conservation, [ForwarderNext]_programVars
             PROVE  Conservation'
  OBVIOUS
<1>0. TokenTypeOK
  BY DEF ForwarderTypeOK
<1>1. ASSUME UNCHANGED <<balance, supply>>
      PROVE  Conservation'
  BY <1>1, Books
<1>2. ASSUME NEW w \in Deployer, InitializeToken(w) \/ TransferMintAuthority(w)
      PROVE  Conservation'
  BY <1>1, <1>2 DEF InitializeToken, TransferMintAuthority, Spl!SetMintAuthority
<1>3. ASSUME UNCHANGED splVars
      PROVE  Conservation'
  BY <1>1, <1>3 DEF splVars
<1>4. ASSUME NEW t \in TokenAccount, CreateTokenAccount(t)
      PROVE  Conservation'
  BY <1>1, <1>4 DEF CreateTokenAccount, Spl!CreateAccount
<1>5. ASSUME NEW w \in Wallet, NEW pause \in BOOLEAN,
             PauseMinting(w, pause) \/ PauseTransfers(w, pause)
      PROVE  Conservation'
  BY <1>3, <1>5 DEF PauseMinting, PauseTransfers
<1>6. ASSUME NEW w \in Wallet, NEW t \in TokenAccount, NEW n \in Amount,
             MintTokens(w, t, n) \/ BurnTokens(w, t, n)
      PROVE  Conservation'
  BY <1>0, <1>6, SplConserves DEF MintTokens, BurnTokens
<1>7. ASSUME NEW w \in Wallet, NEW t \in TokenAccount, NEW u \in TokenAccount,
             NEW n \in Amount,
             TransferTokens(w, t, u, n) \/ HolderCallsSpl(w, t, u, n)
      PROVE  Conservation'
  <2>1. CASE Spl!MintTo(w, u, n)
    BY <1>0, <2>1, SplConserves
  <2>2. CASE Spl!Burn(w, t, n) \/ Spl!Transfer(w, t, u, n)
    BY <1>0, <2>2, SplConserves
  <2>3. QED
    BY <1>7, <2>1, <2>2 DEF TransferTokens, HolderCallsSpl
<1>8. CASE TokenNext
  BY <1>2, <1>3, <1>4, <1>5, <1>6, <1>7, <1>8 DEF TokenNext
<1>9. CASE \E c \in Config, r \in Request : InitializeUserNonce(c, r.sender)
  BY <1>3, <1>9 DEF InitializeUserNonce, tokenVars
<1>10. CASE \E w \in Wallet, t \in TokenAccount : HandOverAccount(w, t)
  BY <1>1, <1>10 DEF HandOverAccount, Spl!SetAccountOwner
<1>11. CASE ExecuteStep
  <2>1. ASSUME NEW c \in Config, NEW w \in Wallet, NEW r \in Request,
               NEW t \in TokenAccount, NEW u \in TokenAccount, NEW n \in Amount,
               Execute(c, w, r, t, u, n)
        PROVE  Conservation'
    BY <1>0, <2>1, SplConserves DEF Execute, PayForwarded
  <2>2. ASSUME NEW c \in Config, NEW w \in Wallet, NEW r \in Request,
               ExecuteForOtherMint(c, w, r)
        PROVE  Conservation'
    BY <1>3, <2>2 DEF ExecuteForOtherMint, tokenVars
  <2>3. QED
    BY <1>11, <2>1, <2>2 DEF ExecuteStep
<1>12. CASE UNCHANGED programVars
  BY <1>3, <1>12 DEF programVars, tokenVars
<1> QED
  BY <1>8, <1>9, <1>10, <1>11, <1>12 DEF ForwarderNext

\* Before deployment there is nothing to add up.
LEMMA ConservationInit == ForwarderInit => Conservation
<1> SUFFICES ASSUME ForwarderInit PROVE Conservation
  OBVIOUS
<1>1. balance = [t \in TokenAccount |-> 0] /\ supply = 0
  BY DEF ForwarderInit, TokenInit
<1>2. SumOver(balance, TokenAccount) = 0
  BY <1>1, SumOfZeros, TokenAssumption
<1> QED
  BY <1>1, <1>2, Books

\* The balances of all accounts, however many, add up to the supply of the mint:
\* the SPL program's books, which the room for a recipient rests on.
LEMMA ProgramConserves == ProgramSpec => []Conservation
BY ConservationInit, ConservationStep, ProgramTypeCorrect, PTL DEF ProgramSpec

\* Whatever two accounts hold fits a u64 together.
LEMMA TwoBalancesFit ==
    ASSUME TokenTypeOK, Conservation,
           NEW t \in TokenAccount, NEW u \in TokenAccount, t # u
    PROVE  balance[t] + balance[u] <= MaxU64
<1>1. /\ IsFiniteSet(TokenAccount)
      /\ balance \in [TokenAccount -> Nat]
      /\ supply \in Nat /\ supply <= MaxU64 /\ MaxU64 \in Nat
  BY TokenAssumption, ApprovalsAssumption DEF TokenTypeOK, Amount
<1>2. balance[t] + balance[u] <= SumOver(balance, TokenAccount)
  BY <1>1, SumBounds
<1>3. supply = SumOver(balance, TokenAccount)
  BY Books
<1> QED
  BY <1>1, <1>2, <1>3

\* All that Execute asks of the state it is called in.
ExecuteMay(c, forwarder, request, from, to, amount) ==
    /\ "third" \in created
    /\ Permits(c, forwarder, {from, accountOwner[to]})
    /\ ~isExecuted[c]
    /\ nonce[c][request.sender] # NoNonce
    /\ request.nonce > nonce[c][request.sender]
    /\ Spl!Exists(from) /\ Spl!Exists(to)
    /\ ~Redeems(from, accountOwner[to])
    /\ TransferAuth[from] = accountOwner[from]
    /\ amount <= balance[from]
    /\ from = to \/ balance[to] + amount <= MaxU64

\* All that it does then: one new value for every variable.
ExecuteDoes(c, request, from, to, amount) ==
    /\ nonce' = [nonce EXCEPT ![c][request.sender] = request.nonce]
    /\ balance' = [[balance EXCEPT ![from] = @ - amount] EXCEPT ![to] = @ + amount]
    /\ isExecuted' = [isExecuted EXCEPT ![c] = FALSE]
    /\ forwarded' = [forwarded EXCEPT ![c][request.sender] = Append(@, request.nonce)]
    /\ UNCHANGED <<rolesVars, pauseVars, accountOwner, supply, mintAuthority>>

\* Nothing else stands between a message and its effect.
LEMMA ExecuteIs ==
    ASSUME NEW c, NEW w, NEW r, NEW t, NEW u, NEW n
    PROVE  Execute(c, w, r, t, u, n)
             <=> ExecuteMay(c, w, r, t, u, n) /\ ExecuteDoes(c, r, t, u, n)
BY DEF Execute, Accept, PayForwarded, ExecuteMay, ExecuteDoes, VerifyAndUpdateNonce,
       Spl!Transfer

\* The locks are free between instructions: Execute is the only one that takes
\* one, and gives it back in the same transaction (forwarder.rs:141-145, 340).
LEMMA LockFree == ProgramSpec => [](\A c \in Config : ~isExecuted[c])
<1> DEFINE Free == \A c \in Config : ~isExecuted[c]
<1>1. ForwarderInit => Free
  BY DEF ForwarderInit
<1>2. ForwarderTypeOK /\ Free /\ [ForwarderNext]_programVars => Free'
  <2> SUFFICES ASSUME ForwarderTypeOK, Free, [ForwarderNext]_programVars
               PROVE  Free'
    OBVIOUS
  <2>1. ASSUME isExecuted' = isExecuted
        PROVE  Free'
    BY <2>1
  <2>2. ASSUME NEW c \in Config, NEW r \in Request, Accept(c, r)
        PROVE  Free'
    BY <2>2 DEF Accept, ForwarderTypeOK
  <2>3. CASE ExecuteStep
    BY <2>2, <2>3 DEF ExecuteStep, Execute, ExecuteForOtherMint
  <2> QED
    BY <2>1, <2>3 DEF ForwarderNext, programVars, forwarderVars, InitializeUserNonce,
                      HandOverAccount
<1> QED
  BY <1>1, <1>2, ProgramTypeCorrect, PTL DEF ProgramSpec

\* The next unused message of a user always meets all that Execute asks, in
\* particular the two things its caller cannot see to: the lock is free, and the
\* recipient has room, because the books balance (forwarder.rs:141-145, 316-340).
\* This is UnusedRequestGoesThrough with the state that Execute asks for in place
\* of ENABLED; ExecuteIs says that it asks for nothing more.
THEOREM ProgramTakesUnusedRequest ==
    ProgramSpec =>
      [](\A c \in Config, w \in Wallet, r \in Request,
            t, u \in TokenAccount, n \in Amount :
            /\ Submittable(c, w, r, t, u, n)
            /\ ~Redeems(t, accountOwner[u])
            => ExecuteMay(c, w, r, t, u, n))
<1> DEFINE Free == \A c \in Config : ~isExecuted[c]
           Taken == \A c \in Config, w \in Wallet, r \in Request,
                       t, u \in TokenAccount, n \in Amount :
                       /\ Submittable(c, w, r, t, u, n)
                       /\ ~Redeems(t, accountOwner[u])
                       => ExecuteMay(c, w, r, t, u, n)
<1>1. ForwarderTypeOK /\ Conservation /\ Free => Taken
  <2> SUFFICES ASSUME ForwarderTypeOK, Conservation, Free, NEW c \in Config,
                      NEW w \in Wallet, NEW r \in Request, NEW n \in Amount,
                      NEW t \in TokenAccount, NEW u \in TokenAccount,
                      Submittable(c, w, r, t, u, n), ~Redeems(t, accountOwner[u])
               PROVE  ExecuteMay(c, w, r, t, u, n)
    OBVIOUS
  <2>1. r.sender \in Wallet /\ r.nonce \in Nat /\ nonce[c][r.sender] \in Nat
    BY ForwarderAssumption, ApprovalsAssumption DEF Submittable, ForwarderTypeOK, Amount
  <2>2. Spl!Exists(t)
    BY TokenAssumption, RolesAssumption DEF Submittable, Spl!Exists
  <2>3. t = u \/ balance[u] + n <= MaxU64
    <3>1. CASE t = u
      BY <3>1
    <3>2. CASE t # u
      <4>1. balance[t] + balance[u] <= MaxU64
        BY <3>2, TwoBalancesFit DEF ForwarderTypeOK
      <4>2. n <= balance[t]
        BY DEF Submittable
      <4>3. n \in Nat /\ balance[t] \in Nat /\ balance[u] \in Nat /\ MaxU64 \in Nat
        BY ApprovalsAssumption DEF ForwarderTypeOK, TokenTypeOK, Amount
      <4> QED
        BY <4>1, <4>2, <4>3
    <3> QED
      BY <3>1, <3>2
  <2>4. nonce[c][r.sender] # NoNonce /\ r.nonce > nonce[c][r.sender]
    BY <2>1 DEF Submittable
  <2> QED
    BY <2>2, <2>3, <2>4 DEF Submittable, ExecuteMay
<1> QED
  BY <1>1, LockFree, ProgramTypeCorrect, ProgramConserves, PTL
=============================================================================
