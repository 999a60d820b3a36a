----------------------------- MODULE NtzsToken -----------------------------
(***************************************************************************)
(* The token part of the Solana program: initialize, mint, burn, transfer  *)
(* and the two pause switches, on top of the roles of NtzsRoles and of an  *)
(* SPL mint whose authority is handed to the program after deployment.     *)
(* These are the accounts of one mint, the mint at hand.  Every account    *)
(* that its instructions name is derived from that mint, so the mints      *)
(* the program serves beside it have no part in them; forwarding is the    *)
(* exception and has it (NtzsForwarder).                                   *)
(***************************************************************************)
EXTENDS NtzsRoles, FiniteSetsExt

CONSTANTS TokenAccount,     \* addresses of token accounts
          AtaOwner,         \* the wallet an associated account is created for
          TransferAuth,     \* the program's transfer-auth PDA of an account
          MintPda,          \* the program's mint-authority PDA
          HoldersCallSpl    \* may wallets call the SPL program themselves?

ASSUME TokenAssumption ==
    /\ TokenAccount \subseteq Key
    /\ IsFiniteSet(TokenAccount)
    /\ AtaOwner \in [TokenAccount -> Wallet]
    /\ TransferAuth \in [TokenAccount -> Key \ Wallet]
    /\ MintPda \in Key \ Wallet
    /\ HoldersCallSpl \in BOOLEAN

VARIABLES mintPaused,       \* TokenConfig.mint_paused
          transferPaused,   \* TokenConfig.transfer_paused
          accountOwner, balance, supply, mintAuthority

Spl == INSTANCE SplToken

pauseVars == <<mintPaused, transferPaused>>
splVars == <<accountOwner, balance, supply, mintAuthority>>
tokenVars == <<rolesVars, pauseVars, splVars>>

TokenInit ==
    /\ RolesInit
    /\ mintPaused = FALSE
    /\ transferPaused = FALSE
    /\ accountOwner = [t \in TokenAccount |-> NoKey]
    /\ balance = [t \in TokenAccount |-> 0]
    /\ supply = 0
    /\ mintAuthority = NoKey

-----------------------------------------------------------------------------
(* Deployment *)

\* initialize creates the mint with the initializer as its SPL authority.
InitializeToken(initializer) ==
    /\ Initialize(initializer)
    /\ mintPaused' = FALSE
    /\ transferPaused' = FALSE
    /\ mintAuthority' = initializer
    /\ UNCHANGED <<accountOwner, balance, supply>>

\* The deployer hands the mint to the program's PDA.
TransferMintAuthority(payer) ==
    /\ "primary" \in created
    /\ Spl!SetMintAuthority(payer, MintPda)
    /\ UNCHANGED <<rolesVars, pauseVars>>

CreateTokenAccount(t) ==
    /\ "primary" \in created
    /\ Spl!CreateAccount(t, AtaOwner[t])
    /\ UNCHANGED <<rolesVars, pauseVars>>

-----------------------------------------------------------------------------
(* Pausing *)

PauseMinting(signer, pause) ==
    /\ "primary" \in created
    /\ signer = admin
    /\ pause # mintPaused
    /\ mintPaused' = pause
    /\ UNCHANGED <<rolesVars, transferPaused, splVars>>

PauseTransfers(signer, pause) ==
    /\ "primary" \in created
    /\ signer = admin
    /\ pause # transferPaused
    /\ transferPaused' = pause
    /\ UNCHANGED <<rolesVars, mintPaused, splVars>>

-----------------------------------------------------------------------------
(* Money *)

\* Mutant of MintTokens: the mint is signed for by the admin, not by the PDA.
MintSignedByAdmin(signer, to, amount) ==
    /\ ~mintPaused
    /\ AuthorizeMint(signer, accountOwner[to], amount)
    /\ Spl!MintTo(admin, to, amount)
    /\ UNCHANGED pauseVars

MintTokens(signer, to, amount) ==
    /\ ~mintPaused
    /\ AuthorizeMint(signer, accountOwner[to], amount)
    /\ Spl!MintTo(MintPda, to, amount)
    /\ UNCHANGED pauseVars

\* burn asks neither the blacklist nor any role.
BurnTokens(owner, from, amount) ==
    /\ "primary" \in created
    /\ ~transferPaused
    /\ Spl!Burn(owner, from, amount)
    /\ UNCHANGED <<rolesVars, pauseVars>>

\* A transfer from an external to an internal user is a redemption.
Redeems(sender, recipient) ==
    sender \in externalWhitelist /\ recipient \in internalWhitelist

\* Mutant of TransferTokens: a redemption is moved like any transfer.
TransferWithoutRedemption(owner, from, to, amount) ==
    /\ created = Phase
    /\ ~transferPaused
    /\ {owner, accountOwner[to]} \cap blacklist = {}
    /\ Spl!Transfer(owner, from, to, amount)
    /\ UNCHANGED <<rolesVars, pauseVars>>

TransferTokens(owner, from, to, amount) ==
    /\ created = Phase
    /\ ~transferPaused
    /\ Spl!Exists(to)
    /\ owner \notin blacklist
    /\ accountOwner[to] \notin blacklist
    /\ \/ Redeems(owner, accountOwner[to]) /\ Spl!Burn(owner, from, amount)
       \/ ~Redeems(owner, accountOwner[to]) /\ Spl!Transfer(owner, from, to, amount)
    /\ UNCHANGED <<rolesVars, pauseVars>>

\* The SPL program takes orders from the owner of an account, and from the
\* deployer as long as he holds the mint, without asking this program.  No
\* client of the repository does that.
HolderCallsSpl(owner, from, to, amount) ==
    /\ HoldersCallSpl
    /\ \/ Spl!Transfer(owner, from, to, amount)
       \/ Spl!Burn(owner, from, amount)
       \/ Spl!MintTo(owner, to, amount)
    /\ UNCHANGED <<rolesVars, pauseVars>>

-----------------------------------------------------------------------------

TokenNext ==
    \/ \E w \in Deployer : InitializeToken(w) \/ TransferMintAuthority(w)
    \/ (InitializeSecondary \/ InitializeThird) /\ UNCHANGED <<pauseVars, splVars>>
    \/ AdminStep /\ UNCHANGED <<pauseVars, splVars>>
    \/ \E t \in TokenAccount : CreateTokenAccount(t)
    \/ \E w \in Wallet, pause \in BOOLEAN :
          PauseMinting(w, pause) \/ PauseTransfers(w, pause)
    \/ \E w \in Wallet, t \in TokenAccount, n \in Amount :
          \/ MintTokens(w, t, n)
          \/ BurnTokens(w, t, n)
          \/ \E u \in TokenAccount :
                TransferTokens(w, t, u, n) \/ HolderCallsSpl(w, t, u, n)

TokenSpec == TokenInit /\ [][TokenNext]_tokenVars

-----------------------------------------------------------------------------
(* Properties *)

TokenTypeOK ==
    /\ RolesTypeOK
    /\ mintPaused \in BOOLEAN
    /\ transferPaused \in BOOLEAN
    /\ accountOwner \in [TokenAccount -> Key \cup {NoKey}]
    /\ balance \in [TokenAccount -> Amount]
    /\ supply \in Amount
    /\ mintAuthority \in Key \cup {NoKey}

\* The balances add up to the supply.  This is so because the SPL program keeps
\* its books, not by anything this program does; the proof that a recipient
\* always has room needs it.
Conservation == supply = MapThenSumSet(LAMBDA t : balance[t], TokenAccount)

\* Between initialize, which leaves the mint with the deployer, and the
\* handover of its authority, the program cannot mint, and neither can it before
\* there is a blacklist: an approval that is granted too early stays unspent
\* (initialize.rs:34-40, mint.rs:66-130, utils/transfer_authority.ts:17-40).
\* That the deployer does not mint through the SPL program himself is assumed
\* (~HoldersCallSpl).
NoSupplyBeforeHandover ==
    supply > 0 => /\ mintAuthority = MintPda
                  /\ {"primary", "secondary"} \subseteq created

NewMoneyBacked ==
    supply' > supply /\ mintAuthority = MintPda =>
        \E k \in Wallet \ blacklist :
            \/ /\ k \in Minters
               /\ supply' - supply = canMint[k]
               /\ k \notin DOMAIN canMint'
            \/ k \in canForward \ Minters

\* Once the program holds the mint, new money is always backed: it is exactly
\* the amount of an approval that is gone afterwards, or a forwarder without
\* approval issued it (mint.rs:75-130), whatever wallets do with the SPL program
\* and whatever the deployer minted before the handover.
SupplyBacked == [][NewMoneyBacked]_tokenVars

\* The key that an account answers for when it pays: its owner, or the account's
\* own address once it is handed over to the forwarder (transfer.rs:53-56,
\* forwarder.rs:159).  The wallet that handed an account over is not looked up.
SendsAs(t) == IF accountOwner[t] = TransferAuth[t] THEN t ELSE accountOwner[t]

NoRedeemedCredit ==
    \A t, u \in TokenAccount :
        /\ Redeems(SendsAs(t), accountOwner[u])
        /\ balance'[t] < balance[t]
        => balance'[u] <= balance[u]

\* A redemption burns: when the key an account answers for is on the external
\* whitelist, what it pays is not credited to an internal user
\* (transfer.rs:75-91, forwarder.rs:298-314).  For an account that is handed over
\* this key is the account's address: what the account of a whitelisted wallet
\* pays once it is handed over is credited to internal users (forwarder.rs:159,
\* 298).
RedemptionNeverCredits == [][NoRedeemedCredit]_tokenVars
=============================================================================
