----------------------------- MODULE SplToken -----------------------------
(***************************************************************************)
(* The SPL token program, as far as the Solana program relies on it: one   *)
(* mint and its token accounts.  This is code outside the repository,      *)
(* modelled from the CPIs in instructions/{mint,burn,transfer,forwarder}.rs*)
(* and the SetAuthority instructions of the clients.                       *)
(*                                                                         *)
(* Every operation names the key that signs for it.  A refused operation   *)
(* is not enabled, and the instruction that makes the call fails with it.  *)
(***************************************************************************)
EXTENDS Naturals

CONSTANTS TokenAccount,   \* addresses of token accounts
          NoKey,          \* owner of an account that does not exist yet
          MaxU64

VARIABLES accountOwner,   \* TokenAccount.owner
          balance,        \* TokenAccount.amount
          supply,         \* Mint.supply
          mintAuthority   \* Mint.mint_authority

Exists(t) == accountOwner[t] # NoKey

CreateAccount(t, owner) ==
    /\ ~Exists(t)
    /\ accountOwner' = [accountOwner EXCEPT ![t] = owner]
    /\ UNCHANGED <<balance, supply, mintAuthority>>

MintTo(signer, to, amount) ==
    /\ signer = mintAuthority
    /\ Exists(to)
    /\ supply + amount <= MaxU64
    /\ balance[to] + amount <= MaxU64
    /\ supply' = supply + amount
    /\ balance' = [balance EXCEPT ![to] = @ + amount]
    /\ UNCHANGED <<accountOwner, mintAuthority>>

Burn(signer, from, amount) ==
    /\ Exists(from)
    /\ signer = accountOwner[from]
    /\ amount <= balance[from]
    /\ amount <= supply
    /\ balance' = [balance EXCEPT ![from] = @ - amount]
    /\ supply' = supply - amount
    /\ UNCHANGED <<accountOwner, mintAuthority>>

\* An account may send to itself, which changes nothing.
Transfer(signer, from, to, amount) ==
    /\ Exists(from) /\ Exists(to)
    /\ signer = accountOwner[from]
    /\ amount <= balance[from]
    /\ from = to \/ balance[to] + amount <= MaxU64
    /\ balance' = [[balance EXCEPT ![from] = @ - amount] EXCEPT ![to] = @ + amount]
    /\ UNCHANGED <<accountOwner, supply, mintAuthority>>

\* SetAuthority on an account (AuthorityType.AccountOwner) and on the mint
\* (AuthorityType.MintTokens).
SetAccountOwner(signer, t, newOwner) ==
    /\ Exists(t)
    /\ signer = accountOwner[t]
    /\ accountOwner' = [accountOwner EXCEPT ![t] = newOwner]
    /\ UNCHANGED <<balance, supply, mintAuthority>>

SetMintAuthority(signer, newAuthority) ==
    /\ signer = mintAuthority
    /\ mintAuthority' = newAuthority
    /\ UNCHANGED <<accountOwner, balance, supply>>
=============================================================================
