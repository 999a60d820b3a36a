--------------------------- MODULE NtzsForwarder ---------------------------
(***************************************************************************)
(* The forwarding part of the Solana program and, with it, the whole       *)
(* program (instructions/forwarder.rs, state/can_forward.rs).  A user      *)
(* hands a token account to its transfer-auth PDA and signs messages       *)
(* "action:amount:nonce"; a trusted forwarder submits them.                *)
(*                                                                         *)
(* A message, once signed, can be submitted at any time, in any order, any *)
(* number of times or never: Request is the set of messages signed in the  *)
(* history at hand, and Execute may pick any of them in any state.  The    *)
(* ed25519 checks (forwarder.rs:166-270) amount to that membership: the    *)
(* instruction before Execute is a valid signature of this message by the  *)
(* key of the sender account.                                              *)
(*                                                                         *)
(* Execute does not derive all its accounts from one mint.  Pause,         *)
(* forwarders, blacklist and nonces are those of the token configuration   *)
(* the caller names (forwarder.rs:27-56), the whitelists those of the mint *)
(* of the account that pays (forwarder.rs:58-68), and nothing compares the *)
(* two.  So there is one nonce of a user, one lock and one history per     *)
(* configuration.  Home is the configuration of the mint at hand; what the *)
(* rules of any other are is up to its own admin (initialize is open for   *)
(* any mint), and the model lets them allow everything at any time.        *)
(***************************************************************************)
EXTENDS NtzsToken, Sequences

CONSTANTS Request,   \* signed messages [sender, nonce, amount]; nothing reads the amount
          NoNonce,   \* the UserNonce account does not exist
          Config,    \* the token configurations of the program, one per mint
          Home       \* the one of the mint at hand

ASSUME ForwarderAssumption ==
    /\ Request \subseteq [sender : Wallet, nonce : Amount, amount : Amount]
    /\ NoNonce \notin Nat
    /\ Home \in Config

VARIABLES isExecuted,   \* CanForward.is_executed, the lock of each configuration
          nonce,        \* UserNonce.nonce of each wallet, per configuration
          forwarded     \* the nonces of the ForwardedEvents of each wallet, per
                        \* configuration

forwarderVars == <<isExecuted, nonce, forwarded>>
programVars == <<tokenVars, forwarderVars>>

ForwarderInit ==
    /\ TokenInit
    /\ isExecuted = [c \in Config |-> FALSE]
    /\ nonce = [c \in Config |-> [w \in Wallet |-> NoNonce]]
    /\ forwarded = [c \in Config |-> [w \in Wallet |-> <<>>]]

\* The account is created once, by the user, and never reset.  Users who sign no
\* message have no use for one.
InitializeUserNonce(c, user) ==
    /\ c = Home => {"primary", "secondary"} \subseteq created
    /\ nonce[c][user] = NoNonce
    /\ nonce' = [nonce EXCEPT ![c][user] = 0]
    /\ UNCHANGED <<tokenVars, isExecuted, forwarded>>

\* The owner of an account gives it to the program (AuthorityType.AccountOwner).
HandOverAccount(owner, t) ==
    /\ Spl!SetAccountOwner(owner, t, TransferAuth[t])
    /\ UNCHANGED <<rolesVars, pauseVars, forwarderVars>>

\* Mutant of VerifyAndUpdateNonce: the stored nonce is accepted again.
VerifyNonceLoosely(c, sender, n) ==
    /\ n >= nonce[c][sender]
    /\ nonce' = [nonce EXCEPT ![c][sender] = n]

\* Mutant of VerifyAndUpdateNonce: verifies but does not update.
VerifyNonceOnly(c, sender, n) ==
    /\ n > nonce[c][sender]
    /\ UNCHANGED nonce

\* Mutant of VerifyAndUpdateNonce: stores the successor, unchecked.
VerifyAndSkipNonce(c, sender, n) ==
    /\ n > nonce[c][sender]
    /\ nonce' = [nonce EXCEPT ![c][sender] = n + 1]

\* A message is good for one use under a configuration, and makes the messages
\* with lower nonces worthless there.
VerifyAndUpdateNonce(c, sender, n) ==
    /\ n > nonce[c][sender]
    /\ nonce' = [nonce EXCEPT ![c][sender] = n]

\* Mutant of Permits: the pause and the blacklist are not looked at.
PermitsWhilePaused(c, forwarder, parties) ==
    c = Home => /\ {"primary", "secondary"} \subseteq created
                /\ forwarder \in canForward

\* What the configuration that the caller names has to say: its pause, its
\* forwarders and its blacklist.
Permits(c, forwarder, parties) ==
    c = Home => /\ {"primary", "secondary"} \subseteq created
                /\ ~transferPaused
                /\ forwarder \in canForward
                /\ parties \cap blacklist = {}

\* Mutant of Accept: returns without unlocking.
AcceptKeepsLock(c, request) ==
    /\ ~isExecuted[c]
    /\ nonce[c][request.sender] # NoNonce
    /\ VerifyAndUpdateNonce(c, request.sender, request.nonce)
    /\ isExecuted' = [isExecuted EXCEPT ![c] = TRUE]
    /\ forwarded' = [forwarded EXCEPT ![c][request.sender] = Append(@, request.nonce)]

\* A message is taken under a configuration: its lock is free and is free again
\* afterwards, the nonce is used, the event emitted.
Accept(c, request) ==
    /\ ~isExecuted[c]
    /\ nonce[c][request.sender] # NoNonce
    /\ VerifyAndUpdateNonce(c, request.sender, request.nonce)
    /\ isExecuted' = [isExecuted EXCEPT ![c] = FALSE]
    /\ forwarded' = [forwarded EXCEPT ![c][request.sender] = Append(@, request.nonce)]

\* The key looked up in the external whitelist is the address of the token account.
\* A redemption is refused by the SPL program, because its burn carries no
\* signature of the PDA (forwarder.rs:308-314), so only transfers go through.
PayForwarded(from, to, amount) ==
    /\ "third" \in created
    /\ ~Redeems(from, accountOwner[to])
    /\ Spl!Transfer(TransferAuth[from], from, to, amount)

\* An account of the mint at hand pays.  Nothing ties the account, the recipient,
\* the amount and the configuration to the message or to each other.  The key
\* checked against the blacklist on the paying side is the address of the token
\* account.
Execute(c, forwarder, request, from, to, amount) ==
    /\ Spl!Exists(to)
    /\ Permits(c, forwarder, {from, accountOwner[to]})
    /\ Accept(c, request)
    /\ PayForwarded(from, to, amount)
    /\ UNCHANGED <<rolesVars, pauseVars>>

\* The same instruction when the account that pays is of another mint.
ExecuteForOtherMint(c, forwarder, request) ==
    /\ Permits(c, forwarder, {})
    /\ Accept(c, request)
    /\ UNCHANGED tokenVars

ExecuteStep ==
    \E c \in Config, w \in Wallet, r \in Request :
        \/ \E t, u \in TokenAccount, n \in Amount : Execute(c, w, r, t, u, n)
        \/ ExecuteForOtherMint(c, w, r)

ForwarderNext ==
    \/ TokenNext /\ UNCHANGED forwarderVars
    \/ \E c \in Config, r \in Request : InitializeUserNonce(c, r.sender)
    \/ \E w \in Wallet, t \in TokenAccount : HandOverAccount(w, t)
    \/ ExecuteStep

ProgramSpec == ForwarderInit /\ [][ForwarderNext]_programVars

-----------------------------------------------------------------------------
(* Properties *)

ForwarderTypeOK ==
    /\ TokenTypeOK
    /\ isExecuted \in [Config -> BOOLEAN]
    /\ nonce \in [Config -> [Wallet -> Amount \cup {NoNonce}]]
    /\ forwarded \in [Config -> [Wallet -> Seq(Amount)]]

\* However often and in whatever order a relayer submits the messages of a
\* user, under one configuration they take effect in the order of their nonces
\* and each nonce at most once; without a nonce account none does
\* (can_forward.rs:83-92, forwarder.rs:41-49, 272-274).  Across configurations
\* neither holds, whichever accounts pay (MessageUsedOnce).
ForwardedInOrder ==
    \A c \in Config, w \in Wallet :
        LET used == forwarded[c][w]
        IN  /\ \A i, j \in 1 .. Len(used) : i < j => used[i] < used[j]
            /\ \A i \in 1 .. Len(used) : used[i] <= nonce[c][w]
            /\ nonce[c][w] = NoNonce => used = <<>>

\* This step uses a message that had been neither used nor overtaken under c.
UsesMessage(c, r) ==
    /\ nonce[c][r.sender] # NoNonce
    /\ nonce[c][r.sender] < r.nonce
    /\ nonce'[c][r.sender] = r.nonce

PaidByRequest ==
    \A t \in TokenAccount :
        /\ accountOwner[t] = TransferAuth[t]
        /\ balance'[t] < balance[t]
        => \E c \in Config, r \in Request : UsesMessage(c, r)

\* An account in the program's hands pays only at the cost of a message that
\* somebody signed, unused under the configuration it is submitted to, which
\* need not be the one of the account's own mint (forwarder.rs:27-56, 154-340).
HandedOverPaysByRequest == [][PaidByRequest]_programVars

\* A message takes effect under a configuration other than Home.
ForwardedElsewhere ==
    \E c \in Config \ {Home} : forwarded'[c] # forwarded[c]

OnlyBurnsWhenFrozen ==
    \A t \in TokenAccount :
        balance'[t] < balance[t]
        => \/ /\ ~transferPaused
              /\ SendsAs(t) \in blacklist
                 => supply' = supply - (balance[t] - balance'[t])
           \/ accountOwner[t] = TransferAuth[t] /\ ForwardedElsewhere

\* While transfers are paused no account loses anything, and one that answers for
\* a blacklisted key loses only what it burns: burn alone does not look at the
\* blacklist (burn.rs:30-54, transfer.rs:53-73, forwarder.rs:160-164, 284-296).
\* The one exception is an account that is handed over, when a message is
\* submitted under the configuration of another mint (forwarder.rs:27-56).
FrozenMoneyOnlyBurns == [][OnlyBurnsWhenFrozen]_programVars

Policy == INSTANCE StablecoinPolicy
            WITH Account <- TokenAccount,
                 MaxAmount <- MaxU64,
                 approval <- canMint,
                 standing <- canForward,
                 barred <- blacklist,
                 sendsAs <- [t \in TokenAccount |-> SendsAs(t)],
                 receivesAs <- accountOwner,
                 canIssue <- ~mintPaused,
                 canMove <- ~transferPaused,
                 entrusted <- {t \in TokenAccount : accountOwner[t] = TransferAuth[t]},
                 outside <- [c \in Config \ {Home} |-> forwarded[c]]

\* The program keeps the promises of StablecoinPolicy: money is issued, moved
\* and retired only under its rules, and no instruction of the issuer touches
\* a balance.  A message submitted under another configuration is the policy's
\* gap: it moves handed-over money without those rules, and does no more.
ImplementsPolicy == Policy!PolicySpec

\* The conditions that Execute's own checks leave to the caller.
Submittable(c, w, r, t, u, n) ==
    /\ "third" \in created
    /\ Permits(c, w, {t, accountOwner[u]})
    /\ nonce[c][r.sender] # NoNonce /\ nonce[c][r.sender] < r.nonce
    /\ accountOwner[t] = TransferAuth[t]
    /\ Spl!Exists(u)
    /\ n <= balance[t]

\* Whatever ran before, the next unused message goes through: the lock that an
\* earlier Execute took is free again, and the recipient has room for the money
\* (forwarder.rs:141-145, 316-340).
UnusedRequestGoesThrough ==
    \A c \in Config, w \in Wallet, r \in Request, t, u \in TokenAccount, n \in Amount :
        /\ Submittable(c, w, r, t, u, n)
        /\ ~Redeems(t, accountOwner[u])
        => ENABLED Execute(c, w, r, t, u, n)

-----------------------------------------------------------------------------
(* What the documentation says of forwarding and the program does not do. *)

\* A message of w takes effect.
Forwards(w) == \E c \in Config : forwarded'[c][w] # forwarded[c][w]

\* "Check if either sender or recipient is blacklisted" (forwarder.rs:160): no
\* message of a blacklisted sender moves money.
BlacklistedSenderRefused ==
    [][\A w \in Wallet :
          Forwards(w) /\ balance' # balance => w \notin blacklist]_programVars

\* "Burn the tokens from the sender's account (where we have authority)"
\* (forwarder.rs:301): a redemption can be forwarded.
RedemptionGoesThrough ==
    \A c \in Config, w \in Wallet, r \in Request, t, u \in TokenAccount, n \in Amount :
        /\ Submittable(c, w, r, t, u, n)
        /\ Redeems(t, accountOwner[u])
        => ENABLED Execute(c, w, r, t, u, n)

\* "Verify and update nonce to prevent replay attacks" (forwarder.rs:272): no
\* message takes effect twice, where no two messages of a user share a nonce.
MessageUsedOnce ==
    \A w \in Wallet, c, d \in Config :
        \A i \in 1 .. Len(forwarded[c][w]), j \in 1 .. Len(forwarded[d][w]) :
            forwarded[c][w][i] = forwarded[d][w][j] => c = d /\ i = j
=============================================================================
