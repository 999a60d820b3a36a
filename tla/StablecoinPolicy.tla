------------------------- MODULE StablecoinPolicy -------------------------
(***************************************************************************)
(* What a regulated token promises, whatever the chain it runs on.  Money  *)
(* comes into being only by spending an approval (or at the word of a      *)
(* standing issuer), moves only between parties that are not barred, and   *)
(* disappears only while movement is allowed; the issuer's decisions never *)
(* touch a balance.                                                        *)
(*                                                                         *)
(* There is one gap.  Accounts may be entrusted to a service that acts for *)
(* several issuers; what it does in the name of another one does not obey  *)
(* this issuer's rules, except that it creates and destroys nothing, moves *)
(* entrusted money only and leaves a trace (outside).                      *)
(* NtzsForwarder implements this module.                                   *)
(***************************************************************************)
EXTENDS Naturals

CONSTANTS Account, MaxAmount

VARIABLES balance,      \* account -> amount
          supply,
          approval,     \* key -> the amount it may issue, once
          standing,     \* keys that issue without an approval
          barred,       \* keys the issuer has barred
          sendsAs,      \* account -> the key it answers for when it pays
          receivesAs,   \* account -> the key it answers for when it is paid
          canIssue,
          canMove,
          entrusted,    \* accounts in the hands of the common service
          outside       \* what the service has done for other issuers

ledger == <<balance, supply>>
rules == <<approval, standing, barred, sendsAs, receivesAs, canIssue, canMove>>
policyVars == <<ledger, rules, entrusted, outside>>

PolicyInit ==
    /\ balance = [t \in Account |-> 0]
    /\ supply = 0
    /\ DOMAIN approval = {}
    /\ standing = {}
    /\ barred = {}

\* An approval is good for its exact amount, and for one use.
Issue(k, t, n) ==
    /\ canIssue
    /\ k \notin barred
    /\ receivesAs[t] \notin barred
    /\ \/ /\ k \in DOMAIN approval
          /\ n = approval[k]
          /\ approval' = [x \in DOMAIN approval \ {k} |-> approval[x]]
       \/ /\ k \in standing \ DOMAIN approval
          /\ UNCHANGED approval
    /\ supply' = supply + n
    /\ balance' = [balance EXCEPT ![t] = @ + n]
    /\ UNCHANGED <<standing, barred, sendsAs, receivesAs, canIssue, canMove,
                   entrusted, outside>>

Move(t, u, n) ==
    /\ canMove
    /\ sendsAs[t] \notin barred
    /\ receivesAs[u] \notin barred
    /\ balance' = [[balance EXCEPT ![t] = @ - n] EXCEPT ![u] = @ + n]
    /\ UNCHANGED <<supply, rules, entrusted, outside>>

\* The service moves money of its own in the name of another issuer.
MoveOutside(t, u, n) ==
    /\ t \in entrusted
    /\ outside' # outside
    /\ balance' = [[balance EXCEPT ![t] = @ - n] EXCEPT ![u] = @ + n]
    /\ UNCHANGED <<supply, rules, entrusted>>

Retire(t, n) ==
    /\ canMove
    /\ supply' = supply - n
    /\ balance' = [balance EXCEPT ![t] = @ - n]
    /\ UNCHANGED <<rules, entrusted, outside>>

\* Any change of the rules, except that no barred key is approved.
Govern ==
    /\ DOMAIN approval' \cap barred' = {}
    /\ UNCHANGED ledger

PolicyNext ==
    \/ \E k \in DOMAIN approval \cup standing, t \in Account, n \in 0 .. MaxAmount :
          Issue(k, t, n)
    \/ \E t, u \in Account : \E n \in 0 .. balance[t] :
          Move(t, u, n) \/ MoveOutside(t, u, n)
    \/ \E t \in Account : \E n \in 0 .. balance[t] : Retire(t, n)
    \/ Govern

PolicySpec == PolicyInit /\ [][PolicyNext]_policyVars
=============================================================================
