-------------------------- MODULE ContractPolicy --------------------------
(***************************************************************************)
(* What the token contracts promise to those who hold money or spend it    *)
(* for others.  An approval is good once, for its exact amount, unless     *)
(* both the approved key and the receiver are barred.  A payment is made   *)
(* by the holder, or within an allowance, which it uses up; none of the    *)
(* parties is barred.  Barred money can be seized, all of it at once.      *)
(* Nothing else touches a balance, and only holders touch allowances.      *)
(* EvmForwarder and TronForwarder implement this module.                   *)
(***************************************************************************)
EXTENDS Naturals

CONSTANTS Holder, MaxAmount

VARIABLES balance,      \* holder -> amount
          supply,
          allowance,    \* holder -> spender -> amount
          approval,     \* key -> the amount it may issue, once
          barred,       \* holders and keys the issuer has barred
          canMove

ledger == <<balance, supply>>
rules == <<approval, barred, canMove>>
policyVars == <<ledger, allowance, rules>>

PolicyInit ==
    /\ balance = [h \in Holder |-> 0]
    /\ supply = 0
    /\ allowance = [h \in Holder |-> [s \in Holder |-> 0]]
    /\ \A k \in DOMAIN approval : approval[k] = 0
    /\ canMove = TRUE

Issue(k, h) ==
    /\ canMove
    /\ ~({k, h} \subseteq barred)
    /\ supply + approval[k] <= MaxAmount
    /\ supply' = supply + approval[k]
    /\ balance' = [balance EXCEPT ![h] = @ + approval[k]]
    /\ approval' = [x \in DOMAIN approval \ {k} |-> approval[x]]
    /\ UNCHANGED <<allowance, barred, canMove>>

\* The largest allowance has no limit.
Spend(h, s, n) ==
    /\ n <= allowance[h][s]
    /\ \/ /\ allowance[h][s] = MaxAmount
          /\ UNCHANGED allowance
       \/ /\ allowance[h][s] # MaxAmount
          /\ allowance' = [allowance EXCEPT ![h][s] = @ - n]

Pay(s, h, g, n) ==
    /\ canMove
    /\ {s, h, g} \cap barred = {}
    /\ \/ s = h /\ UNCHANGED allowance
       \/ Spend(h, s, n)
    /\ balance' = [[balance EXCEPT ![h] = @ - n] EXCEPT ![g] = @ + n]
    /\ UNCHANGED <<supply, rules>>

\* Whether a barred holder may give up money differs between the contracts.
Retire(h, n) ==
    /\ canMove
    /\ supply' = supply - n
    /\ balance' = [balance EXCEPT ![h] = @ - n]
    /\ UNCHANGED <<allowance, rules>>

Seize(h) ==
    /\ h \in barred
    /\ supply' = supply - balance[h]
    /\ balance' = [balance EXCEPT ![h] = 0]
    /\ UNCHANGED <<allowance, rules>>

Allow(h, s, n) ==
    /\ allowance' = [allowance EXCEPT ![h][s] = n]
    /\ UNCHANGED <<ledger, rules>>

\* Any change of the rules.
Govern == UNCHANGED <<ledger, allowance>>

PolicyNext ==
    \/ Govern
    \/ \E h, s \in Holder, n \in 0 .. MaxAmount : Allow(h, s, n)
    \/ \E k \in DOMAIN approval, h \in Holder : Issue(k, h)
    \/ \E h \in Holder : \E n \in 0 .. balance[h] :
          \/ Retire(h, n)
          \/ \E s, g \in Holder : Pay(s, h, g, n)
    \/ \E h \in Holder : Seize(h)

PolicySpec == PolicyInit /\ [][PolicyNext]_policyVars
=============================================================================
