------------------------------ MODULE KeySet ------------------------------
(***************************************************************************)
(* What the accounts that list public keys (BlackList, CanForward,         *)
(* InternalWhiteList, ExternalWhiteList, TrustedContracts) promise: a      *)
(* bounded set.  KeyVec models the vector each of them stores and          *)
(* implements this specification; NtzsRoles has one instance per list.     *)
(***************************************************************************)
EXTENDS Naturals, FiniteSets

CONSTANTS Key, Capacity

VARIABLE members

\* Mutant of Insert: the capacity is not checked.
InsertUnbounded(k) == members' = members \cup {k}

\* A full list refuses every key, also one it already holds.
Insert(k) ==
    /\ Cardinality(members) < Capacity
    /\ members' = members \cup {k}

\* What the handlers do that add to a list: a key already listed is accepted
\* without touching the list, even when the list is full.
InsertIfAbsent(k) ==
    \/ k \in members /\ UNCHANGED members
    \/ k \notin members /\ Insert(k)

Delete(k) == members' = members \ {k}

KeySetInit == members = {}
=============================================================================
