------------------------------ MODULE KeyVec ------------------------------
(***************************************************************************)
(* The vector behind each list of keys: state/blacklist.rs,                *)
(* state/can_forward.rs, state/internal_whitelist.rs,                      *)
(* state/external_whitelist.rs and state/trusted_contracts.rs share this   *)
(* code.  They differ in the capacity and in what remove answers for a key *)
(* that is not listed (an error or Ok), which changes no state.            *)
(***************************************************************************)
EXTENDS ListLimits, Naturals, Sequences, SequencesExt

CONSTANT Capacity   \* MAX_BLACKLISTED, MAX_FORWARDERS, ...

VARIABLE keys   \* BlackList.blacklist, CanForward.forwarders, ...

Listed(k) == Contains(keys, k)

ListInit == keys = <<>>

\* Mutant of PushKey: the membership test is missing.
PushUnchecked(k) ==
    /\ Len(keys) < Capacity
    /\ keys' = Append(keys, k)

PushKey(k) ==
    /\ Len(keys) < Capacity
    /\ keys' = IF Listed(k) THEN keys ELSE Append(keys, k)

DropKey(k) ==
    /\ Listed(k)
    /\ keys' = RemoveAt(keys, SelectInSeq(keys, LAMBDA x : x = k))

ListNext == \E k \in Key : PushKey(k) \/ DropKey(k)

ListSpec == ListInit /\ [][ListNext]_keys

-----------------------------------------------------------------------------

ListedKeys == INSTANCE KeySet WITH members <- Range(keys)

\* Each operation does to the set what its name says.  remove drops the first
\* position only, so a key added twice would outlive its removal: a removed key
\* is gone because no key is ever listed twice (blacklist.rs:19-40 and the four
\* files like it).
ImplementsKeySet ==
    /\ ListedKeys!KeySetInit
    /\ [][\A k \in Key : /\ PushKey(k) => ListedKeys!Insert(k)
                         /\ DropKey(k) => ListedKeys!Delete(k)]_keys

\* Nobody is listed twice and the vector fits the space its account was
\* created with (blacklist.rs:44-49, initialize.rs:66-120).
ListFits ==
    /\ Len(keys) <= Capacity
    /\ IsInjective(keys)
=============================================================================
