--------------------------- MODULE MintApprovals ---------------------------
(***************************************************************************)
(* What the CanMint account promises the instructions that use it          *)
(* (state/can_mint.rs): a bounded map from the keys that hold a mint       *)
(* approval to the amount each is approved for.  The program stores the    *)
(* map as two parallel vectors; CanMintVec models those and implements     *)
(* this specification.                                                     *)
(***************************************************************************)
EXTENDS ListLimits, Naturals, FiniteSets

ASSUME ApprovalsAssumption ==
    /\ MaxU64 \in Nat
    /\ MaxAuthorities \in Nat \ {0}

VARIABLE canMint   \* approved key -> approved amount

Amount == 0 .. MaxU64

Minters == DOMAIN canMint

ApprovalsTypeOK ==
    /\ Minters \subseteq Key
    /\ canMint \in [Minters -> Amount]

-----------------------------------------------------------------------------

\* The account holds one approval, for nothing, when it is created.
OneApproval(k) == [x \in {k} |-> 0]

\* The map without k's approval.
WithoutApproval(k) == [x \in Minters \ {k} |-> canMint[x]]

\* A full list refuses every key, also one it already holds.
AddAuthority(k) ==
    /\ Cardinality(Minters) < MaxAuthorities
    /\ canMint' = [x \in Minters \cup {k} |->
                      IF x \in Minters THEN canMint[x] ELSE 0]

RemoveAuthority(k) ==
    /\ k \in Minters
    /\ canMint' = WithoutApproval(k)

PutMintAmount(k, amount) ==
    /\ k \in Minters
    /\ canMint' = [canMint EXCEPT ![k] = amount]

-----------------------------------------------------------------------------

ApprovalsInit == \E k \in Key : canMint = OneApproval(k)

ApprovalsNext ==
    \E k \in Key :
        \/ AddAuthority(k)
        \/ RemoveAuthority(k)
        \/ \E amount \in Amount : PutMintAmount(k, amount)

ApprovalsSpec == ApprovalsInit /\ [][ApprovalsNext]_canMint
=============================================================================
