---------------------------- MODULE CanMintVec ----------------------------
(***************************************************************************)
(* The CanMint account as the program stores it: two parallel vectors that *)
(* every operation has to keep aligned (state/can_mint.rs:5-61).  Vectors  *)
(* are sequences; Vec::remove shifts the tail left, as RemoveAt does.      *)
(***************************************************************************)
EXTENDS ListLimits, Naturals, Sequences, SequencesExt

VARIABLES authorities,   \* CanMint.authorities
          mintAmounts    \* CanMint.mint_amounts

vecVars == <<authorities, mintAmounts>>

Holds(k) == Contains(authorities, k)

\* iter().position(|x| x == authority): the first index that holds k.
Position(k) == SelectInSeq(authorities, LAMBDA x : x = k)

-----------------------------------------------------------------------------

VecInit ==
    \E k \in Key :
        /\ authorities = <<k>>
        /\ mintAmounts = <<0>>

VecAdd(k) ==
    /\ Len(authorities) < MaxAuthorities
    /\ IF Holds(k)
         THEN UNCHANGED vecVars
         ELSE /\ authorities' = Append(authorities, k)
              /\ mintAmounts' = Append(mintAmounts, 0)

\* Mutant of VecRemove: the amount of the removed approval stays behind.
VecRemoveKeepsAmount(k) ==
    /\ Holds(k)
    /\ authorities' = RemoveAt(authorities, Position(k))
    /\ UNCHANGED mintAmounts

\* Mutant of VecRemove: the vectors keep equal lengths, but the last amount
\* goes instead of k's.
VecRemoveDropsLast(k) ==
    /\ Holds(k)
    /\ authorities' = RemoveAt(authorities, Position(k))
    /\ mintAmounts' = Front(mintAmounts)

VecRemove(k) ==
    /\ Holds(k)
    /\ authorities' = RemoveAt(authorities, Position(k))
    /\ mintAmounts' = RemoveAt(mintAmounts, Position(k))

VecSetAmount(k, amount) ==
    /\ Holds(k)
    /\ mintAmounts' = [mintAmounts EXCEPT ![Position(k)] = amount]
    /\ UNCHANGED authorities

VecNext ==
    \E k \in Key :
        \/ VecAdd(k)
        \/ VecRemove(k)
        \/ \E amount \in 0 .. MaxU64 : VecSetAmount(k, amount)

VecSpec == VecInit /\ [][VecNext]_vecVars

-----------------------------------------------------------------------------

\* The vectors stay aligned and free of duplicates, so mint_amounts[index] in
\* set_mint_amount and get_mint_amount never indexes past the end, and both
\* fit the space the account was created with (can_mint.rs:33-69).
VectorsAligned ==
    /\ Len(authorities) = Len(mintAmounts)
    /\ Len(authorities) <= MaxAuthorities
    /\ IsInjective(authorities)

\* The map the two vectors stand for.
ApprovalMap == [k \in Range(authorities) |-> mintAmounts[Position(k)]]

Abstract == INSTANCE MintApprovals WITH canMint <- ApprovalMap

\* The vectors implement the map: in particular a key that is removed and
\* added again starts from 0, whatever was removed around it in between.
ImplementsApprovals == Abstract!ApprovalsSpec
=============================================================================
