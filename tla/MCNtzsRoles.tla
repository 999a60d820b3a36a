---------------------------- MODULE MCNtzsRoles ----------------------------
(* The lists of the program, as its instructions see them and as it stores  *)
(* them.  A behaviour is one of the program's control part or one of the    *)
(* vectors behind the lists.  Any of the three keys may be the admin, and   *)
(* none of the lists holds more than two.                                   *)
EXTENDS NtzsRoles, CanMintVec, KeyVec, TLC

CONSTANTS a, b, c

VARIABLE part   \* what this behaviour is about

MCKey == {a, b, c}

\* Keys are alike: no key is named by the specifications or the properties.
KeySymmetry == Permutations(MCKey)

listVars == <<vecVars, keys>>

MCInit ==
    /\ part \in {"instructions", "vectors"}
    /\ RolesInit
    /\ VecInit
    /\ ListInit

MCNext ==
    /\ UNCHANGED part
    /\ \/ part = "instructions" /\ RolesNext /\ UNCHANGED listVars
       \/ /\ part = "vectors"
          /\ \/ VecNext /\ UNCHANGED keys
             \/ ListNext /\ UNCHANGED vecVars
          /\ UNCHANGED rolesVars

MCSpec == MCInit /\ [][MCNext]_<<part, rolesVars, listVars>>
=============================================================================
