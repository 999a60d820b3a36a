-------------------------- MODULE NtzsRolesProofs --------------------------
(***************************************************************************)
(* Proofs about NtzsRoles, for every set of keys and every capacity.       *)
(***************************************************************************)
EXTENDS NtzsRoles, FiniteSetTheorems, TLAPS

\* The first approval is a map from one key to 0 (initialize.rs:165-166).
LEMMA OneApprovalType ==
    ASSUME NEW k \in Key
    PROVE  /\ DOMAIN OneApproval(k) = {k}
           /\ OneApproval(k) \in [{k} -> Amount]
BY ApprovalsAssumption DEF OneApproval, Amount

\* Removing an approval leaves the amounts of the others alone.
LEMMA WithoutApprovalType ==
    ASSUME ApprovalsTypeOK, NEW k
    PROVE  /\ DOMAIN WithoutApproval(k) = Minters \ {k}
           /\ WithoutApproval(k) \in [Minters \ {k} -> Amount]
BY DEF WithoutApproval, ApprovalsTypeOK

\* Adding one gives it an amount and keeps the map a map from keys to amounts.
LEMMA AddAuthorityType ==
    ASSUME ApprovalsTypeOK, NEW k \in Key, AddAuthority(k)
    PROVE  /\ DOMAIN canMint' = Minters \cup {k}
           /\ ApprovalsTypeOK'
BY ApprovalsAssumption DEF AddAuthority, ApprovalsTypeOK, Minters, Amount

\* Setting an amount changes nobody's approval into another key's.
LEMMA PutMintAmountType ==
    ASSUME ApprovalsTypeOK, NEW k, NEW amount \in Amount, PutMintAmount(k, amount)
    PROVE  /\ DOMAIN canMint' = Minters
           /\ ApprovalsTypeOK'
BY DEF PutMintAmount, ApprovalsTypeOK, Minters

\* Zero fits u64.
LEMMA ZeroIsAmount == 0 \in Amount
BY ApprovalsAssumption DEF Amount

-----------------------------------------------------------------------------

\* Nothing is listed or approved to begin with.
LEMMA RolesTypeInit == RolesInit => RolesTypeOK
BY DEF RolesInit, RolesTypeOK, ApprovalsTypeOK, Minters

\* Each instruction keeps keys in the lists and amounts in the approvals.
LEMMA RolesTypeStep == RolesTypeOK /\ [RolesNext]_rolesVars => RolesTypeOK'
<1> SUFFICES ASSUME RolesTypeOK, [RolesNext]_rolesVars
             PROVE  RolesTypeOK'
  OBVIOUS
<1>1. ASSUME NEW initializer \in Deployer, Initialize(initializer)
      PROVE  RolesTypeOK'
  <2>1. initializer \in Key /\ initializer \in Wallet
    BY RolesAssumption
  <2>2. /\ DOMAIN canMint' = {initializer}
        /\ canMint' \in [{initializer} -> Amount]
    BY <1>1, <2>1, OneApprovalType DEF Initialize
  <2>3. QED
    BY <1>1, <2>1, <2>2 DEF Initialize, RolesTypeOK, ApprovalsTypeOK, Minters, Phase
<1>2. ASSUME InitializeSecondary
      PROVE  RolesTypeOK'
  BY <1>2 DEF InitializeSecondary, RolesTypeOK, ApprovalsTypeOK, Minters, Phase
<1>3. ASSUME InitializeThird
      PROVE  RolesTypeOK'
  BY <1>3 DEF InitializeThird, RolesTypeOK, ApprovalsTypeOK, Minters, Phase
<1>4. ASSUME NEW signer \in Wallet, NEW user \in MinterArg,
             AddCanMint(signer, user)
      PROVE  RolesTypeOK'
  BY <1>4, RolesAssumption, AddAuthorityType
     DEF AddCanMint, RolesTypeOK, ApprovalsTypeOK, Minters
<1>5. ASSUME NEW signer \in Wallet, NEW user \in MinterArg,
             RemoveCanMint(signer, user)
      PROVE  RolesTypeOK'
  BY <1>5, WithoutApprovalType
     DEF RemoveCanMint, RolesTypeOK, ApprovalsTypeOK, Minters
<1>6. ASSUME NEW signer \in Wallet, NEW user \in MinterArg, NEW amount \in Amount,
             SetMintAmount(signer, user, amount)
      PROVE  RolesTypeOK'
  BY <1>6, PutMintAmountType DEF SetMintAmount, RolesTypeOK
<1>7. ASSUME NEW signer \in Wallet, NEW user \in MinterArg,
             RemoveMintAmount(signer, user)
      PROVE  RolesTypeOK'
  BY <1>7, PutMintAmountType, ZeroIsAmount DEF RemoveMintAmount, RolesTypeOK
<1>8. ASSUME NEW signer \in Wallet, NEW receiver \in Key, NEW amount \in Amount,
             AuthorizeMint(signer, receiver, amount)
      PROVE  RolesTypeOK'
  BY <1>8, WithoutApprovalType
     DEF AuthorizeMint, RolesTypeOK, ApprovalsTypeOK, Minters
<1>9. ASSUME NEW signer \in Wallet, NEW user \in BlacklistArg,
             AddBlackList(signer, user)
      PROVE  RolesTypeOK'
  BY <1>9, RolesAssumption, WithoutApprovalType
     DEF AddBlackList, RolesTypeOK, ApprovalsTypeOK, Minters, Blacklisted!Insert,
         Internal!Delete, External!Delete, Forwarders!Delete, Trusted!Delete
<1>10. ASSUME NEW signer \in Wallet, NEW user \in BlacklistArg,
              RemoveBlackList(signer, user)
       PROVE  RolesTypeOK'
  BY <1>10, RolesAssumption
     DEF RemoveBlackList, Blacklisted!Delete,
         RolesTypeOK, ApprovalsTypeOK, Minters
<1>11. ASSUME NEW signer \in Wallet, NEW contract \in TrustedArg,
              AddTrustedContract(signer, contract)
       PROVE  RolesTypeOK'
  BY <1>11, RolesAssumption
     DEF AddTrustedContract, Trusted!InsertIfAbsent, Trusted!Insert,
         RolesTypeOK, ApprovalsTypeOK, Minters
<1>12. ASSUME NEW signer \in Wallet, NEW contract \in TrustedArg,
              RemoveTrustedContract(signer, contract)
       PROVE  RolesTypeOK'
  BY <1>12, RolesAssumption
     DEF RemoveTrustedContract, Trusted!Delete,
         RolesTypeOK, ApprovalsTypeOK, Minters
<1>13. ASSUME NEW signer \in Wallet, NEW user \in InternalArg,
              WhitelistInternalUser(signer, user)
       PROVE  RolesTypeOK'
  BY <1>13, RolesAssumption
     DEF WhitelistInternalUser, Internal!InsertIfAbsent, Internal!Insert,
         RolesTypeOK, ApprovalsTypeOK, Minters
<1>14. ASSUME NEW signer \in Wallet, NEW user \in InternalArg,
              BlacklistInternalUser(signer, user)
       PROVE  RolesTypeOK'
  BY <1>14, RolesAssumption
     DEF BlacklistInternalUser, Internal!Delete,
         RolesTypeOK, ApprovalsTypeOK, Minters
<1>15. ASSUME NEW signer \in Wallet, NEW user \in ExternalArg,
              WhitelistExternalUser(signer, user)
       PROVE  RolesTypeOK'
  BY <1>15, RolesAssumption
     DEF WhitelistExternalUser, External!InsertIfAbsent, External!Insert,
         RolesTypeOK, ApprovalsTypeOK, Minters
<1>16. ASSUME NEW signer \in Wallet, NEW user \in ExternalArg,
              BlacklistExternalUser(signer, user)
       PROVE  RolesTypeOK'
  BY <1>16, RolesAssumption
     DEF BlacklistExternalUser, External!Delete,
         RolesTypeOK, ApprovalsTypeOK, Minters
<1>17. ASSUME NEW signer \in Wallet, NEW forwarder \in ForwarderArg,
              AddCanForward(signer, forwarder)
       PROVE  RolesTypeOK'
  BY <1>17, RolesAssumption
     DEF AddCanForward, Forwarders!InsertIfAbsent, Forwarders!Insert,
         RolesTypeOK, ApprovalsTypeOK, Minters
<1>18. ASSUME NEW signer \in Wallet, NEW forwarder \in ForwarderArg,
              RemoveCanForward(signer, forwarder)
       PROVE  RolesTypeOK'
  BY <1>18, RolesAssumption
     DEF RemoveCanForward, Forwarders!Delete,
         RolesTypeOK, ApprovalsTypeOK, Minters
<1>19. CASE UNCHANGED rolesVars
  BY <1>19 DEF rolesVars, RolesTypeOK, ApprovalsTypeOK, Minters
<1>20. QED
  BY <1>1, <1>2, <1>3, <1>4, <1>5, <1>6, <1>7, <1>8, <1>9, <1>10,
     <1>11, <1>12, <1>13, <1>14, <1>15, <1>16, <1>17, <1>18, <1>19
     DEF RolesNext, AdminStep

\* The lists only ever hold keys, and every approval is for an amount, whatever
\* the admin, the trusted contracts and the minters do (admin.rs, initialize.rs,
\* mint.rs:75-128).
THEOREM RolesTypeCorrect == RolesSpec => []RolesTypeOK
BY RolesTypeInit, RolesTypeStep, PTL DEF RolesSpec

-----------------------------------------------------------------------------

\* No key is blacklisted to begin with.
LEMMA ExclusionInit == RolesInit => RolesInv
BY DEF RolesInit, RolesInv, RolesExcludeBlacklisted, RoleHolders, Minters

\* Each instruction keeps roles and blacklist apart: a grant looks at the
\* blacklist, blacklisting clears the roles, and the one grant that does not look
\* runs before there is a blacklist.
LEMMA ExclusionStep ==
    RolesTypeOK /\ RolesInv /\ [RolesNext]_rolesVars => RolesInv'
<1> SUFFICES ASSUME RolesTypeOK, RolesInv, [RolesNext]_rolesVars
             PROVE  RolesInv'
  OBVIOUS
<1> USE DEF RolesInv, RolesExcludeBlacklisted, RoleHolders, Minters
<1>1. ASSUME NEW initializer \in Deployer, Initialize(initializer)
      PROVE  RolesInv'
  <2>1. initializer \in Key
    BY RolesAssumption
  <2>2. DOMAIN canMint' = {initializer}
    BY <1>1, <2>1, OneApprovalType DEF Initialize
  <2>3. QED
    BY <1>1, <2>2 DEF Initialize
<1>2. ASSUME InitializeSecondary
      PROVE  RolesInv'
  BY <1>2 DEF InitializeSecondary
<1>3. ASSUME InitializeThird
      PROVE  RolesInv'
  BY <1>3 DEF InitializeThird
<1>4. ASSUME NEW signer \in Wallet, NEW user \in MinterArg,
             AddCanMint(signer, user)
      PROVE  RolesInv'
  <2>1. CASE user \in Minters /\ UNCHANGED canMint
    BY <1>4, <2>1 DEF AddCanMint
  <2>2. CASE AddAuthority(user)
    <3>1. DOMAIN canMint' = Minters \cup {user}
      BY <2>2, AddAuthorityType, RolesAssumption DEF RolesTypeOK
    <3>2. QED
      BY <1>4, <3>1 DEF AddCanMint
  <2>3. QED
    BY <1>4, <2>1, <2>2 DEF AddCanMint
<1>5. ASSUME NEW signer \in Wallet, NEW user \in MinterArg,
             RemoveCanMint(signer, user)
      PROVE  RolesInv'
  BY <1>5, WithoutApprovalType DEF RemoveCanMint, RolesTypeOK
<1>6. ASSUME NEW signer \in Wallet, NEW user \in MinterArg, NEW amount \in Amount,
             SetMintAmount(signer, user, amount)
      PROVE  RolesInv'
  BY <1>6, PutMintAmountType DEF SetMintAmount, RolesTypeOK
<1>7. ASSUME NEW signer \in Wallet, NEW user \in MinterArg,
             RemoveMintAmount(signer, user)
      PROVE  RolesInv'
  BY <1>7, PutMintAmountType, ZeroIsAmount
     DEF RemoveMintAmount, RolesTypeOK
<1>8. ASSUME NEW signer \in Wallet, NEW receiver \in Key, NEW amount \in Amount,
             AuthorizeMint(signer, receiver, amount)
      PROVE  RolesInv'
  BY <1>8, WithoutApprovalType DEF AuthorizeMint, RolesTypeOK
<1>9. ASSUME NEW signer \in Wallet, NEW user \in BlacklistArg,
             AddBlackList(signer, user)
      PROVE  RolesInv'
  BY <1>9, WithoutApprovalType
     DEF AddBlackList, RolesTypeOK, Phase, Blacklisted!Insert,
         Internal!Delete, External!Delete, Forwarders!Delete
<1>10. ASSUME NEW signer \in Wallet, NEW user \in BlacklistArg,
              RemoveBlackList(signer, user)
       PROVE  RolesInv'
  BY <1>10 DEF RemoveBlackList, Blacklisted!Delete
<1>11. ASSUME NEW signer \in Wallet, NEW contract \in TrustedArg,
              AddTrustedContract(signer, contract)
       PROVE  RolesInv'
  BY <1>11 DEF AddTrustedContract, Trusted!InsertIfAbsent, Trusted!Insert
<1>12. ASSUME NEW signer \in Wallet, NEW contract \in TrustedArg,
              RemoveTrustedContract(signer, contract)
       PROVE  RolesInv'
  BY <1>12 DEF RemoveTrustedContract, Trusted!Delete
<1>13. ASSUME NEW signer \in Wallet, NEW user \in InternalArg,
              WhitelistInternalUser(signer, user)
       PROVE  RolesInv'
  BY <1>13 DEF WhitelistInternalUser, Internal!InsertIfAbsent, Internal!Insert
<1>14. ASSUME NEW signer \in Wallet, NEW user \in InternalArg,
              BlacklistInternalUser(signer, user)
       PROVE  RolesInv'
  BY <1>14 DEF BlacklistInternalUser, Internal!Delete
<1>15. ASSUME NEW signer \in Wallet, NEW user \in ExternalArg,
              WhitelistExternalUser(signer, user)
       PROVE  RolesInv'
  BY <1>15 DEF WhitelistExternalUser, External!InsertIfAbsent, External!Insert
<1>16. ASSUME NEW signer \in Wallet, NEW user \in ExternalArg,
              BlacklistExternalUser(signer, user)
       PROVE  RolesInv'
  BY <1>16 DEF BlacklistExternalUser, External!Delete
<1>17. ASSUME NEW signer \in Wallet, NEW forwarder \in ForwarderArg,
              AddCanForward(signer, forwarder)
       PROVE  RolesInv'
  BY <1>17 DEF AddCanForward, Forwarders!InsertIfAbsent, Forwarders!Insert
<1>18. ASSUME NEW signer \in Wallet, NEW forwarder \in ForwarderArg,
              RemoveCanForward(signer, forwarder)
       PROVE  RolesInv'
  BY <1>18 DEF RemoveCanForward, Forwarders!Delete
<1>19. CASE UNCHANGED rolesVars
  BY <1>19 DEF rolesVars
<1> HIDE DEF RolesInv
<1>20. QED
  BY <1>1, <1>2, <1>3, <1>4, <1>5, <1>6, <1>7, <1>8, <1>9, <1>10,
     <1>11, <1>12, <1>13, <1>14, <1>15, <1>16, <1>17, <1>18, <1>19
     DEF RolesNext, AdminStep

\* In every reachable state, also between the three initialisations, no
\* blacklisted key holds a role, and the blacklist is empty until initialize has
\* given the deployer his approval (initialize.rs:127-211, admin.rs:303-347).
THEOREM ExclusionHolds == RolesSpec => []RolesInv
  BY RolesTypeCorrect, ExclusionInit, ExclusionStep, PTL DEF RolesSpec

\* No blacklisted key holds a role (admin.rs:303-347 and the checks of the
\* instructions that grant roles).
THEOREM BlacklistedHoldNoRole == RolesSpec => []RolesExcludeBlacklisted
<1>1. RolesInv => RolesExcludeBlacklisted
  BY DEF RolesInv
<1>2. QED
  BY <1>1, ExclusionHolds, PTL

-----------------------------------------------------------------------------
(* The lists and the space of their accounts. *)

\* A set within a limit, as the list accounts are.
Fits(S, limit) == IsFiniteSet(S) /\ Cardinality(S) <= limit

\* What any instruction does to a list keeps it within its limit: it leaves the
\* list alone, empties it, drops a key, or adds one where there is room.
LEMMA StillFits ==
    ASSUME NEW limit \in Nat, NEW S, NEW T, NEW k, Fits(S, limit),
           \/ T = S
           \/ T = {}
           \/ T = S \ {k}
           \/ T = S \cup {k} /\ Cardinality(S) < limit
    PROVE  Fits(T, limit)
<1>1. CASE T = S
  BY <1>1
<1>2. CASE T = {}
  BY <1>2, FS_EmptySet DEF Fits
<1>3. CASE T = S \ {k}
  <2>1. /\ IsFiniteSet(T)
        /\ Cardinality(T) = IF k \in S THEN Cardinality(S) - 1 ELSE Cardinality(S)
    BY <1>3, FS_RemoveElement DEF Fits
  <2>2. Cardinality(S) \in Nat /\ Cardinality(S) <= limit
    BY FS_CardinalityType DEF Fits
  <2>3. QED
    BY <2>1, <2>2 DEF Fits
<1>4. CASE T = S \cup {k} /\ Cardinality(S) < limit
  <2>1. /\ IsFiniteSet(T)
        /\ Cardinality(T) = IF k \in S THEN Cardinality(S) ELSE Cardinality(S) + 1
    BY <1>4, FS_AddElement DEF Fits
  <2>2. Cardinality(S) \in Nat /\ Cardinality(S) < limit
    BY <1>4, FS_CardinalityType DEF Fits
  <2>3. QED
    BY <2>1, <2>2 DEF Fits
<1> QED
  BY <1>1, <1>2, <1>3, <1>4

\* How an instruction may change a list with a limit.
ListStep(S, T, limit) ==
    \E k : \/ T = S
           \/ T = {}
           \/ T = S \ {k}
           \/ T = S \cup {k} /\ Cardinality(S) < limit

\* All lists are within their limits.
FitInv ==
    /\ Fits(Minters, MaxAuthorities)
    /\ Fits(canForward, MaxForwarders)
    /\ Fits(blacklist, MaxBlacklisted)
    /\ Fits(internalWhitelist, MaxInternal)
    /\ Fits(externalWhitelist, MaxExternal)
    /\ Fits(trusted, MaxContracts)

\* The instances of KeySet count as this module does.
LEMMA SameCardinality ==
    ASSUME NEW S
    PROVE  /\ Forwarders!Cardinality(S) = Cardinality(S)
           /\ Blacklisted!Cardinality(S) = Cardinality(S)
           /\ Internal!Cardinality(S) = Cardinality(S)
           /\ External!Cardinality(S) = Cardinality(S)
           /\ Trusted!Cardinality(S) = Cardinality(S)
BY DEF Cardinality, Forwarders!Cardinality, Blacklisted!Cardinality,
       Internal!Cardinality, External!Cardinality, Trusted!Cardinality

\* Every instruction changes each of the five lists of keys in such a way.
LEMMA RolesListSteps ==
    ASSUME [RolesNext]_rolesVars
    PROVE  /\ ListStep(canForward, canForward', MaxForwarders)
           /\ ListStep(blacklist, blacklist', MaxBlacklisted)
           /\ ListStep(internalWhitelist, internalWhitelist', MaxInternal)
           /\ ListStep(externalWhitelist, externalWhitelist', MaxExternal)
           /\ ListStep(trusted, trusted', MaxContracts)
<1> USE DEF RolesNext, AdminStep, rolesVars, Initialize, InitializeSecondary,
       InitializeThird, AddCanMint, RemoveCanMint, SetMintAmount,
       RemoveMintAmount, AuthorizeMint, AddBlackList, RemoveBlackList,
       AddTrustedContract, RemoveTrustedContract, WhitelistInternalUser,
       BlacklistInternalUser, WhitelistExternalUser, BlacklistExternalUser,
       AddCanForward, RemoveCanForward
<1>1. ListStep(canForward, canForward', MaxForwarders)
  BY SameCardinality
     DEF ListStep, Forwarders!InsertIfAbsent, Forwarders!Insert, Forwarders!Delete
<1>2. ListStep(blacklist, blacklist', MaxBlacklisted)
  BY SameCardinality
     DEF ListStep, Blacklisted!Insert, Blacklisted!Delete
<1>3. ListStep(internalWhitelist, internalWhitelist', MaxInternal)
  BY SameCardinality
     DEF ListStep, Internal!InsertIfAbsent, Internal!Insert, Internal!Delete
<1>4. ListStep(externalWhitelist, externalWhitelist', MaxExternal)
  BY SameCardinality
     DEF ListStep, External!InsertIfAbsent, External!Insert, External!Delete
<1>5. ListStep(trusted, trusted', MaxContracts)
  BY SameCardinality
     DEF ListStep, Trusted!InsertIfAbsent, Trusted!Insert, Trusted!Delete
<1> QED
  BY <1>1, <1>2, <1>3, <1>4, <1>5

\* The approvals as well, except that Initialize replaces them by one.
LEMMA MintersListStep ==
    ASSUME RolesTypeOK, [RolesNext]_rolesVars
    PROVE  \/ ListStep(Minters, Minters', MaxAuthorities)
           \/ \E k : Minters' = {k}
<1>1. ASSUME NEW initializer \in Deployer, Initialize(initializer)
      PROVE  Minters' = {initializer}
  BY <1>1, OneApprovalType, RolesAssumption DEF Initialize, Minters
<1>2. ASSUME canMint' = canMint
      PROVE  Minters' = Minters
  BY <1>2 DEF Minters
<1>3. ASSUME NEW user, canMint' = WithoutApproval(user)
      PROVE  Minters' = Minters \ {user}
  BY <1>3, WithoutApprovalType DEF RolesTypeOK, Minters
<1>4. ASSUME NEW user \in MinterArg, AddAuthority(user)
      PROVE  Minters' = Minters \cup {user} /\ Cardinality(Minters) < MaxAuthorities
  BY <1>4, AddAuthorityType, RolesAssumption DEF RolesTypeOK, Minters, AddAuthority
<1>5. ASSUME NEW user, NEW amount \in Amount, PutMintAmount(user, amount)
      PROVE  Minters' = Minters
  BY <1>5, PutMintAmountType DEF RolesTypeOK, Minters
<1> QED
  BY <1>1, <1>2, <1>3, <1>4, <1>5, ZeroIsAmount
     DEF RolesNext, AdminStep, rolesVars, InitializeSecondary,
         InitializeThird, AddCanMint, RemoveCanMint, SetMintAmount,
         RemoveMintAmount, AuthorizeMint, AddBlackList, RemoveBlackList,
         AddTrustedContract, RemoveTrustedContract, WhitelistInternalUser,
         BlacklistInternalUser, WhitelistExternalUser, BlacklistExternalUser,
         AddCanForward, RemoveCanForward, ListStep

\* No list outgrows its account (the MAX_ constants of state/ and the space of
\* initialize.rs:46-117), although Initialize writes the first approval without
\* asking the list.
THEOREM ListsNeverOverflow == RolesSpec => []ListsFit
<1>1. RolesInit => FitInv
  BY FS_EmptySet, ApprovalsAssumption, RolesAssumption
     DEF RolesInit, FitInv, Fits, Minters
<1>2. RolesTypeOK /\ FitInv /\ [RolesNext]_rolesVars => FitInv'
  <2> SUFFICES ASSUME RolesTypeOK, FitInv, [RolesNext]_rolesVars
               PROVE  FitInv'
    OBVIOUS
  <2>1. ASSUME NEW limit \in Nat, NEW S, NEW T, Fits(S, limit),
               ListStep(S, T, limit)
        PROVE  Fits(T, limit)
    BY <2>1, StillFits DEF ListStep
  <2>2. Fits(Minters', MaxAuthorities)
    <3>1. CASE \E k : Minters' = {k}
      BY <3>1, FS_Singleton, ApprovalsAssumption DEF Fits
    <3>2. CASE ListStep(Minters, Minters', MaxAuthorities)
      BY <2>1, <3>2, ApprovalsAssumption DEF FitInv
    <3>3. QED
      BY <3>1, <3>2, MintersListStep
  <2>3. /\ Fits(canForward', MaxForwarders)
        /\ Fits(blacklist', MaxBlacklisted)
        /\ Fits(internalWhitelist', MaxInternal)
        /\ Fits(externalWhitelist', MaxExternal)
        /\ Fits(trusted', MaxContracts)
    BY <2>1, RolesListSteps, RolesAssumption DEF FitInv
  <2>4. QED
    BY <2>2, <2>3 DEF FitInv
<1>3. FitInv => ListsFit
  BY DEF FitInv, Fits, ListsFit
<1>4. QED
  BY <1>1, <1>2, <1>3, RolesTypeCorrect, PTL DEF RolesSpec
=============================================================================
