---------------------------- MODULE VectorProofs ----------------------------
(* The vectors the program stores implement the map and the sets that its   *)
(* instructions work with, for any number of keys and any capacity.         *)
EXTENDS CanMintVec, KeyVec, SequenceTheorems, FiniteSetTheorems, TLAPS

-----------------------------------------------------------------------------
(* Vectors without duplicates *)

\* The position iter().position(|x| x == k) finds.
IndexIn(s, k) == SelectInSeq(s, LAMBDA x : x = k)

\* A key that is listed once is found where it is.
LEMMA IndexFound ==
    ASSUME NEW S, NEW s \in Seq(S), IsInjective(s), NEW i \in 1 .. Len(s)
    PROVE  IndexIn(s, s[i]) = i
<1> DEFINE I == {j \in 1 .. Len(s) : s[j] = s[i]}
<1>1. I = {i}
  BY LenProperties DEF IsInjective
<1>2. IndexIn(s, s[i]) = Min(I)
  BY <1>1 DEF IndexIn, SelectInSeq
<1>3. Min({i}) = i
  BY DEF Min
<1> QED
  BY <1>1, <1>2, <1>3

\* The index of a key that a vector holds is that key's.
LEMMA IndexOfKey ==
    ASSUME NEW S, NEW s \in Seq(S), IsInjective(s), NEW k, Contains(s, k)
    PROVE  IndexIn(s, k) \in 1 .. Len(s) /\ s[IndexIn(s, k)] = k
<1>1. PICK i \in 1 .. Len(s) : s[i] = k
  BY DEF Contains
<1> QED
  BY <1>1, IndexFound

\* Vec::remove takes the entry at i out and shifts the tail left.
LEMMA RemoveAtProperties ==
    ASSUME NEW S, NEW s \in Seq(S), NEW i \in 1 .. Len(s)
    PROVE  /\ RemoveAt(s, i) \in Seq(S)
           /\ Len(RemoveAt(s, i)) = Len(s) - 1
           /\ \A j \in 1 .. Len(s) - 1 :
                RemoveAt(s, i)[j] = IF j < i THEN s[j] ELSE s[j + 1]
<1> DEFINE front == SubSeq(s, 1, i - 1)
           back == SubSeq(s, i + 1, Len(s))
<1>1. Len(s) \in Nat /\ i \in Nat /\ i <= Len(s) /\ 1 <= i
      /\ \A j \in 1 .. Len(s) : s[j] \in S
  BY LenProperties
<1>2. /\ front \in Seq(S) /\ Len(front) = i - 1
      /\ \A j \in 1 .. i - 1 : front[j] = s[j]
  <2>1. \A j \in 1 .. i - 1 : s[j] \in S
    BY <1>1
  <2>2. /\ front \in Seq(S)
        /\ Len(front) = IF 1 <= i - 1 THEN (i - 1) - 1 + 1 ELSE 0
        /\ \A j \in 1 .. (i - 1) - 1 + 1 : front[j] = s[1 + j - 1]
    BY <1>1, <2>1, SubSeqProperties
  <2> HIDE DEF front
  <2>3. \A j \in 1 .. i - 1 : j \in 1 .. (i - 1) - 1 + 1 /\ 1 + j - 1 = j
    BY <1>1
  <2>4. \A j \in 1 .. i - 1 : front[j] = s[j]
    BY <2>2, <2>3
  <2>5. Len(front) = i - 1
    BY <1>1, <2>2
  <2> QED
    BY <2>2, <2>4, <2>5
<1>3. /\ back \in Seq(S) /\ Len(back) = Len(s) - i
      /\ \A j \in 1 .. Len(s) - i : back[j] = s[i + j]
  <2>1. \A j \in i + 1 .. Len(s) : s[j] \in S
    BY <1>1
  <2>2. /\ back \in Seq(S)
        /\ Len(back) = IF i + 1 <= Len(s) THEN Len(s) - (i + 1) + 1 ELSE 0
        /\ \A j \in 1 .. Len(s) - (i + 1) + 1 : back[j] = s[(i + 1) + j - 1]
    BY <1>1, <2>1, SubSeqProperties
  <2> HIDE DEF back
  <2> QED
    BY <1>1, <2>2
<1>4. RemoveAt(s, i) = front \o back
  BY DEF RemoveAt
<1> HIDE DEF front, back
<1>5. /\ front \o back \in Seq(S)
      /\ Len(front \o back) = Len(front) + Len(back)
      /\ \A j \in 1 .. Len(front) + Len(back) :
           (front \o back)[j] =
             IF j <= Len(front) THEN front[j] ELSE back[j - Len(front)]
  BY <1>2, <1>3, ConcatProperties
<1>6. ASSUME NEW j \in 1 .. Len(s) - 1
      PROVE  (front \o back)[j] = IF j < i THEN s[j] ELSE s[j + 1]
  <2>1. CASE j < i
    BY <1>1, <1>2, <1>3, <1>5, <2>1
  <2>2. CASE j >= i
    <3>1. /\ j - (i - 1) \in 1 .. Len(s) - i
          /\ i + (j - (i - 1)) = j + 1
      BY <1>1, <2>2
    <3>2. (front \o back)[j] = back[j - (i - 1)]
      BY <1>1, <1>2, <1>3, <1>5, <2>2
    <3>3. back[j - (i - 1)] = s[i + (j - (i - 1))]
      BY <1>3, <3>1
    <3>4. ~(j < i)
      BY <1>1, <2>2
    <3> QED
      BY <3>1, <3>2, <3>3, <3>4
  <2>3. j < i \/ j >= i
    BY <1>1
  <2> QED
    BY <2>1, <2>2, <2>3
<1> QED
  BY <1>1, <1>2, <1>3, <1>4, <1>5, <1>6

\* An entry taken out leaves the others, each once.
LEMMA RemoveKeeps ==
    ASSUME NEW S, NEW s \in Seq(S), IsInjective(s), NEW i \in 1 .. Len(s)
    PROVE  /\ IsInjective(RemoveAt(s, i))
           /\ Range(RemoveAt(s, i)) = Range(s) \ {s[i]}
<1> DEFINE t == RemoveAt(s, i)
<1>1. /\ t \in Seq(S) /\ Len(t) = Len(s) - 1
      /\ \A j \in 1 .. Len(s) - 1 : t[j] = IF j < i THEN s[j] ELSE s[j + 1]
  BY RemoveAtProperties
<1> HIDE DEF t
<1>2. /\ Len(s) \in Nat /\ DOMAIN s = 1 .. Len(s)
      /\ DOMAIN t = 1 .. Len(s) - 1
  BY <1>1, LenProperties
<1>3. IsInjective(t)
  BY <1>1, <1>2 DEF IsInjective
<1>4. ASSUME NEW j \in 1 .. Len(s) - 1
      PROVE  t[j] \in Range(s) \ {s[i]}
  BY <1>1, <1>2, <1>4 DEF IsInjective, Range
<1>5. ASSUME NEW j \in 1 .. Len(s), j # i
      PROVE  s[j] \in Range(t)
  <2>1. CASE j < i
    BY <1>1, <1>2, <1>5, <2>1 DEF Range
  <2>2. CASE j > i
    <3>1. j - 1 \in 1 .. Len(s) - 1 /\ t[j - 1] = s[j]
      BY <1>1, <1>2, <1>5, <2>2
    <3> QED
      BY <1>2, <3>1 DEF Range
  <2> QED
    BY <1>5, <2>1, <2>2
<1>6. Range(t) = Range(s) \ {s[i]}
  BY <1>2, <1>4, <1>5 DEF Range
<1> QED
  BY <1>3, <1>6 DEF t

\* A key appended that was not there adds itself, once.
LEMMA AppendKeeps ==
    ASSUME NEW S, NEW s \in Seq(S), IsInjective(s), NEW k \in S, ~Contains(s, k)
    PROVE  /\ IsInjective(Append(s, k))
           /\ Range(Append(s, k)) = Range(s) \cup {k}
<1> DEFINE t == Append(s, k)
<1>1. /\ t \in Seq(S) /\ Len(t) = Len(s) + 1
      /\ \A j \in 1 .. Len(s) : t[j] = s[j]
      /\ t[Len(s) + 1] = k
  BY AppendProperties
<1> HIDE DEF t
<1>2. /\ Len(s) \in Nat /\ DOMAIN s = 1 .. Len(s)
      /\ DOMAIN t = 1 .. Len(s) + 1
  BY <1>1, LenProperties
<1>3. IsInjective(t)
  BY <1>1, <1>2 DEF IsInjective, Contains
<1>4. Range(t) = Range(s) \cup {k}
  BY <1>1, <1>2 DEF Range
<1> QED
  BY <1>3, <1>4 DEF t

\* contains sees the keys of the vector.
LEMMA ContainsRange ==
    ASSUME NEW S, NEW s \in Seq(S), NEW k
    PROVE  Contains(s, k) <=> k \in Range(s)
BY LenProperties DEF Contains, Range

\* A vector without duplicates has as many entries as it holds keys.
LEMMA CardinalityOfVector ==
    ASSUME NEW S, NEW s \in Seq(S), IsInjective(s)
    PROVE  Cardinality(Range(s)) = Len(s)
<1>1. Len(s) \in Nat /\ DOMAIN s = 1 .. Len(s)
  BY LenProperties
<1>2. s \in Bijection(1 .. Len(s), Range(s))
  BY <1>1 DEF IsInjective, Range, Bijection, Injection, Surjection
<1> QED
  BY <1>1, <1>2, FS_CountingElements DEF ExistsBijection

-----------------------------------------------------------------------------
(* The two vectors of CanMint *)

\* What MintApprovals assumes of its constants.
Limits == MaxU64 \in Nat /\ MaxAuthorities \in Nat \ {0}

VecInv ==
    /\ authorities \in Seq(Key)
    /\ mintAmounts \in Seq(0 .. MaxU64)
    /\ VectorsAligned

\* The map that a vector of keys and one of amounts stand for.
MapOf(s, m) == [k \in Range(s) |-> m[IndexIn(s, k)]]

\* The approvals are the map of the two vectors.
LEMMA ApprovalMapIs == ApprovalMap = MapOf(authorities, mintAmounts)
BY DEF ApprovalMap, MapOf, Position, IndexIn

\* Entry i of the map's vectors is the approval of key i.
LEMMA MapAt ==
    ASSUME NEW s \in Seq(Key), IsInjective(s), NEW m, NEW i \in 1 .. Len(s)
    PROVE  s[i] \in Range(s) /\ MapOf(s, m)[s[i]] = m[i]
<1>1. s[i] \in Range(s)
  BY LenProperties DEF Range
<1> QED
  BY <1>1, IndexFound DEF MapOf

\* Pushing a key and a zero adds an approval of zero.
LEMMA MapOfAppend ==
    ASSUME Limits,
           NEW s \in Seq(Key), IsInjective(s), NEW k \in Key, ~Contains(s, k),
           NEW m \in Seq(0 .. MaxU64), Len(m) = Len(s)
    PROVE  MapOf(Append(s, k), Append(m, 0)) =
             [x \in Range(s) \cup {k} |-> IF x \in Range(s) THEN MapOf(s, m)[x] ELSE 0]
<1> DEFINE t == Append(s, k)
           n == Append(m, 0)
<1>1. /\ t \in Seq(Key) /\ Len(t) = Len(s) + 1
      /\ \A j \in 1 .. Len(s) : t[j] = s[j]
      /\ t[Len(s) + 1] = k
  BY AppendProperties
<1>2. /\ \A j \in 1 .. Len(s) : n[j] = m[j]
      /\ n[Len(s) + 1] = 0
  <2>1. 0 \in 0 .. MaxU64
    BY DEF Limits
  <2> QED
    BY <2>1, AppendProperties
<1>3. IsInjective(t) /\ Range(t) = Range(s) \cup {k} /\ k \notin Range(s)
  BY AppendKeeps, ContainsRange
<1>4. Len(s) \in Nat /\ DOMAIN s = 1 .. Len(s)
  BY LenProperties
<1> HIDE DEF t, n
<1>5. ASSUME NEW x \in Range(s)
      PROVE  MapOf(t, n)[x] = MapOf(s, m)[x]
  <2>1. PICK j \in 1 .. Len(s) : x = s[j]
    BY <1>4 DEF Range
  <2>2. j \in 1 .. Len(t) /\ t[j] = x /\ n[j] = m[j]
    BY <1>1, <1>2, <1>4, <2>1
  <2> QED
    BY <1>1, <1>3, <2>1, <2>2, MapAt
<1>6. MapOf(t, n)[k] = 0
  <2>1. Len(s) + 1 \in 1 .. Len(t)
    BY <1>1, <1>4
  <2> QED
    BY <1>1, <1>2, <1>3, <2>1, MapAt
<1>7. MapOf(t, n) = [x \in Range(s) \cup {k} |->
                       IF x \in Range(s) THEN MapOf(s, m)[x] ELSE 0]
  BY <1>3, <1>5, <1>6 DEF MapOf
<1> QED
  BY <1>7 DEF t, n

\* Removing position i from both vectors removes that key's approval only.
LEMMA MapOfRemove ==
    ASSUME NEW s \in Seq(Key), IsInjective(s), NEW i \in 1 .. Len(s),
           NEW m \in Seq(0 .. MaxU64), Len(m) = Len(s)
    PROVE  MapOf(RemoveAt(s, i), RemoveAt(m, i)) =
             [x \in Range(s) \ {s[i]} |-> MapOf(s, m)[x]]
<1> DEFINE t == RemoveAt(s, i)
           n == RemoveAt(m, i)
<1>1. /\ t \in Seq(Key) /\ Len(t) = Len(s) - 1
      /\ \A j \in 1 .. Len(s) - 1 : t[j] = IF j < i THEN s[j] ELSE s[j + 1]
  BY RemoveAtProperties
<1>2. \A j \in 1 .. Len(s) - 1 : n[j] = IF j < i THEN m[j] ELSE m[j + 1]
  BY RemoveAtProperties
<1>3. IsInjective(t) /\ Range(t) = Range(s) \ {s[i]}
  BY RemoveKeeps
<1>4. Len(s) \in Nat /\ DOMAIN t = 1 .. Len(s) - 1
  BY <1>1, LenProperties
<1> HIDE DEF t, n
<1>5. ASSUME NEW x \in Range(t)
      PROVE  MapOf(t, n)[x] = MapOf(s, m)[x]
  <2>1. PICK j \in 1 .. Len(s) - 1 : x = t[j]
    BY <1>4 DEF Range
  <2>2. j \in 1 .. Len(t) /\ MapOf(t, n)[x] = n[j]
    BY <1>1, <1>3, <1>4, <2>1, MapAt
  <2>3. PICK l \in 1 .. Len(s) : t[j] = s[l] /\ n[j] = m[l]
    <3>1. j \in 1 .. Len(s) /\ j + 1 \in 1 .. Len(s)
      BY <1>4
    <3> QED
      BY <1>1, <1>2, <3>1
  <2> QED
    BY <2>1, <2>2, <2>3, MapAt
<1>6. MapOf(t, n) = [x \in Range(s) \ {s[i]} |-> MapOf(s, m)[x]]
  BY <1>3, <1>5 DEF MapOf
<1> QED
  BY <1>6 DEF t, n

\* Setting an amount changes the approval of its key only.
LEMMA MapOfSet ==
    ASSUME NEW s \in Seq(Key), IsInjective(s), NEW i \in 1 .. Len(s),
           NEW m \in Seq(0 .. MaxU64), Len(m) = Len(s), NEW amount \in 0 .. MaxU64
    PROVE  MapOf(s, [m EXCEPT ![i] = amount]) = [MapOf(s, m) EXCEPT ![s[i]] = amount]
<1> DEFINE n == [m EXCEPT ![i] = amount]
<1>1. \A j \in 1 .. Len(s) : n[j] = IF j = i THEN amount ELSE m[j]
  BY ExceptSeq
<1>2. DOMAIN s = 1 .. Len(s)
  BY LenProperties
<1> HIDE DEF n
<1>3. ASSUME NEW x \in Range(s)
      PROVE  MapOf(s, n)[x] = IF x = s[i] THEN amount ELSE MapOf(s, m)[x]
  <2>1. PICK j \in 1 .. Len(s) : x = s[j]
    BY <1>2 DEF Range
  <2>2. MapOf(s, n)[x] = n[j] /\ MapOf(s, m)[x] = m[j]
    BY <2>1, MapAt
  <2>3. x = s[i] <=> j = i
    BY <1>2, <2>1 DEF IsInjective
  <2> QED
    BY <1>1, <2>2, <2>3
<1>4. MapOf(s, n) = [MapOf(s, m) EXCEPT ![s[i]] = amount]
  BY <1>3 DEF MapOf
<1> QED
  BY <1>4 DEF n

-----------------------------------------------------------------------------

\* The initializer's vectors are aligned.
LEMMA VecInvInit ==
    ASSUME Limits, VecInit
    PROVE  VecInv
<1>1. PICK k \in Key : authorities = <<k>> /\ mintAmounts = <<0>>
  BY DEF VecInit
<1>2. authorities \in Seq(Key) /\ mintAmounts \in Seq(0 .. MaxU64)
  BY <1>1 DEF Limits
<1>3. IsInjective(authorities)
  BY <1>1 DEF IsInjective
<1>4. Len(authorities) = 1 /\ Len(mintAmounts) = 1 /\ 1 <= MaxAuthorities
  BY <1>1 DEF Limits
<1> QED
  BY <1>2, <1>3, <1>4 DEF VecInv, VectorsAligned

\* What the two vectors are where a step starts.
LEMMA VecFacts ==
    ASSUME VecInv
    PROVE  /\ authorities \in Seq(Key) /\ IsInjective(authorities)
           /\ mintAmounts \in Seq(0 .. MaxU64)
           /\ Len(mintAmounts) = Len(authorities)
           /\ Len(authorities) \in Nat /\ Len(authorities) <= MaxAuthorities
           /\ Cardinality(Range(authorities)) = Len(authorities)
BY CardinalityOfVector, LenProperties DEF VecInv, VectorsAligned

\* position finds a key that is held.
LEMMA PositionFacts ==
    ASSUME VecInv, NEW k, Holds(k)
    PROVE  /\ Position(k) \in 1 .. Len(authorities)
           /\ authorities[Position(k)] = k
           /\ k \in Range(authorities)
<1>1. Position(k) = IndexIn(authorities, k)
  BY DEF Position, IndexIn
<1> QED
  BY <1>1, VecFacts, IndexOfKey, ContainsRange DEF Holds

\* Every operation on the vectors keeps them aligned and within their account.
LEMMA VecInvStep ==
    ASSUME Limits, VecInv, [VecNext]_vecVars
    PROVE  VecInv'
<1> DEFINE Good(s, m) == /\ s \in Seq(Key) /\ m \in Seq(0 .. MaxU64)
                         /\ Len(s) = Len(m) /\ Len(s) <= MaxAuthorities
                         /\ IsInjective(s)
<1>1. ASSUME NEW k \in Key, VecAdd(k), ~Holds(k)
      PROVE  Good(authorities', mintAmounts')
  <2>1. /\ authorities' = Append(authorities, k)
        /\ mintAmounts' = Append(mintAmounts, 0)
        /\ Len(authorities) < MaxAuthorities
    BY <1>1 DEF VecAdd
  <2>2. authorities' \in Seq(Key) /\ Len(authorities') = Len(authorities) + 1
    BY <2>1, VecFacts, AppendProperties
  <2>3. mintAmounts' \in Seq(0 .. MaxU64) /\ Len(mintAmounts') = Len(authorities) + 1
    <3>1. 0 \in 0 .. MaxU64
      BY DEF Limits
    <3> QED
      BY <2>1, <3>1, VecFacts, AppendProperties
  <2>4. IsInjective(authorities')
    BY <1>1, <2>1, VecFacts, AppendKeeps DEF Holds
  <2>5. Len(authorities) + 1 <= MaxAuthorities
    BY <2>1, VecFacts DEF Limits
  <2> QED
    BY <2>2, <2>3, <2>4, <2>5
<1>2. ASSUME NEW k \in Key, VecRemove(k)
      PROVE  Good(authorities', mintAmounts')
  <2>1. /\ Holds(k)
        /\ authorities' = RemoveAt(authorities, Position(k))
        /\ mintAmounts' = RemoveAt(mintAmounts, Position(k))
    BY <1>2 DEF VecRemove
  <2>2. Position(k) \in 1 .. Len(authorities) /\ Position(k) \in 1 .. Len(mintAmounts)
    BY <2>1, PositionFacts, VecFacts
  <2>3. authorities' \in Seq(Key) /\ Len(authorities') = Len(authorities) - 1
    BY <2>1, <2>2, VecFacts, RemoveAtProperties
  <2>4. mintAmounts' \in Seq(0 .. MaxU64) /\ Len(mintAmounts') = Len(authorities) - 1
    BY <2>1, <2>2, VecFacts, RemoveAtProperties
  <2>5. IsInjective(authorities')
    BY <2>1, <2>2, VecFacts, RemoveKeeps
  <2>6. Len(authorities) - 1 <= MaxAuthorities
    BY VecFacts DEF Limits
  <2> QED
    BY <2>3, <2>4, <2>5, <2>6
<1>3. ASSUME NEW k \in Key, NEW amount \in 0 .. MaxU64, VecSetAmount(k, amount)
      PROVE  Good(authorities', mintAmounts')
  <2>1. /\ Holds(k)
        /\ authorities' = authorities
        /\ mintAmounts' = [mintAmounts EXCEPT ![Position(k)] = amount]
    BY <1>3 DEF VecSetAmount
  <2>2. Position(k) \in 1 .. Len(mintAmounts)
    BY <2>1, PositionFacts, VecFacts
  <2>3. mintAmounts' \in Seq(0 .. MaxU64) /\ Len(mintAmounts') = Len(mintAmounts)
    BY <2>1, <2>2, VecFacts, ExceptSeq
  <2> QED
    BY <2>1, <2>3, VecFacts
<1>4. ASSUME UNCHANGED vecVars
      PROVE  Good(authorities', mintAmounts')
  BY <1>4, VecFacts DEF vecVars
<1>5. Good(authorities', mintAmounts')
  <2>1. CASE \E k \in Key : VecAdd(k)
    BY <1>1, <1>4, <2>1 DEF VecAdd
  <2> QED
    BY <1>2, <1>3, <1>4, <2>1 DEF VecNext
<1> QED
  BY <1>5 DEF VecInv, VectorsAligned

\* The two vectors stay aligned, for any number of keys and any capacity.
THEOREM VectorsStayAligned ==
    ASSUME Limits
    PROVE  VecSpec => []VectorsAligned
<1>1. VecInit => VecInv
  BY VecInvInit
<1>2. VecInv /\ [VecNext]_vecVars => VecInv'
  BY VecInvStep
<1>3. VecInv => VectorsAligned
  BY DEF VecInv
<1> QED
  BY <1>1, <1>2, <1>3, PTL DEF VecSpec

-----------------------------------------------------------------------------

\* The map counts as this module does.
LEMMA SameCardinality == \A S : Abstract!Cardinality(S) = Cardinality(S)
BY DEF Cardinality, Abstract!Cardinality

\* A step of the vectors is the step of the map that bears its name; adding a
\* key that is there changes neither.
LEMMA VecStepRefines ==
    ASSUME Limits, VecInv, [VecNext]_vecVars
    PROVE  [Abstract!ApprovalsNext]_ApprovalMap
<1>1. /\ ApprovalMap = MapOf(authorities, mintAmounts)
      /\ ApprovalMap' = MapOf(authorities', mintAmounts')
      /\ DOMAIN ApprovalMap = Range(authorities)
  <2>1. \A k : Position(k)' = IndexIn(authorities', k)
    BY DEF Position, IndexIn, SelectInSeq
  <2>2. ApprovalMap' = [k \in Range(authorities') |-> mintAmounts'[Position(k)']]
    BY DEF ApprovalMap
  <2>3. ApprovalMap' = MapOf(authorities', mintAmounts')
    BY <2>1, <2>2 DEF MapOf
  <2> QED
    BY <2>3, ApprovalMapIs DEF ApprovalMap
<1>2. ASSUME NEW k \in Key, VecAdd(k), ~Holds(k)
      PROVE  Abstract!AddAuthority(k)
  <2>1. /\ authorities' = Append(authorities, k)
        /\ mintAmounts' = Append(mintAmounts, 0)
        /\ Len(authorities) < MaxAuthorities
        /\ ~Contains(authorities, k)
    BY <1>2 DEF VecAdd, Holds
  <2>2. MapOf(Append(authorities, k), Append(mintAmounts, 0)) =
          [x \in Range(authorities) \cup {k} |->
             IF x \in Range(authorities)
               THEN MapOf(authorities, mintAmounts)[x] ELSE 0]
    BY <2>1, VecFacts, MapOfAppend
  <2> QED
    BY <1>1, <2>1, <2>2, VecFacts, SameCardinality
    DEF Abstract!AddAuthority, Abstract!Minters
<1>3. ASSUME NEW k \in Key, VecRemove(k)
      PROVE  Abstract!RemoveAuthority(k)
  <2>1. /\ Holds(k)
        /\ authorities' = RemoveAt(authorities, Position(k))
        /\ mintAmounts' = RemoveAt(mintAmounts, Position(k))
    BY <1>3 DEF VecRemove
  <2>2. /\ Position(k) \in 1 .. Len(authorities)
        /\ authorities[Position(k)] = k /\ k \in Range(authorities)
    BY <2>1, PositionFacts
  <2>3. MapOf(RemoveAt(authorities, Position(k)), RemoveAt(mintAmounts, Position(k))) =
          [x \in Range(authorities) \ {authorities[Position(k)]} |->
             MapOf(authorities, mintAmounts)[x]]
    BY <2>2, VecFacts, MapOfRemove
  <2> QED
    BY <1>1, <2>1, <2>2, <2>3
    DEF Abstract!RemoveAuthority, Abstract!WithoutApproval, Abstract!Minters
<1>4. ASSUME NEW k \in Key, NEW amount \in 0 .. MaxU64, VecSetAmount(k, amount)
      PROVE  Abstract!PutMintAmount(k, amount)
  <2>1. /\ Holds(k)
        /\ authorities' = authorities
        /\ mintAmounts' = [mintAmounts EXCEPT ![Position(k)] = amount]
    BY <1>4 DEF VecSetAmount
  <2>2. /\ Position(k) \in 1 .. Len(authorities)
        /\ authorities[Position(k)] = k /\ k \in Range(authorities)
    BY <2>1, PositionFacts
  <2>3. MapOf(authorities, [mintAmounts EXCEPT ![Position(k)] = amount]) =
          [MapOf(authorities, mintAmounts) EXCEPT ![authorities[Position(k)]] = amount]
    BY <2>2, VecFacts, MapOfSet
  <2> QED
    BY <1>1, <2>1, <2>2, <2>3 DEF Abstract!PutMintAmount, Abstract!Minters
<1>5. ASSUME UNCHANGED vecVars
      PROVE  UNCHANGED ApprovalMap
  BY <1>1, <1>5 DEF vecVars
<1>6. CASE \E k \in Key : VecAdd(k)
  BY <1>2, <1>5, <1>6 DEF VecAdd, Abstract!ApprovalsNext
<1> QED
  BY <1>3, <1>4, <1>5, <1>6 DEF VecNext, Abstract!ApprovalsNext, Abstract!Amount

\* The two vectors implement the map the instructions work with.
THEOREM VectorsImplementApprovals ==
    ASSUME Limits
    PROVE  VecSpec => ImplementsApprovals
<1>1. VecInit => VecInv
  BY VecInvInit
<1>2. VecInit => Abstract!ApprovalsInit
  <2> SUFFICES ASSUME VecInit PROVE Abstract!ApprovalsInit
    OBVIOUS
  <2>1. PICK k \in Key : authorities = <<k>> /\ mintAmounts = <<0>>
    BY DEF VecInit
  <2>2. Range(authorities) = {k} /\ Len(authorities) = 1
    BY <2>1 DEF Range
  <2>3. ApprovalMap[k] = 0
    <3>1. 1 \in 1 .. Len(authorities) /\ authorities[1] = k /\ mintAmounts[1] = 0
      BY <2>1
    <3>2. MapOf(authorities, mintAmounts)[authorities[1]] = mintAmounts[1]
      BY <1>1, <3>1, VecFacts, MapAt
    <3> QED
      BY <3>1, <3>2, ApprovalMapIs
  <2>4. ApprovalMap = [x \in {k} |-> 0]
    BY <2>2, <2>3 DEF ApprovalMap
  <2> QED
    BY <2>4 DEF Abstract!ApprovalsInit, Abstract!OneApproval
<1>3. VecInv /\ [VecNext]_vecVars => VecInv'
  BY VecInvStep
<1>4. VecInv /\ [VecNext]_vecVars => [Abstract!ApprovalsNext]_ApprovalMap
  BY VecStepRefines
<1> QED
  BY <1>1, <1>2, <1>3, <1>4, PTL
  DEF VecSpec, ImplementsApprovals, Abstract!ApprovalsSpec

-----------------------------------------------------------------------------
(* The vector of a list of keys *)

ListInv == keys \in Seq(Key) /\ ListFits

\* The operations, with the position as IndexIn.
LEMMA ListMeans ==
    /\ ListInit <=> keys = <<>>
    /\ \A k : PushKey(k) <=>
               /\ Len(keys) < Capacity
               /\ keys' = IF Contains(keys, k) THEN keys ELSE Append(keys, k)
    /\ \A k : DropKey(k) <=>
               /\ Contains(keys, k)
               /\ keys' = RemoveAt(keys, IndexIn(keys, k))
  BY DEF ListInit, PushKey, DropKey, Listed, IndexIn

\* What the invariant of a list gives its operations.
LEMMA ListFacts ==
    ASSUME ListInv
    PROVE  /\ keys \in Seq(Key) /\ IsInjective(keys)
           /\ Len(keys) \in Nat /\ Len(keys) <= Capacity
           /\ Cardinality(Range(keys)) = Len(keys)
BY CardinalityOfVector, LenProperties DEF ListInv, ListFits

\* remove takes out the key it was asked for.
LEMMA DropPosition ==
    ASSUME ListInv, NEW k, DropKey(k)
    PROVE  /\ IndexIn(keys, k) \in 1 .. Len(keys)
           /\ keys[IndexIn(keys, k)] = k
           /\ keys' = RemoveAt(keys, IndexIn(keys, k))
BY ListFacts, IndexOfKey, ListMeans

\* Pushing and removing keep a list without duplicates and within its account.
LEMMA ListInvStep ==
    ASSUME Capacity \in Nat, ListInv, [ListNext]_keys
    PROVE  ListInv'
<1> DEFINE Good(s) == s \in Seq(Key) /\ Len(s) <= Capacity /\ IsInjective(s)
<1>1. ASSUME NEW k \in Key, PushKey(k)
      PROVE  Good(keys')
  <2>1. CASE keys' = keys
    BY <2>1, ListFacts
  <2>2. CASE keys' = Append(keys, k) /\ ~Contains(keys, k) /\ Len(keys) < Capacity
    <3>1. keys' \in Seq(Key) /\ Len(keys') = Len(keys) + 1
      BY <2>2, ListFacts, AppendProperties
    <3>2. IsInjective(keys')
      BY <2>2, ListFacts, AppendKeeps
    <3>3. Len(keys) + 1 <= Capacity
      BY <2>2, ListFacts
    <3> QED
      BY <3>1, <3>2, <3>3
  <2> QED
    BY <1>1, <2>1, <2>2, ListMeans
<1>2. ASSUME NEW k \in Key, DropKey(k)
      PROVE  Good(keys')
  <2>1. keys' \in Seq(Key) /\ Len(keys') = Len(keys) - 1
    BY <1>2, DropPosition, ListFacts, RemoveAtProperties
  <2>2. IsInjective(keys')
    BY <1>2, DropPosition, ListFacts, RemoveKeeps
  <2>3. Len(keys) - 1 <= Capacity
    BY ListFacts
  <2> QED
    BY <2>1, <2>2, <2>3
<1>3. Good(keys')
  BY <1>1, <1>2, ListFacts DEF ListNext
<1> QED
  BY <1>3 DEF ListInv, ListFits

\* A new list is empty.
LEMMA ListInvInit ==
    ASSUME Capacity \in Nat, ListInit
    PROVE  ListInv
<1>1. keys = <<>>
  BY ListMeans
<1>2. keys \in Seq(Key) /\ Len(keys) = 0 /\ IsInjective(keys)
  BY <1>1 DEF IsInjective
<1> QED
  BY <1>2 DEF ListInv, ListFits

\* A list of keys holds nobody twice and stays within its account.
THEOREM ListStaysFit ==
    ASSUME Capacity \in Nat
    PROVE  ListSpec => []ListFits
<1>1. ListInit => ListInv
  BY ListInvInit
<1>2. ListInv /\ [ListNext]_keys => ListInv'
  BY ListInvStep
<1>3. ListInv => ListFits
  BY DEF ListInv
<1> QED
  BY <1>1, <1>2, <1>3, PTL DEF ListSpec

\* The set counts as this module does.
LEMMA ListIsSet == \A S : ListedKeys!Cardinality(S) = Cardinality(S)
  BY DEF Cardinality, ListedKeys!Cardinality

\* Pushing inserts a key into the set, removing deletes it.
LEMMA ListStepRefines ==
    ASSUME Capacity \in Nat, ListInv, NEW k \in Key
    PROVE  /\ PushKey(k) => ListedKeys!Insert(k)
           /\ DropKey(k) => ListedKeys!Delete(k)
<1>1. ASSUME PushKey(k)
      PROVE  ListedKeys!Insert(k)
  <2>1. Len(keys) < Capacity
        /\ keys' = IF Contains(keys, k) THEN keys ELSE Append(keys, k)
    BY <1>1, ListMeans
  <2>2. Range(keys') = Range(keys) \cup {k}
    <3>1. CASE Contains(keys, k)
      BY <2>1, <3>1, ListFacts, ContainsRange
    <3>2. CASE ~Contains(keys, k)
      BY <2>1, <3>2, ListFacts, AppendKeeps
    <3> QED
      BY <3>1, <3>2
  <2> QED
    BY <2>1, <2>2, ListFacts, ListIsSet DEF ListedKeys!Insert
<1>2. ASSUME DropKey(k)
      PROVE  ListedKeys!Delete(k)
  <2>1. Range(keys') = Range(keys) \ {k}
    BY <1>2, DropPosition, ListFacts, RemoveKeeps
  <2> QED
    BY <2>1, ListIsSet DEF ListedKeys!Delete
<1> QED
  BY <1>1, <1>2

\* Adding and removing do to the set of keys what their names say.
THEOREM ListImplementsKeySet ==
    ASSUME Capacity \in Nat
    PROVE  ListSpec => ImplementsKeySet
<1>1. ListInit => ListInv
  BY ListInvInit
<1>2. ListInit => ListedKeys!KeySetInit
  BY ListMeans DEF ListedKeys!KeySetInit, Range
<1>3. ListInv /\ [ListNext]_keys => ListInv'
  BY ListInvStep
<1>4. ListInv =>
        \A k \in Key : /\ PushKey(k) => ListedKeys!Insert(k)
                       /\ DropKey(k) => ListedKeys!Delete(k)
  BY ListStepRefines
<1> QED
  BY <1>1, <1>2, <1>3, <1>4, PTL DEF ListSpec, ImplementsKeySet
=============================================================================
