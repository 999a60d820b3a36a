------------------------------ MODULE SumProofs ------------------------------
(***************************************************************************)
(* Sums over finite sets: what MapThenSumSet gives for the balances of any *)
(* number of accounts.  Its fold is a recursive function on the subsets of *)
(* the set, chosen from under a LET; here it gets a name (SumOn), is shown *)
(* to exist, and the lemmas about sums follow from it.                     *)
(*                                                                         *)
(* What holds for every finite set is proved by its smallest               *)
(* counterexample (SmallestSubset) and not by an induction rule, whose     *)
(* hypothesis is an operator.                                              *)
(***************************************************************************)
EXTENDS FiniteSetsExt, FiniteSetTheorems, WellFoundedInduction, TLAPS, Integers

\* The sum of the values that f has on S.
SumOver(f, S) == MapThenSumSet(LAMBDA a : f[a], S)

\* The element that the fold takes first.
Picked(S) == CHOOSE x \in S : TRUE

\* What the fold makes of T if g gives the sums of the smaller sets.
SumStep(f, g, T) == IF T = {} THEN 0 ELSE f[Picked(T)] + g[T \ {Picked(T)}]

IsSumOn(f, g, S) == g = [T \in SUBSET S |-> SumStep(f, g, T)]

SumOn(f, S) == CHOOSE g : IsSumOn(f, g, S)

\* The fold of the community modules, with its local function named.
LEMMA SumOverFold ==
    ASSUME NEW f, NEW S
    PROVE  SumOver(f, S) = SumOn(f, S)[S]
BY DEF SumOver, SumOn, IsSumOn, SumStep, Picked, MapThenSumSet, MapThenFoldSet

\* Among sets of subsets of a finite set one is smallest: what induction over
\* finite sets comes to without an operator for the induction hypothesis.
LEMMA SmallestSubset ==
    ASSUME NEW S, IsFiniteSet(S), NEW B, B \subseteq SUBSET S, B # {}
    PROVE  \E T \in B : \A U \in SUBSET T : U # T => U \notin B
<1>1. SUBSET S = FiniteSubsetsOf(S)
  BY FS_Subset DEF FiniteSubsetsOf
<1>2. IsWellFoundedOn(StrictSubsetOrdering(S), SUBSET S)
  BY <1>1, FS_StrictSubsetOrderingWellFounded
<1>3. PICK T \in B : \A U \in B : ~ (<<U, T>> \in StrictSubsetOrdering(S))
  BY <1>2, WFMin, Zenon
<1> QED
  BY <1>3 DEF StrictSubsetOrdering

\* What is left after the first element is a smaller set.
LEMMA PickedSmaller ==
    ASSUME NEW T, T # {}
    PROVE  /\ Picked(T) \in T
           /\ T \ {Picked(T)} \in SUBSET T
           /\ T \ {Picked(T)} # T
<1>1. Picked(T) \in T
  BY DEF Picked
<1> QED
  BY <1>1

\* Two functions that obey the fold on two sets, one in the other, agree on the
\* smaller one.
LEMMA SumOnAgree ==
    ASSUME NEW f, NEW S, IsFiniteSet(S), NEW U \in SUBSET S,
           NEW g, IsSumOn(f, g, S), NEW h, IsSumOn(f, h, U)
    PROVE  \A T \in SUBSET U : g[T] = h[T]
<1> DEFINE B == {T \in SUBSET U : g[T] # h[T]}
<1> SUFFICES ASSUME B # {} PROVE FALSE
  OBVIOUS
<1>1. PICK T \in B : \A V \in SUBSET T : V # T => V \notin B
  <2>1. IsFiniteSet(U)
    BY FS_Subset
  <2> HIDE DEF B
  <2>2. B \subseteq SUBSET U
    BY DEF B
  <2>3. QED
    BY <2>1, <2>2, SmallestSubset
<1>2. g[T] = SumStep(f, g, T) /\ h[T] = SumStep(f, h, T)
  BY <1>1 DEF IsSumOn
<1>3. CASE T = {}
  BY <1>1, <1>2, <1>3 DEF SumStep
<1>4. CASE T # {}
  <2>1. g[T \ {Picked(T)}] = h[T \ {Picked(T)}]
    BY <1>1, <1>4, PickedSmaller
  <2>2. QED
    BY <1>1, <1>2, <1>4, <2>1 DEF SumStep
<1> QED
  BY <1>3, <1>4

\* On a finite set the fold's local function exists.
LEMMA SumOnExists ==
    ASSUME NEW f, NEW S, IsFiniteSet(S)
    PROVE  IsSumOn(f, SumOn(f, S), S)
<1> DEFINE B == {T \in SUBSET S : ~ \E g : IsSumOn(f, g, T)}
<1> SUFFICES ASSUME B # {} PROVE FALSE
  BY DEF SumOn
<1>1. PICK T \in B : \A V \in SUBSET T : V # T => V \notin B
  <2> HIDE DEF B
  <2>1. B \subseteq SUBSET S
    BY DEF B
  <2>2. QED
    BY <2>1, SmallestSubset
<1>2. ASSUME NEW V \in SUBSET T, V # T
      PROVE  IsSumOn(f, SumOn(f, V), V) /\ IsFiniteSet(V)
  <2>1. \E g : IsSumOn(f, g, V)
    BY <1>1, <1>2
  <2>2. QED
    BY <1>1, <1>2, <2>1, FS_Subset DEF SumOn
<1> DEFINE Rest(V) == V \ {Picked(V)}
           h == [V \in SUBSET T |->
                    IF V = {} THEN 0 ELSE f[Picked(V)] + SumOn(f, Rest(V))[Rest(V)]]
<1>3. ASSUME NEW W \in SUBSET T, W # T
      PROVE  h[W] = SumOn(f, W)[W]
  <2>1. SumOn(f, W)[W] = SumStep(f, SumOn(f, W), W)
    BY <1>2, <1>3 DEF IsSumOn
  <2>2. CASE W = {}
    BY <2>1, <2>2 DEF SumStep
  <2>3. CASE W # {}
    <3>1. Rest(W) \in SUBSET W /\ Rest(W) \in SUBSET T /\ Rest(W) # T
      BY <1>3, <2>3, PickedSmaller
    <3> HIDE DEF Rest
    <3>2. SumOn(f, W)[Rest(W)] = SumOn(f, Rest(W))[Rest(W)]
      BY <1>2, <1>3, <3>1, SumOnAgree
    <3>3. QED
      BY <2>1, <2>3, <3>2 DEF SumStep, Rest
  <2> QED
    BY <2>2, <2>3
<1>4. ASSUME NEW V \in SUBSET T
      PROVE  h[V] = SumStep(f, h, V)
  <2>1. CASE V = {}
    BY <2>1 DEF SumStep
  <2>2. CASE V # {}
    <3>1. Rest(V) \in SUBSET T /\ Rest(V) # T
      BY <2>2, PickedSmaller
    <3>2. h[Rest(V)] = SumOn(f, Rest(V))[Rest(V)]
      BY <1>3, <3>1
    <3>3. h[V] = f[Picked(V)] + SumOn(f, Rest(V))[Rest(V)]
      BY <2>2
    <3> HIDE DEF h
    <3>4. QED
      BY <2>2, <3>2, <3>3 DEF SumStep
  <2> QED
    BY <2>1, <2>2
<1>5. h = [V \in SUBSET T |-> SumStep(f, h, V)]
  <2>1. h = [V \in SUBSET T |-> h[V]]
    OBVIOUS
  <2> HIDE DEF h
  <2>2. QED
    BY <1>4, <2>1
<1> QED
  <2> HIDE DEF h
  <2> QED
    BY <1>1, <1>5 DEF IsSumOn

-----------------------------------------------------------------------------

\* The sum over no elements is zero.
LEMMA SumOfNothing ==
    ASSUME NEW f
    PROVE  SumOver(f, {}) = 0
<1>1. IsSumOn(f, SumOn(f, {}), {})
  BY FS_EmptySet, SumOnExists
<1>2. SumOn(f, {})[{}] = SumStep(f, SumOn(f, {}), {})
  BY <1>1 DEF IsSumOn
<1> QED
  BY <1>2, SumOverFold DEF SumStep

\* A sum is the value of the element picked and the sum of the rest.
LEMMA SumOfPicked ==
    ASSUME NEW f, NEW S, IsFiniteSet(S), S # {}
    PROVE  SumOver(f, S) = f[Picked(S)] + SumOver(f, S \ {Picked(S)})
<1> DEFINE R == S \ {Picked(S)}
<1>1. R \in SUBSET S /\ IsFiniteSet(R)
  BY FS_Subset
<1>2. SumOn(f, S)[S] = f[Picked(S)] + SumOn(f, S)[R]
  <2>1. IsSumOn(f, SumOn(f, S), S)
    BY SumOnExists
  <2>2. SumOn(f, S)[S] = SumStep(f, SumOn(f, S), S)
    BY <2>1 DEF IsSumOn
  <2> QED
    BY <2>2 DEF SumStep
<1>3. SumOn(f, S)[R] = SumOn(f, R)[R]
  <2> HIDE DEF R
  <2> QED
    BY <1>1, SumOnExists, SumOnAgree
<1> QED
  BY <1>2, <1>3, SumOverFold

\* A sum of integers is one, and of naturals too.
LEMMA SumType ==
    ASSUME NEW S, IsFiniteSet(S), NEW f,
           NEW D, D \in {Nat, Int}, \A a \in S : f[a] \in D
    PROVE  SumOver(f, S) \in D
<1> DEFINE B == {T \in SUBSET S : SumOver(f, T) \notin D}
<1> SUFFICES ASSUME B # {} PROVE FALSE
  OBVIOUS
<1>1. PICK T \in B : \A V \in SUBSET T : V # T => V \notin B
  <2> HIDE DEF B
  <2>1. B \subseteq SUBSET S
    BY DEF B
  <2>2. QED
    BY <2>1, SmallestSubset
<1>2. IsFiniteSet(T)
  BY <1>1, FS_Subset
<1>3. CASE T = {}
  BY <1>1, <1>3, SumOfNothing
<1>4. CASE T # {}
  <2> DEFINE p == Picked(T)
  <2>1. p \in T /\ T \ {p} \in SUBSET T /\ T \ {p} # T
    BY <1>4, PickedSmaller
  <2>2. SumOver(f, T) = f[p] + SumOver(f, T \ {p})
    BY <1>2, <1>4, SumOfPicked
  <2> HIDE DEF p
  <2>3. SumOver(f, T \ {p}) \in D /\ f[p] \in D
    BY <1>1, <2>1
  <2>4. SumOver(f, T) \in D
    BY <2>2, <2>3
  <2>5. QED
    BY <1>1, <2>4
<1> QED
  BY <1>3, <1>4

\* The order in which the fold picks does not matter: any element may come first.
LEMMA SumWithout ==
    ASSUME NEW S, IsFiniteSet(S), NEW f, \A a \in S : f[a] \in Int,
           NEW x \in S
    PROVE  SumOver(f, S) = f[x] + SumOver(f, S \ {x})
<1> DEFINE B == {T \in SUBSET S :
                   \E y \in T : SumOver(f, T) # f[y] + SumOver(f, T \ {y})}
<1> SUFFICES ASSUME B # {} PROVE FALSE
  OBVIOUS
<1>1. PICK T \in B : \A V \in SUBSET T : V # T => V \notin B
  <2> HIDE DEF B
  <2>1. B \subseteq SUBSET S
    BY DEF B
  <2>2. QED
    BY <2>1, SmallestSubset
<1>2. ASSUME NEW V \in SUBSET T
      PROVE  IsFiniteSet(V) /\ SumOver(f, V) \in Int
  <2>1. IsFiniteSet(V)
    BY <1>1, FS_Subset
  <2>2. \A a \in V : f[a] \in Int
    BY <1>1
  <2>3. QED
    BY <2>1, <2>2, SumType
<1>3. PICK y \in T : SumOver(f, T) # f[y] + SumOver(f, T \ {y})
  BY <1>1
<1> DEFINE p == Picked(T)
<1>4. p \in T /\ SumOver(f, T) = f[p] + SumOver(f, T \ {p})
  BY <1>2, <1>3, PickedSmaller, SumOfPicked
<1> HIDE DEF p
<1>5. p # y
  BY <1>3, <1>4
<1>6. SumOver(f, T \ {p}) = f[y] + SumOver(f, (T \ {p}) \ {y})
  BY <1>1, <1>3, <1>4, <1>5
<1>7. SumOver(f, T \ {y}) = f[p] + SumOver(f, (T \ {y}) \ {p})
  BY <1>1, <1>3, <1>4, <1>5
<1>8. (T \ {p}) \ {y} = (T \ {y}) \ {p}
  OBVIOUS
<1>9. f[p] \in Int /\ f[y] \in Int /\ SumOver(f, (T \ {p}) \ {y}) \in Int
  <2>1. f[p] \in Int /\ f[y] \in Int
    BY <1>1, <1>3, <1>4
  <2>2. (T \ {p}) \ {y} \in SUBSET T
    OBVIOUS
  <2>3. QED
    BY <1>2, <2>1, <2>2
<1> QED
  BY <1>3, <1>4, <1>6, <1>7, <1>8, <1>9

\* Functions that agree on a set have the same sum over it.
LEMMA SumSame ==
    ASSUME NEW S, IsFiniteSet(S), NEW f, NEW g, \A a \in S : g[a] = f[a]
    PROVE  SumOver(g, S) = SumOver(f, S)
<1> DEFINE B == {T \in SUBSET S : SumOver(g, T) # SumOver(f, T)}
<1> SUFFICES ASSUME B # {} PROVE FALSE
  OBVIOUS
<1>1. PICK T \in B : \A V \in SUBSET T : V # T => V \notin B
  <2> HIDE DEF B
  <2>1. B \subseteq SUBSET S
    BY DEF B
  <2>2. QED
    BY <2>1, SmallestSubset
<1>2. CASE T = {}
  BY <1>1, <1>2, SumOfNothing
<1>3. CASE T # {}
  <2> DEFINE p == Picked(T)
  <2>1. p \in T /\ T \ {p} \in SUBSET T /\ T \ {p} # T
    BY <1>3, PickedSmaller
  <2>2. IsFiniteSet(T)
    BY <1>1, FS_Subset
  <2>3. /\ SumOver(f, T) = f[p] + SumOver(f, T \ {p})
        /\ SumOver(g, T) = g[p] + SumOver(g, T \ {p})
    BY <1>3, <2>2, SumOfPicked
  <2> HIDE DEF p
  <2>4. g[p] = f[p] /\ SumOver(g, T \ {p}) = SumOver(f, T \ {p})
    BY <1>1, <2>1
  <2>5. QED
    BY <1>1, <2>3, <2>4
<1> QED
  BY <1>2, <1>3

-----------------------------------------------------------------------------
(* What the proofs about balances need *)

\* Where every value is zero, as when the token is deployed, so is the sum.
LEMMA SumOfZeros ==
    ASSUME NEW S, IsFiniteSet(S)
    PROVE  SumOver([a \in S |-> 0], S) = 0
<1> DEFINE z == [a \in S |-> 0]
           B == {T \in SUBSET S : SumOver(z, T) # 0}
<1> SUFFICES ASSUME B # {} PROVE FALSE
  OBVIOUS
<1>1. PICK T \in B : \A V \in SUBSET T : V # T => V \notin B
  <2> HIDE DEF B
  <2>1. B \subseteq SUBSET S
    BY DEF B
  <2>2. QED
    BY <2>1, SmallestSubset
<1>2. \A a \in T : z[a] = 0
  BY <1>1
<1> HIDE DEF z
<1>3. CASE T = {}
  BY <1>1, <1>3, SumOfNothing
<1>4. CASE T # {}
  <2> DEFINE p == Picked(T)
  <2>1. p \in T /\ T \ {p} \in SUBSET T /\ T \ {p} # T
    BY <1>4, PickedSmaller
  <2>2. IsFiniteSet(T)
    BY <1>1, FS_Subset
  <2>3. SumOver(z, T) = z[p] + SumOver(z, T \ {p})
    BY <1>4, <2>2, SumOfPicked
  <2> HIDE DEF p
  <2>4. z[p] = 0 /\ SumOver(z, T \ {p}) = 0
    BY <1>1, <1>2, <2>1
  <2>5. QED
    BY <1>1, <2>3, <2>4
<1> QED
  BY <1>3, <1>4

\* Where one value changes, the sum changes by as much.
LEMMA SumChanged ==
    ASSUME NEW S, IsFiniteSet(S), NEW f \in [S -> Int], NEW g \in [S -> Int],
           NEW x \in S, \A a \in S \ {x} : g[a] = f[a]
    PROVE  SumOver(g, S) = SumOver(f, S) - f[x] + g[x]
<1> DEFINE R == S \ {x}
<1>1. IsFiniteSet(R)
  BY FS_Subset
<1>2. \A a \in S : f[a] \in Int /\ g[a] \in Int
  OBVIOUS
<1>3. SumOver(f, R) \in Int
  BY <1>1, SumType
<1>4. SumOver(f, S) = f[x] + SumOver(f, R)
  BY <1>2, SumWithout
<1>5. SumOver(g, S) = g[x] + SumOver(g, R)
  BY <1>2, SumWithout
<1>6. SumOver(g, R) = SumOver(f, R)
  <2> HIDE DEF R
  <2> QED
    BY <1>1, SumSame DEF R
<1> HIDE DEF R
<1> QED
  BY <1>2, <1>3, <1>4, <1>5, <1>6

\* What one value gives to another does not change the sum.
LEMMA SumMoved ==
    ASSUME NEW S, IsFiniteSet(S), NEW f \in [S -> Int], NEW g \in [S -> Int],
           NEW x \in S, NEW y \in S, x # y, f[x] + f[y] = g[x] + g[y],
           \A a \in S \ {x, y} : g[a] = f[a]
    PROVE  SumOver(g, S) = SumOver(f, S)
<1> DEFINE h == [f EXCEPT ![x] = g[x]]
<1>1. /\ f[x] \in Int /\ f[y] \in Int /\ g[x] \in Int /\ g[y] \in Int
      /\ \A a \in S : f[a] \in Int
  OBVIOUS
<1>2. h \in [S -> Int] /\ h[x] = g[x] /\ h[y] = f[y] /\ \A a \in S \ {x} : h[a] = f[a]
  BY <1>1
<1>3. \A a \in S \ {y} : g[a] = h[a]
  BY <1>2
<1> HIDE DEF h
<1>4. SumOver(h, S) = SumOver(f, S) - f[x] + h[x]
  BY <1>2, SumChanged
<1>5. SumOver(g, S) = SumOver(h, S) - h[y] + g[y]
  BY <1>2, <1>3, SumChanged
<1>6. SumOver(f, S) \in Int
  BY <1>1, SumType
<1> QED
  BY <1>1, <1>2, <1>4, <1>5, <1>6

\* No value of naturals is above their sum, and no two of them together are.
LEMMA SumBounds ==
    ASSUME NEW S, IsFiniteSet(S), NEW f \in [S -> Nat]
    PROVE  /\ \A x \in S : f[x] <= SumOver(f, S)
           /\ \A x, y \in S : x # y => f[x] + f[y] <= SumOver(f, S)
<1>1. ASSUME NEW x \in S
      PROVE  /\ IsFiniteSet(S \ {x})
             /\ SumOver(f, S \ {x}) \in Nat
             /\ SumOver(f, S) = f[x] + SumOver(f, S \ {x})
  <2>1. IsFiniteSet(S \ {x})
    BY FS_Subset
  <2>2. SumOver(f, S \ {x}) \in Nat
    BY <2>1, SumType
  <2>3. \A a \in S : f[a] \in Int
    OBVIOUS
  <2>4. SumOver(f, S) = f[x] + SumOver(f, S \ {x})
    BY <2>3, SumWithout
  <2>5. QED
    BY <2>1, <2>2, <2>4
<1>2. ASSUME NEW x \in S, NEW y \in S, x # y
      PROVE  f[x] + f[y] <= SumOver(f, S)
  <2> DEFINE R == S \ {x}
  <2>1. y \in R /\ IsFiniteSet(R) /\ IsFiniteSet(R \ {y})
    BY <1>1, <1>2, FS_Subset
  <2>2. SumOver(f, R) = f[y] + SumOver(f, R \ {y})
    BY <2>1, SumWithout
  <2>3. SumOver(f, R \ {y}) \in Nat
    BY <2>1, SumType
  <2>4. QED
    BY <1>1, <2>2, <2>3
<1>3. ASSUME NEW x \in S
      PROVE  f[x] <= SumOver(f, S)
  <2> DEFINE rest == SumOver(f, S \ {x})
  <2>1. f[x] \in Nat
    OBVIOUS
  <2>2. rest \in Nat /\ SumOver(f, S) = f[x] + rest
    BY <1>1
  <2> HIDE DEF rest
  <2>3. QED
    BY <2>1, <2>2
<1> QED
  BY <1>2, <1>3
=============================================================================
