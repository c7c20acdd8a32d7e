------------------------------ MODULE SumLemmas ------------------------------
(***************************************************************************)
(* Induction in the form the provers can use, and what sums over finite    *)
(* index sets do when one summand changes.                                 *)
(*                                                                         *)
(* The induction theorems of the library take the induction hypothesis as  *)
(* an operator, which the backends cannot instantiate.  Here the           *)
(* hypothesis is a set of naturals, and the induction is the minimum       *)
(* principle of the well-founded order on Nat.  A fold is a recursive      *)
(* function on the subsets of its index set; such a function exists on the *)
(* subsets of up to n elements for every n (FoldExists), which is what     *)
(* makes its defining equation usable (SumStep).                           *)
(***************************************************************************)
EXTENDS Integers, FiniteSets, Functions, WellFoundedInduction, FiniteSetTheorems, TLAPS

\* A set of naturals with 0 and closed under successor is Nat.
LEMMA SetInduction ==
  ASSUME NEW T \in SUBSET Nat, 0 \in T, \A n \in T : n + 1 \in T
  PROVE  \A n \in Nat : n \in T
<1> SUFFICES ASSUME ~ \A n \in Nat : n \in T PROVE FALSE
  OBVIOUS
<1> DEFINE U == Nat \ T
           R == OpToRel(<, Nat)
<1>1. U \subseteq Nat /\ U # {}
  OBVIOUS
<1>2. IsWellFoundedOn(R, Nat)
  BY NatLessThanWellFounded
<1> HIDE DEF R
<1>3. PICK x \in U : \A y \in U : ~ (<<y, x>> \in R)
  BY <1>1, <1>2, WFMin
<1>4. x # 0 /\ x - 1 \in Nat /\ x - 1 < x
  BY <1>3
<1>5. x - 1 \in U
  BY <1>4
<1>6. <<x - 1, x>> \in R
  BY <1>3, <1>4 DEF R, OpToRel
<1> QED
  BY <1>3, <1>5, <1>6

\* The member a fold takes out of a set next.
Pick(s) == CHOOSE x \in s : TRUE

\* h folds f by addition over the subsets of S that have at most n members.
Folds(h, f, S, n) ==
  /\ h \in [SUBSET S -> Int]
  /\ \A s \in SUBSET S : Cardinality(s) <= n =>
        h[s] = IF s = {} THEN 0 ELSE f[Pick(s)] + h[s \ {Pick(s)}]

\* Taking the picked member out of a nonempty finite set.
LEMMA PickedOut ==
  ASSUME NEW S, IsFiniteSet(S), NEW s \in SUBSET S, s # {}
  PROVE  /\ Pick(s) \in s
         /\ s \ {Pick(s)} \in SUBSET S
         /\ Cardinality(s) \in Nat \ {0}
         /\ Cardinality(s \ {Pick(s)}) = Cardinality(s) - 1
<1>1. Pick(s) \in s
  BY DEF Pick
<1>2. IsFiniteSet(s)
  BY FS_Subset
<1>3. Cardinality(s) \in Nat /\ Cardinality(s \ {Pick(s)}) = Cardinality(s) - 1
  BY <1>1, <1>2, FS_CardinalityType, FS_RemoveElement
<1>4. Cardinality(s) # 0
  BY <1>2, FS_EmptySet
<1> QED
  BY <1>1, <1>3, <1>4

\* For every n there is a function that folds f over the subsets of up to n members.
LEMMA FoldExists ==
  ASSUME NEW S, IsFiniteSet(S), NEW f \in [S -> Int]
  PROVE  \A n \in Nat : \E h : Folds(h, f, S, n)
<1> DEFINE T == {n \in Nat : \E h : Folds(h, f, S, n)}
<1>1. 0 \in T
  <2> DEFINE h == [s \in SUBSET S |-> 0]
  <2>1. ASSUME NEW s \in SUBSET S, s # {} PROVE ~ (Cardinality(s) <= 0)
    <3>1. Cardinality(s) \in Nat \ {0}
      BY <2>1, PickedOut
    <3> QED
      BY <3>1
  <2>2. Folds(h, f, S, 0)
    BY <2>1 DEF Folds
  <2> QED
    BY <2>2
<1>2. ASSUME NEW n \in T PROVE n + 1 \in T
  <2>1. PICK h : Folds(h, f, S, n)
    OBVIOUS
  <2> DEFINE g == [s \in SUBSET S |-> IF s # {} /\ Cardinality(s) = n + 1
                                      THEN f[Pick(s)] + h[s \ {Pick(s)}] ELSE h[s]]
  <2>2. ASSUME NEW s \in SUBSET S, s # {}
        PROVE  f[Pick(s)] + h[s \ {Pick(s)}] \in Int
    <3>1. Pick(s) \in s /\ s \ {Pick(s)} \in SUBSET S
      BY <2>2, PickedOut
    <3>2. f[Pick(s)] \in Int /\ h[s \ {Pick(s)}] \in Int
      BY <2>1, <3>1 DEF Folds
    <3> QED
      BY <3>2
  <2>3. g \in [SUBSET S -> Int]
    BY <2>1, <2>2 DEF Folds
  <2>4. ASSUME NEW s \in SUBSET S, Cardinality(s) <= n + 1
        PROVE  g[s] = IF s = {} THEN 0 ELSE f[Pick(s)] + g[s \ {Pick(s)}]
    <3>1. CASE s = {}
      <4>1. Cardinality(s) = 0
        BY <3>1, FS_EmptySet
      <4> QED
        BY <2>1, <3>1, <4>1 DEF Folds
    <3>2. CASE s # {} /\ Cardinality(s) = n + 1
      <4>1. s \ {Pick(s)} \in SUBSET S /\ Cardinality(s \ {Pick(s)}) = n
        BY <3>2, PickedOut
      <4>2. g[s \ {Pick(s)}] = h[s \ {Pick(s)}]
        BY <4>1
      <4> QED
        BY <3>2, <4>2
    <3>3. CASE s # {} /\ Cardinality(s) # n + 1
      <4>1. /\ s \ {Pick(s)} \in SUBSET S /\ Cardinality(s) \in Nat
            /\ Cardinality(s \ {Pick(s)}) = Cardinality(s) - 1
        BY <3>3, PickedOut
      <4>2. Cardinality(s) <= n /\ Cardinality(s \ {Pick(s)}) # n + 1
        BY <2>4, <3>3, <4>1
      <4>3. g[s] = h[s] /\ g[s \ {Pick(s)}] = h[s \ {Pick(s)}]
        BY <3>3, <4>1, <4>2
      <4> QED
        BY <2>1, <3>3, <4>2, <4>3 DEF Folds
    <3> QED
      BY <3>1, <3>2, <3>3
  <2> HIDE DEF g
  <2>5. Folds(g, f, S, n + 1)
    BY <2>3, <2>4 DEF Folds
  <2> QED
    BY <2>5
<1> HIDE DEF T
<1>3. \A n \in Nat : n \in T
  <2>1. T \in SUBSET Nat
    BY DEF T
  <2> QED
    BY <1>1, <1>2, <2>1, SetInduction
<1> QED
  BY <1>3 DEF T

\* The sum of f over the subset s of S, with the equation of a fold.
FoldOf(f, S) ==
  CHOOSE h : h = [s \in SUBSET S |-> IF s = {} THEN 0 ELSE f[Pick(s)] + h[s \ {Pick(s)}]]

\* SumFunctionOnSet is the fold of the whole set, and its equation holds.
LEMMA SumStep ==
  ASSUME NEW S, IsFiniteSet(S), NEW f \in [S -> Int]
  PROVE  /\ SumFunctionOnSet(f, S) = FoldOf(f, S)[S]
         /\ FoldOf(f, S)[{}] = 0
         /\ \A s \in SUBSET S : s # {} =>
               FoldOf(f, S)[s] = f[Pick(s)] + FoldOf(f, S)[s \ {Pick(s)}]
<1>1. SumFunctionOnSet(f, S) = FoldOf(f, S)[S]
  BY DEF SumFunctionOnSet, FoldFunctionOnSet, MapThenFoldSet, FoldOf, Pick
<1>2. Cardinality(S) \in Nat
  BY FS_CardinalityType
<1>3. PICK h : Folds(h, f, S, Cardinality(S))
  BY <1>2, FoldExists
<1>4. \A s \in SUBSET S : Cardinality(s) <= Cardinality(S)
  BY FS_Subset
<1>5. h = [s \in SUBSET S |-> IF s = {} THEN 0 ELSE f[Pick(s)] + h[s \ {Pick(s)}]]
  BY <1>3, <1>4 DEF Folds
<1> DEFINE F == FoldOf(f, S)
<1>6. F = [s \in SUBSET S |-> IF s = {} THEN 0 ELSE f[Pick(s)] + F[s \ {Pick(s)}]]
  BY <1>5 DEF FoldOf
<1> HIDE DEF F
<1>7. F[{}] = 0
  BY <1>6
<1>8. \A s \in SUBSET S : s # {} => F[s] = f[Pick(s)] + F[s \ {Pick(s)}]
  BY <1>6
<1> QED
  BY <1>1, <1>7, <1>8 DEF F

\* Two functions on S that agree on s except at one point i of it: the sums
\* over s differ by the difference at i, and outside i they are the same.
\* The induction is on the number of members of s.
LEMMA SumsCompared ==
  ASSUME NEW S, IsFiniteSet(S), NEW f \in [S -> Int], NEW g \in [S -> Int], NEW i \in S,
         \A j \in S : j # i => f[j] = g[j]
  PROVE  \A s \in SUBSET S :
            /\ FoldOf(f, S)[s] \in Int
            /\ FoldOf(g, S)[s] = FoldOf(f, S)[s] + (IF i \in s THEN g[i] - f[i] ELSE 0)
<1> DEFINE F == FoldOf(f, S)
           G == FoldOf(g, S)
           Good(s) == F[s] \in Int /\ G[s] = F[s] + (IF i \in s THEN g[i] - f[i] ELSE 0)
           T == {n \in Nat : \A s \in SUBSET S : Cardinality(s) = n => Good(s)}
<1>a. /\ F[{}] = 0 /\ G[{}] = 0
      /\ \A s \in SUBSET S : s # {} => F[s] = f[Pick(s)] + F[s \ {Pick(s)}]
      /\ \A s \in SUBSET S : s # {} => G[s] = g[Pick(s)] + G[s \ {Pick(s)}]
  BY SumStep
<1> HIDE DEF F, G
<1>b. f[i] \in Int /\ g[i] \in Int
  OBVIOUS
<1>1. 0 \in T
  <2> SUFFICES ASSUME NEW s \in SUBSET S, Cardinality(s) = 0 PROVE Good(s)
    OBVIOUS
  <2>1. s = {}
    BY PickedOut
  <2> QED
    BY <1>a, <2>1
<1>2. ASSUME NEW n \in T PROVE n + 1 \in T
  <2> SUFFICES ASSUME NEW s \in SUBSET S, Cardinality(s) = n + 1 PROVE Good(s)
    OBVIOUS
  <2>0. n \in Nat
    OBVIOUS
  <2>1. s # {}
    <3> SUFFICES ASSUME s = {} PROVE FALSE
      OBVIOUS
    <3>1. Cardinality({}) = 0
      BY FS_EmptySet
    <3> QED
      BY <2>0, <3>1
  <2> DEFINE p == Pick(s)
             r == s \ {p}
  <2>2. p \in s /\ r \in SUBSET S /\ Cardinality(r) = n
    BY <2>1, PickedOut
  <2>3. F[s] = f[p] + F[r] /\ G[s] = g[p] + G[r]
    BY <1>a, <2>1
  <2>p. p \in S /\ f[p] \in Int /\ (p # i => f[p] = g[p])
    BY <2>2
  <2>4. F[r] \in Int /\ G[r] = F[r] + (IF i \in r THEN g[i] - f[i] ELSE 0)
    BY <2>2
  <2>5. r = s \ {p}
    OBVIOUS
  <2> HIDE DEF p, r
  <2>6. CASE p = i
    <3>1. i \in s /\ i \notin r
      BY <2>2, <2>5, <2>6
    <3> QED
      BY <1>b, <2>3, <2>4, <2>6, <3>1
  <2>7. CASE p # i
    <3>1. i \in s <=> i \in r
      BY <2>5, <2>7
    <3> QED
      BY <1>b, <2>3, <2>p, <2>4, <2>7, <3>1
  <2> QED
    BY <2>6, <2>7
<1>3. \A n \in Nat : n \in T
  <2> HIDE DEF T
  <2>1. T \in SUBSET Nat
    BY DEF T
  <2> QED
    BY <1>1, <1>2, <2>1, SetInduction
<1> SUFFICES ASSUME NEW s \in SUBSET S PROVE Good(s)
  BY DEF F, G
<1>4. Cardinality(s) \in Nat
  BY FS_Subset, FS_CardinalityType
<1> QED
  BY <1>3, <1>4

\* Changing one summand changes the sum by the difference.
LEMMA SumChanged ==
  ASSUME NEW S, IsFiniteSet(S), NEW f \in [S -> Int], NEW g \in [S -> Int], NEW i \in S,
         \A j \in S : j # i => f[j] = g[j]
  PROVE  /\ SumFunctionOnSet(f, S) \in Int
         /\ SumFunctionOnSet(g, S) = SumFunctionOnSet(f, S) - f[i] + g[i]
<1>1. f[i] \in Int /\ g[i] \in Int /\ i \in S /\ S \in SUBSET S
  OBVIOUS
<1>2. /\ FoldOf(f, S)[S] \in Int
      /\ FoldOf(g, S)[S] = FoldOf(f, S)[S] + (IF i \in S THEN g[i] - f[i] ELSE 0)
  BY <1>1, SumsCompared
<1>3. SumFunctionOnSet(f, S) = FoldOf(f, S)[S] /\ SumFunctionOnSet(g, S) = FoldOf(g, S)[S]
  BY SumStep
<1> QED
  BY <1>1, <1>2, <1>3

\* A sum of naturals is a natural.
LEMMA SumNat ==
  ASSUME NEW S, IsFiniteSet(S), NEW f \in [S -> Nat]
  PROVE  SumFunctionOnSet(f, S) \in Nat
<1> DEFINE F == FoldOf(f, S)
           T == {n \in Nat : \A s \in SUBSET S : Cardinality(s) = n => F[s] \in Nat}
<1>0. f \in [S -> Int]
  OBVIOUS
<1>1. /\ SumFunctionOnSet(f, S) = F[S] /\ F[{}] = 0
      /\ \A s \in SUBSET S : s # {} => F[s] = f[Pick(s)] + F[s \ {Pick(s)}]
  BY <1>0, SumStep
<1> HIDE DEF F
<1>2. 0 \in T
  <2> SUFFICES ASSUME NEW s \in SUBSET S, Cardinality(s) = 0 PROVE F[s] \in Nat
    OBVIOUS
  <2>1. s = {}
    BY PickedOut
  <2> QED
    BY <1>1, <2>1
<1>3. ASSUME NEW n \in T PROVE n + 1 \in T
  <2> SUFFICES ASSUME NEW s \in SUBSET S, Cardinality(s) = n + 1 PROVE F[s] \in Nat
    OBVIOUS
  <2>1. CASE s = {}
    BY <1>1, <2>1
  <2>2. CASE s # {}
    <3>1. /\ Pick(s) \in s /\ s \ {Pick(s)} \in SUBSET S
          /\ Cardinality(s \ {Pick(s)}) = n
      BY <2>2, PickedOut
    <3>2. f[Pick(s)] \in Nat /\ F[s \ {Pick(s)}] \in Nat
      BY <3>1
    <3>3. F[s] = f[Pick(s)] + F[s \ {Pick(s)}]
      BY <1>1, <2>2
    <3> QED
      BY <3>2, <3>3
  <2> QED
    BY <2>1, <2>2
<1>4. T \in SUBSET Nat
  OBVIOUS
<1>5. Cardinality(S) \in Nat
  BY FS_CardinalityType
<1>6. \A n \in Nat : n \in T
  <2> HIDE DEF T
  <2> QED
    BY <1>2, <1>3, <1>4, SetInduction
<1> QED
  BY <1>1, <1>5, <1>6

\* The partial sums F of f are integers, and one member more adds its value.
Additive(F, f, S) ==
  /\ \A s \in SUBSET S : F[s] \in Int
  /\ \A s \in SUBSET S, x \in S : x \notin s => F[s \cup {x}] = F[s] + f[x]

\* The fold over a finite set is additive in its members.
LEMMA FoldInsert ==
  ASSUME NEW S, IsFiniteSet(S), NEW f \in [S -> Int]
  PROVE  Additive(FoldOf(f, S), f, S)
<1> DEFINE F == FoldOf(f, S)
           Good(s) == /\ F[s] \in Int
                      /\ \A x \in S \ s : F[s \cup {x}] = F[s] + f[x]
           T == {n \in Nat : \A s \in SUBSET S : Cardinality(s) = n => Good(s)}
<1>a. /\ F[{}] = 0
      /\ \A s \in SUBSET S : s # {} => F[s] = f[Pick(s)] + F[s \ {Pick(s)}]
  BY SumStep
<1>i. \A x \in S : f[x] \in Int
  OBVIOUS
<1> HIDE DEF F
<1>1. 0 \in T
  <2> SUFFICES ASSUME NEW s \in SUBSET S, Cardinality(s) = 0 PROVE Good(s)
    OBVIOUS
  <2>1. s = {}
    BY PickedOut
  <2>2. ASSUME NEW x \in S PROVE F[{} \cup {x}] = 0 + f[x]
    <3>1. /\ {} \cup {x} \in SUBSET S /\ {} \cup {x} # {}
          /\ Pick({} \cup {x}) = x /\ ({} \cup {x}) \ {x} = {}
      BY DEF Pick
    <3>2. F[{} \cup {x}] = f[x] + F[{}]
      BY <1>a, <3>1
    <3> QED
      BY <1>a, <1>i, <3>2
  <2> QED
    BY <1>a, <2>1, <2>2
<1>2. ASSUME NEW n \in T PROVE n + 1 \in T
  <2> SUFFICES ASSUME NEW s \in SUBSET S, Cardinality(s) = n + 1 PROVE Good(s)
    OBVIOUS
  <2>0. n \in Nat /\ \A u \in SUBSET S : Cardinality(u) = n => Good(u)
    OBVIOUS
  <2>s. IsFiniteSet(s)
    BY FS_Subset
  <2>1. ASSUME NEW p \in s
        PROVE  /\ s \ {p} \in SUBSET S /\ Good(s \ {p}) /\ p \in S \ (s \ {p})
               /\ F[s] = F[s \ {p}] + f[p] /\ F[s \ {p}] \in Int
    <3>0. Cardinality(s \ {p}) = Cardinality(s) - 1
      BY <2>s, FS_RemoveElement
    <3>1. Cardinality(s \ {p}) = n
      BY <2>0, <3>0
    <3>2. s \ {p} \in SUBSET S /\ p \in S \ (s \ {p}) /\ (s \ {p}) \cup {p} = s
      OBVIOUS
    <3>3. Good(s \ {p})
      BY <2>0, <3>1, <3>2
    <3> QED
      BY <3>2, <3>3
  <2>2. s # {}
    <3> SUFFICES ASSUME s = {} PROVE FALSE
      OBVIOUS
    <3>1. Cardinality({}) = 0
      BY FS_EmptySet
    <3> QED
      BY <2>0, <3>1
  <2>3. F[s] \in Int
    <3>1. PICK p \in s : TRUE
      BY <2>2
    <3>2. F[s] = F[s \ {p}] + f[p] /\ F[s \ {p}] \in Int /\ f[p] \in Int
      BY <1>i, <2>1
    <3> QED
      BY <3>2
  <2>4. ASSUME NEW x \in S \ s PROVE F[s \cup {x}] = F[s] + f[x]
    <3> DEFINE t == s \cup {x}
               p == Pick(t)
    <3>1. t \in SUBSET S /\ t # {} /\ p \in t /\ p \in S
      BY DEF Pick
    <3>2. F[t] = f[p] + F[t \ {p}]
      BY <1>a, <3>1
    <3>3. CASE p = x
      <4>1. t \ {p} = s
        BY <3>3
      <4>2. F[t] = f[x] + F[s] /\ f[x] \in Int
        BY <1>i, <3>2, <3>3, <4>1
      <4> HIDE DEF t, p
      <4>3. F[t] = F[s] + f[x]
        BY <2>3, <4>2
      <4> QED
        BY <4>3 DEF t
    <3>4. CASE p # x
      <4>1. p \in s /\ t \ {p} = (s \ {p}) \cup {x} /\ x \in S \ (s \ {p})
        BY <3>1, <3>4
      <4>2. F[(s \ {p}) \cup {x}] = F[s \ {p}] + f[x]
        BY <2>1, <4>1
      <4>3. F[s] = F[s \ {p}] + f[p] /\ F[s \ {p}] \in Int
        BY <2>1, <4>1
      <4>4. F[t] = f[p] + (F[s \ {p}] + f[x])
        BY <3>2, <4>1, <4>2
      <4>5. f[p] \in Int /\ f[x] \in Int
        BY <1>i, <3>1
      <4> HIDE DEF t, p
      <4>6. F[t] = F[s] + f[x]
        BY <4>3, <4>4, <4>5
      <4> QED
        BY <4>6 DEF t
    <3> QED
      BY <3>3, <3>4
  <2> QED
    BY <2>3, <2>4
<1>3. \A n \in Nat : n \in T
  <2> HIDE DEF T
  <2>1. T \in SUBSET Nat
    BY DEF T
  <2> QED
    BY <1>1, <1>2, <2>1, SetInduction
<1>4. ASSUME NEW s \in SUBSET S PROVE Good(s)
  <2>1. Cardinality(s) \in Nat
    BY FS_Subset, FS_CardinalityType
  <2> QED
    BY <1>3, <2>1
<1>5. Additive(F, f, S)
  BY <1>4 DEF Additive
<1> QED
  BY <1>5 DEF F

\* The sum over a part of S of a function that agrees with f there is a
\* partial sum of f.
LEMMA SumWithin ==
  ASSUME NEW S, IsFiniteSet(S), NEW f \in [S -> Int], NEW T \in SUBSET S,
         NEW g \in [T -> Int], \A x \in T : g[x] = f[x]
  PROVE  SumFunctionOnSet(g, T) = FoldOf(f, S)[T]
<1> DEFINE F == FoldOf(f, S)
           G == FoldOf(g, T)
           N == {n \in Nat : \A s \in SUBSET T : Cardinality(s) = n => G[s] = F[s]}
<1>f. IsFiniteSet(T)
  BY FS_Subset
<1>a. /\ F[{}] = 0 /\ G[{}] = 0 /\ SumFunctionOnSet(g, T) = G[T]
      /\ \A s \in SUBSET S : s # {} => F[s] = f[Pick(s)] + F[s \ {Pick(s)}]
      /\ \A s \in SUBSET T : s # {} => G[s] = g[Pick(s)] + G[s \ {Pick(s)}]
  BY <1>f, SumStep
<1> HIDE DEF F, G
<1>1. 0 \in N
  <2> SUFFICES ASSUME NEW s \in SUBSET T, Cardinality(s) = 0 PROVE G[s] = F[s]
    OBVIOUS
  <2>1. s = {}
    BY <1>f, PickedOut
  <2> QED
    BY <1>a, <2>1
<1>2. ASSUME NEW n \in N PROVE n + 1 \in N
  <2> SUFFICES ASSUME NEW s \in SUBSET T, Cardinality(s) = n + 1 PROVE G[s] = F[s]
    OBVIOUS
  <2>1. CASE s = {}
    BY <1>a, <2>1
  <2>2. CASE s # {}
    <3>1. /\ Pick(s) \in s /\ s \ {Pick(s)} \in SUBSET T
          /\ Cardinality(s \ {Pick(s)}) = n
      BY <1>f, <2>2, PickedOut
    <3>2. G[s \ {Pick(s)}] = F[s \ {Pick(s)}] /\ g[Pick(s)] = f[Pick(s)]
      BY <3>1
    <3>3. s \in SUBSET S
      OBVIOUS
    <3> QED
      BY <1>a, <2>2, <3>2, <3>3
  <2> QED
    BY <2>1, <2>2
<1>3. \A n \in Nat : n \in N
  <2> HIDE DEF N
  <2>1. N \in SUBSET Nat
    BY DEF N
  <2> QED
    BY <1>1, <1>2, <2>1, SetInduction
<1>4. Cardinality(T) \in Nat
  BY <1>f, FS_CardinalityType
<1>5. G[T] = F[T]
  BY <1>3, <1>4
<1> QED
  BY <1>a, <1>5 DEF F

\* A sum with one index more.
LEMMA SumInsert ==
  ASSUME NEW T, IsFiniteSet(T), NEW x, x \notin T, NEW f \in [T \cup {x} -> Int],
         NEW g \in [T -> Int], \A y \in T : g[y] = f[y]
  PROVE  /\ SumFunctionOnSet(g, T) \in Int
         /\ SumFunctionOnSet(f, T \cup {x}) = SumFunctionOnSet(g, T) + f[x]
<1> DEFINE S == T \cup {x}
<1>1. IsFiniteSet(S) /\ f \in [S -> Int] /\ T \in SUBSET S /\ x \in S \ T /\ S = T \cup {x}
  BY FS_AddElement
<1> HIDE DEF S
<1>2. SumFunctionOnSet(g, T) = FoldOf(f, S)[T]
  BY <1>1, SumWithin
<1>3. SumFunctionOnSet(f, S) = FoldOf(f, S)[S]
  BY <1>1, SumStep
<1>4. Additive(FoldOf(f, S), f, S)
  BY <1>1, FoldInsert
<1>5. FoldOf(f, S)[T] \in Int /\ FoldOf(f, S)[T \cup {x}] = FoldOf(f, S)[T] + f[x]
  BY <1>1, <1>4 DEF Additive
<1> QED
  BY <1>1, <1>2, <1>3, <1>5

\* Fewer summands, a smaller sum.
LEMMA SumMonotone ==
  ASSUME NEW S, IsFiniteSet(S), NEW f \in [S -> Nat], NEW T \in SUBSET S,
         NEW g \in [T -> Nat], \A x \in T : g[x] = f[x]
  PROVE  SumFunctionOnSet(g, T) <= SumFunctionOnSet(f, S)
<1> DEFINE F == FoldOf(f, S)
           N == {n \in Nat : \A s \in SUBSET S : Cardinality(S \ s) = n => F[s] <= F[S]}
<1>t. f \in [S -> Int] /\ g \in [T -> Int]
  OBVIOUS
<1>a. /\ SumFunctionOnSet(g, T) = F[T] /\ SumFunctionOnSet(f, S) = F[S]
      /\ \A s \in SUBSET S : F[s] \in Int
      /\ \A s \in SUBSET S, x \in S : x \notin s => F[s \cup {x}] = F[s] + f[x]
  <2>1. SumFunctionOnSet(g, T) = F[T]
    BY <1>t, SumWithin
  <2>2. SumFunctionOnSet(f, S) = F[S]
    BY <1>t, SumStep
  <2>3. /\ \A s \in SUBSET S : F[s] \in Int
        /\ \A s \in SUBSET S, x \in S : x \notin s => F[s \cup {x}] = F[s] + f[x]
    <3>1. Additive(F, f, S)
      BY <1>t, FoldInsert
    <3> QED
      BY <3>1 DEF Additive
  <2> QED
    BY <2>1, <2>2, <2>3
<1> HIDE DEF F
<1>1. 0 \in N
  <2> SUFFICES ASSUME NEW s \in SUBSET S, Cardinality(S \ s) = 0 PROVE F[s] <= F[S]
    OBVIOUS
  <2>1. S \ s = {}
    <3>1. IsFiniteSet(S \ s) /\ S \ s \in SUBSET S
      BY FS_Subset
    <3> QED
      BY <3>1, PickedOut
  <2>2. s = S
    BY <2>1
  <2> QED
    BY <1>a, <2>2
<1>2. ASSUME NEW n \in N PROVE n + 1 \in N
  <2> SUFFICES ASSUME NEW s \in SUBSET S, Cardinality(S \ s) = n + 1 PROVE F[s] <= F[S]
    OBVIOUS
  <2>0. n \in Nat /\ \A u \in SUBSET S : Cardinality(S \ u) = n => F[u] <= F[S]
    OBVIOUS
  <2>1. IsFiniteSet(S \ s)
    BY FS_Subset
  <2>2. S \ s # {}
    <3> SUFFICES ASSUME S \ s = {} PROVE FALSE
      OBVIOUS
    <3>1. Cardinality({}) = 0
      BY FS_EmptySet
    <3>2. Cardinality(S \ s) = 0
      BY <3>1, Zenon
    <3> QED
      BY <2>0, <3>2
  <2>3. PICK x \in S \ s : TRUE
    BY <2>2
  <2>r. Cardinality((S \ s) \ {x}) = Cardinality(S \ s) - 1
    <3> DEFINE rest == S \ s
    <3>1. IsFiniteSet(rest) /\ x \in rest
      BY <2>1
    <3> HIDE DEF rest
    <3>2. Cardinality(rest \ {x}) = Cardinality(rest) - 1
      BY <3>1, FS_RemoveElement
    <3> QED
      BY <3>2 DEF rest
  <2>4. Cardinality((S \ s) \ {x}) = n
    BY <2>0, <2>r
  <2>5. (S \ s) \ {x} = S \ (s \cup {x}) /\ s \cup {x} \in SUBSET S
    OBVIOUS
  <2>6. F[s \cup {x}] <= F[S]
    BY <2>0, <2>4, <2>5
  <2>7. /\ F[s \cup {x}] = F[s] + f[x] /\ F[s] \in Int /\ f[x] \in Nat
        /\ F[S] \in Int
    BY <1>a
  <2> QED
    BY <2>6, <2>7
<1>3. \A n \in Nat : n \in N
  <2> HIDE DEF N
  <2>1. N \in SUBSET Nat
    BY DEF N
  <2> QED
    BY <1>1, <1>2, <2>1, SetInduction
<1>4. Cardinality(S \ T) \in Nat
  BY FS_Subset, FS_CardinalityType
<1>5. F[T] <= F[S]
  BY <1>3, <1>4
<1> QED
  BY <1>a, <1>5

\* The sum of equal parts handed to the first k of n indices.
LEMMA SumShares ==
  ASSUME NEW n \in Nat, NEW d \in Int
  PROVE  \A k \in 0..n :
           SumFunctionOnSet([i \in 1..n |-> IF i <= k THEN d ELSE 0], 1..n) = k * d
<1> DEFINE part(k) == [i \in 1..n |-> IF i <= k THEN d ELSE 0]
           T == {k \in Nat : k <= n => SumFunctionOnSet(part(k), 1..n) = k * d}
<1>a. IsFiniteSet(1..n)
  BY FS_Interval
<1>1. 0 \in T
  <2>1. ASSUME NEW S, IsFiniteSet(S), NEW f \in [S -> Int], \A i \in S : f[i] = 0
        PROVE  SumFunctionOnSet(f, S) = 0
    <3> DEFINE F == FoldOf(f, S)
               Z == {m \in Nat : \A s \in SUBSET S : Cardinality(s) = m => F[s] = 0}
    <3>1. /\ SumFunctionOnSet(f, S) = F[S] /\ F[{}] = 0
          /\ \A s \in SUBSET S : s # {} => F[s] = f[Pick(s)] + F[s \ {Pick(s)}]
      BY <2>1, SumStep
    <3> HIDE DEF F
    <3>2. 0 \in Z
      <4> SUFFICES ASSUME NEW s \in SUBSET S, Cardinality(s) = 0 PROVE F[s] = 0
        OBVIOUS
      <4>1. s = {}
        BY <2>1, PickedOut
      <4> QED
        BY <3>1, <4>1
    <3>3. ASSUME NEW m \in Z PROVE m + 1 \in Z
      <4> SUFFICES ASSUME NEW s \in SUBSET S, Cardinality(s) = m + 1 PROVE F[s] = 0
        OBVIOUS
      <4>1. CASE s = {}
        BY <3>1, <4>1
      <4>2. CASE s # {}
        <5>1. /\ Pick(s) \in s /\ s \ {Pick(s)} \in SUBSET S
              /\ Cardinality(s \ {Pick(s)}) = m
          BY <2>1, <4>2, PickedOut
        <5>2. f[Pick(s)] = 0 /\ F[s \ {Pick(s)}] = 0
          BY <2>1, <5>1
        <5> QED
          BY <3>1, <4>2, <5>2
      <4> QED
        BY <4>1, <4>2
    <3>4. Z \in SUBSET Nat
      OBVIOUS
    <3>5. Cardinality(S) \in Nat
      BY <2>1, FS_CardinalityType
    <3>6. \A m \in Nat : m \in Z
      <4> HIDE DEF Z
      <4> QED
        BY <3>2, <3>3, <3>4, SetInduction
    <3> QED
      BY <3>1, <3>5, <3>6
  <2>2. part(0) \in [1..n -> Int] /\ \A i \in 1..n : part(0)[i] = 0
    OBVIOUS
  <2>3. SumFunctionOnSet(part(0), 1..n) = 0
    <3> HIDE DEF part
    <3> QED
      BY <1>a, <2>1, <2>2
  <2>4. 0 * d = 0
    OBVIOUS
  <2> HIDE DEF part
  <2> QED
    BY <2>3, <2>4
<1>2. ASSUME NEW k \in T PROVE k + 1 \in T
  <2> SUFFICES ASSUME k + 1 <= n PROVE SumFunctionOnSet(part(k + 1), 1..n) = (k + 1) * d
    OBVIOUS
  <2>1. k \in Nat /\ k <= n /\ k + 1 \in 1..n
    OBVIOUS
  <2>2. /\ part(k) \in [1..n -> Int] /\ part(k + 1) \in [1..n -> Int]
        /\ part(k)[k + 1] = 0 /\ part(k + 1)[k + 1] = d
        /\ \A j \in 1..n : j # k + 1 => part(k)[j] = part(k + 1)[j]
    BY <2>1
  <2>3. SumFunctionOnSet(part(k), 1..n) = k * d
    BY <2>1
  <2> HIDE DEF part
  <2>4. SumFunctionOnSet(part(k + 1), 1..n)
          = SumFunctionOnSet(part(k), 1..n) - part(k)[k + 1] + part(k + 1)[k + 1]
    <3> DEFINE D == 1..n
               f == part(k)
               g == part(k + 1)
               i == k + 1
    <3>1. /\ IsFiniteSet(D) /\ f \in [D -> Int] /\ g \in [D -> Int] /\ i \in D
          /\ \A j \in D : j # i => f[j] = g[j]
      BY <1>a, <2>1, <2>2
    <3> HIDE DEF D, f, g, i
    <3>2. SumFunctionOnSet(g, D) = SumFunctionOnSet(f, D) - f[i] + g[i]
      BY <3>1, SumChanged, Zenon
    <3> QED
      BY <3>2 DEF D, f, g, i
  <2>5. (k + 1) * d = k * d + d /\ k * d \in Int
    BY <2>1
  <2> QED
    BY <2>2, <2>3, <2>4, <2>5
<1>3. T \in SUBSET Nat
  OBVIOUS
<1>4. \A k \in Nat : k \in T
  <2> HIDE DEF T
  <2> QED
    BY <1>1, <1>2, <1>3, SetInduction
<1> QED
  BY <1>4
=============================================================================
