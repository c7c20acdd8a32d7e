------------------------- MODULE PortfolioRaceProofs -------------------------
(***************************************************************************)
(* The races keep their books and their order, for every number of         *)
(* strategies, allowance, verifier pool and interleaving.                  *)
(*                                                                         *)
(* Reconciled needs the balance of all accounts, open child budgets        *)
(* included, and that a drained race has none left (Draining).  The order  *)
(* needs three facts from before the drain: a generator leaves its one     *)
(* outcome when it goes (Delivered), so that as many outcomes as           *)
(* strategies are one of each (DrainFacts); what is captured or passed     *)
(* over is never a candidate that would verify; and sorting and filtering  *)
(* keep registration order (Sorted, CapturedCandidates, Pending).          *)
(***************************************************************************)
EXTENDS PortfolioRace, SumLemmas

-----------------------------------------------------------------------------
(* The inductive invariant.                                                *)

TypeControl ==
  /\ mode \in {"concurrent", "continuation", "sequential"} /\ count \in 0..(N + 1)
  /\ phase \in Phases /\ cancelled \in BOOLEAN /\ next \in Nat \ {0}
  /\ worker \in [Strategies -> {"none", "running", "gone", "skipped"}]
  /\ verdict \in Verdicts

TypeBudget ==
  /\ child \in [Strategies -> Nat]
  /\ remaining \in Nat /\ verifier \in Nat /\ base \in Nat
  /\ captured \in [remaining : Nat, verifier : Nat]
  /\ reported \in Int
  /\ work \in Nat /\ other \in Nat /\ prior \in Nat /\ allowance \in Nat

TypeOutcomes ==
  /\ outcomes \in Seq(Outcome) /\ all \in SUBSET Outcome
  /\ winner \in Nat

TypeOK == TypeControl /\ TypeBudget /\ TypeOutcomes

\* How far the race has come: which phases a mode has, and which strategies
\* have been spawned.
Progress ==
  /\ phase \in {"turn", "run"} => mode = "sequential"
  /\ phase \in {"spawn", "captured", "enter"} => mode # "sequential"
  /\ phase \notin {"start", "done"} => count \in 1..N
  /\ next <= count + 1
  /\ phase = "start" => next = 1
  /\ phase = "run" => next > 1
  /\ \A i \in Strategies : worker[i] = "none" <=> i >= next

\* Generators run only while the owner drains them, one at a time in a
\* sequential race, and what one did not spend is in its child budget until then.
Draining ==
  /\ phase \notin {"spawn", "run"} =>
        \A i \in Strategies : worker[i] # "running" /\ child[i] = 0
  /\ phase = "run" => \A i \in Strategies : worker[i] = "running" => i = next - 1
  /\ phase \notin {"spawn", "done"} => \A i \in Strategies : worker[i] # "skipped"

\* No step is lost and none is counted twice.
Balanced ==
  /\ remaining + SumFunctionOnSet(child, Strategies) + (work - prior) + other = allowance
  /\ base = allowance
  /\ phase \notin {"captured", "done"} => other = 0
  /\ phase = "captured" => remaining + other = captured.remaining
  /\ phase # "done" => verdict = "none"
  /\ StepsReported

\* Every generator that is gone has left exactly one outcome.
Delivered ==
  /\ \A o \in all : worker[o.idx] = "gone"
  /\ \A o, p \in all : o.idx = p.idx => o = p
  /\ \A i \in Strategies : worker[i] = "gone" => \E o \in all : o.idx = i

\* The candidates still to be considered: every one that would be verified is
\* among them, and after the drain they are in registration order.
Ordered(s) == \A i, j \in DOMAIN s : i < j => s[i].idx <= s[j].idx

Pending ==
  /\ phase # "done" =>
        /\ \A i \in DOMAIN outcomes : outcomes[i] \in all
        /\ \A o \in all : o.what = "good" => \E i \in DOMAIN outcomes : outcomes[i] = o
  /\ phase = "spawn" => \A i, j \in DOMAIN outcomes : outcomes[i].idx = outcomes[j].idx => i = j
  /\ phase \in {"start", "turn"} => outcomes = <<>>
  /\ phase = "run" => outcomes = <<>> \/ (worker[next - 1] = "gone" /\ Len(outcomes) = 1)
  /\ phase \notin {"spawn", "done"} => Ordered(outcomes)
  /\ phase = "charged" => outcomes # <<>>
  /\ phase = "verified" => outcomes # <<>> /\ Head(outcomes).what = "good"

IInv ==
  /\ TypeOK /\ Progress /\ Draining /\ Balanced /\ Delivered /\ Pending
  /\ FirstVerifiedWins

-----------------------------------------------------------------------------
(* Sorting and filtering.                                                  *)

\* What the stable sort by registration index gives: the same outcomes, in
\* order.  As many outcomes as strategies, all of different strategies: every
\* strategy has one.
LEMMA Sorted ==
  ASSUME NEW k \in Nat, NEW s \in Seq(Outcome), Len(s) = k,
         \A i \in 1..k : s[i].idx \in 1..k,
         \A i, j \in 1..k : s[i].idx = s[j].idx => i = j
  PROVE  /\ SortByIndex(s) \in Seq(Outcome) /\ Ordered(SortByIndex(s))
         /\ \A i \in DOMAIN SortByIndex(s) : \E j \in DOMAIN s : SortByIndex(s)[i] = s[j]
         /\ \A j \in DOMAIN s : \E i \in DOMAIN SortByIndex(s) : SortByIndex(s)[i] = s[j]
         /\ \A n \in 1..k : \E j \in DOMAIN s : s[j].idx = n
<1> DEFINE D == 1..k
           idx == [i \in D |-> s[i].idx]
           P(p) == \A i, j \in DOMAIN s : i < j => s[p[i]].idx <= s[p[j]].idx
           q == [n \in D |-> CHOOSE i \in D : idx[i] = n]
<1>1. DOMAIN s = D /\ s \in [D -> Outcome]
  OBVIOUS
<1>2. idx \in [D -> D] /\ \A i, j \in D : idx[i] = idx[j] => i = j
  OBVIOUS
<1>3. \A n \in D : \E i \in D : idx[i] = n
  <2>1. idx \in Injection(D, D)
    BY <1>2 DEF Injection, IsInjective
  <2>2. IsFiniteSet(D)
    BY FS_Interval
  <2> HIDE DEF idx, D
  <2>3. idx \in Surjection(D, D)
    BY <2>1, <2>2, FS_Injection
  <2> QED
    BY <2>3 DEF Surjection
<1>4. \A n \in D : q[n] \in D /\ idx[q[n]] = n
  <2> HIDE DEF idx, D
  <2> QED
    BY <1>3
<1>5. q \in [D -> D]
  <2> HIDE DEF idx, D
  <2> QED
    BY <1>4
<1>6. q \in Bijection(D, D)
  <2>1. \A a, b \in D : q[a] = q[b] => a = b
    <3> HIDE DEF q, D, idx
    <3> QED
      BY <1>4
  <2>2. \A t \in D : \E n \in D : q[n] = t
    <3> SUFFICES ASSUME NEW t \in D PROVE q[idx[t]] = t
      BY <1>2
    <3> HIDE DEF q, D, idx
    <3> QED
      BY <1>2, <1>4
  <2> HIDE DEF q, D
  <2> QED
    BY <1>5, <2>1, <2>2 DEF Bijection, Injection, Surjection, IsInjective
<1>7. P(q)
  <2> SUFFICES ASSUME NEW i \in D, NEW j \in D, i < j PROVE s[q[i]].idx <= s[q[j]].idx
    BY <1>1
  <2>1. s[q[i]].idx = i /\ s[q[j]].idx = j
    BY <1>4
  <2> HIDE DEF q
  <2> QED
    BY <2>1
<1> DEFINE place == CHOOSE p \in Bijection(DOMAIN s, DOMAIN s) : P(p)
<1>8. place \in Bijection(D, D) /\ P(place)
  <2> HIDE DEF q, D
  <2> QED
    BY <1>1, <1>6, <1>7
<1>9. SortByIndex(s) = [i \in D |-> s[place[i]]]
  BY <1>1 DEF SortByIndex
<1> HIDE DEF q, place
<1>10. /\ place \in [D -> D]
       /\ \A n \in D : \E i \in D : place[i] = n
  BY <1>8 DEF Bijection, Injection, Surjection
<1> DEFINE t == SortByIndex(s)
<1>11. DOMAIN t = D /\ \A i \in D : t[i] = s[place[i]] /\ place[i] \in D /\ t[i] \in Outcome
  BY <1>1, <1>9, <1>10
<1>12. t \in Seq(Outcome) /\ Len(t) = k
  <2>1. t = [i \in 1..k |-> t[i]]
    BY <1>9, <1>11
  <2> HIDE DEF t
  <2> QED
    BY <1>11, <2>1
<1> HIDE DEF t
<1>13. Ordered(t)
  <2> HIDE DEF D
  <2> QED
    BY <1>1, <1>8, <1>11 DEF Ordered
<1>14. /\ \A i \in D : \E j \in D : t[i] = s[j]
       /\ \A j \in D : \E i \in D : t[i] = s[j]
  <2> HIDE DEF D
  <2> QED
    BY <1>10, <1>11
<1> QED
  BY <1>1, <1>3, <1>11, <1>12, <1>13, <1>14 DEF t

\* The members of a set of positions can be listed in increasing order.
LEMMA Listed ==
  \A n \in Nat : \A K \in SUBSET (1..n) :
     \E p \in Bijection(1..Cardinality(K), K) :
        \A i, j \in 1..Cardinality(K) : i < j => p[i] < p[j]
<1> DEFINE Q(K, p) == /\ p \in Bijection(1..Cardinality(K), K)
                      /\ \A i, j \in 1..Cardinality(K) : i < j => p[i] < p[j]
           T == {n \in Nat : \A K \in SUBSET (1..n) : \E p : Q(K, p)}
<1>1. 0 \in T
  <2> SUFFICES ASSUME NEW K \in SUBSET (1..0) PROVE \E p : Q(K, p)
    OBVIOUS
  <2>1. K = {} /\ Cardinality(K) = 0
    <3>1. K = {}
      OBVIOUS
    <3> QED
      BY <3>1, FS_EmptySet
  <2>2. Q(K, [i \in {} |-> i])
    BY <2>1 DEF Bijection, Injection, Surjection, IsInjective
  <2> QED
    BY <2>2
<1>2. ASSUME NEW n \in T PROVE n + 1 \in T
  <2> SUFFICES ASSUME NEW K \in SUBSET (1..(n + 1)) PROVE \E p : Q(K, p)
    OBVIOUS
  <2>0. n \in Nat
    OBVIOUS
  <2>1. CASE n + 1 \notin K
    <3>1. K \in SUBSET (1..n)
      BY <2>0, <2>1
    <3> QED
      BY <3>1
  <2>2. CASE n + 1 \in K
    <3> DEFINE L == K \ {n + 1}
               c == Cardinality(L)
    <3>1. L \in SUBSET (1..n)
      BY <2>0
    <3>2. PICK p : Q(L, p)
      BY <3>1
    <3>3. IsFiniteSet(K)
      <4>1. IsFiniteSet(1..(n + 1))
        BY <2>0, FS_Interval
      <4> QED
        BY <4>1, FS_Subset
    <3>4. Cardinality(K) \in Nat /\ c = Cardinality(K) - 1 /\ c \in Nat
      <4>1. IsFiniteSet(L)
        BY <3>3, FS_Subset
      <4>2. Cardinality(K) \in Nat /\ c \in Nat
        BY <3>3, <4>1, FS_CardinalityType
      <4> QED
        BY <2>2, <3>3, <4>2, FS_RemoveElement
    <3> DEFINE r == [i \in 1..(c + 1) |-> IF i = c + 1 THEN n + 1 ELSE p[i]]
    <3>5. Cardinality(K) = c + 1
      BY <3>4
    <3>6. /\ p \in [1..c -> L] /\ \A i \in 1..c : p[i] \in K /\ p[i] \in 1..n
          /\ \A i, j \in 1..c : p[i] = p[j] => i = j
          /\ \A i, j \in 1..c : i < j => p[i] < p[j]
          /\ \A t \in L : \E i \in 1..c : p[i] = t
      BY <3>1, <3>2 DEF Bijection, Injection, Surjection, IsInjective
    <3> HIDE DEF c
    <3>7. r \in [1..(c + 1) -> K]
      BY <2>2, <3>4, <3>6
    <3>8. \A i, j \in 1..(c + 1) : i < j => r[i] < r[j]
      BY <2>0, <3>4, <3>6
    <3>9. \A i, j \in 1..(c + 1) : r[i] = r[j] => i = j
      BY <2>0, <3>4, <3>6
    <3>10. \A t \in K : \E i \in 1..(c + 1) : r[i] = t
      <4> SUFFICES ASSUME NEW t \in K PROVE \E i \in 1..(c + 1) : r[i] = t
        OBVIOUS
      <4>1. CASE t = n + 1
        BY <3>4, <4>1
      <4>2. CASE t # n + 1
        <5>1. PICK i \in 1..c : p[i] = t
          BY <3>6, <4>2
        <5>2. i \in 1..(c + 1) /\ i # c + 1
          BY <3>4
        <5> QED
          BY <5>1, <5>2
      <4> QED
        BY <4>1, <4>2
    <3> HIDE DEF r
    <3>11. Q(K, r)
      BY <3>5, <3>7, <3>8, <3>9, <3>10 DEF Bijection, Injection, Surjection, IsInjective
    <3> QED
      BY <3>11
  <2> QED
    BY <2>1, <2>2
<1>3. T \in SUBSET Nat
  OBVIOUS
<1>4. \A n \in Nat : n \in T
  <2> HIDE DEF T
  <2> QED
    BY <1>1, <1>2, <1>3, SetInduction
<1> QED
  BY <1>4

\* What the continuation captures: the outcomes that are no failures, in the
\* order they have.
LEMMA CapturedCandidates ==
  ASSUME outcomes \in Seq(Outcome), Ordered(outcomes)
  PROVE  /\ Captured \in Seq(Outcome) /\ Ordered(Captured)
         /\ \A i \in DOMAIN Captured : \E j \in DOMAIN outcomes : Captured[i] = outcomes[j]
         /\ \A j \in DOMAIN outcomes : outcomes[j].what # "err" =>
               \E i \in DOMAIN Captured : Captured[i] = outcomes[j]
<1> DEFINE kept == {i \in DOMAIN outcomes : outcomes[i].what # "err"}
           size == Cardinality(kept)
           place == CHOOSE p \in Bijection(1..size, kept) :
                       \A i, j \in 1..size : i < j => p[i] < p[j]
<1>1. kept \in SUBSET (1..Len(outcomes)) /\ Len(outcomes) \in Nat
  OBVIOUS
<1>2. size \in Nat
  <2>1. IsFiniteSet(kept)
    BY <1>1, FS_Interval, FS_Subset
  <2> QED
    BY <2>1, FS_CardinalityType
<1>3. /\ place \in Bijection(1..size, kept)
      /\ \A i, j \in 1..size : i < j => place[i] < place[j]
  <2>1. \E p \in Bijection(1..size, kept) : \A i, j \in 1..size : i < j => p[i] < p[j]
    <3> HIDE DEF kept
    <3> QED
      BY <1>1, Listed
  <2> QED
    BY <2>1
<1>4. Captured = [i \in 1..size |-> outcomes[place[i]]]
  BY DEF Captured
<1>5. place \in [1..size -> kept] /\ \A t \in kept : \E i \in 1..size : place[i] = t
  <2> HIDE DEF place, kept, size
  <2> QED
    BY <1>3 DEF Bijection, Injection, Surjection
<1>6. \A i \in kept : i \in DOMAIN outcomes /\ outcomes[i] \in Outcome
  OBVIOUS
<1>7. \A j \in DOMAIN outcomes : outcomes[j].what # "err" => j \in kept
  OBVIOUS
<1> HIDE DEF place, kept, size
<1>8. DOMAIN Captured = 1..size /\ Captured \in Seq(Outcome)
  BY <1>2, <1>4, <1>5, <1>6
<1>9. Ordered(Captured)
  <2> SUFFICES ASSUME NEW i \in 1..size, NEW j \in 1..size, i < j
               PROVE  Captured[i].idx <= Captured[j].idx
    BY <1>8 DEF Ordered
  <2>1. /\ place[i] \in DOMAIN outcomes /\ place[j] \in DOMAIN outcomes
        /\ place[i] < place[j]
    BY <1>3, <1>5, <1>6
  <2>2. outcomes[place[i]].idx <= outcomes[place[j]].idx
    BY <2>1 DEF Ordered
  <2> QED
    BY <1>4, <2>2
<1>10. \A i \in 1..size : \E j \in DOMAIN outcomes : Captured[i] = outcomes[j]
  BY <1>4, <1>5, <1>6
<1>11. \A j \in DOMAIN outcomes : outcomes[j].what # "err" =>
          \E i \in 1..size : Captured[i] = outcomes[j]
  BY <1>4, <1>5, <1>7
<1> QED
  BY <1>8, <1>9, <1>10, <1>11

-----------------------------------------------------------------------------
(* One step at a time.                                                    *)

\* When the owner drains the outcomes it has one of every strategy, so no task
\* was skipped; sorting keeps them and puts them in registration order.
LEMMA DrainFacts ==
  ASSUME IInv, phase = "spawn", Drained, Len(outcomes) = count
  PROVE  /\ \A i \in Strategies : worker[i] \notin {"running", "skipped"}
         /\ SortByIndex(outcomes) \in Seq(Outcome) /\ Ordered(SortByIndex(outcomes))
         /\ \A i \in DOMAIN SortByIndex(outcomes) : SortByIndex(outcomes)[i] \in all
         /\ \A o \in all : o.what = "good" =>
               \E i \in DOMAIN SortByIndex(outcomes) : SortByIndex(outcomes)[i] = o
<1>1. /\ outcomes \in Seq(Outcome) /\ count \in 1..N /\ count \in Nat /\ next = count + 1
      /\ \A i \in DOMAIN outcomes : outcomes[i] \in all
      /\ \A i, j \in DOMAIN outcomes : outcomes[i].idx = outcomes[j].idx => i = j
      /\ \A o \in all : worker[o.idx] = "gone" /\ o.idx \in Strategies
      /\ \A o \in all : o.what = "good" => \E i \in DOMAIN outcomes : outcomes[i] = o
      /\ \A i \in Strategies : worker[i] = "none" <=> i >= next
  BY RaceAssumption DEF IInv, TypeOK, TypeControl, TypeBudget, TypeOutcomes, Progress, Delivered, Pending, Outcome, Drained
<1>2. DOMAIN outcomes = 1..count
  BY <1>1
<1>3. \A i \in 1..count : outcomes[i].idx \in 1..count
  <2> SUFFICES ASSUME NEW i \in 1..count PROVE outcomes[i].idx \in 1..count
    OBVIOUS
  <2>1. worker[outcomes[i].idx] = "gone" /\ outcomes[i].idx \in Strategies
    BY <1>1, <1>2
  <2>2. ~ (outcomes[i].idx >= next)
    BY <1>1, <2>1
  <2> QED
    BY <1>1, <2>1, <2>2, RaceAssumption DEF Strategies
<1>4. /\ SortByIndex(outcomes) \in Seq(Outcome) /\ Ordered(SortByIndex(outcomes))
      /\ \A i \in DOMAIN SortByIndex(outcomes) : \E j \in DOMAIN outcomes :
            SortByIndex(outcomes)[i] = outcomes[j]
      /\ \A j \in DOMAIN outcomes : \E i \in DOMAIN SortByIndex(outcomes) :
            SortByIndex(outcomes)[i] = outcomes[j]
      /\ \A n \in 1..count : \E j \in DOMAIN outcomes : outcomes[j].idx = n
  <2>1. ASSUME NEW s, s = outcomes
        PROVE  /\ SortByIndex(s) \in Seq(Outcome) /\ Ordered(SortByIndex(s))
               /\ \A i \in DOMAIN SortByIndex(s) : \E j \in DOMAIN s : SortByIndex(s)[i] = s[j]
               /\ \A j \in DOMAIN s : \E i \in DOMAIN SortByIndex(s) : SortByIndex(s)[i] = s[j]
               /\ \A n \in 1..count : \E j \in DOMAIN s : s[j].idx = n
    <3>1. /\ s \in Seq(Outcome) /\ Len(s) = count /\ count \in Nat
          /\ \A i \in 1..count : s[i].idx \in 1..count
          /\ \A i, j \in 1..count : s[i].idx = s[j].idx => i = j
      BY <1>1, <1>2, <1>3, <2>1
    <3> QED
      BY <3>1, Sorted
  <2> QED
    BY <2>1
<1>5. ASSUME NEW i \in Strategies PROVE worker[i] \notin {"running", "skipped"}
  <2>1. CASE i \in 1..count
    <3>1. PICK j \in DOMAIN outcomes : outcomes[j].idx = i
      BY <1>4, <2>1
    <3> QED
      BY <1>1, <3>1
  <2>2. CASE i \notin 1..count
    <3>1. i >= next
      BY <1>1, <2>2, RaceAssumption DEF Strategies
    <3> QED
      BY <1>1, <3>1
  <2> QED
    BY <2>1, <2>2
<1>6. \A o \in all : o.what = "good" =>
        \E i \in DOMAIN SortByIndex(outcomes) : SortByIndex(outcomes)[i] = o
  <2> SUFFICES ASSUME NEW o \in all, o.what = "good"
               PROVE  \E i \in DOMAIN SortByIndex(outcomes) : SortByIndex(outcomes)[i] = o
    OBVIOUS
  <2>1. PICK j \in DOMAIN outcomes : outcomes[j] = o
    BY <1>1
  <2> QED
    BY <1>4, <2>1
<1> QED
  BY <1>1, <1>4, <1>5, <1>6

\* The phases come in the order of the mode, and strategies are spawned in order.
LEMMA ProgressStep ==
  ASSUME IInv, [Next]_vars PROVE Progress'
<1> USE RaceAssumption
    DEF IInv, TypeOK, TypeControl, Progress, Draining, Checkpoint, Strategies, budget, result,
        history
<1>1. CASE Refuse
  BY <1>1 DEF Refuse, Return, OneUnit
<1>2. CASE Begin
  BY <1>2 DEF Begin, CountOK
<1>3. CASE Spawn
  BY <1>3 DEF Spawn, Push
<1>4. CASE Drain
  BY <1>4 DEF Drain, Drained, MergeAll
<1>5. CASE DrainFailed
  BY <1>5 DEF DrainFailed, Drained, MergeAll, Return
<1>6. CASE Turn
  BY <1>6 DEF Turn, Return
<1>7. CASE MergeTurn
  BY <1>7 DEF MergeTurn, MergeAll, Return
<1>8. CASE Enter
  BY <1>8 DEF Enter, Return
<1>9. CASE Exhausted
  BY <1>9 DEF Exhausted, Return
<1>10. CASE Consider
  BY <1>10 DEF Consider, Pass, OneUnit, Return
<1>11. CASE Verify
  BY <1>11 DEF Verify, Pass, Return
<1>12. CASE Publish
  BY <1>12 DEF Publish, Return
<1>13. CASE OwnerWork
  BY <1>13 DEF OwnerWork
<1>14. CASE Resume
  BY <1>14 DEF Resume, Return, Unchanged
<1>15. CASE ResumeFresh
  BY <1>15 DEF ResumeFresh, Return
<1>16. CASE ResumeRefused
  BY <1>16 DEF ResumeRefused, Return
<1>17. CASE Cancel
  BY <1>17 DEF Cancel
<1>18. ASSUME NEW i \in Strategies, Work(i) PROVE Progress'
  BY <1>18 DEF Work
<1>19. ASSUME NEW i \in Strategies, Skip(i) PROVE Progress'
  BY <1>19 DEF Skip
<1>20. ASSUME NEW i \in Strategies, NEW what, Finish(i, what) PROVE Progress'
  BY <1>20 DEF Finish, Push
<1>21. CASE UNCHANGED vars
  BY <1>21 DEF vars
<1> QED
  BY <1>1, <1>2, <1>3, <1>4, <1>5, <1>6, <1>7, <1>8, <1>9, <1>10, <1>11,
     <1>12, <1>13, <1>14, <1>15, <1>16, <1>17, <1>18, <1>19, <1>20, <1>21
     DEF Next, Owner, Holder, Generator

\* No generator outlives the drain of its race.
LEMMA DrainingStep ==
  ASSUME IInv, [Next]_vars PROVE Draining'
<1>1. CASE Drain
  <2>1. \A i \in Strategies : worker[i] \notin {"running", "skipped"}
    BY <1>1, DrainFacts DEF Drain
  <2>2. phase' \in {"captured", "enter"} /\ worker' = worker /\ \A i \in Strategies : child'[i] = 0
    BY <1>1 DEF Drain, MergeAll
  <2> QED
    BY <2>1, <2>2 DEF Draining
<1>2. CASE DrainFailed
  <2>1. \A i \in Strategies : worker[i] # "running"
    BY <1>2, RaceAssumption DEF IInv, TypeOK, TypeControl, Progress, DrainFailed, Drained, Strategies
  <2>2. phase' = "done" /\ worker' = worker /\ \A i \in Strategies : child'[i] = 0
    BY <1>2 DEF DrainFailed, MergeAll, Return
  <2> QED
    BY <2>1, <2>2 DEF Draining
<1> USE RaceAssumption
    DEF IInv, TypeOK, TypeControl, Progress, Draining, Checkpoint, Strategies, budget, result,
        history
<1>3. CASE Refuse
  BY <1>3 DEF Refuse, Return, OneUnit
<1>4. CASE Begin
  BY <1>4 DEF Begin, CountOK
<1>5. CASE Spawn
  BY <1>5 DEF Spawn, Push
<1>6. CASE Turn
  BY <1>6 DEF Turn, Return
<1>7. CASE MergeTurn
  BY <1>7 DEF MergeTurn, MergeAll, Return
<1>8. CASE Enter
  BY <1>8 DEF Enter, Return
<1>9. CASE Exhausted
  BY <1>9 DEF Exhausted, Return
<1>10. CASE Consider
  BY <1>10 DEF Consider, Pass, OneUnit, Return
<1>11. CASE Verify
  BY <1>11 DEF Verify, Pass, Return
<1>12. CASE Publish
  BY <1>12 DEF Publish, Return
<1>13. CASE OwnerWork
  BY <1>13 DEF OwnerWork
<1>14. CASE Resume
  BY <1>14 DEF Resume, Return, Unchanged
<1>15. CASE ResumeFresh
  BY <1>15 DEF ResumeFresh, Return
<1>16. CASE ResumeRefused
  BY <1>16 DEF ResumeRefused, Return
<1>17. CASE Cancel
  BY <1>17 DEF Cancel
<1>18. ASSUME NEW i \in Strategies, Work(i) PROVE Draining'
  BY <1>18 DEF Work
<1>19. ASSUME NEW i \in Strategies, Skip(i) PROVE Draining'
  BY <1>19 DEF Skip
<1>20. ASSUME NEW i \in Strategies, NEW what, Finish(i, what) PROVE Draining'
  BY <1>20 DEF Finish, Push
<1>21. CASE UNCHANGED vars
  BY <1>21 DEF vars
<1> QED
  BY <1>1, <1>2, <1>3, <1>4, <1>5, <1>6, <1>7, <1>8, <1>9, <1>10, <1>11,
     <1>12, <1>13, <1>14, <1>15, <1>16, <1>17, <1>18, <1>19, <1>20, <1>21
     DEF Next, Owner, Holder, Generator

\* A generator leaves one outcome when it goes.
LEMMA DeliveredStep ==
  ASSUME IInv, [Next]_vars PROVE Delivered'
<1>1. CASE Spawn
  <2>1. /\ next \in Strategies /\ worker[next] = "none" /\ \A o \in all : o.idx # next
        /\ worker \in [Strategies -> {"none", "running", "gone", "skipped"}]
    <3>1. next \in Strategies /\ worker[next] = "none"
      BY <1>1, RaceAssumption DEF IInv, TypeOK, TypeControl, TypeBudget, TypeOutcomes, Progress, Spawn, Strategies
    <3>2. \A o \in all : worker[o.idx] = "gone"
      BY DEF IInv, Delivered
    <3> QED
      BY <3>1, <3>2 DEF IInv, TypeOK, TypeControl, TypeBudget, TypeOutcomes
  <2>2. CASE worker' = [worker EXCEPT ![next] = "running"] /\ all' = all
    BY <2>1, <2>2 DEF IInv, TypeOK, TypeControl, TypeBudget, TypeOutcomes, Delivered, Outcome
  <2>3. CASE /\ worker' = [worker EXCEPT ![next] = "gone"]
             /\ all' = all \cup {[idx |-> next, what |-> "err"]}
    <3> DEFINE r == [idx |-> next, what |-> "err"]
    <3>1. r.idx = next /\ r \in all' /\ all' = all \cup {r}
      BY <2>3
    <3>2. \A i \in Strategies : worker'[i] = IF i = next THEN "gone" ELSE worker[i]
      BY <2>1, <2>3
    <3>3. \A o \in all : o.idx \in Strategies
      BY DEF IInv, TypeOK, TypeControl, TypeBudget, TypeOutcomes, Outcome
    <3> HIDE DEF r
    <3> QED
      BY <2>1, <3>1, <3>2, <3>3 DEF IInv, Delivered
  <2> QED
    BY <1>1, <2>2, <2>3 DEF Spawn, Push
<1> USE RaceAssumption
    DEF IInv, TypeOK, TypeControl, Progress, Draining, Checkpoint, Strategies, TypeOutcomes,
        Delivered, Outcome, Candidates, budget, result, history
<1>2. CASE Refuse
  BY <1>2 DEF Refuse, Return, OneUnit
<1>3. CASE Begin
  BY <1>3 DEF Begin, CountOK
<1>4. CASE Drain
  BY <1>4 DEF Drain, Drained, MergeAll
<1>5. CASE DrainFailed
  BY <1>5 DEF DrainFailed, Drained, MergeAll, Return
<1>6. CASE Turn
  BY <1>6 DEF Turn, Return
<1>7. CASE MergeTurn
  BY <1>7 DEF MergeTurn, MergeAll, Return
<1>8. CASE Enter
  BY <1>8 DEF Enter, Return
<1>9. CASE Exhausted
  BY <1>9 DEF Exhausted, Return
<1>10. CASE Consider
  BY <1>10 DEF Consider, Pass, OneUnit, Return
<1>11. CASE Verify
  BY <1>11 DEF Verify, Pass, Return
<1>12. CASE Publish
  BY <1>12 DEF Publish, Return
<1>13. CASE OwnerWork
  BY <1>13 DEF OwnerWork
<1>14. CASE Resume
  BY <1>14 DEF Resume, Return, Unchanged
<1>15. CASE ResumeFresh
  BY <1>15 DEF ResumeFresh, Return
<1>16. CASE ResumeRefused
  BY <1>16 DEF ResumeRefused, Return
<1>17. CASE Cancel
  BY <1>17 DEF Cancel
<1>18. ASSUME NEW i \in Strategies, Work(i) PROVE Delivered'
  BY <1>18 DEF Work
<1>19. ASSUME NEW i \in Strategies, Skip(i) PROVE Delivered'
  BY <1>19 DEF Skip
<1>20. ASSUME NEW i \in Strategies, NEW what, Finish(i, what) PROVE Delivered'
  BY <1>20 DEF Finish, Push
<1>21. CASE UNCHANGED vars
  BY <1>21 DEF vars
<1> QED
  BY <1>1, <1>2, <1>3, <1>4, <1>5, <1>6, <1>7, <1>8, <1>9, <1>10, <1>11,
     <1>12, <1>13, <1>14, <1>15, <1>16, <1>17, <1>18, <1>19, <1>20, <1>21
     DEF Next, Owner, Holder, Generator

\* The sum of the child budgets: of no budgets, of equal shares, and after one
\* of them changed.
LEMMA ChildSums ==
  ASSUME NEW c \in [Strategies -> Nat]
  PROVE  /\ SumFunctionOnSet(c, Strategies) \in Nat
         /\ (\A i \in Strategies : c[i] = 0) => SumFunctionOnSet(c, Strategies) = 0
         /\ \A k \in 0..N, d \in Nat :
               (\A i \in Strategies : c[i] = IF i <= k THEN d ELSE 0) =>
                  SumFunctionOnSet(c, Strategies) = k * d
         /\ \A g \in [Strategies -> Nat], i \in Strategies :
               (\A j \in Strategies : j # i => c[j] = g[j]) =>
                  SumFunctionOnSet(g, Strategies) = SumFunctionOnSet(c, Strategies) - c[i] + g[i]
<1>1. IsFiniteSet(Strategies) /\ Strategies = 1..N /\ N \in Nat
  <2>1. N \in Nat
    BY RaceAssumption
  <2> QED
    BY <2>1, FS_Interval DEF Strategies
<1>2. SumFunctionOnSet(c, Strategies) \in Nat
  BY <1>1, SumNat
<1>3. ASSUME NEW k \in 0..N, NEW d \in Nat, \A i \in Strategies : c[i] = IF i <= k THEN d ELSE 0
      PROVE  SumFunctionOnSet(c, Strategies) = k * d
  <2>1. c = [i \in 1..N |-> IF i <= k THEN d ELSE 0]
    BY <1>1, <1>3
  <2>2. d \in Int
    OBVIOUS
  <2>3. SumFunctionOnSet([i \in 1..N |-> IF i <= k THEN d ELSE 0], 1..N) = k * d
    BY <1>1, <2>2, SumShares
  <2> QED
    BY <1>1, <2>1, <2>3
<1>4. ASSUME \A i \in Strategies : c[i] = 0 PROVE SumFunctionOnSet(c, Strategies) = 0
  <2>1. 0 \in 0..N /\ 0 \in Nat /\ \A i \in Strategies : c[i] = IF i <= 0 THEN 0 ELSE 0
    BY <1>1, <1>4
  <2>2. SumFunctionOnSet(c, Strategies) = 0 * 0
    BY <1>3, <2>1
  <2> QED
    BY <2>2
<1>5. ASSUME NEW g \in [Strategies -> Nat], NEW i \in Strategies,
             \A j \in Strategies : j # i => c[j] = g[j]
      PROVE  SumFunctionOnSet(g, Strategies) = SumFunctionOnSet(c, Strategies) - c[i] + g[i]
  <2>1. c \in [Strategies -> Int] /\ g \in [Strategies -> Int]
    OBVIOUS
  <2> DEFINE D == Strategies
  <2>2. IsFiniteSet(D) /\ c \in [D -> Int] /\ g \in [D -> Int] /\ i \in D
        /\ \A j \in D : j # i => c[j] = g[j]
    BY <1>1, <1>5, <2>1
  <2> HIDE DEF D
  <2>3. SumFunctionOnSet(g, D) = SumFunctionOnSet(c, D) - c[i] + g[i]
    BY <2>2, SumChanged, Zenon
  <2> QED
    BY <2>3 DEF D
<1> QED
  BY <1>2, <1>3, <1>4, <1>5

\* The types of the control state.
LEMMA TypeControlStep ==
  ASSUME IInv, [Next]_vars PROVE TypeControl'
<1> USE RaceAssumption
    DEF IInv, TypeOK, TypeControl, TypeOutcomes, Progress, Checkpoint, Strategies, Phases,
        Verdicts, budget, result, history
<1>1. CASE Refuse
  BY <1>1 DEF Refuse, Return, OneUnit
<1>2. CASE Begin
  BY <1>2 DEF Begin, CountOK
<1>3. CASE Spawn
  BY <1>3 DEF Spawn, Push
<1>4. CASE Drain
  BY <1>4 DEF Drain, Drained, MergeAll
<1>5. CASE DrainFailed
  BY <1>5 DEF DrainFailed, Drained, MergeAll, Return
<1>6. CASE Turn
  BY <1>6 DEF Turn, Return
<1>7. CASE MergeTurn
  BY <1>7 DEF MergeTurn, MergeAll, Return
<1>8. CASE Enter
  BY <1>8 DEF Enter, Return
<1>9. CASE Exhausted
  BY <1>9 DEF Exhausted, Return
<1>10. CASE Consider
  BY <1>10 DEF Consider, Pass, OneUnit, Return
<1>11. CASE Verify
  BY <1>11 DEF Verify, Pass, Return
<1>12. CASE Publish
  BY <1>12 DEF Publish, Return
<1>13. CASE OwnerWork
  BY <1>13 DEF OwnerWork
<1>14. CASE Resume
  BY <1>14 DEF Resume, Return, Unchanged
<1>15. CASE ResumeFresh
  BY <1>15 DEF ResumeFresh, Return
<1>16. CASE ResumeRefused
  BY <1>16 DEF ResumeRefused, Return
<1>17. CASE Cancel
  BY <1>17 DEF Cancel
<1>18. ASSUME NEW i \in Strategies, Work(i) PROVE TypeControl'
  BY <1>18 DEF Work
<1>19. ASSUME NEW i \in Strategies, Skip(i) PROVE TypeControl'
  BY <1>19 DEF Skip
<1>20. ASSUME NEW i \in Strategies, NEW what, Finish(i, what) PROVE TypeControl'
  BY <1>20 DEF Finish, Push
<1>21. CASE UNCHANGED vars
  BY <1>21 DEF vars
<1> QED
  BY <1>1, <1>2, <1>3, <1>4, <1>5, <1>6, <1>7, <1>8, <1>9, <1>10, <1>11,
     <1>12, <1>13, <1>14, <1>15, <1>16, <1>17, <1>18, <1>19, <1>20, <1>21
     DEF Next, Owner, Holder, Generator

\* The types of the budgets and of their history.
LEMMA TypeBudgetStep ==
  ASSUME IInv, [Next]_vars PROVE TypeBudget'
<1>1. CASE Drain
  <2>1. SumFunctionOnSet(child, Strategies) \in Nat
    BY ChildSums DEF IInv, TypeOK, TypeBudget
  <2> QED
    BY <1>1, <2>1 DEF IInv, TypeOK, TypeBudget, Drain, MergeAll, Return, budget, result, history
<1>2. CASE DrainFailed
  <2>1. SumFunctionOnSet(child, Strategies) \in Nat
    BY ChildSums DEF IInv, TypeOK, TypeBudget
  <2> QED
    BY <1>2, <2>1 DEF IInv, TypeOK, TypeBudget, DrainFailed, MergeAll, Return, budget, result, history
<1>3. CASE MergeTurn
  <2>1. SumFunctionOnSet(child, Strategies) \in Nat
    BY ChildSums DEF IInv, TypeOK, TypeBudget
  <2> QED
    BY <1>3, <2>1 DEF IInv, TypeOK, TypeBudget, MergeTurn, MergeAll, Return, budget, result, history
<1> USE RaceAssumption
    DEF IInv, TypeOK, TypeControl, TypeBudget, Progress, Draining, Checkpoint, Strategies,
        budget, result, history
<1>4. CASE Refuse
  BY <1>4 DEF Refuse, Return, OneUnit
<1>5. CASE Begin
  BY <1>5 DEF Begin, CountOK
<1>6. CASE Spawn
  BY <1>6 DEF Spawn, Push
<1>7. CASE Turn
  BY <1>7 DEF Turn, Return
<1>8. CASE Enter
  BY <1>8 DEF Enter, Return
<1>9. CASE Exhausted
  BY <1>9 DEF Exhausted, Return
<1>10. CASE Consider
  BY <1>10 DEF Consider, Pass, OneUnit, Return
<1>11. CASE Verify
  BY <1>11 DEF Verify, Pass, Return
<1>12. CASE Publish
  BY <1>12 DEF Publish, Return
<1>13. CASE OwnerWork
  BY <1>13 DEF OwnerWork
<1>14. CASE Resume
  BY <1>14 DEF Resume, Return, Unchanged
<1>15. CASE ResumeFresh
  BY <1>15 DEF ResumeFresh, Return
<1>16. CASE ResumeRefused
  BY <1>16 DEF ResumeRefused, Return
<1>17. CASE Cancel
  BY <1>17 DEF Cancel
<1>18. ASSUME NEW i \in Strategies, Work(i) PROVE TypeBudget'
  BY <1>18 DEF Work
<1>19. ASSUME NEW i \in Strategies, Skip(i) PROVE TypeBudget'
  BY <1>19 DEF Skip
<1>20. ASSUME NEW i \in Strategies, NEW what, Finish(i, what) PROVE TypeBudget'
  BY <1>20 DEF Finish, Push
<1>21. CASE UNCHANGED vars
  BY <1>21 DEF vars
<1> QED
  BY <1>1, <1>2, <1>3, <1>4, <1>5, <1>6, <1>7, <1>8, <1>9, <1>10, <1>11,
     <1>12, <1>13, <1>14, <1>15, <1>16, <1>17, <1>18, <1>19, <1>20, <1>21
     DEF Next, Owner, Holder, Generator

\* The types of the outcomes.
LEMMA TypeOutcomesStep ==
  ASSUME IInv, [Next]_vars PROVE TypeOutcomes'
<1>1. CASE Spawn
  <2>1. [idx |-> next, what |-> "err"] \in Outcome
    BY <1>1, RaceAssumption DEF IInv, TypeOK, TypeControl, Progress, Spawn, Strategies, Outcome
  <2>2. /\ outcomes' = outcomes \/ outcomes' = Append(outcomes, [idx |-> next, what |-> "err"])
        /\ all' = all \/ all' = all \cup {[idx |-> next, what |-> "err"]}
        /\ winner' = winner
    BY <1>1 DEF Spawn, Push, result
  <2> QED
    BY <2>1, <2>2 DEF IInv, TypeOK, TypeOutcomes
<1>2. CASE Drain
  <2>1. SortByIndex(outcomes) \in Seq(Outcome)
    BY <1>2, DrainFacts DEF Drain
  <2> QED
    BY <1>2, <2>1 DEF IInv, TypeOK, TypeOutcomes, Drain, result, history
<1>3. CASE Consider
  <2>1. outcomes \in Seq(Outcome) /\ outcomes # <<>>
    BY <1>3 DEF IInv, TypeOK, TypeOutcomes, Consider
  <2>2. Tail(outcomes) \in Seq(Outcome)
    BY <2>1
  <2>3. outcomes' \in {outcomes, Tail(outcomes)} /\ all' = all /\ winner' = winner
    BY <1>3 DEF Consider, Pass, Return, result, history
  <2> QED
    BY <2>1, <2>2, <2>3 DEF IInv, TypeOK, TypeOutcomes
<1>4. CASE Verify
  <2>1. outcomes \in Seq(Outcome) /\ outcomes # <<>>
    BY <1>4 DEF IInv, TypeOK, TypeOutcomes, Pending, Verify
  <2>2. Tail(outcomes) \in Seq(Outcome)
    BY <2>1
  <2>3. outcomes' \in {outcomes, Tail(outcomes)} /\ all' = all /\ winner' = winner
    BY <1>4 DEF Verify, Pass, Return, result, history
  <2> QED
    BY <2>1, <2>2, <2>3 DEF IInv, TypeOK, TypeOutcomes
<1>5. CASE Resume
  <2>1. Captured \in Seq(Outcome)
    BY <1>5, CapturedCandidates DEF IInv, TypeOK, TypeOutcomes, Pending, Resume
  <2>2. outcomes' \in {outcomes, Captured} /\ all' = all /\ winner' = winner
    BY <1>5 DEF Resume, Return, result, history
  <2> QED
    BY <2>1, <2>2 DEF IInv, TypeOK, TypeOutcomes
<1>6. CASE ResumeFresh
  <2>1. Captured \in Seq(Outcome)
    BY <1>6, CapturedCandidates DEF IInv, TypeOK, TypeOutcomes, Pending, ResumeFresh
  <2>2. outcomes' \in {outcomes, Captured} /\ all' = all /\ winner' = winner
    BY <1>6 DEF ResumeFresh, Return, result, history
  <2> QED
    BY <2>1, <2>2 DEF IInv, TypeOK, TypeOutcomes
<1> USE RaceAssumption
    DEF IInv, TypeOK, TypeControl, TypeOutcomes, Progress, Pending, Checkpoint, Strategies,
        Outcome, Candidates, budget, result, history
<1>7. CASE Refuse
  BY <1>7 DEF Refuse, Return, OneUnit
<1>8. CASE Begin
  BY <1>8 DEF Begin, CountOK
<1>9. CASE DrainFailed
  BY <1>9 DEF DrainFailed, Drained, MergeAll, Return
<1>10. CASE Turn
  BY <1>10 DEF Turn, Return
<1>11. CASE MergeTurn
  BY <1>11 DEF MergeTurn, MergeAll, Return
<1>12. CASE Enter
  BY <1>12 DEF Enter, Return
<1>13. CASE Exhausted
  BY <1>13 DEF Exhausted, Return
<1>14. CASE Publish
  BY <1>14 DEF Publish, Return
<1>15. CASE OwnerWork
  BY <1>15 DEF OwnerWork
<1>16. CASE ResumeRefused
  BY <1>16 DEF ResumeRefused, Return
<1>17. CASE Cancel
  BY <1>17 DEF Cancel
<1>18. ASSUME NEW i \in Strategies, Work(i) PROVE TypeOutcomes'
  BY <1>18 DEF Work
<1>19. ASSUME NEW i \in Strategies, Skip(i) PROVE TypeOutcomes'
  BY <1>19 DEF Skip
<1>20. ASSUME NEW i \in Strategies, NEW what, Finish(i, what) PROVE TypeOutcomes'
  BY <1>20 DEF Finish, Push
<1>21. CASE UNCHANGED vars
  BY <1>21 DEF vars
<1> QED
  BY <1>1, <1>2, <1>3, <1>4, <1>5, <1>6, <1>7, <1>8, <1>9, <1>10, <1>11,
     <1>12, <1>13, <1>14, <1>15, <1>16, <1>17, <1>18, <1>19, <1>20, <1>21
     DEF Next, Owner, Holder, Generator

\* Every step moves units without making or losing any.
LEMMA BalancedStep ==
  ASSUME IInv, [Next]_vars PROVE Balanced'
<1>1. CASE Begin
  <2> DEFINE share == IF mode = "sequential" THEN 0 ELSE remaining \div count
  <2>1. count \in 0..N /\ count \in Nat \ {0} /\ share \in Nat
    BY <1>1, RaceAssumption DEF IInv, TypeOK, TypeControl, TypeBudget, Begin, CountOK
  <2>2. child' = [i \in Strategies |-> IF i <= count THEN share ELSE 0] /\ remaining' = remaining - count * share
    BY <1>1 DEF Begin
  <2> HIDE DEF share
  <2>3. child' \in [Strategies -> Nat] /\ \A i \in Strategies : child'[i] = IF i <= count THEN share ELSE 0
    BY <2>1, <2>2
  <2>4. SumFunctionOnSet(child', Strategies) = count * share /\ count * share \in Int
    BY <2>1, <2>3, ChildSums
  <2>5. SumFunctionOnSet(child, Strategies) = 0
    BY <1>1, ChildSums DEF IInv, TypeOK, TypeBudget, Draining, Begin
  <2>6. \/ phase' = "turn"
        \/ phase' = "spawn"
    BY <1>1 DEF Begin
  <2> QED
    BY <1>1, <2>2, <2>4, <2>5, <2>6
       DEF IInv, TypeOK, TypeBudget, Balanced, StepsReported, Begin, result, history
<1>2. CASE Drain
  <2>1. child' \in [Strategies -> Nat] /\ \A i \in Strategies : child'[i] = 0
    BY <1>2 DEF Drain, MergeAll
  <2>2. SumFunctionOnSet(child', Strategies) = 0
    BY <2>1, ChildSums
  <2>3. SumFunctionOnSet(child, Strategies) \in Nat
    BY ChildSums DEF IInv, TypeOK, TypeBudget
  <2> QED
    BY <1>2, <2>2, <2>3
       DEF IInv, TypeOK, TypeBudget, Balanced, StepsReported, Drain, MergeAll, Return, result, history
<1>3. CASE DrainFailed
  <2>1. child' \in [Strategies -> Nat] /\ \A i \in Strategies : child'[i] = 0
    BY <1>3 DEF DrainFailed, MergeAll
  <2>2. SumFunctionOnSet(child', Strategies) = 0
    BY <2>1, ChildSums
  <2>3. SumFunctionOnSet(child, Strategies) \in Nat
    BY ChildSums DEF IInv, TypeOK, TypeBudget
  <2> QED
    BY <1>3, <2>2, <2>3
       DEF IInv, TypeOK, TypeBudget, Balanced, StepsReported, DrainFailed, MergeAll, Return, result, history
<1>4. CASE Turn
  <2>1. SumFunctionOnSet(child, Strategies) = 0
    BY <1>4, ChildSums DEF IInv, TypeOK, TypeBudget, Draining, Turn
  <2>2. CASE Checkpoint
    <3>1. /\ next \in Strategies /\ child \in [Strategies -> Nat] /\ child[next] = 0
          /\ child' = [child EXCEPT ![next] = remaining] /\ remaining \in Nat /\ remaining' = 0
      BY <1>4, <2>2, RaceAssumption
         DEF IInv, TypeOK, TypeControl, TypeBudget, Progress, Draining, Turn, Strategies
    <3>2. /\ child' \in [Strategies -> Nat] /\ child'[next] = remaining
          /\ \A j \in Strategies : j # next => child[j] = child'[j]
      BY <3>1
    <3>3. SumFunctionOnSet(child', Strategies)
             = SumFunctionOnSet(child, Strategies) - child[next] + child'[next]
      BY <3>1, <3>2, ChildSums
    <3> QED
      BY <1>4, <2>1, <2>2, <3>1, <3>2, <3>3
         DEF IInv, TypeOK, TypeBudget, Balanced, StepsReported, Turn, result, history
  <2>3. CASE ~Checkpoint
    BY <1>4, <2>1, <2>3
       DEF IInv, TypeOK, TypeBudget, Balanced, StepsReported, Turn, Return, history
  <2> QED
    BY <2>2, <2>3
<1>5. CASE MergeTurn
  <2>1. child' \in [Strategies -> Nat] /\ \A i \in Strategies : child'[i] = 0
    BY <1>5 DEF MergeTurn, MergeAll
  <2>2. SumFunctionOnSet(child', Strategies) = 0
    BY <2>1, ChildSums
  <2>3. SumFunctionOnSet(child, Strategies) \in Nat
    BY ChildSums DEF IInv, TypeOK, TypeBudget
  <2> QED
    BY <1>5, <2>2, <2>3
       DEF IInv, TypeOK, TypeBudget, Balanced, StepsReported, MergeTurn, MergeAll, Return, result, history
<1>6. CASE Publish
  <2>1. SumFunctionOnSet(child, Strategies) = 0 /\ child' = child
    BY <1>6, ChildSums DEF IInv, TypeOK, TypeBudget, Draining, Publish, budget
  <2> QED
    BY <1>6, <2>1, RaceAssumption
       DEF IInv, TypeOK, TypeBudget, Balanced, StepsReported, Publish, Return, budget, result, history
<1>7. CASE OwnerWork
  <2>1. SumFunctionOnSet(child, Strategies) = 0 /\ child' = child
    BY <1>7, ChildSums DEF IInv, TypeOK, TypeBudget, Draining, OwnerWork, budget
  <2> QED
    BY <1>7, <2>1, RaceAssumption
       DEF IInv, TypeOK, TypeBudget, Balanced, StepsReported, OwnerWork, Return, budget, result, history
<1>8. CASE ResumeFresh
  <2>1. SumFunctionOnSet(child, Strategies) = 0 /\ child' = child
    BY <1>8, ChildSums DEF IInv, TypeOK, TypeBudget, Draining, ResumeFresh
  <2>2. /\ remaining' \in Nat /\ base' = remaining' /\ allowance' = remaining'
        /\ prior' = work /\ work' = work /\ work \in Nat /\ other' = 0
    BY <1>8, RaceAssumption DEF IInv, TypeOK, TypeBudget, ResumeFresh
  <2>3. \/ phase' = "done" /\ verdict' = "InvalidPortfolio"
        \/ phase' = "enter" /\ verdict' = "none"
    BY <1>8 DEF IInv, Balanced, ResumeFresh, Return, result
  <2>4. remaining' + SumFunctionOnSet(child', Strategies) + (work' - prior') + other' = allowance'
    <3> DEFINE s == SumFunctionOnSet(child', Strategies)
    <3>1. s = 0
      BY <2>1
    <3>2. remaining' \in Nat /\ work' \in Nat /\ prior' = work' /\ other' = 0 /\ allowance' = remaining'
      BY <2>2
    <3> HIDE DEF s
    <3>3. \A r, w \in Nat : r + 0 + (w - w) + 0 = r
      OBVIOUS
    <3>4. remaining' + s + (work' - prior') + other' = allowance'
      BY <3>1, <3>2, <3>3, Zenon
    <3> QED
      BY <3>4 DEF s
  <2>5. StepsReported'
    BY <2>3 DEF StepsReported
  <2> QED
    BY <2>2, <2>3, <2>4, <2>5 DEF Balanced
<1>9. ASSUME NEW i \in Strategies, Work(i) PROVE Balanced'
  <2>1. /\ child \in [Strategies -> Nat] /\ child[i] > 0 /\ child' = [child EXCEPT ![i] = child[i] - 1]
    BY <1>9 DEF IInv, TypeOK, TypeBudget, Work
  <2>2. /\ child' \in [Strategies -> Nat] /\ child'[i] = child[i] - 1 /\ child[i] \in Nat
        /\ \A j \in Strategies : j # i => child[j] = child'[j]
    BY <2>1
  <2>3. /\ SumFunctionOnSet(child, Strategies) \in Nat
        /\ SumFunctionOnSet(child', Strategies)
             = SumFunctionOnSet(child, Strategies) - child[i] + child'[i]
    BY <2>1, <2>2, ChildSums
  <2>4. phase \in {"spawn", "run"}
    BY <1>9 DEF IInv, Draining, Work
  <2> QED
    BY <1>9, <2>2, <2>3, <2>4
       DEF IInv, TypeOK, TypeBudget, Balanced, StepsReported, Work, result, history
<1> USE RaceAssumption
    DEF IInv, TypeOK, TypeBudget, Draining, Balanced, StepsReported, Checkpoint, budget, result,
        history
<1>10. CASE Refuse
  BY <1>10 DEF Refuse, Return, OneUnit
<1>11. CASE Spawn
  BY <1>11 DEF Spawn, Push
<1>12. CASE Enter
  BY <1>12 DEF Enter, Return
<1>13. CASE Exhausted
  BY <1>13 DEF Exhausted, Return
<1>14. CASE Consider
  BY <1>14 DEF Consider, Pass, OneUnit, Return
<1>15. CASE Verify
  BY <1>15 DEF Verify, Pass, Return
<1>16. CASE Resume
  BY <1>16 DEF Resume, Return, Unchanged
<1>17. CASE ResumeRefused
  BY <1>17 DEF ResumeRefused, Return
<1>18. CASE Cancel
  BY <1>18 DEF Cancel
<1>19. ASSUME NEW i \in Strategies, Skip(i) PROVE Balanced'
  BY <1>19 DEF Skip
<1>20. ASSUME NEW i \in Strategies, NEW what, Finish(i, what) PROVE Balanced'
  BY <1>20 DEF Finish, Push
<1>21. CASE UNCHANGED vars
  BY <1>21 DEF vars
<1> QED
  BY <1>1, <1>2, <1>3, <1>4, <1>5, <1>6, <1>7, <1>8, <1>9, <1>10, <1>11,
     <1>12, <1>13, <1>14, <1>15, <1>16, <1>17, <1>18, <1>19, <1>20, <1>21
     DEF Next, Owner, Holder, Generator

\* A candidate that is given up would not have been verified.
LEMMA PassedOver ==
  ASSUME IInv, outcomes # <<>>, Head(outcomes).what # "good", phase \notin {"spawn", "done"},
         Pass, all' = all
  PROVE  Pending'
<1>1. /\ outcomes \in Seq(Outcome) /\ outcomes' = Tail(outcomes) /\ phase' = "accept"
      /\ \A i \in DOMAIN outcomes : outcomes[i] \in all
      /\ \A o \in all : o.what = "good" => \E i \in DOMAIN outcomes : outcomes[i] = o
      /\ \A i, j \in DOMAIN outcomes : i < j => outcomes[i].idx <= outcomes[j].idx
  BY DEF IInv, TypeOK, TypeOutcomes, Pending, Ordered, Pass
<1>2. /\ Len(outcomes) \in Nat \ {0} /\ DOMAIN outcomes = 1..Len(outcomes)
      /\ Head(outcomes) = outcomes[1]
      /\ DOMAIN outcomes' = 1..(Len(outcomes) - 1)
      /\ \A i \in 1..(Len(outcomes) - 1) : outcomes'[i] = outcomes[i + 1]
  BY <1>1
<1>3. \A i \in DOMAIN outcomes' : outcomes'[i] \in all
  BY <1>1, <1>2
<1>4. ASSUME NEW o \in all, o.what = "good" PROVE \E i \in DOMAIN outcomes' : outcomes'[i] = o
  <2>1. PICK i \in DOMAIN outcomes : outcomes[i] = o
    BY <1>1, <1>4
  <2>2. i # 1
    BY <1>2, <1>4, <2>1
  <2>3. i - 1 \in 1..(Len(outcomes) - 1) /\ (i - 1) + 1 = i
    BY <1>2, <2>2
  <2> QED
    BY <1>2, <2>1, <2>3
<1>5. Ordered(outcomes')
  <2> SUFFICES ASSUME NEW i \in DOMAIN outcomes', NEW j \in DOMAIN outcomes', i < j
               PROVE  outcomes'[i].idx <= outcomes'[j].idx
    BY DEF Ordered
  <2>1. i + 1 \in DOMAIN outcomes /\ j + 1 \in DOMAIN outcomes /\ i + 1 < j + 1
    BY <1>2
  <2> QED
    BY <1>1, <1>2, <2>1
<1> QED
  BY <1>1, <1>3, <1>4, <1>5 DEF Pending

\* An outcome that is pushed while the owner waits.
LEMMA Pushed ==
  ASSUME IInv, NEW i \in Strategies, NEW what, Push(i, what),
         phase \in {"spawn", "run"}, phase' = phase, next' = next,
         phase = "run" => worker[i] = "running", worker[i] # "gone",
         worker' = [worker EXCEPT ![i] = "gone"]
  PROVE  Pending'
<1> DEFINE r == [idx |-> i, what |-> what]
<1>1. /\ outcomes \in Seq(Outcome) /\ outcomes' = Append(outcomes, r) /\ all' = all \cup {r}
      /\ r.idx = i
      /\ \A n \in DOMAIN outcomes : outcomes[n] \in all
      /\ \A o \in all : o.what = "good" => \E n \in DOMAIN outcomes : outcomes[n] = o
      /\ \A o \in all : o.idx # i
  BY DEF IInv, TypeOK, TypeOutcomes, Pending, Delivered, Push
<1> HIDE DEF r
<1>2. /\ Len(outcomes) \in Nat /\ DOMAIN outcomes = 1..Len(outcomes)
      /\ DOMAIN outcomes' = 1..(Len(outcomes) + 1)
      /\ outcomes'[Len(outcomes) + 1] = r
      /\ \A n \in 1..Len(outcomes) : outcomes'[n] = outcomes[n]
  BY <1>1
<1>3. \A n \in DOMAIN outcomes' : outcomes'[n] \in all'
  BY <1>1, <1>2
<1>4. ASSUME NEW o \in all', o.what = "good" PROVE \E n \in DOMAIN outcomes' : outcomes'[n] = o
  <2>1. CASE o = r
    BY <1>2, <2>1
  <2>2. CASE o \in all
    <3>1. PICK n \in DOMAIN outcomes : outcomes[n] = o
      BY <1>1, <1>4, <2>2
    <3> QED
      BY <1>2, <3>1
  <2> QED
    BY <1>1, <2>1, <2>2
<1>5. CASE phase = "spawn"
  <2>1. \A m, n \in DOMAIN outcomes : outcomes[m].idx = outcomes[n].idx => m = n
    BY <1>5 DEF IInv, Pending
  <2>2. \A n \in 1..Len(outcomes) : outcomes[n].idx # r.idx
    BY <1>1, <1>2
  <2>3. \A m, n \in DOMAIN outcomes' : outcomes'[m].idx = outcomes'[n].idx => m = n
    <3> SUFFICES ASSUME NEW m \in DOMAIN outcomes', NEW n \in DOMAIN outcomes',
                        outcomes'[m].idx = outcomes'[n].idx
                 PROVE  m = n
      OBVIOUS
    <3>1. CASE m \in 1..Len(outcomes) /\ n \in 1..Len(outcomes)
      BY <1>2, <2>1, <3>1
    <3>2. CASE m \in 1..Len(outcomes) /\ n = Len(outcomes) + 1
      BY <1>2, <2>2, <3>2
    <3>3. CASE n \in 1..Len(outcomes) /\ m = Len(outcomes) + 1
      BY <1>2, <2>2, <3>3
    <3> QED
      BY <1>2, <3>1, <3>2, <3>3
  <2> QED
    BY <1>3, <1>4, <1>5, <2>3 DEF Pending
<1>6. CASE phase = "run"
  <2>1. i = next - 1 /\ outcomes = <<>>
    BY <1>6 DEF IInv, TypeOK, TypeControl, Progress, Draining, Pending, Strategies
  <2>2. Len(outcomes') = 1 /\ DOMAIN outcomes' = {1} /\ worker'[next - 1] = "gone"
    BY <1>1, <1>2, <2>1 DEF IInv, TypeOK, TypeControl
  <2>3. Ordered(outcomes')
    BY <2>2 DEF Ordered
  <2> QED
    BY <1>3, <1>4, <1>6, <2>2, <2>3 DEF Pending
<1> QED
  BY <1>5, <1>6

\* A candidate that would be verified is never given up, and none is considered
\* out of order.
LEMMA PendingStep ==
  ASSUME IInv, [Next]_vars PROVE Pending'
<1>1. CASE Spawn
  <2>1. /\ next \in Strategies /\ worker[next] = "none" /\ phase = "spawn" /\ phase' = "spawn"
    BY <1>1, RaceAssumption DEF IInv, TypeOK, TypeControl, Progress, Spawn, Strategies
  <2>2. CASE UNCHANGED <<outcomes, all>>
    BY <2>1, <2>2 DEF IInv, Pending
  <2>3. CASE Push(next, "err")
    <3> DEFINE r == [idx |-> next, what |-> "err"]
    <3>1. /\ outcomes \in Seq(Outcome) /\ outcomes' = Append(outcomes, r) /\ all' = all \cup {r}
          /\ r.idx = next /\ r.what # "good"
          /\ \A n \in DOMAIN outcomes : outcomes[n] \in all
          /\ \A o \in all : o.what = "good" => \E n \in DOMAIN outcomes : outcomes[n] = o
          /\ \A o \in all : o.idx # next
          /\ \A m, n \in DOMAIN outcomes : outcomes[m].idx = outcomes[n].idx => m = n
      BY <2>1, <2>3 DEF IInv, TypeOK, TypeOutcomes, Pending, Delivered, Push
    <3> HIDE DEF r
    <3>2. /\ Len(outcomes) \in Nat /\ DOMAIN outcomes = 1..Len(outcomes)
          /\ DOMAIN outcomes' = 1..(Len(outcomes) + 1)
          /\ outcomes'[Len(outcomes) + 1] = r
          /\ \A n \in 1..Len(outcomes) : outcomes'[n] = outcomes[n]
      BY <3>1
    <3> QED
      BY <2>1, <3>1, <3>2 DEF Pending
  <2> QED
    BY <1>1, <2>2, <2>3 DEF Spawn
<1>2. CASE Drain
  <2>1. phase' \in {"captured", "enter"} /\ outcomes' = SortByIndex(outcomes) /\ all' = all
    BY <1>2 DEF Drain, history
  <2>2. /\ Ordered(outcomes')
        /\ \A i \in DOMAIN outcomes' : outcomes'[i] \in all
        /\ \A o \in all : o.what = "good" => \E i \in DOMAIN outcomes' : outcomes'[i] = o
    BY <1>2, <2>1, DrainFacts DEF Drain
  <2> QED
    BY <2>1, <2>2 DEF Pending
<1>3. CASE Consider
  <2>1. CASE /\ Head(outcomes).what \in {"err", "oversized"}
             /\ Pass
    BY <1>3, <2>1, PassedOver DEF Consider, history
  <2>2. CASE phase' = "charged" /\ UNCHANGED outcomes
    BY <1>3, <2>2 DEF IInv, Pending, Consider, history
  <2>3. CASE phase' = "done"
    BY <2>3 DEF Pending
  <2> QED
    BY <1>3, <2>1, <2>2, <2>3 DEF Consider, Return
<1>4. CASE Verify
  <2>1. CASE Head(outcomes).what # "good" /\ Pass
    BY <1>4, <2>1, PassedOver DEF IInv, Pending, Verify, history
  <2>2. CASE Head(outcomes).what = "good" /\ phase' = "verified" /\ UNCHANGED outcomes
    BY <1>4, <2>2 DEF IInv, Pending, Verify, history
  <2>3. CASE phase' = "done"
    BY <2>3 DEF Pending
  <2> QED
    BY <1>4, <2>1, <2>2, <2>3 DEF Verify, Return
<1>5. CASE Resume
  <2>1. CASE phase' = "enter" /\ outcomes' = Captured
    <3>1. /\ outcomes \in Seq(Outcome) /\ Ordered(outcomes) /\ all' = all
          /\ \A i \in DOMAIN outcomes : outcomes[i] \in all
          /\ \A o \in all : o.what = "good" => \E i \in DOMAIN outcomes : outcomes[i] = o
      BY <1>5 DEF IInv, TypeOK, TypeOutcomes, Pending, Resume, history
    <3>2. /\ Ordered(Captured)
          /\ \A i \in DOMAIN Captured : \E j \in DOMAIN outcomes : Captured[i] = outcomes[j]
          /\ \A j \in DOMAIN outcomes : outcomes[j].what # "err" =>
               \E i \in DOMAIN Captured : Captured[i] = outcomes[j]
      BY <3>1, CapturedCandidates
    <3>3. /\ \A i \in DOMAIN Captured : Captured[i] \in all
          /\ \A o \in all : o.what = "good" => \E i \in DOMAIN Captured : Captured[i] = o
      BY <3>1, <3>2
    <3> QED
      BY <2>1, <3>1, <3>2, <3>3 DEF Pending
  <2>2. CASE phase' = "done"
    BY <2>2 DEF Pending
  <2> QED
    BY <1>5, <2>1, <2>2 DEF Resume, Return
<1>6. CASE ResumeFresh
  <2>1. CASE phase' = "enter" /\ outcomes' = Captured
    <3>1. /\ outcomes \in Seq(Outcome) /\ Ordered(outcomes) /\ all' = all
          /\ \A i \in DOMAIN outcomes : outcomes[i] \in all
          /\ \A o \in all : o.what = "good" => \E i \in DOMAIN outcomes : outcomes[i] = o
      BY <1>6 DEF IInv, TypeOK, TypeOutcomes, Pending, ResumeFresh, history
    <3>2. /\ Ordered(Captured)
          /\ \A i \in DOMAIN Captured : \E j \in DOMAIN outcomes : Captured[i] = outcomes[j]
          /\ \A j \in DOMAIN outcomes : outcomes[j].what # "err" =>
               \E i \in DOMAIN Captured : Captured[i] = outcomes[j]
      BY <3>1, CapturedCandidates
    <3>3. /\ \A i \in DOMAIN Captured : Captured[i] \in all
          /\ \A o \in all : o.what = "good" => \E i \in DOMAIN Captured : Captured[i] = o
      BY <3>1, <3>2
    <3> QED
      BY <2>1, <3>1, <3>2, <3>3 DEF Pending
  <2>2. CASE phase' = "done"
    BY <2>2 DEF Pending
  <2> QED
    BY <1>6, <2>1, <2>2 DEF ResumeFresh, Return
<1>7. ASSUME NEW i \in Strategies, NEW what, Finish(i, what) PROVE Pending'
  <2>1. /\ worker[i] = "running" /\ Push(i, what) /\ worker' = [worker EXCEPT ![i] = "gone"]
        /\ phase' = phase /\ next' = next
    BY <1>7 DEF Finish
  <2>2. phase \in {"spawn", "run"}
    BY <2>1 DEF IInv, Draining
  <2> QED
    BY <2>1, <2>2, Pushed
<1> USE RaceAssumption
    DEF IInv, TypeOK, TypeControl, TypeOutcomes, Progress, Draining, Delivered, Pending,
        Ordered, Checkpoint, budget, result, history
<1>8. CASE Refuse
  BY <1>8 DEF Refuse, Return, OneUnit
<1>9. CASE Begin
  BY <1>9 DEF Begin, CountOK
<1>10. CASE DrainFailed
  BY <1>10 DEF DrainFailed, Drained, MergeAll, Return
<1>11. CASE Turn
  BY <1>11 DEF Turn, Return
<1>12. CASE MergeTurn
  BY <1>12 DEF MergeTurn, MergeAll, Return
<1>13. CASE Enter
  BY <1>13 DEF Enter, Return
<1>14. CASE Exhausted
  BY <1>14 DEF Exhausted, Return
<1>15. CASE Publish
  BY <1>15 DEF Publish, Return
<1>16. CASE OwnerWork
  BY <1>16 DEF OwnerWork
<1>17. CASE ResumeRefused
  BY <1>17 DEF ResumeRefused, Return
<1>18. CASE Cancel
  BY <1>18 DEF Cancel
<1>19. ASSUME NEW i \in Strategies, Work(i) PROVE Pending'
  BY <1>19 DEF Work
<1>20. ASSUME NEW i \in Strategies, Skip(i) PROVE Pending'
  BY <1>20 DEF Skip
<1>21. CASE UNCHANGED vars
  BY <1>21 DEF vars
<1> QED
  BY <1>1, <1>2, <1>3, <1>4, <1>5, <1>6, <1>7, <1>8, <1>9, <1>10, <1>11,
     <1>12, <1>13, <1>14, <1>15, <1>16, <1>17, <1>18, <1>19, <1>20, <1>21
     DEF Next, Owner, Holder, Generator

\* Only the publication boundary makes a winner.
LEMMA WinsStep ==
  ASSUME IInv, [Next]_vars PROVE FirstVerifiedWins'
<1>1. CASE Publish
  <2>1. CASE ~Checkpoint
    BY <1>1, <2>1 DEF Publish, Return, FirstVerifiedWins
  <2>2. CASE Checkpoint
    <3>1. /\ winner' = Head(outcomes).idx /\ all' = all /\ ~cancelled'
          /\ phase = "verified" /\ verdict' = "ok"
      BY <1>1, <2>2 DEF Publish, Checkpoint, history
    <3>2. /\ outcomes \in Seq(Outcome) /\ outcomes # <<>> /\ Head(outcomes).what = "good"
          /\ \A i \in DOMAIN outcomes : outcomes[i] \in all
          /\ \A o \in all : o.what = "good" => \E i \in DOMAIN outcomes : outcomes[i] = o
          /\ \A i, j \in DOMAIN outcomes : i < j => outcomes[i].idx <= outcomes[j].idx
      BY <3>1 DEF IInv, TypeOK, TypeOutcomes, Pending, Ordered
    <3>3. /\ 1 \in DOMAIN outcomes /\ Head(outcomes) = outcomes[1] /\ outcomes[1] \in all
          /\ outcomes[1] \in Outcome
      BY <3>2
    <3>4. [idx |-> winner', what |-> "good"] = outcomes[1]
      BY <3>1, <3>2, <3>3 DEF Outcome
    <3>5. ASSUME NEW i \in 1..(winner' - 1) PROVE \E o \in all : o.idx = i /\ o.what # "good"
      <4>1. /\ winner' \in Strategies /\ winner' = outcomes[1].idx /\ worker[winner'] = "gone"
        BY <3>1, <3>3 DEF IInv, Delivered, Outcome
      <4>2. i \in Strategies /\ i < winner' /\ i < next
        BY <4>1, RaceAssumption DEF IInv, TypeOK, TypeControl, Progress, Strategies
      <4>3. worker[i] = "gone"
        <5>1. worker[i] # "none"
          BY <4>2 DEF IInv, TypeOK, TypeControl, Progress, Strategies
        <5> QED
          BY <3>1, <4>2, <5>1 DEF IInv, TypeOK, TypeControl, Draining
      <4>4. PICK o \in all : o.idx = i
        BY <4>2, <4>3 DEF IInv, Delivered
      <4>5. ASSUME o.what = "good" PROVE FALSE
        <5>1. PICK j \in DOMAIN outcomes : outcomes[j] = o
          BY <3>2, <4>5
        <5>2. j = 1 \/ 1 < j
          BY <3>2
        <5>3. outcomes[1].idx <= outcomes[j].idx
          BY <3>2, <3>3, <4>1, <5>2 DEF Strategies
        <5> QED
          BY <4>1, <4>2, <4>4, <5>1, <5>3 DEF Strategies
      <4> QED
        BY <4>4, <4>5
    <3> QED
      BY <3>1, <3>3, <3>4, <3>5 DEF FirstVerifiedWins
  <2> QED
    BY <2>1, <2>2
<1> USE RaceAssumption DEF IInv, Balanced, FirstVerifiedWins, Checkpoint, budget, result, history
<1>2. CASE Refuse
  BY <1>2 DEF Refuse, Return, OneUnit
<1>3. CASE Begin
  BY <1>3 DEF Begin, CountOK
<1>4. CASE Spawn
  BY <1>4 DEF Spawn, Push
<1>5. CASE Drain
  BY <1>5 DEF Drain, Drained, MergeAll
<1>6. CASE DrainFailed
  BY <1>6 DEF DrainFailed, Drained, MergeAll, Return
<1>7. CASE Turn
  BY <1>7 DEF Turn, Return
<1>8. CASE MergeTurn
  BY <1>8 DEF MergeTurn, MergeAll, Return
<1>9. CASE Enter
  BY <1>9 DEF Enter, Return
<1>10. CASE Exhausted
  BY <1>10 DEF Exhausted, Return
<1>11. CASE Consider
  BY <1>11 DEF Consider, Pass, OneUnit, Return
<1>12. CASE Verify
  BY <1>12 DEF Verify, Pass, Return
<1>13. CASE OwnerWork
  BY <1>13 DEF OwnerWork
<1>14. CASE Resume
  BY <1>14 DEF Resume, Return, Unchanged
<1>15. CASE ResumeFresh
  BY <1>15 DEF ResumeFresh, Return
<1>16. CASE ResumeRefused
  BY <1>16 DEF ResumeRefused, Return
<1>17. CASE Cancel
  BY <1>17 DEF Cancel
<1>18. ASSUME NEW i \in Strategies, Work(i) PROVE FirstVerifiedWins'
  BY <1>18 DEF Work
<1>19. ASSUME NEW i \in Strategies, Skip(i) PROVE FirstVerifiedWins'
  BY <1>19 DEF Skip
<1>20. ASSUME NEW i \in Strategies, NEW what, Finish(i, what) PROVE FirstVerifiedWins'
  BY <1>20 DEF Finish, Push
<1>21. CASE UNCHANGED vars
  BY <1>21 DEF vars
<1> QED
  BY <1>1, <1>2, <1>3, <1>4, <1>5, <1>6, <1>7, <1>8, <1>9, <1>10, <1>11,
     <1>12, <1>13, <1>14, <1>15, <1>16, <1>17, <1>18, <1>19, <1>20, <1>21
     DEF Next, Owner, Holder, Generator

-----------------------------------------------------------------------------
(* The theorems.                                                           *)

\* The invariant is inductive.
LEMMA Inductive == Spec => []IInv
<1>1. Init => IInv
  <2> SUFFICES ASSUME Init PROVE IInv
    OBVIOUS
  <2>1. TypeOK
    <3>1. TypeControl
      <4>1. mode \in {"concurrent", "continuation", "sequential"}
        BY RaceAssumption DEF Init
      <4>2. worker \in [Strategies -> {"none", "running", "gone", "skipped"}]
        BY DEF Init
      <4>3. count \in 0..(N + 1) /\ phase \in Phases /\ verdict \in Verdicts /\ next \in Nat \ {0}
        BY DEF Init, Phases, Verdicts
      <4> QED
        BY <4>1, <4>2, <4>3 DEF Init, TypeControl
    <3>2. TypeBudget
      BY RaceAssumption DEF Init, TypeBudget
    <3>3. TypeOutcomes
      BY DEF Init, TypeOutcomes
    <3> QED
      BY <3>1, <3>2, <3>3 DEF TypeOK
  <2>2. SumFunctionOnSet(child, Strategies) = 0
    <3>1. child \in [Strategies -> Nat] /\ \A i \in Strategies : child[i] = 0
      BY DEF Init
    <3> QED
      BY <3>1, ChildSums
  <2>3. Progress /\ Draining
    BY RaceAssumption DEF Init, Progress, Draining, Strategies
  <2>4. Balanced
    BY <2>2, RaceAssumption DEF Init, Balanced, StepsReported
  <2>5. Delivered /\ Pending /\ FirstVerifiedWins
    BY DEF Init, Delivered, Pending, Ordered, FirstVerifiedWins
  <2> QED
    BY <2>1, <2>3, <2>4, <2>5 DEF IInv
<1>2. IInv /\ [Next]_vars => IInv'
  BY ProgressStep, DrainingStep, DeliveredStep, TypeControlStep, TypeBudgetStep, TypeOutcomesStep,
     BalancedStep, PendingStep, WinsStep
     DEF IInv, TypeOK
<1> QED
  BY <1>1, <1>2, PTL DEF Spec

\* After every drain, whatever became of the generators, none runs any more and
\* the region has back exactly what they did not spend: the children are merged
\* with the parent before the outcome of the scoped region is looked at.
THEOREM ReconciledHolds == Spec => []Reconciled
<1>1. IInv => Reconciled
  <2> SUFFICES ASSUME IInv, phase \notin {"start", "spawn", "run"}
               PROVE  /\ \A i \in Strategies : worker[i] # "running"
                      /\ remaining + (work - prior) + other = allowance
    BY DEF Reconciled
  <2>1. child \in [Strategies -> Nat] /\ \A i \in Strategies : child[i] = 0 /\ worker[i] # "running"
    BY DEF IInv, TypeOK, TypeBudget, Draining
  <2>2. SumFunctionOnSet(child, Strategies) = 0
    BY <2>1, ChildSums
  <2> QED
    BY <2>1, <2>2 DEF IInv, TypeOK, TypeBudget, Balanced
<1> QED
  BY <1>1, Inductive, PTL

\* A published result reports all steps its generators were charged, those
\* before a continuation was taken over by a fresh region included.
THEOREM StepsReportedHolds == Spec => []StepsReported
<1>1. IInv => StepsReported
  BY DEF IInv, Balanced
<1> QED
  BY <1>1, Inductive, PTL

\* The winner is the first registered candidate that verifies, for every
\* interleaving of the generators, and no cancelled race publishes.
THEOREM FirstVerifiedWinsHolds == Spec => []FirstVerifiedWins
<1>1. IInv => FirstVerifiedWins
  BY DEF IInv
<1> QED
  BY <1>1, Inductive, PTL

=============================================================================
