----------------------------- MODULE StoreProofs -----------------------------
(***************************************************************************)
(* Proofs about the durable store: the file lane, both lanes as            *)
(* implementations of the trait's contract, and the frontier workers that  *)
(* drive the file lane; for every number of processes, records, namespaces *)
(* and chunks and every limit.                                             *)
(***************************************************************************)
EXTENDS StoreLanes, FrontierWorker, TLAPS, FiniteSetTheorems

(* Part 1.  The file lane.                                                 *)

\* An operation under way is an operation on some record.
OperationOnRecord == \A p \in Procs : pc[p] # "idle" => rec[p] \in Records

TypeInv == TypeOK /\ OperationOnRecord

\* The disk and process variables keep their types at every step of
\* prepare, commit and release, and over process death.
LEMMA TypeStep == TypeInv /\ [Next]_vars => TypeInv'
<1> SUFFICES ASSUME TypeInv, [Next]_vars PROVE TypeInv'
  OBVIOUS
<1> USE FileStoreAssumption DEF TypeInv, TypeOK, OperationOnRecord, Areas, Steps, Chunks
<1>1. CASE UNCHANGED vars
  BY <1>1 DEF vars
<1>2. ASSUME NEW p \in Procs, NEW r \in Records, PrepareRefuse(p, r) PROVE TypeInv'
  BY <1>2 DEF PrepareRefuse, vars
<1>3. ASSUME NEW p \in Procs, NEW r \in Records, PrepareAdmit(p, r) PROVE TypeInv'
  BY <1>3 DEF PrepareAdmit, Enter
<1>4. ASSUME NEW p \in Procs, NEW r \in Records, CommitRefuse(p, r) PROVE TypeInv'
  BY <1>4 DEF CommitRefuse, vars
<1>5. ASSUME NEW p \in Procs, NEW r \in Records, CommitVerify(p, r) PROVE TypeInv'
  BY <1>5 DEF CommitVerify, Enter
<1>6. ASSUME NEW p \in Procs, NEW r \in Records, ReleaseAbsent(p, r) PROVE TypeInv'
  BY <1>6 DEF ReleaseAbsent, vars
<1>7. ASSUME NEW p \in Procs, NEW r \in Records, ReleaseFind(p, r) PROVE TypeInv'
  BY <1>7 DEF ReleaseFind, Enter
<1>8. ASSUME NEW p \in Procs, PrepareCreate(p) PROVE TypeInv'
  BY <1>8 DEF PrepareCreate, Enter
<1>9. ASSUME NEW p \in Procs, PrepareWrite(p) PROVE TypeInv'
  BY <1>9 DEF PrepareWrite
<1>10. ASSUME NEW p \in Procs, PrepareRename(p) PROVE TypeInv'
  BY <1>10 DEF PrepareRename, Rename, Followed, Finish, Enter
<1>11. ASSUME NEW p \in Procs, PrepareRenameLost(p) PROVE TypeInv'
  BY <1>11 DEF PrepareRenameLost, Finish, Enter
<1>12. ASSUME NEW p \in Procs, CommitAlready(p) PROVE TypeInv'
  BY <1>12 DEF CommitAlready, Finish, Enter
<1>13. ASSUME NEW p \in Procs, CommitAbsent(p) PROVE TypeInv'
  BY <1>13 DEF CommitAbsent, Enter
<1>14. ASSUME NEW p \in Procs, CommitRename(p) PROVE TypeInv'
  BY <1>14 DEF CommitRename, Rename, Followed, Finish, Enter
<1>15. ASSUME NEW p \in Procs, CommitRenameLost(p) PROVE TypeInv'
  BY <1>15 DEF CommitRenameLost, Finish, Enter
<1>16. ASSUME NEW p \in Procs, ReleaseRemove(p) PROVE TypeInv'
  BY <1>16 DEF ReleaseRemove, Finish, Enter
<1>17. ASSUME NEW p \in Procs, Interrupt(p) PROVE TypeInv'
  BY <1>17 DEF Interrupt, Finish, Enter
<1> QED
  BY <1>1, <1>2, <1>3, <1>4, <1>5, <1>6, <1>7, <1>8, <1>9, <1>10, <1>11,
     <1>12, <1>13, <1>14, <1>15, <1>16, <1>17 DEF Next

\* The type invariant of the file lane.
THEOREM TypeCorrect == Spec => []TypeOK
<1>1. Init => TypeInv
  BY FileStoreAssumption DEF Init, TypeInv, TypeOK, OperationOnRecord, Areas, Steps, Chunks
<1>2. TypeInv => TypeOK
  BY DEF TypeInv
<1> QED
  BY <1>1, <1>2, TypeStep, PTL DEF Spec

-----------------------------------------------------------------------------
(***************************************************************************)
(* Completeness.  While no two processes prepare one record at a time      *)
(* nobody truncates a temporary file under its writer, so the writer       *)
(* always knows what is in it, and only whole files are renamed into       *)
(* staging and from there into committed.                                  *)
(***************************************************************************)

\* No two processes are ever asked to prepare the same record.
SingleWriter == \A r \in Records : \A p, q \in Writers[r] : p = q

\* A preparing process is a writer of its record.
PreparerIsWriter ==
  \A p \in Procs : pc[p] \in {"admitted", "writing"} => p \in Writers[rec[p]]

\* The temporary file of a writing process holds exactly what it has written.
TempTracksWriter ==
  \A p \in Procs :
    /\ fd[p] \in {"none", "tmp"}
    /\ fd[p] = "tmp" <=> pc[p] = "writing"
    /\ pc[p] # "writing" => off[p] = 0
    /\ pc[p] = "writing" => /\ rec[p] \in dir["tmp"]
                            /\ bytes["tmp"][rec[p]] = 1..off[p]

CommittedWhole == \A r \in dir["committed"] : bytes["committed"][r] = Chunks

CompleteInv == PreparerIsWriter /\ TempTracksWriter /\ StagedComplete /\ CommittedWhole

\* No two processes are preparing the same record now.
SolePreparer ==
  \A p, q \in Procs :
    /\ pc[p] \in {"admitted", "writing"} /\ pc[q] \in {"admitted", "writing"}
    /\ rec[p] = rec[q]
    => p = q

\* One step of any operation keeps the temporary files with their writers and
\* the staged and committed files whole.
LEMMA CompleteStep ==
  ASSUME TypeInv, CompleteInv, SolePreparer, [Next]_vars
  PROVE  CompleteInv'
<1> USE FileStoreAssumption DEF TypeInv, TypeOK, OperationOnRecord, Areas, Steps, Chunks,
        CompleteInv, PreparerIsWriter, TempTracksWriter, StagedComplete, CommittedWhole
<1>1. CASE UNCHANGED vars
  BY <1>1 DEF vars
<1>2. ASSUME NEW p \in Procs, NEW r \in Records, PrepareRefuse(p, r) PROVE CompleteInv'
  BY <1>2 DEF PrepareRefuse, vars
<1>3. ASSUME NEW p \in Procs, NEW r \in Records, PrepareAdmit(p, r) PROVE CompleteInv'
  BY <1>3 DEF PrepareAdmit, Enter
<1>4. ASSUME NEW p \in Procs, NEW r \in Records, CommitRefuse(p, r) PROVE CompleteInv'
  BY <1>4 DEF CommitRefuse, vars
<1>5. ASSUME NEW p \in Procs, NEW r \in Records, CommitVerify(p, r) PROVE CompleteInv'
  BY <1>5 DEF CommitVerify, Enter
<1>6. ASSUME NEW p \in Procs, NEW r \in Records, ReleaseAbsent(p, r) PROVE CompleteInv'
  BY <1>6 DEF ReleaseAbsent, vars
<1>7. ASSUME NEW p \in Procs, NEW r \in Records, ReleaseFind(p, r) PROVE CompleteInv'
  BY <1>7 DEF ReleaseFind, Enter
<1>0. ASSUME NEW p \in Procs, pc[p] \in {"admitted", "writing"},
             NEW q \in Procs \ {p}, pc[q] = "writing"
      PROVE  rec[q] # rec[p]
  BY <1>0 DEF SolePreparer
<1>8. ASSUME NEW p \in Procs, PrepareCreate(p) PROVE CompleteInv'
  <2>1. PreparerIsWriter'
    BY <1>8 DEF PrepareCreate, Enter
  <2>2. ASSUME NEW q \in Procs, q # p, pc[q] = "writing"
        PROVE  rec'[q] \in dir'["tmp"] /\ bytes'["tmp"][rec'[q]] = 1..off'[q]
    BY <1>8, <1>0, <2>2 DEF PrepareCreate, Enter
  <2>3. rec'[p] \in dir'["tmp"] /\ bytes'["tmp"][rec'[p]] = 1..off'[p]
    BY <1>8 DEF PrepareCreate, Enter
  <2>4. TempTracksWriter'
    BY <1>8, <2>2, <2>3 DEF PrepareCreate, Enter
  <2>5. StagedComplete' /\ CommittedWhole'
    BY <1>8 DEF PrepareCreate, Enter
  <2> QED
    BY <2>1, <2>4, <2>5
<1>9. ASSUME NEW p \in Procs, PrepareWrite(p) PROVE CompleteInv'
  <2>1. /\ bytes' = [bytes EXCEPT !["tmp"][rec[p]] = @ \cup {off[p] + 1}]
        /\ rec[p] \in Records
    BY <1>9 DEF PrepareWrite
  <2>2. ASSUME NEW q \in Procs, q # p, pc[q] = "writing"
        PROVE  bytes'["tmp"][rec[q]] = 1..off'[q]
    BY <1>9, <1>0, <2>1, <2>2 DEF PrepareWrite
  <2>3. bytes'["tmp"][rec[p]] = 1..off'[p]
    <3>1. bytes["tmp"][rec[p]] = 1..off[p] /\ off[p] \in Nat /\ off'[p] = off[p] + 1
      BY <1>9 DEF PrepareWrite
    <3>2. bytes'["tmp"][rec[p]] = (1..off[p]) \cup {off[p] + 1}
      BY <2>1, <3>1
    <3> QED
      BY <3>1, <3>2
  <2>4. PreparerIsWriter' /\ TempTracksWriter'
    <3>1. /\ pc[p] = "writing" /\ UNCHANGED <<dir, pc, rec, fd>>
          /\ off' = [off EXCEPT ![p] = @ + 1]
      BY <1>9 DEF PrepareWrite
    <3>2. ASSUME NEW q \in Procs, pc[q] = "writing"
          PROVE  bytes'["tmp"][rec[q]] = 1..off'[q]
      BY <2>2, <2>3, <3>2
    <3> QED
      BY <3>1, <3>2
  <2>5. StagedComplete' /\ CommittedWhole'
    BY <1>9, <2>1 DEF PrepareWrite
  <2> QED
    BY <2>4, <2>5
<1>10. ASSUME NEW p \in Procs, PrepareRename(p) PROVE CompleteInv'
  <2> USE <1>10 DEF PrepareRename, Rename, Finish, Enter
  <2>1. rec[p] \in Records /\ bytes["tmp"][rec[p]] = Chunks
    OBVIOUS
  <2>2. ASSUME NEW q \in Procs, q # p
        PROVE  /\ fd'[q] = fd[q]
               /\ pc[q] = "writing" => rec[q] # rec[p]
    <3>1. pc[q] = "writing" => rec[q] # rec[p]
      BY <1>0, <2>2
    <3>2. fd[q] = "tmp" => rec[q] # rec[p]
      BY <3>1
    <3>3. fd'[q] = Followed(q, rec[p], "tmp", "staging")
      BY <2>2
    <3> QED
      BY <3>1, <3>2, <3>3 DEF Followed
  <2>3. PreparerIsWriter' /\ TempTracksWriter'
    BY <2>2
  <2>4. StagedComplete'
    BY <2>1
  <2>5. CommittedWhole'
    OBVIOUS
  <2> QED
    BY <2>3, <2>4, <2>5
<1>11. ASSUME NEW p \in Procs, PrepareRenameLost(p) PROVE CompleteInv'
  BY <1>11 DEF PrepareRenameLost, Finish, Enter
<1>12. ASSUME NEW p \in Procs, CommitAlready(p) PROVE CompleteInv'
  BY <1>12 DEF CommitAlready, Finish, Enter
<1>13. ASSUME NEW p \in Procs, CommitAbsent(p) PROVE CompleteInv'
  BY <1>13 DEF CommitAbsent, Enter
<1>14. ASSUME NEW p \in Procs, CommitRename(p) PROVE CompleteInv'
  BY <1>14 DEF CommitRename, Rename, Followed, Finish, Enter
<1>15. ASSUME NEW p \in Procs, CommitRenameLost(p) PROVE CompleteInv'
  BY <1>15 DEF CommitRenameLost, Finish, Enter
<1>16. ASSUME NEW p \in Procs, ReleaseRemove(p) PROVE CompleteInv'
  BY <1>16 DEF ReleaseRemove, Finish, Enter
<1>17. ASSUME NEW p \in Procs, Interrupt(p) PROVE CompleteInv'
  BY <1>17 DEF Interrupt, Finish, Enter
<1> QED
  BY <1>1, <1>2, <1>3, <1>4, <1>5, <1>6, <1>7, <1>8, <1>9, <1>10, <1>11,
     <1>12, <1>13, <1>14, <1>15, <1>16, <1>17 DEF Next

\* Where every record has one preparing process, nobody else prepares it.
LEMMA SingleWriterAlone ==
  ASSUME SingleWriter, TypeInv, CompleteInv
  PROVE  SolePreparer
BY DEF SingleWriter, SolePreparer, TypeInv, TypeOK, OperationOnRecord, CompleteInv, PreparerIsWriter

\* With one preparing process per record, whatever is interrupted, committed
\* or released, every committed file load_committed may read is whole.
THEOREM CommittedCompleteHolds ==
  ASSUME SingleWriter
  PROVE  Spec => []CommittedComplete
<1>1. Init => TypeInv /\ CompleteInv
  BY FileStoreAssumption DEF Init, TypeInv, TypeOK, OperationOnRecord, Areas, Steps, Chunks,
     CompleteInv, PreparerIsWriter, TempTracksWriter, StagedComplete, CommittedWhole
<1>2. TypeInv /\ CompleteInv /\ [Next]_vars => (TypeInv /\ CompleteInv)'
  BY SingleWriter, SingleWriterAlone, TypeStep, CompleteStep
<1>3. CompleteInv => CommittedComplete
  BY DEF CompleteInv, CommittedWhole, CommittedComplete, LoadCandidates, InNamespace, Whole
<1> QED
  BY <1>1, <1>2, <1>3, PTL DEF Spec

\* Under the same assumption the staged names hold fully written bytes.
THEOREM StagedCompleteHolds ==
  ASSUME SingleWriter
  PROVE  Spec => []StagedComplete
<1>1. Init => TypeInv /\ CompleteInv
  BY FileStoreAssumption DEF Init, TypeInv, TypeOK, OperationOnRecord, Areas, Steps, Chunks,
     CompleteInv, PreparerIsWriter, TempTracksWriter, StagedComplete, CommittedWhole
<1>2. TypeInv /\ CompleteInv /\ [Next]_vars => (TypeInv /\ CompleteInv)'
  BY SingleWriter, SingleWriterAlone, TypeStep, CompleteStep
<1>3. CompleteInv => StagedComplete
  BY DEF CompleteInv
<1> QED
  BY <1>1, <1>2, <1>3, PTL DEF Spec

-----------------------------------------------------------------------------
(***************************************************************************)
(* The reserve.  A process that passed the count and has not yet created   *)
(* its file is owed a name: names held plus names owed never exceed the    *)
(* limit by more than the number of other processes.                       *)
(***************************************************************************)

\* The processes admitted to namespace ns that have not created their file.
Admitted(ns) == {p \in Procs : pc[p] = "admitted" /\ NsOf[rec[p]] = ns}

ReserveInv ==
  \A ns \in Namespaces :
    Held(ns) + Cardinality(Admitted(ns)) <= Limit + Cardinality(Procs) - 1

\* Adding, removing and dropping elements of a finite set.
LEMMA CardinalityFacts ==
  ASSUME NEW S, IsFiniteSet(S)
  PROVE  /\ Cardinality(S) \in Nat
         /\ \A x : Cardinality(S \cup {x}) <= Cardinality(S) + 1
         /\ \A x \in S : Cardinality(S \ {x}) = Cardinality(S) - 1
         /\ \A T \in SUBSET S : IsFiniteSet(T) /\ Cardinality(T) <= Cardinality(S)
<1>1. Cardinality(S) \in Nat
  BY FS_CardinalityType
<1>2. ASSUME NEW x PROVE Cardinality(S \cup {x}) <= Cardinality(S) + 1
  <2>1. Cardinality(S \cup {x}) \in {Cardinality(S), Cardinality(S) + 1}
    BY FS_AddElement
  <2> QED
    BY <1>1, <2>1
<1>3. ASSUME NEW x \in S PROVE Cardinality(S \ {x}) = Cardinality(S) - 1
  BY <1>3, FS_RemoveElement
<1>4. ASSUME NEW T \in SUBSET S PROVE IsFiniteSet(T) /\ Cardinality(T) <= Cardinality(S)
  BY <1>4, FS_Subset
<1> QED
  BY <1>1, <1>2, <1>3, <1>4

\* The names of one namespace, and the processes admitted to it, are finite sets.
LEMMA ReserveFinite ==
  ASSUME TypeInv, NEW ns
  PROVE  /\ IsFiniteSet(InNamespace("tmp", ns))
         /\ IsFiniteSet(InNamespace("staging", ns))
         /\ IsFiniteSet(Admitted(ns))
         /\ Cardinality(InNamespace("tmp", ns)) \in Nat
         /\ Cardinality(InNamespace("staging", ns)) \in Nat
         /\ Cardinality(Admitted(ns)) \in Nat
         /\ Cardinality(Procs) \in Nat
         /\ Cardinality(Admitted(ns)) <= Cardinality(Procs)
<1>1. /\ InNamespace("tmp", ns) \in SUBSET Records
      /\ InNamespace("staging", ns) \in SUBSET Records
      /\ Admitted(ns) \in SUBSET Procs
  BY DEF TypeInv, TypeOK, Areas, InNamespace, Admitted
<1> QED
  BY <1>1, FileStoreAssumption, CardinalityFacts

\* What every step does to the names held and the names owed.
LEMMA ReserveStep == TypeInv /\ ReserveInv /\ [Next]_vars => ReserveInv'
<1> SUFFICES ASSUME TypeInv, ReserveInv, [Next]_vars, NEW ns \in Namespaces
             PROVE  (Held(ns) + Cardinality(Admitted(ns)) <= Limit + Cardinality(Procs) - 1)'
  BY DEF ReserveInv
<1> DEFINE T == InNamespace("tmp", ns)
           G == InNamespace("staging", ns)
           A == Admitted(ns)
<1>a. TypeInv'
  BY TypeStep
<1>b. /\ IsFiniteSet(T) /\ IsFiniteSet(G) /\ IsFiniteSet(A)
      /\ Cardinality(T) \in Nat /\ Cardinality(G) \in Nat /\ Cardinality(A) \in Nat
      /\ Cardinality(Procs) \in Nat
  BY ReserveFinite
<1>c. /\ Cardinality(T') \in Nat /\ Cardinality(G') \in Nat /\ Cardinality(A') \in Nat
      /\ Cardinality(A') <= Cardinality(Procs)
  <2>1. /\ T' \in SUBSET Records /\ G' \in SUBSET Records /\ A' \in SUBSET Procs
    BY <1>a DEF TypeInv, TypeOK, Areas, InNamespace, Admitted
  <2> QED
    BY <2>1, FileStoreAssumption, CardinalityFacts
<1>d. /\ Held(ns) = Cardinality(T) + Cardinality(G)
      /\ Held(ns)' = Cardinality(T') + Cardinality(G')
      /\ Held(ns) + Cardinality(A) <= Limit + Cardinality(Procs) - 1
      /\ Limit \in Nat
  BY FileStoreAssumption DEF Held, ReserveInv
<1> HIDE DEF T, G, A
\* Steps that add no name and admit nobody.
<1>e. ASSUME T' = T, G' \in SUBSET G, A' \in SUBSET A
      PROVE  Held(ns)' + Cardinality(A') <= Limit + Cardinality(Procs) - 1
  <2>1. Cardinality(G') <= Cardinality(G) /\ Cardinality(A') <= Cardinality(A)
    BY <1>b, <1>e, CardinalityFacts
  <2> QED
    BY <1>b, <1>c, <1>d, <1>e, <2>1
<1> USE DEF TypeInv, TypeOK, OperationOnRecord, Areas, Steps
<1>1. CASE UNCHANGED vars
  BY <1>1, <1>e DEF vars, T, G, A, InNamespace, Admitted
<1>2. ASSUME NEW p \in Procs, NEW r \in Records,
             PrepareRefuse(p, r) \/ CommitRefuse(p, r) \/ ReleaseAbsent(p, r)
      PROVE  UNCHANGED vars
  BY <1>2 DEF PrepareRefuse, CommitRefuse, ReleaseAbsent
<1>3. ASSUME NEW p \in Procs, NEW r \in Records, PrepareAdmit(p, r)
      PROVE  Held(ns)' + Cardinality(A') <= Limit + Cardinality(Procs) - 1
  <2>1. T' = T /\ G' = G
    BY <1>3 DEF PrepareAdmit, T, G, InNamespace
  <2>2. CASE NsOf[r] = ns
    <3>1. Held(ns) < Limit
      BY <1>3, <2>2 DEF PrepareAdmit
    <3> QED
      BY <1>b, <1>c, <1>d, <2>1, <3>1
  <2>3. CASE NsOf[r] # ns
    <3>1. A' \in SUBSET A
      BY <1>3, <2>3 DEF PrepareAdmit, Enter, A, Admitted
    <3> QED
      BY <1>e, <2>1, <3>1
  <2> QED
    BY <2>2, <2>3
<1>4. ASSUME NEW p \in Procs, NEW r \in Records, CommitVerify(p, r) \/ ReleaseFind(p, r)
      PROVE  Held(ns)' + Cardinality(A') <= Limit + Cardinality(Procs) - 1
  <2>1. T' = T /\ G' = G /\ A' \in SUBSET A
    BY <1>4 DEF CommitVerify, ReleaseFind, Enter, T, G, A, InNamespace, Admitted
  <2> QED
    BY <1>e, <2>1
<1>5. ASSUME NEW p \in Procs, PrepareCreate(p)
      PROVE  Held(ns)' + Cardinality(A') <= Limit + Cardinality(Procs) - 1
  <2>1. G' = G
    BY <1>5 DEF PrepareCreate, G, InNamespace
  <2>2. CASE NsOf[rec[p]] = ns
    <3>1. T' = T \cup {rec[p]}
      BY <1>5, <2>2 DEF PrepareCreate, T, InNamespace
    <3>2. p \in A /\ A' = A \ {p}
      BY <1>5, <2>2 DEF PrepareCreate, Enter, A, Admitted
    <3>3. Cardinality(T') <= Cardinality(T) + 1 /\ Cardinality(A') = Cardinality(A) - 1
      BY <1>b, <3>1, <3>2, CardinalityFacts
    <3> QED
      BY <1>b, <1>c, <1>d, <2>1, <3>3
  <2>3. CASE NsOf[rec[p]] # ns
    <3>1. T' = T
      BY <1>5, <2>3 DEF PrepareCreate, T, InNamespace
    <3>2. A' \in SUBSET A
      BY <1>5, <2>3 DEF PrepareCreate, Enter, A, Admitted
    <3> QED
      BY <1>e, <2>1, <3>1, <3>2
  <2> QED
    BY <2>2, <2>3
<1>6. ASSUME NEW p \in Procs, PrepareRename(p)
      PROVE  Held(ns)' + Cardinality(A') <= Limit + Cardinality(Procs) - 1
  <2>1. A' \in SUBSET A
    BY <1>6 DEF PrepareRename, Rename, Finish, Enter, A, Admitted
  <2>2. CASE NsOf[rec[p]] = ns
    <3>1. rec[p] \in T /\ T' = T \ {rec[p]}
      BY <1>6, <2>2 DEF PrepareRename, Rename, T, InNamespace
    <3>2. G' = G \cup {rec[p]}
      BY <1>6, <2>2 DEF PrepareRename, Rename, G, InNamespace
    <3>3. /\ Cardinality(T') = Cardinality(T) - 1
          /\ Cardinality(G') <= Cardinality(G) + 1
          /\ Cardinality(A') <= Cardinality(A)
      BY <1>b, <2>1, <3>1, <3>2, CardinalityFacts
    <3> QED
      BY <1>b, <1>c, <1>d, <3>3
  <2>3. CASE NsOf[rec[p]] # ns
    <3>1. T' = T /\ G' = G
      BY <1>6, <2>3 DEF PrepareRename, Rename, T, G, InNamespace
    <3> QED
      BY <1>e, <2>1, <3>1
  <2> QED
    BY <2>2, <2>3
<1>7. ASSUME NEW p \in Procs, CommitRename(p)
      PROVE  Held(ns)' + Cardinality(A') <= Limit + Cardinality(Procs) - 1
  <2>1. T' = T /\ G' \in SUBSET G /\ A' \in SUBSET A
    BY <1>7 DEF CommitRename, Rename, Finish, Enter, T, G, A, InNamespace, Admitted
  <2> QED
    BY <1>e, <2>1
<1>8. ASSUME NEW p \in Procs, ReleaseRemove(p)
      PROVE  Held(ns)' + Cardinality(A') <= Limit + Cardinality(Procs) - 1
  <2>1. T' = T /\ G' \in SUBSET G /\ A' \in SUBSET A
    BY <1>8 DEF ReleaseRemove, Finish, Enter, T, G, A, InNamespace, Admitted
  <2> QED
    BY <1>e, <2>1
<1>9. ASSUME NEW p \in Procs,
             \/ PrepareWrite(p) \/ PrepareRenameLost(p) \/ CommitAlready(p)
             \/ CommitAbsent(p) \/ CommitRenameLost(p) \/ Interrupt(p)
      PROVE  Held(ns)' + Cardinality(A') <= Limit + Cardinality(Procs) - 1
  <2>1. T' = T /\ G' = G /\ A' \in SUBSET A
    BY <1>9 DEF PrepareWrite, PrepareRenameLost, CommitAlready, CommitAbsent, CommitRenameLost,
       Interrupt, Finish, Enter, T, G, A, InNamespace, Admitted
  <2> QED
    BY <1>e, <2>1
<1> QED
  BY <1>1, <1>2, <1>3, <1>4, <1>5, <1>6, <1>7, <1>8, <1>9 DEF Next, A

\* However many processes prepare at once, and wherever they die, a staging
\* directory exceeds CLEANUP_RESERVE_LIMIT by less than the number of processes.
THEOREM ReserveBoundHolds == Spec => []ReserveBound
<1>1. Init => TypeInv
  BY FileStoreAssumption DEF Init, TypeInv, TypeOK, OperationOnRecord, Areas, Steps, Chunks
<1>2. Init => ReserveInv
  <2> SUFFICES ASSUME Init, NEW ns \in Namespaces
               PROVE  Held(ns) + Cardinality(Admitted(ns)) <= Limit + Cardinality(Procs) - 1
    BY DEF ReserveInv
  <2>1. InNamespace("tmp", ns) = {} /\ InNamespace("staging", ns) = {} /\ Admitted(ns) = {}
    BY DEF Init, InNamespace, Admitted, Areas
  <2>2. Cardinality({}) = 0 /\ Cardinality(Procs) \in Nat
    BY FileStoreAssumption, FS_EmptySet, FS_CardinalityType
  <2>3. Held(ns) = 0 /\ Cardinality(Admitted(ns)) = 0
    BY <2>1, <2>2 DEF Held
  <2> QED
    BY <2>2, <2>3, FileStoreAssumption
<1>3. TypeInv /\ ReserveInv => ReserveBound
  <2> SUFFICES ASSUME TypeInv, ReserveInv, NEW ns \in Namespaces
               PROVE  Held(ns) <= Limit + Cardinality(Procs) - 1
    BY DEF ReserveBound
  <2> QED
    BY ReserveFinite, FileStoreAssumption DEF ReserveInv, Held
<1> QED
  BY <1>1, <1>2, <1>3, TypeStep, ReserveStep, PTL DEF Spec

-----------------------------------------------------------------------------
(***************************************************************************)
(* Durability of an acknowledgement, with no assumption on who prepares    *)
(* what: no call of the lane takes a name out of the committed directory.  *)
(***************************************************************************)

\* A step of any operation keeps every committed name, and commit answers Ok
\* only about a name that is committed once it has answered.
LEMMA CommittedStays ==
  ASSUME TypeInv, [Next]_vars, AckedPublished
  PROVE  dir["committed"] \subseteq dir'["committed"] /\ AckedPublished'
<1> USE DEF TypeInv, TypeOK, AckedPublished, Areas
<1>1. CASE UNCHANGED vars
  BY <1>1 DEF vars
<1>2. ASSUME NEW p \in Procs, NEW r \in Records,
             \/ PrepareRefuse(p, r) \/ PrepareAdmit(p, r) \/ CommitRefuse(p, r)
             \/ CommitVerify(p, r) \/ ReleaseAbsent(p, r) \/ ReleaseFind(p, r)
      PROVE  UNCHANGED <<dir, acked>>
  BY <1>2 DEF PrepareRefuse, PrepareAdmit, CommitRefuse, CommitVerify, ReleaseAbsent,
              ReleaseFind, vars
<1>3. ASSUME NEW p \in Procs,
             \/ PrepareWrite(p) \/ PrepareRenameLost(p) \/ CommitAbsent(p)
             \/ CommitRenameLost(p) \/ Interrupt(p)
      PROVE  UNCHANGED <<dir, acked>>
  BY <1>3 DEF PrepareWrite, PrepareRenameLost, CommitAbsent, CommitRenameLost, Interrupt
<1>4. ASSUME NEW p \in Procs, PrepareCreate(p) \/ PrepareRename(p) \/ ReleaseRemove(p)
      PROVE  dir'["committed"] = dir["committed"] /\ acked' = acked
  BY <1>4 DEF PrepareCreate, PrepareRename, ReleaseRemove, Rename
<1>5. ASSUME NEW p \in Procs, CommitAlready(p)
      PROVE  dir' = dir /\ acked' = acked \cup {rec[p]} /\ rec[p] \in dir["committed"]
  BY <1>5 DEF CommitAlready
<1>6. ASSUME NEW p \in Procs, CommitRename(p)
      PROVE  /\ dir'["committed"] = dir["committed"] \cup {rec[p]}
             /\ acked' = acked \cup {rec[p]}
  BY <1>6 DEF CommitRename, Rename
<1> QED
  BY <1>1, <1>2, <1>3, <1>4, <1>5, <1>6 DEF Next

\* A commit that returned Ok stays published, whoever prepares the same record
\* again, releases it or dies half way through an operation on it.
THEOREM AckedPublishedHolds == Spec => []AckedPublished
<1>1. Init => TypeInv /\ AckedPublished
  BY FileStoreAssumption DEF Init, TypeInv, TypeOK, OperationOnRecord, Areas, Steps, Chunks,
                             AckedPublished
<1>2. TypeInv /\ AckedPublished /\ [Next]_vars => AckedPublished'
  BY CommittedStays
<1> QED
  BY <1>1, <1>2, TypeStep, PTL DEF Spec

-----------------------------------------------------------------------------
(***************************************************************************)
(* Part 2.  Each lane implements the contract of the DurableStore trait.   *)
(*                                                                         *)
(* The file lane needs one preparing process per record: then a name in    *)
(* staging or in committed means a whole record (CompleteInv), so the      *)
(* mapped sets are the directories.  In the CLI lane the record of a commit *)
(* under way is staged or committed unless a release has overtaken the     *)
(* commit (RowThere), so the empty transaction that answers Ok             *)
(* acknowledges a published record or is the one departure (LostAck).      *)
(***************************************************************************)

-----------------------------------------------------------------------------
(* The file lane.                                                          *)

\* While names stand for whole records, the refinement mapping is the two
\* directories.
LEMMA MappedDirectories ==
  ASSUME TypeInv, CompleteInv
  PROVE  /\ {r \in Records : Whole("staging", r)} = dir["staging"]
         /\ {r \in Records : Whole("committed", r)} = dir["committed"]
BY DEF TypeInv, TypeOK, Areas, CompleteInv, StagedComplete, CommittedWhole, Whole

\* Every system call of the file lane is a step of the contract or invisible.
LEMMA FileStepImplements ==
  ASSUME SingleWriter, TypeInv, CompleteInv, [Next]_vars
  PROVE  [Store!Next]_(Store!vars)
<1> DEFINE s == {r \in Records : Whole("staging", r)}
           c == {r \in Records : Whole("committed", r)}
<1>1. s = dir["staging"] /\ c = dir["committed"]
  BY MappedDirectories
<1>2. s' = dir'["staging"] /\ c' = dir'["committed"]
  <2>1. TypeInv' /\ CompleteInv'
    BY SingleWriterAlone, TypeStep, CompleteStep
  <2> QED
    BY <2>1 DEF TypeInv, TypeOK, Areas, CompleteInv, StagedComplete, CommittedWhole, Whole
<1> HIDE DEF s, c
<1>3. ASSUME dir'["staging"] = dir["staging"], dir'["committed"] = dir["committed"], acked' = acked
      PROVE  UNCHANGED <<s, c, acked>>
  BY <1>1, <1>2, <1>3
<1>4. ASSUME NEW r \in Records,
             \/ s' = s \cup {r} /\ UNCHANGED <<c, acked>>
             \/ s' = s \ {r} /\ UNCHANGED <<c, acked>>
             \/ r \in s /\ s' = s \ {r} /\ c' = c \cup {r} /\ acked' = acked \cup {r}
             \/ r \in c /\ acked' = acked \cup {r} /\ UNCHANGED <<s, c>>
      PROVE  Store!Next
  BY <1>4 DEF s, c, Store!Next, Store!Stage, Store!Discard, Store!Publish, Store!Acknowledge
<1> USE DEF TypeInv, TypeOK, OperationOnRecord, Areas
<1>5. ASSUME NEW p \in Procs, NEW r \in Records,
             \/ PrepareRefuse(p, r) \/ PrepareAdmit(p, r) \/ CommitRefuse(p, r)
             \/ CommitVerify(p, r) \/ ReleaseAbsent(p, r) \/ ReleaseFind(p, r)
      PROVE  UNCHANGED <<s, c, acked>>
  BY <1>3, <1>5 DEF PrepareRefuse, PrepareAdmit, CommitRefuse, CommitVerify, ReleaseAbsent,
                    ReleaseFind, vars
<1>6. ASSUME NEW p \in Procs,
             \/ PrepareCreate(p) \/ PrepareWrite(p) \/ PrepareRenameLost(p) \/ CommitAbsent(p)
             \/ CommitRenameLost(p) \/ Interrupt(p)
      PROVE  UNCHANGED <<s, c, acked>>
  BY <1>3, <1>6 DEF PrepareCreate, PrepareWrite, PrepareRenameLost, CommitAbsent,
                    CommitRenameLost, Interrupt
<1>7. ASSUME NEW p \in Procs, PrepareRename(p) PROVE Store!Next
  <2>1. rec[p] \in Records
    BY <1>7 DEF PrepareRename
  <2>2. /\ dir'["staging"] = dir["staging"] \cup {rec[p]}
        /\ dir'["committed"] = dir["committed"] /\ acked' = acked
    BY <1>7 DEF PrepareRename, Rename
  <2> QED
    BY <1>1, <1>2, <1>4, <2>1, <2>2
<1>8. ASSUME NEW p \in Procs, CommitAlready(p) PROVE Store!Next
  <2>1. rec[p] \in Records /\ rec[p] \in dir["committed"] /\ dir' = dir /\ acked' = acked \cup {rec[p]}
    BY <1>8 DEF CommitAlready
  <2> QED
    BY <1>1, <1>2, <1>4, <2>1
<1>9. ASSUME NEW p \in Procs, CommitRename(p) PROVE Store!Next
  <2>1. /\ rec[p] \in Records /\ rec[p] \in dir["staging"]
        /\ dir'["staging"] = dir["staging"] \ {rec[p]}
        /\ dir'["committed"] = dir["committed"] \cup {rec[p]}
        /\ acked' = acked \cup {rec[p]}
    BY <1>9 DEF CommitRename, Rename
  <2> QED
    BY <1>1, <1>2, <1>4, <2>1
<1>10. ASSUME NEW p \in Procs, ReleaseRemove(p) PROVE Store!Next
  <2>1. /\ rec[p] \in Records
        /\ dir'["staging"] = dir["staging"] \ {rec[p]}
        /\ dir'["committed"] = dir["committed"] /\ acked' = acked
    BY <1>10 DEF ReleaseRemove
  <2> QED
    BY <1>1, <1>2, <1>4, <2>1
<1>11. CASE UNCHANGED vars
  BY <1>3, <1>11 DEF vars, s, c, Store!vars
<1>12. CASE UNCHANGED <<s, c, acked>>
  BY <1>12 DEF s, c, Store!vars
<1> QED
  BY <1>5, <1>6, <1>7, <1>8, <1>9, <1>10, <1>11, <1>12 DEF Next

\* The file lane, with one preparing process per record, implements the trait's
\* contract: records are staged, published in one step, acknowledged once
\* published, and never unpublished, whatever dies between two system calls.
THEOREM FileLaneImplements ==
  ASSUME SingleWriter
  PROVE  LSpec => RefinesDurableStore
<1>1. LInit => Init /\ TypeInv /\ CompleteInv
  BY FileStoreAssumption DEF LInit, Init, TypeInv, TypeOK, OperationOnRecord, Areas, Steps,
     Chunks, CompleteInv, PreparerIsWriter, TempTracksWriter, StagedComplete, CommittedWhole
<1>2. [LNext]_<<lane, vars, cliVars>> => [Next]_vars
  BY DEF LNext, FileStep, CliStep
<1>3. TypeInv /\ CompleteInv /\ [Next]_vars => (TypeInv /\ CompleteInv)'
  BY SingleWriter, SingleWriterAlone, TypeStep, CompleteStep
<1>4. Init => Store!Init
  BY DEF Init, Store!Init, Whole, Areas
<1>5. TypeInv /\ CompleteInv /\ [Next]_vars => [Store!Next]_(Store!vars)
  BY SingleWriter, FileStepImplements
<1> QED
  BY <1>1, <1>2, <1>3, <1>4, <1>5, PTL DEF LSpec, RefinesDurableStore, Store!Spec

-----------------------------------------------------------------------------
(* The pinned-CLI lane.                                                    *)

\* A process inside an operation works on a record, and the record of a commit
\* that has verified its row has a row unless a release has overtaken the commit.
RowThere ==
  /\ cli_pc \in [Procs -> Cli!Steps]
  /\ DOMAIN cli_rec = Procs
  /\ \A p \in Procs :
       /\ cli_pc[p] # "idle" => cli_rec[p] \in CliRecords
       /\ cli_pc[p] \in {"verified", "promoting"} =>
            cli_rec[p] \in cli_staging \cup cli_committed \/ p \in cli_overtaken

\* Nothing but a release takes a row away, and a release marks the commits that
\* have verified it.
LEMMA RowThereStep ==
  ASSUME RowThere, [Cli!Next]_(Cli!vars)
  PROVE  RowThere'
<1> USE DEF RowThere, Cli!Steps
<1>1. ASSUME NEW p \in Procs, NEW r \in CliRecords,
             Cli!PrepareRefuse(p, r) \/ Cli!CommitRefuse(p, r)
      PROVE  RowThere'
  BY <1>1 DEF Cli!PrepareRefuse, Cli!CommitRefuse, Cli!vars
<1>2. ASSUME NEW p \in Procs, NEW r \in CliRecords,
             Cli!PrepareAdmit(p, r) \/ Cli!CommitVerify(p, r)
      PROVE  RowThere'
  BY <1>2 DEF Cli!PrepareAdmit, Cli!CommitVerify, Cli!Enter
<1>3. ASSUME NEW p \in Procs, NEW r \in CliRecords, Cli!Release(p, r) PROVE RowThere'
  BY <1>3 DEF Cli!Release, Cli!Committing
<1>4. ASSUME NEW p \in Procs,
             \/ Cli!PrepareInsert(p) \/ Cli!PrepareConflict(p) \/ Cli!CommitAlready(p)
             \/ Cli!CommitEmpty(p) \/ Cli!CommitConflict(p) \/ Cli!Interrupt(p)
      PROVE  RowThere'
  BY <1>4 DEF Cli!PrepareInsert, Cli!PrepareConflict, Cli!CommitAlready, Cli!CommitEmpty,
              Cli!CommitConflict, Cli!Interrupt, Cli!Finish, Cli!Enter
<1>5. ASSUME NEW p \in Procs, Cli!CommitAbsent(p) PROVE RowThere'
  BY <1>5 DEF Cli!CommitAbsent, Cli!Enter
<1>6. ASSUME NEW p \in Procs, Cli!CommitMove(p) PROVE RowThere'
  BY <1>6 DEF Cli!CommitMove, Cli!Finish, Cli!Enter
<1>7. CASE UNCHANGED Cli!vars
  BY <1>7 DEF Cli!vars
<1> QED
  BY <1>1, <1>2, <1>3, <1>4, <1>5, <1>6, <1>7 DEF Cli!Next

\* Every SQL text of the CLI lane is a step of the contract, invisible, or the
\* acknowledgement of an overtaken commit.
LEMMA CliStepImplements ==
  ASSUME RowThere, [Cli!Next]_(Cli!vars)
  PROVE  [Cli!Store!Next \/ \E p \in Procs : Cli!LostAck(p)]_(Cli!Store!vars)
<1> USE DEF RowThere
<1>1. ASSUME NEW p \in Procs, NEW r \in CliRecords,
             \/ Cli!PrepareRefuse(p, r) \/ Cli!CommitRefuse(p, r)
             \/ Cli!PrepareAdmit(p, r) \/ Cli!CommitVerify(p, r)
      PROVE  UNCHANGED Cli!Store!vars
  BY <1>1 DEF Cli!PrepareRefuse, Cli!CommitRefuse, Cli!PrepareAdmit, Cli!CommitVerify,
              Cli!vars, Cli!Store!vars
<1>2. ASSUME NEW p \in Procs,
             \/ Cli!PrepareConflict(p) \/ Cli!CommitAbsent(p) \/ Cli!CommitConflict(p)
             \/ Cli!Interrupt(p)
      PROVE  UNCHANGED Cli!Store!vars
  BY <1>2 DEF Cli!PrepareConflict, Cli!CommitAbsent, Cli!CommitConflict, Cli!Interrupt,
              Cli!Store!vars
<1>3. ASSUME NEW p \in Procs, NEW r \in CliRecords, Cli!Release(p, r) PROVE Cli!Store!Next
  BY <1>3 DEF Cli!Release, Cli!Store!Next, Cli!Store!Discard
<1>4. ASSUME NEW p \in Procs, Cli!PrepareInsert(p) PROVE Cli!Store!Next
  BY <1>4 DEF Cli!PrepareInsert, Cli!Store!Next, Cli!Store!Stage
<1>5. ASSUME NEW p \in Procs, Cli!CommitAlready(p) PROVE Cli!Store!Next
  BY <1>5 DEF Cli!CommitAlready, Cli!Store!Next, Cli!Store!Acknowledge
<1>8. ASSUME NEW p \in Procs, Cli!CommitEmpty(p) PROVE Cli!Store!Next \/ Cli!LostAck(p)
  <2>1. CASE cli_rec[p] \in cli_committed
    BY <1>8, <2>1 DEF Cli!CommitEmpty, Cli!Store!Next, Cli!Store!Acknowledge
  <2>2. CASE cli_rec[p] \notin cli_committed
    BY <1>8, <2>2 DEF Cli!CommitEmpty, Cli!LostAck
  <2> QED
    BY <2>1, <2>2
<1>6. ASSUME NEW p \in Procs, Cli!CommitMove(p) PROVE Cli!Store!Next
  BY <1>6 DEF Cli!CommitMove, Cli!Store!Next, Cli!Store!Publish
<1>7. CASE UNCHANGED Cli!vars
  BY <1>7 DEF Cli!vars, Cli!Store!vars
<1> QED
  BY <1>1, <1>2, <1>3, <1>4, <1>5, <1>6, <1>7, <1>8 DEF Cli!Next

\* Whoever releases what and when, and although every SQL text is a process of its
\* own, the CLI lane departs from the contract in one way: a commit whose row was
\* released after it was verified may be acknowledged with nothing published.
THEOREM CliLaneImplements == LSpec => CliRefinesDurableStore
<1>1. LInit => RowThere /\ Cli!Store!Init
  BY DEF LInit, Cli!Init, RowThere, Cli!Steps, Cli!Store!Init
<1>2. [LNext]_<<lane, vars, cliVars>> => [Cli!Next]_(Cli!vars)
  BY DEF LNext, FileStep, CliStep, cliVars, Cli!vars
<1>3. RowThere /\ [Cli!Next]_(Cli!vars) => RowThere'
  BY RowThereStep
<1>4. RowThere /\ [Cli!Next]_(Cli!vars)
        => [Cli!Store!Next \/ \E p \in Procs : Cli!LostAck(p)]_(Cli!Store!vars)
  BY CliStepImplements
<1> QED
  BY <1>1, <1>2, <1>3, <1>4, PTL
  DEF LSpec, CliRefinesDurableStore, Cli!RefinesDurableStore

-----------------------------------------------------------------------------
(* The reserve of the CLI lane, whoever releases what: as in the file lane, *)
(* the rows of a scope are counted together with the processes that were    *)
(* admitted and have not inserted yet.                                     *)

CliTypes ==
  /\ cli_pc \in [Procs -> Cli!Steps] /\ DOMAIN cli_rec = Procs
  /\ cli_staging \in SUBSET CliRecords
  /\ \A p \in Procs : cli_pc[p] # "idle" => cli_rec[p] \in CliRecords

CliRows(ns) == {r \in cli_staging : CliNsOf[r] = ns}
CliAdmitted(ns) == {p \in Procs : cli_pc[p] = "admitted" /\ CliNsOf[cli_rec[p]] = ns}

CliReserveInv ==
  \A ns \in Namespaces :
    Cardinality(CliRows(ns)) + Cardinality(CliAdmitted(ns)) <= CliLimit + Cardinality(Procs) - 1

\* The types are kept.
LEMMA CliTypesStep ==
  ASSUME CliTypes, [Cli!Next]_(Cli!vars)
  PROVE  CliTypes'
<1> USE DEF CliTypes, Cli!Steps
<1>1. ASSUME NEW p \in Procs, NEW r \in CliRecords,
             Cli!PrepareRefuse(p, r) \/ Cli!CommitRefuse(p, r)
      PROVE  CliTypes'
  BY <1>1 DEF Cli!PrepareRefuse, Cli!CommitRefuse, Cli!vars
<1>2. ASSUME NEW p \in Procs, NEW r \in CliRecords,
             Cli!PrepareAdmit(p, r) \/ Cli!CommitVerify(p, r)
      PROVE  CliTypes'
  BY <1>2 DEF Cli!PrepareAdmit, Cli!CommitVerify, Cli!Enter
<1>3. ASSUME NEW p \in Procs, NEW r \in CliRecords, Cli!Release(p, r) PROVE CliTypes'
  BY <1>3 DEF Cli!Release
<1>4. ASSUME NEW p \in Procs,
             \/ Cli!PrepareConflict(p) \/ Cli!CommitAlready(p)
             \/ Cli!CommitEmpty(p) \/ Cli!CommitConflict(p) \/ Cli!Interrupt(p)
      PROVE  CliTypes'
  BY <1>4 DEF Cli!PrepareConflict, Cli!CommitAlready, Cli!CommitEmpty,
              Cli!CommitConflict, Cli!Interrupt, Cli!Finish, Cli!Enter
<1>5. ASSUME NEW p \in Procs, Cli!CommitAbsent(p) PROVE CliTypes'
  BY <1>5 DEF Cli!CommitAbsent, Cli!Enter
<1>6. ASSUME NEW p \in Procs, Cli!CommitMove(p) PROVE CliTypes'
  BY <1>6 DEF Cli!CommitMove, Cli!Finish, Cli!Enter
<1>7. ASSUME NEW p \in Procs, Cli!PrepareInsert(p) PROVE CliTypes'
  BY <1>7 DEF Cli!PrepareInsert, Cli!Finish, Cli!Enter
<1>8. CASE UNCHANGED Cli!vars
  BY <1>8 DEF Cli!vars
<1> QED
  BY <1>1, <1>2, <1>3, <1>4, <1>5, <1>6, <1>7, <1>8 DEF Cli!Next

\* Rows and admitted processes are finite sets.
LEMMA CliFinite ==
  CliTypes => \A ns \in Namespaces :
                /\ IsFiniteSet(CliRows(ns)) /\ Cardinality(CliRows(ns)) \in Nat
                /\ IsFiniteSet(CliAdmitted(ns)) /\ Cardinality(CliAdmitted(ns)) \in Nat
                /\ Cardinality(CliAdmitted(ns)) <= Cardinality(Procs)
<1> SUFFICES ASSUME CliTypes, NEW ns \in Namespaces
             PROVE  /\ IsFiniteSet(CliRows(ns)) /\ Cardinality(CliRows(ns)) \in Nat
                    /\ IsFiniteSet(CliAdmitted(ns)) /\ Cardinality(CliAdmitted(ns)) \in Nat
                    /\ Cardinality(CliAdmitted(ns)) <= Cardinality(Procs)
  OBVIOUS
<1>1. CliRows(ns) \in SUBSET CliRecords /\ CliAdmitted(ns) \in SUBSET Procs
  BY DEF CliTypes, CliRows, CliAdmitted
<1> QED
  BY <1>1, CliAssumption, FileStoreAssumption, CardinalityFacts

\* SELECT COUNT(*) counts the rows of the scope.
LEMMA CliHeldRows == \A ns : Cli!Held(ns) = Cardinality(CliRows(ns))
<1> SUFFICES ASSUME NEW ns PROVE Cli!Held(ns) = Cardinality(CliRows(ns))
  OBVIOUS
<1>1. CliRows(ns) = {r \in cli_staging : CliNsOf[r] = ns}
  BY DEF CliRows
<1> QED
  BY <1>1, Zenon DEF Cli!Held, Cli!Cardinality, Cardinality

\* What every SQL text does to the rows held and the rows owed.
LEMMA CliReserveStep ==
  ASSUME CliTypes, CliReserveInv, [Cli!Next]_(Cli!vars)
  PROVE  CliReserveInv'
<1> SUFFICES ASSUME NEW ns \in Namespaces
             PROVE  (Cardinality(CliRows(ns)) + Cardinality(CliAdmitted(ns))
                       <= CliLimit + Cardinality(Procs) - 1)'
  BY DEF CliReserveInv
<1> DEFINE G == CliRows(ns)
           A == CliAdmitted(ns)
           Goal == Cardinality(G') + Cardinality(A') <= CliLimit + Cardinality(Procs) - 1
<1>a. CliTypes'
  BY CliTypesStep
<1>b. /\ IsFiniteSet(G) /\ Cardinality(G) \in Nat
      /\ IsFiniteSet(A) /\ Cardinality(A) \in Nat
      /\ Cardinality(Procs) \in Nat /\ CliLimit \in Nat
      /\ Cardinality(G) + Cardinality(A) <= CliLimit + Cardinality(Procs) - 1
  BY CliFinite, CliAssumption, FileStoreAssumption, FS_CardinalityType DEF CliReserveInv
<1>c. /\ Cardinality(G') \in Nat /\ Cardinality(A') \in Nat
      /\ Cardinality(A') <= Cardinality(Procs)
  <2>1. G' \in SUBSET CliRecords /\ A' \in SUBSET Procs
    BY <1>a DEF CliTypes, CliRows, CliAdmitted
  <2> QED
    BY <2>1, CliAssumption, FileStoreAssumption, CardinalityFacts
<1> HIDE DEF G, A
<1>d. ASSUME G' \in SUBSET G, A' \in SUBSET A PROVE Goal
  <2>1. Cardinality(G') <= Cardinality(G) /\ Cardinality(A') <= Cardinality(A)
    BY <1>b, <1>d, CardinalityFacts
  <2> QED
    BY <1>b, <1>c, <2>1
<1> HIDE DEF Goal
<1> USE DEF CliTypes, Cli!Steps
<1>1. ASSUME NEW p \in Procs, NEW r \in CliRecords, Cli!PrepareAdmit(p, r) PROVE Goal
  <2>1. G' = G
    BY <1>1 DEF Cli!PrepareAdmit, G, CliRows
  <2>2. CASE CliNsOf[r] = ns
    <3>1. Cli!Held(CliNsOf[r]) < CliLimit
      BY <1>1, Zenon DEF Cli!PrepareAdmit
    <3>2. Cardinality(G) < CliLimit
      BY <3>1, <2>2, CliHeldRows, Zenon DEF G
    <3> QED
      BY <1>b, <1>c, <2>1, <3>2 DEF Goal
  <2>3. CASE CliNsOf[r] # ns
    <3>1. A' \in SUBSET A
      BY <1>1, <2>3 DEF Cli!PrepareAdmit, Cli!Enter, A, CliAdmitted
    <3> QED
      BY <1>d, <2>1, <3>1
  <2> QED
    BY <2>2, <2>3
<1>2. ASSUME NEW p \in Procs, Cli!PrepareInsert(p) PROVE Goal
  <2>1. CASE CliNsOf[cli_rec[p]] = ns
    <3>1. G' = G \cup {cli_rec[p]}
      BY <1>2, <2>1 DEF Cli!PrepareInsert, G, CliRows
    <3>2. p \in A /\ A' = A \ {p}
      BY <1>2, <2>1 DEF Cli!PrepareInsert, Cli!Finish, Cli!Enter, A, CliAdmitted
    <3>3. Cardinality(G') <= Cardinality(G) + 1 /\ Cardinality(A') = Cardinality(A) - 1
      BY <1>b, <3>1, <3>2, CardinalityFacts
    <3> QED
      BY <1>b, <1>c, <3>3 DEF Goal
  <2>2. CASE CliNsOf[cli_rec[p]] # ns
    <3>1. G' = G
      BY <1>2, <2>2 DEF Cli!PrepareInsert, G, CliRows
    <3>2. A' \in SUBSET A
      BY <1>2, <2>2 DEF Cli!PrepareInsert, Cli!Finish, Cli!Enter, A, CliAdmitted
    <3> QED
      BY <1>d, <3>1, <3>2
  <2> QED
    BY <2>1, <2>2
<1>3. ASSUME NEW p \in Procs, NEW r \in CliRecords,
             \/ Cli!PrepareRefuse(p, r) \/ Cli!CommitRefuse(p, r)
             \/ Cli!CommitVerify(p, r) \/ Cli!Release(p, r)
      PROVE  Goal
  <2>1. G' \in SUBSET G
    BY <1>3 DEF Cli!PrepareRefuse, Cli!CommitRefuse, Cli!CommitVerify, Cli!Release, Cli!vars,
                G, CliRows
  <2>2. A' \in SUBSET A
    BY <1>3 DEF Cli!PrepareRefuse, Cli!CommitRefuse, Cli!CommitVerify, Cli!Release, Cli!vars,
                Cli!Enter, A, CliAdmitted
  <2> QED
    BY <1>d, <2>1, <2>2
<1>4. ASSUME NEW p \in Procs,
             \/ Cli!PrepareConflict(p) \/ Cli!CommitAlready(p) \/ Cli!CommitAbsent(p)
             \/ Cli!CommitMove(p) \/ Cli!CommitEmpty(p) \/ Cli!CommitConflict(p)
             \/ Cli!Interrupt(p)
      PROVE  Goal
  <2>1. G' \in SUBSET G
    BY <1>4 DEF Cli!PrepareConflict, Cli!CommitAlready, Cli!CommitAbsent, Cli!CommitMove,
                Cli!CommitEmpty, Cli!CommitConflict, Cli!Interrupt, G, CliRows
  <2>2. A' \in SUBSET A
    BY <1>4 DEF Cli!PrepareConflict, Cli!CommitAlready, Cli!CommitAbsent, Cli!CommitMove,
                Cli!CommitEmpty, Cli!CommitConflict, Cli!Interrupt, Cli!Finish, Cli!Enter,
                A, CliAdmitted
  <2> QED
    BY <1>d, <2>1, <2>2
<1>5. ASSUME UNCHANGED Cli!vars PROVE Goal
  <2>1. G' = G /\ A' = A
    BY <1>5 DEF Cli!vars, G, A, CliRows, CliAdmitted
  <2> QED
    BY <1>d, <2>1
<1>6. Goal
  BY <1>1, <1>2, <1>3, <1>4, <1>5 DEF Cli!Next
<1> QED
  BY <1>6 DEF Goal, G, A

\* Count and insert are separate subprocesses of the pinned CLI: a scope exceeds
\* CLEANUP_RESERVE_LIMIT by fewer rows than there are processes, whoever
\* releases, commits or dies in between.
THEOREM CliReserveBoundHolds == LSpec => []CliReserveBound
<1>1. LInit => CliTypes /\ CliReserveInv
  <2> SUFFICES ASSUME LInit PROVE CliTypes /\ CliReserveInv
    OBVIOUS
  <2>1. CliTypes
    BY DEF LInit, Cli!Init, CliTypes, Cli!Steps
  <2>2. ASSUME NEW ns \in Namespaces
        PROVE  Cardinality(CliRows(ns)) + Cardinality(CliAdmitted(ns))
                 <= CliLimit + Cardinality(Procs) - 1
    <3>1. CliRows(ns) = {} /\ CliAdmitted(ns) = {}
      BY DEF LInit, Cli!Init, CliRows, CliAdmitted
    <3>2. /\ Cardinality({}) = 0 /\ Cardinality(Procs) \in Nat
          /\ CliLimit \in Nat \ {0}
      BY CliAssumption, FileStoreAssumption, FS_EmptySet, FS_CardinalityType
    <3> QED
      BY <3>1, <3>2
  <2> QED
    BY <2>1, <2>2 DEF CliReserveInv
<1>2. [LNext]_<<lane, vars, cliVars>> => [Cli!Next]_(Cli!vars)
  BY DEF LNext, FileStep, CliStep, cliVars, Cli!vars
<1>3. CliTypes /\ CliReserveInv /\ [Cli!Next]_(Cli!vars) => (CliTypes /\ CliReserveInv)'
  BY CliTypesStep, CliReserveStep
<1>4. CliTypes /\ CliReserveInv => CliReserveBound
  <2> SUFFICES ASSUME CliTypes, CliReserveInv, NEW ns \in Namespaces
               PROVE  Cardinality(CliRows(ns)) <= CliLimit + Cardinality(Procs) - 1
    BY CliHeldRows DEF CliReserveBound, Cli!ReserveBound, Cli!Cardinality, Cardinality
  <2> QED
    BY CliFinite, CliAssumption, FileStoreAssumption, FS_CardinalityType DEF CliReserveInv
<1> QED
  BY <1>1, <1>2, <1>3, <1>4, PTL DEF LSpec

-----------------------------------------------------------------------------
(***************************************************************************)
(* Part 3.  The frontier workers.                                          *)
(*                                                                         *)
(* They drive the file lane (every step is a step of FileStore or leaves   *)
(* it alone), so its lemmas apply: one generate worker at a time means one *)
(* preparing process, hence whole files; and nothing a worker does takes   *)
(* the record out of staging except a commit, so what a marker has         *)
(* promised stays true.                                                    *)
(***************************************************************************)

\* The record can be promoted, or has been.
Present   == Rec \in dir["staging"] \cup dir["committed"]
Published == Rec \in dir["committed"]

WorkerTypes ==
  /\ stage    \in [Procs -> {"off"} \cup GenerateStages \cup ResumeStages]
  /\ marking  \in [Procs -> Boundaries \cup {"none"}]
  /\ boundary \in [Procs -> Boundaries \cup {"none"}]
  /\ marker   \in [Boundaries -> FileState]
  /\ report   \in FileState

\* The parent never has two generate workers at a time.
OneGenerator ==
  \A p, q \in Procs : stage[p] \in GenerateStages /\ stage[q] \in GenerateStages => p = q

\* A store call under way is the one the worker's stage makes, on its record.
Operations ==
  \A p \in Procs :
    pc[p] # "idle" =>
      /\ rec[p] = Rec /\ marking[p] = "none"
      /\ \/ stage[p] = "prepare" /\ pc[p] \in {"admitted", "writing"}
         \/ stage[p] \in {"commit", "promote-commit"} /\ pc[p] \in {"verified", "promoting"}

\* Nothing but the record is ever in the store.
OnlyRec == \A a \in Areas : dir[a] \subseteq {Rec}

\* What a worker's stage, and the marker it is writing, says about the store.
StagesTruthful ==
  \A p \in Procs :
    /\ stage[p] \in {"verify", "commit"} \/ marking[p] \in {"prepared", "verified"} => Present
    /\ \/ stage[p] \in {"sidecar", "sleep", "load", "accept", "report", "report-fill"}
       \/ marking[p] = "committed"
       => Published

FilesTruthful ==
  /\ marker["prepared"]  = "written" \/ marker["verified"] = "written" => Present
  /\ marker["committed"] = "written" => Published
  /\ report # "absent" => Published

WInv ==
  /\ TypeInv /\ CompleteInv /\ WorkerTypes /\ OneGenerator /\ Operations /\ OnlyRec
  /\ StagesTruthful /\ FilesTruthful

\* The store calls a worker makes; none of them is a release.
StoreCall(p) ==
  \/ PrepareRefuse(p, Rec) \/ PrepareAdmit(p, Rec) \/ PrepareCreate(p) \/ PrepareWrite(p)
  \/ PrepareRename(p) \/ PrepareRenameLost(p)
  \/ CommitRefuse(p, Rec) \/ CommitVerify(p, Rec) \/ CommitAlready(p) \/ CommitAbsent(p)
  \/ CommitRename(p) \/ CommitRenameLost(p)
  \/ Interrupt(p)

\* A worker's store call is a step of the file lane that leaves the other
\* workers' calls alone and keeps the record where it is or commits it.
LEMMA StoreCallEffect ==
  ASSUME TypeInv, OnlyRec, Operations, NEW p \in Procs, StoreCall(p)
  PROVE  /\ Next
         /\ OnlyRec' /\ (Present => Present') /\ (Published => Published')
         /\ \A q \in Procs : q # p => pc'[q] = pc[q] /\ rec'[q] = rec[q]
<1> USE FrontierAssumption
<1>1. Next
  BY DEF StoreCall, Next
<1>2. \A q \in Procs : q # p => pc'[q] = pc[q] /\ rec'[q] = rec[q]
  BY DEF TypeInv, TypeOK, StoreCall, PrepareRefuse, PrepareAdmit, PrepareCreate, PrepareWrite,
         PrepareRename, PrepareRenameLost, CommitRefuse, CommitVerify, CommitAlready,
         CommitAbsent, CommitRename, CommitRenameLost, Interrupt, Finish, Enter, vars
<1>3. ASSUME PrepareCreate(p) PROVE OnlyRec' /\ (Present => Present') /\ (Published => Published')
  BY <1>3 DEF PrepareCreate, Operations, OnlyRec, Present, Published, TypeInv, TypeOK, Areas
<1>4. ASSUME PrepareRename(p) PROVE OnlyRec' /\ (Present => Present') /\ (Published => Published')
  BY <1>4 DEF PrepareRename, Rename, Operations, OnlyRec, Present, Published, TypeInv, TypeOK, Areas
<1>5. ASSUME CommitRename(p) PROVE OnlyRec' /\ (Present => Present') /\ (Published => Published')
  BY <1>5 DEF CommitRename, Rename, Operations, OnlyRec, Present, Published, TypeInv, TypeOK, Areas
<1>6. ASSUME dir' = dir PROVE OnlyRec' /\ (Present => Present') /\ (Published => Published')
  BY <1>6 DEF OnlyRec, Present, Published
<1>7. PrepareCreate(p) \/ PrepareRename(p) \/ CommitRename(p) \/ dir' = dir
  BY DEF StoreCall, PrepareRefuse, PrepareAdmit, PrepareWrite, PrepareRenameLost, CommitRefuse,
         CommitVerify, CommitAlready, CommitAbsent, CommitRenameLost, Interrupt, vars
<1> QED
  BY <1>1, <1>2, <1>3, <1>4, <1>5, <1>6, <1>7

\* One generate worker at a time is one preparing process at a time.
LEMMA GeneratorPreparesAlone ==
  ASSUME OneGenerator, Operations
  PROVE  SolePreparer
BY DEF OneGenerator, Operations, SolePreparer, GenerateStages

\* Every step of a worker leaves the store alone or makes one of these calls.
LEMMA WorkerStepsCall ==
  ASSUME NEW p \in Procs, Step(p) \/ Kill(p)
  PROVE  UNCHANGED vars \/ StoreCall(p)
<1>1. CASE Prepare(p)
  BY <1>1 DEF Prepare, StoreCall
<1>2. ASSUME NEW from, NEW to, Commit(p, from, to) PROVE StoreCall(p)
  BY <1>2 DEF Commit, StoreCall
<1>3. CASE Kill(p)
  BY <1>3 DEF Kill, StoreCall
<1>4. CASE \/ Race(p) \/ Verify(p) \/ Sidecar(p) \/ MarkerCreate(p) \/ MarkerFill(p)
           \/ ReadMarker(p) \/ Look(p) \/ Promote(p) \/ Load(p) \/ Accept(p)
           \/ ReportCreate(p) \/ ReportFill(p)
  BY <1>4 DEF Race, Verify, Sidecar, MarkerCreate, MarkerFill, ReadMarker, Look, Promote, Load,
              Accept, ReportCreate, ReportFill
<1> QED
  BY <1>1, <1>2, <1>3, <1>4 DEF Step

\* What the file lane's lemmas give for every step of the workers.
LEMMA StoreKept ==
  ASSUME WInv, WNext
  PROVE  /\ TypeInv' /\ CompleteInv' /\ OnlyRec'
         /\ Present => Present'
         /\ Published => Published'
<1>1. PICK p \in Procs : \/ StartGenerate(p) \/ Step(p) \/ Kill(p)
                         \/ \E b \in Boundaries : StartResume(p, b)
  BY DEF WNext
<1>2. UNCHANGED vars \/ StoreCall(p)
  BY <1>1, WorkerStepsCall DEF StartGenerate, StartResume
<1>3. [Next]_vars
  BY <1>2, StoreCallEffect DEF WInv
<1>4. TypeInv' /\ CompleteInv'
  BY <1>3, TypeStep, CompleteStep, GeneratorPreparesAlone DEF WInv
<1>5. CASE UNCHANGED vars
  BY <1>4, <1>5 DEF vars, WInv, OnlyRec, Present, Published
<1>6. CASE StoreCall(p)
  BY <1>4, <1>6, StoreCallEffect DEF WInv
<1> QED
  BY <1>2, <1>5, <1>6

-----------------------------------------------------------------------------
(* The workers' own part of the invariant, one action at a time.           *)

WorkerInv == WorkerTypes /\ OneGenerator /\ Operations /\ StagesTruthful /\ FilesTruthful

\* No step of a worker makes a stage, a marker or the report say more than the
\* store holds.
LEMMA WorkerStep ==
  ASSUME WInv, WNext
  PROVE  WorkerInv'
<1>0. TypeInv' /\ OnlyRec' /\ (Present => Present') /\ (Published => Published')
  BY StoreKept
<1> USE FrontierAssumption, <1>0
    DEF WInv, WorkerInv, WorkerTypes, OneGenerator, Operations, StagesTruthful, FilesTruthful,
        TypeInv, TypeOK, OnlyRec, GenerateStages, ResumeStages, FileState
<1>1. ASSUME NEW p \in Procs, StartGenerate(p) PROVE WorkerInv'
  BY <1>1 DEF StartGenerate, To, vars
<1>2. ASSUME NEW p \in Procs, NEW b \in Boundaries, StartResume(p, b) PROVE WorkerInv'
  BY <1>2 DEF StartResume, To, vars
<1>3. ASSUME NEW p \in Procs, Race(p) PROVE WorkerInv'
  BY <1>3 DEF Race, Boundary, To, At, vars
<1>4. ASSUME NEW p \in Procs, Verify(p) PROVE WorkerInv'
  <2>1. At(p, "verify") /\ UNCHANGED <<vars, boundary, marker, report>>
    BY <1>4 DEF Verify
  <2>2. CASE Boundary(p, "commit", "verified")
    BY <2>1, <2>2 DEF Boundary, To, At, vars
  <2>3. CASE To(p, "off") /\ UNCHANGED marking
    BY <2>1, <2>3 DEF To, At, vars
  <2> QED
    BY <1>4, <2>2, <2>3 DEF Verify
<1>5. ASSUME NEW p \in Procs, Sidecar(p) PROVE WorkerInv'
  BY <1>5 DEF Sidecar, Boundary, To, At, vars
<1>6. ASSUME NEW p \in Procs, MarkerCreate(p) PROVE WorkerInv'
  BY <1>6 DEF MarkerCreate, vars
<1>7. ASSUME NEW p \in Procs, MarkerFill(p) PROVE WorkerInv'
  BY <1>7 DEF MarkerFill, vars
<1>8. ASSUME NEW p \in Procs, ReadMarker(p) PROVE WorkerInv'
  BY <1>8 DEF ReadMarker, Exit, To, At, vars
<1>9. ASSUME NEW p \in Procs, Look(p) PROVE WorkerInv'
  BY <1>9 DEF Look, Exit, To, At, LoadCandidates, InNamespace, vars, Areas, Published, Present
<1>10. ASSUME NEW p \in Procs, Promote(p) PROVE WorkerInv'
  BY <1>10 DEF Promote, Exit, To, At, vars
<1>11. ASSUME NEW p \in Procs, Load(p) PROVE WorkerInv'
  BY <1>11 DEF Load, Exit, To, At, LoadCandidates, InNamespace, vars, Areas, Published, Present
<1>12. ASSUME NEW p \in Procs, Accept(p) PROVE WorkerInv'
  BY <1>12 DEF Accept, To, At, vars
<1>13. ASSUME NEW p \in Procs, ReportCreate(p) PROVE WorkerInv'
  BY <1>13 DEF ReportCreate, To, At, vars
<1>14. ASSUME NEW p \in Procs, ReportFill(p) PROVE WorkerInv'
  BY <1>14 DEF ReportFill, Exit, To, At, vars
\* The store calls: the worker's own call changes as its stage does.
<1>15. ASSUME NEW p \in Procs, Prepare(p) PROVE WorkerInv'
  <2>1. At(p, "prepare") /\ UNCHANGED <<boundary, marker, report>>
    BY <1>15 DEF Prepare
  <2>2. \A q \in Procs : q # p => pc'[q] = pc[q] /\ rec'[q] = rec[q]
    BY <1>15, StoreCallEffect DEF Prepare, StoreCall
  <2>3. CASE /\ PrepareAdmit(p, Rec) \/ PrepareCreate(p) \/ PrepareWrite(p)
             /\ UNCHANGED <<stage, marking>>
    <3>1. pc'[p] \in {"admitted", "writing"} /\ rec'[p] = Rec
      BY <2>1, <2>3 DEF PrepareAdmit, PrepareCreate, PrepareWrite, Enter
    <3> QED
      BY <2>1, <2>2, <2>3, <3>1 DEF At
  <2>4. CASE PrepareRename(p) /\ Boundary(p, "verify", "prepared")
    <3>1. pc'[p] = "idle" /\ Present'
      BY <2>1, <2>4 DEF PrepareRename, Rename, Finish, Enter, Present, Areas
    <3> QED
      BY <2>1, <2>2, <2>4, <3>1 DEF At, Boundary, To
  <2>5. CASE /\ PrepareRefuse(p, Rec) \/ PrepareRenameLost(p)
             /\ To(p, "off") /\ UNCHANGED marking
    <3>1. pc'[p] = "idle"
      BY <2>1, <2>5 DEF PrepareRefuse, PrepareRenameLost, Finish, Enter, vars
    <3> QED
      BY <2>1, <2>2, <2>5, <3>1 DEF At, To
  <2> QED
    BY <1>15, <2>3, <2>4, <2>5 DEF Prepare
<1>16. ASSUME NEW p \in Procs, NEW from, NEW to, Commit(p, from, to),
              \/ from = "commit" /\ to = "sidecar"
              \/ from = "promote-commit" /\ to = "load"
       PROVE  WorkerInv'
  <2>1. At(p, from) /\ UNCHANGED <<marking, boundary, marker, report>>
    BY <1>16 DEF Commit
  <2>2. \A q \in Procs : q # p => pc'[q] = pc[q] /\ rec'[q] = rec[q]
    BY <1>16, StoreCallEffect DEF Commit, StoreCall
  <2>3. CASE (CommitVerify(p, Rec) \/ CommitAbsent(p)) /\ UNCHANGED stage
    <3>1. pc'[p] \in {"verified", "promoting"} /\ rec'[p] = Rec
      BY <2>1, <2>3 DEF CommitVerify, CommitAbsent, Enter
    <3> QED
      BY <1>16, <2>1, <2>2, <2>3, <3>1 DEF At
  <2>4. CASE (CommitAlready(p) \/ CommitRename(p)) /\ To(p, to)
    <3>1. pc'[p] = "idle" /\ Published'
      BY <2>1, <2>4 DEF CommitAlready, CommitRename, Rename, Finish, Enter, Published, Areas
    <3> QED
      BY <1>16, <2>1, <2>2, <2>4, <3>1 DEF At, To
  <2>5. CASE (CommitRefuse(p, Rec) \/ CommitRenameLost(p)) /\ To(p, "off")
    <3>1. pc'[p] = "idle"
      BY <2>1, <2>5 DEF CommitRefuse, CommitRenameLost, Finish, Enter, vars
    <3> QED
      BY <1>16, <2>1, <2>2, <2>5, <3>1 DEF At, To
  <2> QED
    BY <1>16, <2>3, <2>4, <2>5 DEF Commit
<1>17. ASSUME NEW p \in Procs, Kill(p) PROVE WorkerInv'
  <2>1. pc'[p] = "idle" /\ \A q \in Procs : q # p => pc'[q] = pc[q] /\ rec'[q] = rec[q]
    BY <1>17 DEF Kill, Interrupt, Finish, Enter, vars
  <2> QED
    BY <1>17, <2>1 DEF Kill, Exit, To
<1> HIDE DEF WorkerInv
<1> QED
  BY <1>1, <1>2, <1>3, <1>4, <1>5, <1>6, <1>7, <1>8, <1>9, <1>10, <1>11, <1>12, <1>13, <1>14,
     <1>15, <1>16, <1>17 DEF WNext, Step

\* The workers' invariant is inductive.
LEMMA WorkerInvariance == WSpec => []WInv
<1>1. WInit => WInv
  BY FileStoreAssumption, FrontierAssumption
  DEF WInit, Init, WInv, TypeInv, TypeOK, OperationOnRecord, Areas, Steps, Chunks, CompleteInv,
      PreparerIsWriter, TempTracksWriter, StagedComplete, CommittedWhole, WorkerTypes,
      OneGenerator, Operations, OnlyRec, StagesTruthful, FilesTruthful, GenerateStages,
      ResumeStages, FileState, Present, Published
<1>2. WInv /\ [WNext]_wvars => WInv'
  <2>1. ASSUME WInv, WNext PROVE WInv'
    BY <2>1, StoreKept, WorkerStep DEF WorkerInv, WInv
  <2>2. ASSUME WInv, UNCHANGED wvars PROVE WInv'
    BY <2>2 DEF wvars, vars, workerVars, WInv, TypeInv, TypeOK, OperationOnRecord, CompleteInv,
      PreparerIsWriter, TempTracksWriter, StagedComplete, CommittedWhole, WorkerTypes,
      OneGenerator, Operations, OnlyRec, StagesTruthful, FilesTruthful, Present, Published
  <2> QED
    BY <2>1, <2>2
<1> QED
  BY <1>1, <1>2, PTL DEF WSpec

\* A report exists only for a committed, whole record, whichever worker was
\* killed where and however many resumes overlap.
THEOREM ReportFromCommittedHolds == WSpec => []ReportFromCommitted
<1>1. WInv => ReportFromCommitted
  BY DEF WInv, FilesTruthful, Published, CompleteInv, CommittedWhole, ReportFromCommitted, Whole
<1> QED
  BY <1>1, WorkerInvariance, PTL

\* A marker that can be read never promises more than the store holds.
THEOREM MarkersTruthfulHolds == WSpec => []MarkersTruthful
<1>1. WInv => MarkersTruthful
  BY DEF WInv, FilesTruthful, Present, Published, CompleteInv, CommittedWhole, StagedComplete,
         MarkersTruthful, Whole
<1> QED
  BY <1>1, WorkerInvariance, PTL
=============================================================================
