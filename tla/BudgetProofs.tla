----------------------------- MODULE BudgetProofs -----------------------------
(***************************************************************************)
(* Proofs about Budget, for every set of ledgers, limits and counter       *)
(* width.  The inductive invariant adds to the audit trail (Audited) that  *)
(* an authority not yet allocated has an empty trail; together they bound  *)
(* every value a refund or a merge can bring back.                         *)
(***************************************************************************)
EXTENDS Budget, SumLemmas

\* Authorities not yet allocated hold nothing, a root has no parent, and a child
\* was granted nothing of a verifier pool.
FamilyOK ==
  /\ \A c \in Unused : c \notin live /\ \A k \in Kinds : total[c][MaxSequence][k] = 0
  /\ \A c \in Roots : parent[c] = NoLedger
  /\ \A l \in Ledgers \ Roots : granted[l][Pool] = 0

\* The inductive invariant.
IInv == BudgetTypeOK /\ Audited /\ FamilyOK /\ VerifierIsolated

-----------------------------------------------------------------------------
\* u64 addition does not wrap while the sum fits.
LEMMA NoWrap ==
  ASSUME NEW m \in Nat, NEW x \in 0..m
  PROVE  x % (m + 1) = x
OBVIOUS

\* What a ledger still has never exceeds what it was granted.
LEMMA NoInflation ==
  ASSUME BudgetTypeOK, Balanced, NEW l \in Ledgers, NEW k \in Kinds
  PROVE  remaining[l][k] <= granted[l][k]
<1>1. MaxSequence \in Slots
  BY BudgetAssumption DEF Slots
<1>2. total[l][MaxSequence][k] \in Nat /\ remaining[l][k] \in Nat /\ granted[l][k] \in Nat
  BY <1>1 DEF BudgetTypeOK, U64
<1> QED BY <1>2 DEF Balanced

\* A refund never brings a ledger above its grant.
LEMMA ReceiptFits ==
  ASSUME BudgetTypeOK, Audited, NEW r \in receipts
  PROVE  /\ r.of \in Ledgers /\ r.kind \in Kinds /\ r.amount \in U64 /\ r.seq \in Slots \ {0}
         /\ remaining[r.of][r.kind] + r.amount <= granted[r.of][r.kind]
<1>1. r.of \in Ledgers /\ r.kind \in Kinds /\ r.amount \in U64 /\ r.seq \in Slots \ {0}
  BY DEF BudgetTypeOK, Receipt
<1> DEFINE T == total[r.of]
<1>2. r.seq \in Nat /\ r.seq - 1 \in Slots /\ r.seq \in Slots /\ MaxSequence \in Slots /\ 0 \in Slots
      /\ r.seq <= MaxSequence /\ 0 <= r.seq - 1
  BY <1>1, BudgetAssumption DEF Slots
<1>3. T[0][r.kind] = 0 /\ T[0][r.kind] <= T[r.seq - 1][r.kind] /\ T[r.seq][r.kind] <= T[MaxSequence][r.kind]
  BY <1>1, <1>2 DEF Audited, Balanced
<1>4. T[r.seq - 1][r.kind] + r.amount <= T[r.seq][r.kind]
  BY DEF Audited, ClaimsCovered
<1>5. /\ T[r.seq - 1][r.kind] \in Nat /\ T[r.seq][r.kind] \in Nat /\ T[MaxSequence][r.kind] \in Nat
      /\ remaining[r.of][r.kind] \in Nat /\ granted[r.of][r.kind] \in Nat /\ r.amount \in Nat
  BY <1>1, <1>2 DEF BudgetTypeOK, U64
<1>6. remaining[r.of][r.kind] + T[MaxSequence][r.kind] = granted[r.of][r.kind]
  BY <1>1 DEF Audited, Balanced
<1>7. remaining[r.of][r.kind] + r.amount <= granted[r.of][r.kind]
  BY <1>3, <1>4, <1>5, <1>6
<1> QED BY <1>1, <1>7

\* Neither does a merge.
LEMMA ChildFits ==
  ASSUME BudgetTypeOK, Audited, NEW c \in live, parent[c] # NoLedger, NEW k \in Kinds
  PROVE  /\ c \in Ledgers /\ parent[c] \in Ledgers
         /\ born[c] \in Slots \ {0}
         /\ remaining[parent[c]][k] + remaining[c][k] <= granted[parent[c]][k]
<1>1. c \in Ledgers /\ parent[c] \in Ledgers
  BY DEF BudgetTypeOK
<1> DEFINE p == parent[c]
           b == born[c]
           T == total[p]
<1>2. b \in Slots /\ b \in Nat /\ b # 0
  BY <1>1, BudgetAssumption DEF Audited, ClaimsCovered, BudgetTypeOK, Slots
<1>3. b - 1 \in Slots /\ MaxSequence \in Slots /\ 0 \in Slots /\ b <= MaxSequence /\ 0 <= b - 1
  BY <1>2, BudgetAssumption DEF Slots
<1>4. T[0][k] = 0 /\ T[0][k] <= T[b - 1][k] /\ T[b][k] <= T[MaxSequence][k]
  BY <1>1, <1>2, <1>3 DEF Audited, Balanced
<1>5. T[b - 1][k] + granted[c][k] <= T[b][k]
  BY DEF Audited, ClaimsCovered
<1>6. remaining[c][k] <= granted[c][k]
  BY <1>1, NoInflation DEF Audited
<1>7. /\ T[b - 1][k] \in Nat /\ T[b][k] \in Nat /\ T[MaxSequence][k] \in Nat
      /\ remaining[p][k] \in Nat /\ granted[p][k] \in Nat
      /\ remaining[c][k] \in Nat /\ granted[c][k] \in Nat
  BY <1>1, <1>2, <1>3 DEF BudgetTypeOK, U64
<1>8. remaining[p][k] + T[MaxSequence][k] = granted[p][k]
  BY <1>1 DEF Audited, Balanced
<1>9. remaining[p][k] + remaining[c][k] <= granted[p][k]
  BY <1>4, <1>5, <1>6, <1>7, <1>8
<1> QED BY <1>1, <1>2, <1>9

-----------------------------------------------------------------------------
\* Effect of a debit on the audit trail.
LEMMA DebitTrail ==
  ASSUME BudgetTypeOK, Balanced,
         NEW l \in Ledgers, NEW n \in Slots \ {0}, NEW amounts \in [Kinds -> Nat],
         Debit(l, n, amounts)
  PROVE  /\ total' \in [Ledgers -> [Slots -> [Kinds -> Nat]]]
         /\ \A q \in Ledgers, m \in Slots, k \in Kinds :
              total'[q][m][k] = total[q][m][k] + IF q = l /\ m >= n THEN amounts[k] ELSE 0
         /\ \A q \in Ledgers, k \in Kinds :
              /\ total'[q][0][k] = 0
              /\ \A i, j \in Slots : i <= j => total'[q][i][k] <= total'[q][j][k]
<1>1. 0 \in Slots /\ Slots \subseteq Nat /\ n \in Nat /\ n > 0
  BY BudgetAssumption DEF Slots
<1>2. \A q \in Ledgers, m \in Slots, k \in Kinds :
        total'[q][m][k] = total[q][m][k] + IF q = l /\ m >= n THEN amounts[k] ELSE 0
  BY <1>1 DEF Debit, BudgetTypeOK
<1>3. total' \in [Ledgers -> [Slots -> [Kinds -> Nat]]]
  BY <1>1 DEF Debit, BudgetTypeOK
<1>4. ASSUME NEW q \in Ledgers, NEW k \in Kinds
      PROVE  /\ total'[q][0][k] = 0
             /\ \A i, j \in Slots : i <= j => total'[q][i][k] <= total'[q][j][k]
  <2>1. total'[q][0][k] = 0
    BY <1>1, <1>2 DEF Balanced, BudgetTypeOK
  <2>2. ASSUME NEW i \in Slots, NEW j \in Slots, i <= j
        PROVE  total'[q][i][k] <= total'[q][j][k]
    <3>1. total[q][i][k] <= total[q][j][k] /\ total[q][i][k] \in Nat /\ total[q][j][k] \in Nat
          /\ amounts[k] \in Nat /\ i \in Nat /\ j \in Nat
      BY <2>2, <1>1 DEF Balanced, BudgetTypeOK
    <3> QED BY <3>1, <2>2, <1>1, <1>2
  <2> QED BY <2>1, <2>2
<1> QED BY <1>2, <1>3, <1>4

\* Effect of a credit at a slot at which at least as much left.
LEMMA CreditTrail ==
  ASSUME BudgetTypeOK, Balanced,
         NEW l \in Ledgers, NEW n \in Slots \ {0}, NEW amounts \in [Kinds -> Nat],
         \A k \in Kinds : total[l][n - 1][k] + amounts[k] <= total[l][n][k],
         Credit(l, n, amounts)
  PROVE  /\ total' \in [Ledgers -> [Slots -> [Kinds -> Nat]]]
         /\ \A q \in Ledgers, m \in Slots, k \in Kinds :
              total'[q][m][k] = total[q][m][k] - IF q = l /\ m >= n THEN amounts[k] ELSE 0
         /\ \A q \in Ledgers, k \in Kinds :
              /\ total'[q][0][k] = 0
              /\ \A i, j \in Slots : i <= j => total'[q][i][k] <= total'[q][j][k]
<1>1. 0 \in Slots /\ Slots \subseteq Nat /\ n \in Nat /\ n > 0 /\ n - 1 \in Slots
  BY BudgetAssumption DEF Slots
<1>2. \A q \in Ledgers, m \in Slots, k \in Kinds :
        total'[q][m][k] = total[q][m][k] - IF q = l /\ m >= n THEN amounts[k] ELSE 0
  BY <1>1 DEF Credit, BudgetTypeOK
<1>3. ASSUME NEW m \in Slots, NEW k \in Kinds, m >= n
      PROVE  total[l][m][k] - amounts[k] \in Nat
  <2>1. total[l][n][k] <= total[l][m][k] /\ total[l][n][k] \in Nat /\ total[l][m][k] \in Nat
        /\ total[l][n - 1][k] \in Nat /\ amounts[k] \in Nat
    BY <1>1, <1>3 DEF Balanced, BudgetTypeOK
  <2> QED BY <2>1
<1>4. total' \in [Ledgers -> [Slots -> [Kinds -> Nat]]]
  <2>1. ASSUME NEW m \in Slots, NEW k \in Kinds
        PROVE  total[l][m][k] - (IF m >= n THEN amounts[k] ELSE 0) \in Nat
    BY <1>3, <1>1 DEF BudgetTypeOK
  <2> QED BY <2>1, <1>1 DEF Credit, BudgetTypeOK
<1>5. ASSUME NEW q \in Ledgers, NEW k \in Kinds
      PROVE  /\ total'[q][0][k] = 0
             /\ \A i, j \in Slots : i <= j => total'[q][i][k] <= total'[q][j][k]
  <2>1. total'[q][0][k] = 0
    BY <1>1, <1>2 DEF Balanced, BudgetTypeOK
  <2>2. ASSUME NEW i \in Slots, NEW j \in Slots, i <= j
        PROVE  total'[q][i][k] <= total'[q][j][k]
    <3>1. /\ total[q][i][k] <= total[q][j][k] /\ total[q][i][k] \in Nat /\ total[q][j][k] \in Nat
          /\ amounts[k] \in Nat /\ i \in Nat /\ j \in Nat
          /\ total[q][n][k] \in Nat /\ total[q][n - 1][k] \in Nat
      BY <2>2, <1>1 DEF Balanced, BudgetTypeOK
    <3>2. CASE q = l /\ i < n /\ j >= n
      <4>1. i <= n - 1
        BY <3>2, <3>1, <1>1
      <4>2. total[l][i][k] <= total[l][n - 1][k] /\ total[l][n][k] <= total[l][j][k]
        BY <4>1, <3>2, <1>1 DEF Balanced
      <4>3. total[l][n - 1][k] + amounts[k] <= total[l][n][k]
        OBVIOUS
      <4>4. total'[q][i][k] = total[l][i][k] /\ total'[q][j][k] = total[l][j][k] - amounts[k]
        BY <3>2, <3>1, <1>1, <1>2
      <4> QED BY <4>2, <4>3, <4>4, <3>1, <3>2
    <3>3. CASE ~(q = l /\ i < n /\ j >= n)
      BY <3>3, <3>1, <2>2, <1>1, <1>2
    <3> QED BY <3>2, <3>3
  <2> QED BY <2>1, <2>2
<1> QED BY <1>2, <1>4, <1>5

-----------------------------------------------------------------------------
(* Initially, and one lemma per family of operations. *)

\* A root starts with its limits, an empty trail and no claims.
LEMMA InitIInv == BudgetInit => IInv
<1> SUFFICES ASSUME BudgetInit PROVE IInv
  OBVIOUS
<1>1. 0 \in U64 /\ 0 \in Slots /\ MaxSequence \in Slots /\ Pool \in Kinds
  BY BudgetAssumption DEF U64, Slots, Kinds
<1>2. remaining \in [Ledgers -> [Kinds -> U64]]
  BY <1>1, BudgetAssumption DEF BudgetInit, Nothing
<1>3. total \in [Ledgers -> [Slots -> [Kinds -> Nat]]]
  BY DEF BudgetInit, Nothing
<1>4. leaseAvailable \in [Ledgers -> BOOLEAN]
  BY DEF BudgetInit
<1>5. BudgetTypeOK
  BY <1>1, <1>2, <1>3, <1>4, BudgetAssumption DEF BudgetInit, BudgetTypeOK
<1>6. \A l \in Ledgers, m \in Slots, k \in Kinds : total[l][m][k] = 0
  BY DEF BudgetInit, Nothing
<1>7. Balanced
  BY <1>1, <1>2, <1>6 DEF BudgetInit, Balanced, U64
<1>8. ClaimsCovered /\ SlotsUnshared
  BY BudgetAssumption DEF BudgetInit, ClaimsCovered, SlotsUnshared
<1>9. FamilyOK
  <2>1. \A l \in Ledgers \ Roots : granted[l][Pool] = 0
    BY <1>1 DEF BudgetInit, Nothing
  <2> QED BY <2>1, <1>1, <1>6, BudgetAssumption DEF BudgetInit, FamilyOK, Unused
<1>10. VerifierIsolated
  <2>1. ASSUME NEW l \in Ledgers \ Roots
        PROVE  remaining[l][Pool] = 0 /\ ~leaseAvailable[l] /\ leases[l] = 0
    BY <1>1, BudgetAssumption DEF BudgetInit, Nothing
  <2>2. \A l \in Roots : leases[l] = 0
    BY BudgetAssumption DEF BudgetInit
  <2> QED BY <2>1, <2>2 DEF VerifierIsolated
<1> QED BY <1>5, <1>7, <1>8, <1>9, <1>10 DEF IInv, Audited

\* A debit at the next slot keeps every claim covered.
LEMMA DebitCovers ==
  ASSUME IInv, NEW l \in Ledgers, Open(l), NEW amounts \in [Kinds -> Nat],
         Debit(l, Slot(l), amounts), Tick(l)
  PROVE  /\ total' \in [Ledgers -> [Slots -> [Kinds -> Nat]]]
         /\ sequence' \in [Ledgers -> Slots]
         /\ Slot(l) \in Slots \ {0}
         /\ \A q \in Ledgers, k \in Kinds :
              /\ total'[q][MaxSequence][k]
                   = total[q][MaxSequence][k] + IF q = l THEN amounts[k] ELSE 0
              /\ total'[q][0][k] = 0
              /\ \A i, j \in Slots : i <= j => total'[q][i][k] <= total'[q][j][k]
         /\ \A r \in receipts :
              /\ r.seq <= sequence'[r.of]
              /\ total'[r.of][r.seq - 1][r.kind] + r.amount <= total'[r.of][r.seq][r.kind]
         /\ \A c \in live : parent[c] # NoLedger =>
              /\ born[c] \in 1..sequence'[parent[c]]
              /\ \A k \in Kinds : total'[parent[c]][born[c] - 1][k] + granted[c][k]
                                    <= total'[parent[c]][born[c]][k]
         /\ \A k \in Kinds : total'[l][Slot(l) - 1][k] + amounts[k] <= total'[l][Slot(l)][k]
<1> USE DEF IInv, Audited
<1>1. /\ Slot(l) \in Slots \ {0} /\ Slot(l) - 1 \in Slots /\ Slots \subseteq Nat
      /\ sequence[l] \in Nat /\ Slot(l) = sequence[l] + 1 /\ MaxSequence \in Slots
      /\ MaxSequence >= Slot(l)
  BY BudgetAssumption DEF Slot, Slots, Open, BudgetTypeOK
<1>2. /\ sequence' \in [Ledgers -> Slots]
      /\ \A q \in Ledgers : sequence[q] \in Nat /\ sequence'[q] \in Nat /\ sequence[q] <= sequence'[q]
  <2>1. sequence' \in [Ledgers -> Slots]
    BY <1>1 DEF Tick, BudgetTypeOK, Slot
  <2>2. \A q \in Ledgers : sequence[q] \in Nat /\ sequence'[q] \in Nat
    BY <2>1 DEF BudgetTypeOK, Slots
  <2>3. \A q \in Ledgers : sequence'[q] = IF q = l THEN sequence[q] + 1 ELSE sequence[q]
    BY DEF Tick, BudgetTypeOK
  <2> QED BY <2>1, <2>2, <2>3
<1>3. /\ total' \in [Ledgers -> [Slots -> [Kinds -> Nat]]]
      /\ \A q \in Ledgers, m \in Slots, k \in Kinds :
           total'[q][m][k] = total[q][m][k] + IF q = l /\ m >= Slot(l) THEN amounts[k] ELSE 0
      /\ \A q \in Ledgers, k \in Kinds :
           /\ total'[q][0][k] = 0
           /\ \A i, j \in Slots : i <= j => total'[q][i][k] <= total'[q][j][k]
  BY <1>1, DebitTrail
<1>4. \A q \in Ledgers, k \in Kinds :
        total'[q][MaxSequence][k] = total[q][MaxSequence][k] + IF q = l THEN amounts[k] ELSE 0
  BY <1>1, <1>3
\* A slot that is not after the ledger's last one keeps its difference.
<1>5. ASSUME NEW q \in Ledgers, NEW n \in Slots, NEW k \in Kinds, NEW a \in Nat,
             n # 0, n <= sequence[q], total[q][n - 1][k] + a <= total[q][n][k]
      PROVE  total'[q][n - 1][k] + a <= total'[q][n][k]
  <2>1. n - 1 \in Slots /\ n \in Nat
    BY <1>5, BudgetAssumption DEF Slots
  <2>2. CASE q = l
    <3>1. n < Slot(l) /\ n - 1 < Slot(l)
      BY <2>1, <2>2, <1>1, <1>5
    <3>2. total'[q][n][k] = total[q][n][k] + 0 /\ total'[q][n - 1][k] = total[q][n - 1][k] + 0
      BY <3>1, <2>1, <1>1, <1>3
    <3> QED BY <3>2, <2>1, <1>5 DEF BudgetTypeOK
  <2>3. CASE q # l
    <3>1. total'[q][n][k] = total[q][n][k] + 0 /\ total'[q][n - 1][k] = total[q][n - 1][k] + 0
      BY <2>1, <2>3, <1>3
    <3> QED BY <3>1, <2>1, <1>5 DEF BudgetTypeOK
  <2> QED BY <2>2, <2>3
<1>6. ASSUME NEW r \in receipts
      PROVE  /\ r.seq <= sequence'[r.of]
             /\ total'[r.of][r.seq - 1][r.kind] + r.amount <= total'[r.of][r.seq][r.kind]
  <2>1. r.of \in Ledgers /\ r.kind \in Kinds /\ r.amount \in Nat /\ r.seq \in Slots /\ r.seq # 0
    BY DEF BudgetTypeOK, Receipt, U64
  <2>2. /\ r.seq <= sequence[r.of]
        /\ total[r.of][r.seq - 1][r.kind] + r.amount <= total[r.of][r.seq][r.kind]
    BY DEF ClaimsCovered
  <2>3. r.seq <= sequence'[r.of]
    <3>1. r.seq \in Nat
      BY <2>1 DEF Slots
    <3> QED BY <3>1, <2>1, <2>2, <1>2
  <2> QED BY <2>1, <2>2, <2>3, <1>5
<1>7. ASSUME NEW c \in live, parent[c] # NoLedger
      PROVE  /\ born[c] \in 1..sequence'[parent[c]]
             /\ \A k \in Kinds : total'[parent[c]][born[c] - 1][k] + granted[c][k]
                                   <= total'[parent[c]][born[c]][k]
  <2>1. c \in Ledgers /\ parent[c] \in Ledgers /\ born[c] \in Slots
    BY <1>7 DEF BudgetTypeOK
  <2>2. /\ born[c] \in 1..sequence[parent[c]]
        /\ \A k \in Kinds : total[parent[c]][born[c] - 1][k] + granted[c][k]
                              <= total[parent[c]][born[c]][k]
    BY <1>7 DEF ClaimsCovered
  <2>3. sequence[parent[c]] \in Nat /\ sequence'[parent[c]] \in Nat
    BY <2>1, <1>1, <1>2 DEF BudgetTypeOK
  <2>4. born[c] \in 1..sequence'[parent[c]]
    BY <2>1, <2>2, <2>3, <1>2
  <2>5. ASSUME NEW k \in Kinds
        PROVE  total'[parent[c]][born[c] - 1][k] + granted[c][k] <= total'[parent[c]][born[c]][k]
    <3>1. granted[c][k] \in Nat
      BY <2>1 DEF BudgetTypeOK, U64
    <3> QED BY <3>1, <2>1, <2>2, <2>3, <1>5
  <2> QED BY <2>4, <2>5
<1>8. ASSUME NEW k \in Kinds
      PROVE  total'[l][Slot(l) - 1][k] + amounts[k] <= total'[l][Slot(l)][k]
  <2>1. total'[l][Slot(l) - 1][k] = total[l][Slot(l) - 1][k] + 0
        /\ total'[l][Slot(l)][k] = total[l][Slot(l)][k] + amounts[k]
    BY <1>1, <1>3
  <2>2. total[l][Slot(l) - 1][k] <= total[l][Slot(l)][k]
    BY <1>1 DEF Balanced
  <2> QED BY <2>1, <2>2, <1>1 DEF BudgetTypeOK
<1> QED BY <1>1, <1>2, <1>3, <1>4, <1>6, <1>7, <1>8

\* A credit for a claim that is withdrawn keeps every other claim covered.
LEMMA CreditCovers ==
  ASSUME IInv, NEW l \in Ledgers, Open(l), NEW n \in Slots \ {0}, NEW amounts \in [Kinds -> Nat],
         \A k \in Kinds : total[l][n - 1][k] + amounts[k] <= total[l][n][k],
         Credit(l, n, amounts), Tick(l)
  PROVE  /\ total' \in [Ledgers -> [Slots -> [Kinds -> Nat]]]
         /\ sequence' \in [Ledgers -> Slots]
         /\ \A q \in Ledgers, k \in Kinds :
              /\ total'[q][MaxSequence][k]
                   = total[q][MaxSequence][k] - IF q = l THEN amounts[k] ELSE 0
              /\ total'[q][0][k] = 0
              /\ \A i, j \in Slots : i <= j => total'[q][i][k] <= total'[q][j][k]
         /\ \A r \in receipts : ~(r.of = l /\ r.seq = n) =>
              /\ r.seq <= sequence'[r.of]
              /\ total'[r.of][r.seq - 1][r.kind] + r.amount <= total'[r.of][r.seq][r.kind]
         /\ \A c \in live : parent[c] # NoLedger /\ ~(parent[c] = l /\ born[c] = n) =>
              /\ born[c] \in 1..sequence'[parent[c]]
              /\ \A k \in Kinds : total'[parent[c]][born[c] - 1][k] + granted[c][k]
                                    <= total'[parent[c]][born[c]][k]
<1> USE DEF IInv, Audited
<1>1. /\ n \in Nat /\ Slots \subseteq Nat /\ sequence[l] \in Nat /\ MaxSequence \in Slots
      /\ MaxSequence >= n /\ sequence[l] + 1 \in Slots
  BY BudgetAssumption DEF Slots, Open, BudgetTypeOK
<1>2. /\ sequence' \in [Ledgers -> Slots]
      /\ \A q \in Ledgers : sequence[q] \in Nat /\ sequence'[q] \in Nat /\ sequence[q] <= sequence'[q]
  <2>1. sequence' \in [Ledgers -> Slots]
    BY <1>1 DEF Tick, BudgetTypeOK
  <2>2. \A q \in Ledgers : sequence[q] \in Nat /\ sequence'[q] \in Nat
    BY <2>1 DEF BudgetTypeOK, Slots
  <2>3. \A q \in Ledgers : sequence'[q] = IF q = l THEN sequence[q] + 1 ELSE sequence[q]
    BY DEF Tick, BudgetTypeOK
  <2> QED BY <2>1, <2>2, <2>3
<1>3. /\ total' \in [Ledgers -> [Slots -> [Kinds -> Nat]]]
      /\ \A q \in Ledgers, m \in Slots, k \in Kinds :
           total'[q][m][k] = total[q][m][k] - IF q = l /\ m >= n THEN amounts[k] ELSE 0
      /\ \A q \in Ledgers, k \in Kinds :
           /\ total'[q][0][k] = 0
           /\ \A i, j \in Slots : i <= j => total'[q][i][k] <= total'[q][j][k]
  BY <1>1, CreditTrail
<1>4. \A q \in Ledgers, k \in Kinds :
        total'[q][MaxSequence][k] = total[q][MaxSequence][k] - IF q = l THEN amounts[k] ELSE 0
  BY <1>1, <1>3
\* Every other slot keeps its difference.
<1>5. ASSUME NEW q \in Ledgers, NEW m \in Slots, NEW k \in Kinds, NEW a \in Nat,
             m # 0, ~(q = l /\ m = n), total[q][m - 1][k] + a <= total[q][m][k]
      PROVE  total'[q][m - 1][k] + a <= total'[q][m][k]
  <2>1. m - 1 \in Slots /\ m \in Nat
    BY <1>5, BudgetAssumption DEF Slots
  <2>2. total[q][m][k] \in Nat /\ total[q][m - 1][k] \in Nat /\ amounts[k] \in Nat
    BY <2>1 DEF BudgetTypeOK
  <2>3. CASE q = l /\ m > n
    <3>1. /\ total'[q][m][k] = total[q][m][k] - amounts[k]
          /\ total'[q][m - 1][k] = total[q][m - 1][k] - amounts[k]
      BY <2>1, <2>3, <1>1, <1>3
    <3> QED BY <3>1, <2>2, <1>5
  <2>4. CASE q # l \/ m < n
    <3>1. /\ total'[q][m][k] = total[q][m][k] - 0
          /\ total'[q][m - 1][k] = total[q][m - 1][k] - 0
      BY <2>1, <2>4, <1>1, <1>3
    <3> QED BY <3>1, <2>2, <1>5
  <2> QED BY <2>1, <2>3, <2>4, <1>1, <1>5
<1>6. ASSUME NEW r \in receipts, ~(r.of = l /\ r.seq = n)
      PROVE  /\ r.seq <= sequence'[r.of]
             /\ total'[r.of][r.seq - 1][r.kind] + r.amount <= total'[r.of][r.seq][r.kind]
  <2>1. r.of \in Ledgers /\ r.kind \in Kinds /\ r.amount \in Nat /\ r.seq \in Slots /\ r.seq # 0
    BY DEF BudgetTypeOK, Receipt, U64
  <2>2. /\ r.seq <= sequence[r.of]
        /\ total[r.of][r.seq - 1][r.kind] + r.amount <= total[r.of][r.seq][r.kind]
    BY DEF ClaimsCovered
  <2>3. r.seq <= sequence'[r.of]
    <3>1. r.seq \in Nat
      BY <2>1 DEF Slots
    <3> QED BY <3>1, <2>1, <2>2, <1>2
  <2> QED BY <2>1, <2>2, <2>3, <1>5, <1>6
<1>7. ASSUME NEW c \in live, parent[c] # NoLedger, ~(parent[c] = l /\ born[c] = n)
      PROVE  /\ born[c] \in 1..sequence'[parent[c]]
             /\ \A k \in Kinds : total'[parent[c]][born[c] - 1][k] + granted[c][k]
                                   <= total'[parent[c]][born[c]][k]
  <2>1. c \in Ledgers /\ parent[c] \in Ledgers /\ born[c] \in Slots
    BY <1>7 DEF BudgetTypeOK
  <2>2. /\ born[c] \in 1..sequence[parent[c]]
        /\ \A k \in Kinds : total[parent[c]][born[c] - 1][k] + granted[c][k]
                              <= total[parent[c]][born[c]][k]
    BY <1>7 DEF ClaimsCovered
  <2>3. sequence[parent[c]] \in Nat /\ sequence'[parent[c]] \in Nat
    BY <2>1, <1>1, <1>2 DEF BudgetTypeOK
  <2>4. born[c] \in 1..sequence'[parent[c]]
    BY <2>1, <2>2, <2>3, <1>2
  <2>5. ASSUME NEW k \in Kinds
        PROVE  total'[parent[c]][born[c] - 1][k] + granted[c][k] <= total'[parent[c]][born[c]][k]
    <3>1. granted[c][k] \in Nat
      BY <2>1 DEF BudgetTypeOK, U64
    <3> QED BY <3>1, <2>1, <2>2, <2>3, <1>5, <1>7
  <2> QED BY <2>4, <2>5
<1> QED BY <1>2, <1>3, <1>4, <1>6, <1>7

\* A charge: amounts leave l at the next slot, and whatever new receipt there is
\* claims that slot.
LEMMA ChargeStep ==
  ASSUME IInv, NEW l \in Ledgers, Open(l), NEW amounts \in [Kinds -> Nat],
         \A k \in Kinds : amounts[k] <= remaining[l][k],
         Subtract(l, amounts), Debit(l, Slot(l), amounts), Tick(l),
         \A r \in receipts' \ receipts :
           r \in Receipt /\ r.of = l /\ r.seq = Slot(l) /\ r.amount <= amounts[r.kind],
         \A r, s \in receipts' \ receipts : r = s,
         UNCHANGED <<family, leaseAvailable, leases>>
  PROVE  IInv'
<1> USE DEF IInv, Audited
<1>1. UNCHANGED <<live, parent, granted, born, leaseAvailable, leases>>
  BY DEF family
<1>2. /\ total' \in [Ledgers -> [Slots -> [Kinds -> Nat]]]
      /\ sequence' \in [Ledgers -> Slots]
      /\ Slot(l) \in Slots \ {0}
      /\ \A q \in Ledgers, k \in Kinds :
           /\ total'[q][MaxSequence][k]
                = total[q][MaxSequence][k] + IF q = l THEN amounts[k] ELSE 0
           /\ total'[q][0][k] = 0
           /\ \A i, j \in Slots : i <= j => total'[q][i][k] <= total'[q][j][k]
      /\ \A r \in receipts :
           /\ r.seq <= sequence'[r.of]
           /\ total'[r.of][r.seq - 1][r.kind] + r.amount <= total'[r.of][r.seq][r.kind]
      /\ \A c \in live : parent[c] # NoLedger =>
           /\ born[c] \in 1..sequence'[parent[c]]
           /\ \A k \in Kinds : total'[parent[c]][born[c] - 1][k] + granted[c][k]
                                 <= total'[parent[c]][born[c]][k]
      /\ \A k \in Kinds : total'[l][Slot(l) - 1][k] + amounts[k] <= total'[l][Slot(l)][k]
  BY DebitCovers
<1>3. \A q \in Ledgers, k \in Kinds :
        remaining'[q][k] = remaining[q][k] - IF q = l THEN amounts[k] ELSE 0
  BY DEF Subtract, BudgetTypeOK, U64
<1>4. remaining' \in [Ledgers -> [Kinds -> U64]]
  <2>1. ASSUME NEW k \in Kinds PROVE remaining[l][k] - amounts[k] \in U64
    BY BudgetAssumption DEF BudgetTypeOK, U64
  <2> QED BY <2>1 DEF Subtract, BudgetTypeOK
<1>5. receipts' \in SUBSET Receipt
  BY DEF BudgetTypeOK
<1>6. BudgetTypeOK'
  BY <1>1, <1>2, <1>4, <1>5 DEF BudgetTypeOK
<1>7. Balanced'
  <2>1. ASSUME NEW q \in Ledgers, NEW k \in Kinds
        PROVE  remaining'[q][k] + total'[q][MaxSequence][k] = granted'[q][k]
    <3>1. remaining[q][k] \in Nat /\ amounts[k] \in Nat /\ total[q][MaxSequence][k] \in Nat
      <4>1. MaxSequence \in Slots
        BY BudgetAssumption DEF Slots
      <4> QED BY <4>1 DEF BudgetTypeOK, U64
    <3>2. remaining[q][k] + total[q][MaxSequence][k] = granted'[q][k]
      BY <1>1 DEF Balanced
    <3>3. /\ remaining'[q][k] = remaining[q][k] - IF q = l THEN amounts[k] ELSE 0
          /\ total'[q][MaxSequence][k]
               = total[q][MaxSequence][k] + IF q = l THEN amounts[k] ELSE 0
      BY <1>2, <1>3
    <3> QED BY <3>1, <3>2, <3>3
  <2> QED BY <2>1, <1>2 DEF Balanced
<1>8. ClaimsCovered'
  <2>1. ASSUME NEW r \in receipts'
        PROVE  /\ r.seq <= sequence'[r.of]
               /\ total'[r.of][r.seq - 1][r.kind] + r.amount <= total'[r.of][r.seq][r.kind]
    <3>1. CASE r \in receipts
      BY <3>1, <1>2
    <3>2. CASE r \notin receipts
      <4>1. r.of = l /\ r.seq = Slot(l) /\ r.amount <= amounts[r.kind] /\ r.kind \in Kinds
            /\ r.amount \in Nat
        BY <3>2 DEF Receipt, U64
      <4>2. sequence'[l] = Slot(l) /\ Slot(l) \in Nat /\ Slot(l) - 1 \in Slots
        BY <1>2, BudgetAssumption DEF Tick, Slot, BudgetTypeOK, Slots
      <4>3. total'[l][Slot(l) - 1][r.kind] + amounts[r.kind] <= total'[l][Slot(l)][r.kind]
        BY <4>1, <1>2
      <4>4. total'[l][Slot(l) - 1][r.kind] \in Nat /\ total'[l][Slot(l)][r.kind] \in Nat
            /\ amounts[r.kind] \in Nat
        BY <4>1, <4>2, <1>2
      <4>5. total'[l][Slot(l) - 1][r.kind] + r.amount <= total'[l][Slot(l)][r.kind]
        BY <4>1, <4>3, <4>4
      <4> QED BY <4>1, <4>2, <4>5
    <3> QED BY <3>1, <3>2
  <2> QED BY <2>1, <1>1, <1>2 DEF ClaimsCovered
<1>9. SlotsUnshared'
  \* No claim stands at the slot that is taken now.
  <2>1. ASSUME NEW r \in receipts, r.of = l PROVE r.seq # Slot(l)
    <3>1. r.seq <= sequence[l] /\ sequence[l] \in Slots /\ r.seq \in Slots
      BY <2>1 DEF ClaimsCovered, BudgetTypeOK, Receipt
    <3>2. sequence[l] \in Nat /\ r.seq \in Nat
      BY <3>1 DEF Slots
    <3> QED BY <3>1, <3>2 DEF Slot
  <2>2. ASSUME NEW c \in live, parent[c] = l PROVE born[c] # Slot(l)
    <3>1. born[c] \in 1..sequence[l] /\ sequence[l] \in Slots
      BY <2>2, BudgetAssumption DEF ClaimsCovered, BudgetTypeOK
    <3>2. sequence[l] \in Nat
      BY <3>1 DEF Slots
    <3> QED BY <3>1, <3>2 DEF Slot
  <2>3. ASSUME NEW r \in receipts', NEW s \in receipts', r.of = s.of, r.seq = s.seq
        PROVE  r = s
    <3>1. CASE r \in receipts /\ s \in receipts
      BY <3>1, <2>3 DEF SlotsUnshared
    <3>2. CASE r \notin receipts /\ s \notin receipts
      BY <3>2
    <3>3. CASE r \in receipts /\ s \notin receipts
      BY <3>3, <2>1, <2>3
    <3>4. CASE r \notin receipts /\ s \in receipts
      BY <3>4, <2>1, <2>3
    <3> QED BY <3>1, <3>2, <3>3, <3>4
  <2>4. ASSUME NEW r \in receipts', NEW c \in live, parent[c] = r.of, born[c] = r.seq
        PROVE  FALSE
    <3>1. CASE r \in receipts
      BY <3>1, <2>4 DEF SlotsUnshared
    <3>2. CASE r \notin receipts
      BY <3>2, <2>2, <2>4
    <3> QED BY <3>1, <3>2
  <2>5. \A c, e \in live : parent[c] # NoLedger /\ parent[c] = parent[e] /\ born[c] = born[e] => c = e
    BY DEF SlotsUnshared
  <2> QED BY <2>3, <2>4, <2>5, <1>1 DEF SlotsUnshared
<1>10. FamilyOK'
  <2>1. l \notin Unused
    BY DEF FamilyOK, Open
  <2>2. Unused' = Unused /\ Unused \subseteq Ledgers
    BY <1>1 DEF Unused
  <2>3. ASSUME NEW c \in Unused', NEW k \in Kinds
        PROVE  total'[c][MaxSequence][k] = 0
    <3>1. c # l /\ c \in Ledgers /\ total[c][MaxSequence][k] = 0
      BY <2>1, <2>2, <2>3 DEF FamilyOK
    <3> QED BY <3>1, <1>2
  <2> QED BY <2>2, <2>3, <1>1 DEF FamilyOK
<1>11. VerifierIsolated'
  <2>1. ASSUME NEW q \in Ledgers \ Roots PROVE remaining'[q][Pool] = 0
    <3>1. Pool \in Kinds /\ remaining[q][Pool] = 0 /\ amounts[Pool] \in Nat
      BY DEF VerifierIsolated, Kinds
    <3>2. CASE q = l
      BY <3>1, <3>2, <1>3
    <3>3. CASE q # l
      BY <3>1, <3>3, <1>3
    <3> QED BY <3>2, <3>3
  <2> QED BY <2>1, <1>1 DEF VerifierIsolated
<1> QED BY <1>6, <1>7, <1>8, <1>9, <1>10, <1>11

\* A refund or a merge: amounts come back to l for the claim at slot n, which is
\* withdrawn.
LEMMA ReturnStep ==
  ASSUME IInv, NEW l \in Ledgers, Open(l), NEW n \in Slots \ {0}, NEW amounts \in [Kinds -> Nat],
         \A k \in Kinds : total[l][n - 1][k] + amounts[k] <= total[l][n][k],
         \A k \in Kinds : remaining[l][k] + amounts[k] <= granted[l][k],
         Add(l, amounts), Credit(l, n, amounts), Tick(l),
         receipts' \subseteq receipts, live' \subseteq live,
         \A r \in receipts' : ~(r.of = l /\ r.seq = n),
         \A c \in live' : ~(parent[c] = l /\ born[c] = n),
         UNCHANGED <<parent, granted, born, leaseAvailable, leases>>
  PROVE  IInv'
<1> USE DEF IInv, Audited
<1>1. /\ total' \in [Ledgers -> [Slots -> [Kinds -> Nat]]]
      /\ sequence' \in [Ledgers -> Slots]
      /\ \A q \in Ledgers, k \in Kinds :
           /\ total'[q][MaxSequence][k]
                = total[q][MaxSequence][k] - IF q = l THEN amounts[k] ELSE 0
           /\ total'[q][0][k] = 0
           /\ \A i, j \in Slots : i <= j => total'[q][i][k] <= total'[q][j][k]
      /\ \A r \in receipts : ~(r.of = l /\ r.seq = n) =>
           /\ r.seq <= sequence'[r.of]
           /\ total'[r.of][r.seq - 1][r.kind] + r.amount <= total'[r.of][r.seq][r.kind]
      /\ \A c \in live : parent[c] # NoLedger /\ ~(parent[c] = l /\ born[c] = n) =>
           /\ born[c] \in 1..sequence'[parent[c]]
           /\ \A k \in Kinds : total'[parent[c]][born[c] - 1][k] + granted[c][k]
                                 <= total'[parent[c]][born[c]][k]
  BY CreditCovers
<1>2. ASSUME NEW k \in Kinds
      PROVE  /\ remaining[l][k] + amounts[k] \in U64
             /\ (remaining[l][k] + amounts[k]) % (MaxU64 + 1) = remaining[l][k] + amounts[k]
  <2>1. /\ remaining[l][k] \in Nat /\ amounts[k] \in Nat /\ granted[l][k] \in Nat
        /\ granted[l][k] <= MaxU64 /\ MaxU64 \in Nat
    BY BudgetAssumption DEF BudgetTypeOK, U64
  <2>2. remaining[l][k] + amounts[k] \in 0..MaxU64
    BY <2>1
  <2> QED BY <2>1, <2>2, NoWrap DEF U64
<1>3. \A q \in Ledgers, k \in Kinds :
        remaining'[q][k] = remaining[q][k] + IF q = l THEN amounts[k] ELSE 0
  BY <1>2 DEF Add, BudgetTypeOK, U64
<1>4. remaining' \in [Ledgers -> [Kinds -> U64]]
  BY <1>2 DEF Add, BudgetTypeOK
<1>5. BudgetTypeOK'
  BY <1>1, <1>4 DEF BudgetTypeOK
<1>6. Balanced'
  <2>1. ASSUME NEW q \in Ledgers, NEW k \in Kinds
        PROVE  remaining'[q][k] + total'[q][MaxSequence][k] = granted'[q][k]
    <3>1. remaining[q][k] \in Nat /\ amounts[k] \in Nat /\ total[q][MaxSequence][k] \in Nat
      <4>1. MaxSequence \in Slots
        BY BudgetAssumption DEF Slots
      <4> QED BY <4>1 DEF BudgetTypeOK, U64
    <3>2. remaining[q][k] + total[q][MaxSequence][k] = granted'[q][k]
      BY DEF Balanced
    <3>3. /\ remaining'[q][k] = remaining[q][k] + IF q = l THEN amounts[k] ELSE 0
          /\ total'[q][MaxSequence][k]
               = total[q][MaxSequence][k] - IF q = l THEN amounts[k] ELSE 0
      BY <1>1, <1>3
    <3> QED BY <3>1, <3>2, <3>3
  <2> QED BY <2>1, <1>1 DEF Balanced
<1>7. ClaimsCovered'
  BY <1>1 DEF ClaimsCovered
<1>8. SlotsUnshared'
  BY DEF SlotsUnshared
<1>9. FamilyOK'
  <2>1. l \notin Unused
    BY DEF FamilyOK, Open
  <2>2. Unused' = Unused /\ Unused \subseteq Ledgers
    BY DEF Unused
  <2>3. ASSUME NEW c \in Unused', NEW k \in Kinds
        PROVE  total'[c][MaxSequence][k] = 0
    <3>1. c # l /\ c \in Ledgers /\ total[c][MaxSequence][k] = 0
      BY <2>1, <2>2, <2>3 DEF FamilyOK
    <3> QED BY <3>1, <1>1
  <2> QED BY <2>2, <2>3 DEF FamilyOK
<1>10. VerifierIsolated'
  <2>1. ASSUME NEW q \in Ledgers \ Roots PROVE remaining'[q][Pool] = 0
    <3>1. Pool \in Kinds /\ remaining[q][Pool] = 0 /\ amounts[Pool] \in Nat /\ granted[q][Pool] = 0
      BY DEF VerifierIsolated, Kinds, FamilyOK
    <3>2. CASE q = l
      BY <3>1, <3>2, <1>3
    <3>3. CASE q # l
      BY <3>1, <3>3, <1>3
    <3> QED BY <3>2, <3>3
  <2> QED BY <2>1 DEF VerifierIsolated
<1> QED BY <1>5, <1>6, <1>7, <1>8, <1>9, <1>10

\* A reservation: the caps leave l at the next slot and the child claims it.
LEMMA ReserveStep ==
  ASSUME IInv, NEW l \in Ledgers, NEW c \in Ledgers, NEW caps \in [Kinds -> U64],
         ReserveChild(l, c, caps)
  PROVE  IInv'
<1> USE DEF IInv, Audited
<1>1. /\ caps[Pool] = 0 /\ Open(l) /\ c \in Unused
      /\ \A d \in Dims : caps[d] <= remaining[l][d]
      /\ remaining' = [remaining EXCEPT ![l] = [k \in Kinds |-> @[k] - caps[k]], ![c] = caps]
      /\ Debit(l, Slot(l), caps) /\ Tick(l)
      /\ live' = live \cup {c}
      /\ parent' = [parent EXCEPT ![c] = l]
      /\ granted' = [granted EXCEPT ![c] = caps]
      /\ born' = [born EXCEPT ![c] = Slot(l)]
      /\ UNCHANGED <<leaseAvailable, receipts, leases>>
  BY DEF ReserveChild, Carve
<1>2. c \notin live /\ c # l /\ c \notin Roots /\ parent[c] = NoLedger
  BY <1>1 DEF FamilyOK, Open, Unused
<1>3. caps \in [Kinds -> Nat]
  BY DEF U64
<1>4. /\ total' \in [Ledgers -> [Slots -> [Kinds -> Nat]]]
      /\ sequence' \in [Ledgers -> Slots]
      /\ Slot(l) \in Slots \ {0}
      /\ \A q \in Ledgers, k \in Kinds :
           /\ total'[q][MaxSequence][k]
                = total[q][MaxSequence][k] + IF q = l THEN caps[k] ELSE 0
           /\ total'[q][0][k] = 0
           /\ \A i, j \in Slots : i <= j => total'[q][i][k] <= total'[q][j][k]
      /\ \A r \in receipts :
           /\ r.seq <= sequence'[r.of]
           /\ total'[r.of][r.seq - 1][r.kind] + r.amount <= total'[r.of][r.seq][r.kind]
      /\ \A e \in live : parent[e] # NoLedger =>
           /\ born[e] \in 1..sequence'[parent[e]]
           /\ \A k \in Kinds : total'[parent[e]][born[e] - 1][k] + granted[e][k]
                                 <= total'[parent[e]][born[e]][k]
      /\ \A k \in Kinds : total'[l][Slot(l) - 1][k] + caps[k] <= total'[l][Slot(l)][k]
  BY <1>1, <1>3, DebitCovers
<1>5. \A k \in Kinds : remaining[l][k] - caps[k] \in U64
  <2>1. ASSUME NEW k \in Kinds PROVE caps[k] <= remaining[l][k] /\ remaining[l][k] \in U64
    BY <1>1 DEF Kinds, BudgetTypeOK, U64
  <2> QED BY <2>1, <1>3, BudgetAssumption DEF U64
<1>6. /\ remaining' \in [Ledgers -> [Kinds -> U64]]
      /\ \A k \in Kinds : remaining'[l][k] = remaining[l][k] - caps[k]
      /\ remaining'[c] = caps
      /\ \A q \in Ledgers : q # l /\ q # c => remaining'[q] = remaining[q]
  BY <1>1, <1>2, <1>5 DEF BudgetTypeOK
<1>7. /\ granted' \in [Ledgers -> [Kinds -> U64]] /\ granted'[c] = caps
      /\ \A q \in Ledgers : q # c => granted'[q] = granted[q]
      /\ parent' \in [Ledgers -> Ledgers \cup {NoLedger}] /\ parent'[c] = l
      /\ \A q \in Ledgers : q # c => parent'[q] = parent[q]
      /\ born' \in [Ledgers -> Slots] /\ born'[c] = Slot(l)
      /\ \A q \in Ledgers : q # c => born'[q] = born[q]
  BY <1>1, <1>4 DEF BudgetTypeOK
<1>8. BudgetTypeOK'
  BY <1>1, <1>4, <1>6, <1>7 DEF BudgetTypeOK
<1>9. Balanced'
  <2>1. ASSUME NEW q \in Ledgers, NEW k \in Kinds
        PROVE  remaining'[q][k] + total'[q][MaxSequence][k] = granted'[q][k]
    <3>1. /\ remaining[q][k] \in Nat /\ caps[k] \in Nat /\ total[q][MaxSequence][k] \in Nat
      <4>1. MaxSequence \in Slots
        BY BudgetAssumption DEF Slots
      <4> QED BY <4>1, <1>3 DEF BudgetTypeOK, U64
    <3>2. remaining[q][k] + total[q][MaxSequence][k] = granted[q][k]
      BY DEF Balanced
    <3>3. total'[q][MaxSequence][k]
            = total[q][MaxSequence][k] + IF q = l THEN caps[k] ELSE 0
      BY <1>4
    <3>4. CASE q = c
      <4>1. total[c][MaxSequence][k] = 0
        BY <1>1 DEF FamilyOK
      <4> QED BY <4>1, <3>1, <3>3, <3>4, <1>2, <1>6, <1>7
    <3>5. CASE q = l
      BY <3>1, <3>2, <3>3, <3>5, <1>2, <1>6, <1>7
    <3>6. CASE q # c /\ q # l
      BY <3>1, <3>2, <3>3, <3>6, <1>6, <1>7
    <3> QED BY <3>4, <3>5, <3>6
  <2> QED BY <2>1, <1>4 DEF Balanced
<1>10. ClaimsCovered'
  <2>1. ASSUME NEW e \in live', parent'[e] # NoLedger
        PROVE  /\ born'[e] \in 1..sequence'[parent'[e]]
               /\ \A k \in Kinds : total'[parent'[e]][born'[e] - 1][k] + granted'[e][k]
                                     <= total'[parent'[e]][born'[e]][k]
    <3>1. CASE e = c
      <4>1. sequence'[l] = Slot(l)
        BY <1>1 DEF Tick, Slot, BudgetTypeOK
      <4>2. Slot(l) \in 1..Slot(l)
        BY <1>4 DEF Slots
      <4> QED BY <4>1, <4>2, <3>1, <1>4, <1>7
    <3>2. CASE e # c
      <4>1. e \in live /\ e \in Ledgers
        BY <3>2, <2>1, <1>1 DEF BudgetTypeOK
      <4>2. parent'[e] = parent[e] /\ born'[e] = born[e] /\ granted'[e] = granted[e]
        BY <4>1, <3>2, <1>7
      <4> QED BY <4>1, <4>2, <2>1, <1>4
    <3> QED BY <3>1, <3>2
  <2> QED BY <2>1, <1>1, <1>4 DEF ClaimsCovered
<1>11. SlotsUnshared'
  <2>1. ASSUME NEW r \in receipts, r.of = l PROVE r.seq # Slot(l)
    <3>1. r.seq <= sequence[l] /\ sequence[l] \in Slots /\ r.seq \in Slots
      BY <2>1 DEF ClaimsCovered, BudgetTypeOK, Receipt
    <3>2. sequence[l] \in Nat /\ r.seq \in Nat
      BY <3>1 DEF Slots
    <3> QED BY <3>1, <3>2 DEF Slot
  <2>2. ASSUME NEW e \in live, parent[e] = l PROVE born[e] # Slot(l)
    <3>1. born[e] \in 1..sequence[l] /\ sequence[l] \in Slots
      BY <2>2, BudgetAssumption DEF ClaimsCovered, BudgetTypeOK
    <3>2. sequence[l] \in Nat
      BY <3>1 DEF Slots
    <3> QED BY <3>1, <3>2 DEF Slot
  <2>3. \A e \in live : e \in Ledgers /\ e # c /\ parent'[e] = parent[e] /\ born'[e] = born[e]
    BY <1>2, <1>7 DEF BudgetTypeOK
  <2>4. ASSUME NEW e \in live', NEW f \in live', parent'[e] # NoLedger,
               parent'[e] = parent'[f], born'[e] = born'[f]
        PROVE  e = f
    <3>1. CASE e \in live /\ f \in live
      BY <3>1, <2>3, <2>4 DEF SlotsUnshared
    <3>2. CASE e = c /\ f \in live
      BY <3>2, <2>2, <2>3, <2>4, <1>7
    <3>3. CASE e \in live /\ f = c
      BY <3>3, <2>2, <2>3, <2>4, <1>7
    <3> QED BY <3>1, <3>2, <3>3, <1>1
  <2>5. ASSUME NEW r \in receipts', NEW e \in live', parent'[e] = r.of, born'[e] = r.seq
        PROVE  FALSE
    <3>1. CASE e \in live
      BY <3>1, <2>3, <2>5, <1>1 DEF SlotsUnshared
    <3>2. CASE e = c
      BY <3>2, <2>1, <2>5, <1>1, <1>7
    <3> QED BY <3>1, <3>2, <1>1
  <2> QED BY <2>4, <2>5, <1>1 DEF SlotsUnshared
<1>12. FamilyOK'
  <2>1. Unused' \subseteq Unused \ {c} /\ Unused \subseteq Ledgers
    BY <1>7, <1>2, BudgetAssumption DEF Unused
  <2>2. ASSUME NEW e \in Unused' PROVE e \notin live' /\ \A k \in Kinds : total'[e][MaxSequence][k] = 0
    <3>1. e \in Unused /\ e # c /\ e \notin live /\ e \in Ledgers /\ e # l
      BY <2>1, <1>1 DEF FamilyOK, Open
    <3>2. ASSUME NEW k \in Kinds PROVE total'[e][MaxSequence][k] = 0
      <4>1. total[e][MaxSequence][k] = 0
        BY <3>1 DEF FamilyOK
      <4>2. total'[e][MaxSequence][k] = total[e][MaxSequence][k] + 0
        BY <3>1, <1>4
      <4> QED BY <4>1, <4>2
    <3> QED BY <3>1, <3>2, <1>1
  <2>3. \A e \in Roots : parent'[e] = NoLedger
    BY <1>2, <1>7, BudgetAssumption DEF FamilyOK
  <2>4. \A q \in Ledgers \ Roots : granted'[q][Pool] = 0
    BY <1>1, <1>7 DEF FamilyOK
  <2> QED BY <2>2, <2>3, <2>4 DEF FamilyOK
<1>13. VerifierIsolated'
  <2>1. ASSUME NEW q \in Ledgers \ Roots PROVE remaining'[q][Pool] = 0
    <3>1. Pool \in Kinds /\ remaining[q][Pool] = 0
      BY DEF VerifierIsolated, Kinds
    <3>2. CASE q = l
      BY <3>1, <3>2, <1>1, <1>6
    <3>3. CASE q # l
      BY <3>1, <3>3, <1>1, <1>6
    <3> QED BY <3>2, <3>3
  <2> QED BY <2>1, <1>1 DEF VerifierIsolated
<1> QED BY <1>8, <1>9, <1>10, <1>11, <1>12, <1>13

-----------------------------------------------------------------------------
(* Every step preserves the invariant. *)

\* Every operation of a ledger preserves the inductive invariant.
LEMMA NextIInv == IInv /\ [BudgetNext]_budgetVars => IInv'
<1> SUFFICES ASSUME IInv, [BudgetNext]_budgetVars PROVE IInv'
  OBVIOUS
<1> USE DEF IInv, Audited
\* A step that only forgets claims, or only touches the lease.
<1>1. ASSUME receipts' \subseteq receipts, live' \subseteq live,
             UNCHANGED <<counters, parent, granted, born>>, VerifierIsolated',
             leaseAvailable' \in [Ledgers -> BOOLEAN], leases' \in [Ledgers -> Nat]
      PROVE  IInv'
  <2>1. UNCHANGED <<remaining, sequence, total, parent, granted, born>>
    BY <1>1 DEF counters
  <2>2. BudgetTypeOK'
    BY <1>1, <2>1 DEF BudgetTypeOK
  <2>3. Balanced'
    BY <2>1 DEF Balanced
  <2>4. ClaimsCovered'
    BY <1>1, <2>1 DEF ClaimsCovered
  <2>5. SlotsUnshared'
    BY <1>1, <2>1 DEF SlotsUnshared
  <2>6. FamilyOK'
    BY <1>1, <2>1 DEF FamilyOK, Unused
  <2> QED BY <1>1, <2>2, <2>3, <2>4, <2>5, <2>6
<1>2. ASSUME NEW l \in Ledgers, VerifierLease(l) PROVE IInv'
  <2>1. /\ leaseAvailable' \in [Ledgers -> BOOLEAN] /\ leases' \in [Ledgers -> Nat]
        /\ leaseAvailable[l] /\ ~leaseAvailable'[l] /\ leases'[l] = leases[l] + 1
        /\ \A q \in Ledgers : q # l =>
             leaseAvailable'[q] = leaseAvailable[q] /\ leases'[q] = leases[q]
    BY <1>2 DEF VerifierLease, BudgetTypeOK
  <2>2. l \in Roots
    BY <2>1 DEF VerifierIsolated
  <2>3. UNCHANGED <<counters, live, receipts, parent, granted, born>> /\ remaining' = remaining
    BY <1>2 DEF VerifierLease, family, counters
  <2>4. VerifierIsolated'
    <3>1. ASSUME NEW q \in Roots
          PROVE  leases'[q] + (IF leaseAvailable'[q] THEN 1 ELSE 0) <= 1
      <4>1. q \in Ledgers /\ leases[q] \in Nat
        BY BudgetAssumption DEF BudgetTypeOK
      <4>2. leases[q] + (IF leaseAvailable[q] THEN 1 ELSE 0) <= 1
        BY DEF VerifierIsolated
      <4>3. CASE q = l
        BY <4>1, <4>2, <4>3, <2>1
      <4>4. CASE q # l
        BY <4>1, <4>2, <4>4, <2>1
      <4> QED BY <4>3, <4>4
    <3>2. ASSUME NEW q \in Ledgers \ Roots
          PROVE  remaining'[q][Pool] = 0 /\ ~leaseAvailable'[q] /\ leases'[q] = 0
      BY <2>1, <2>2, <2>3 DEF VerifierIsolated
    <3> QED BY <3>1, <3>2 DEF VerifierIsolated
  <2> QED BY <2>1, <2>3, <2>4, <1>1
<1>3. ASSUME NEW l \in Ledgers, NEW kind \in Kinds, NEW amount \in U64, Charge(l, kind, amount)
      PROVE  IInv'
  <2> DEFINE amounts == Only(kind, amount)
  <2>1. amount \in Nat /\ amounts \in [Kinds -> Nat]
    BY DEF Only, U64
  <2>2. \A k \in Kinds : amounts[k] <= remaining[l][k]
    BY <1>3, <2>1 DEF Charge, Only, BudgetTypeOK, U64
  <2>3. Slot(l) \in Slots \ {0}
    BY <1>3, BudgetAssumption DEF Charge, Open, Slot, Slots, BudgetTypeOK
  <2>4. ASSUME NEW r \in receipts' \ receipts
        PROVE  /\ r = [of |-> l, kind |-> kind, amount |-> amount, seq |-> Slot(l)]
               /\ r \in Receipt /\ r.of = l /\ r.seq = Slot(l) /\ r.amount <= amounts[r.kind]
    <3>1. r = [of |-> l, kind |-> kind, amount |-> amount, seq |-> Slot(l)]
      BY <1>3 DEF Charge
    <3>2. r \in Receipt /\ r.of = l /\ r.seq = Slot(l) /\ r.amount = amount /\ r.kind = kind
      BY <3>1, <2>3 DEF Receipt
    <3> QED BY <3>1, <3>2, <2>1 DEF Only
  <2>5. \A r, s \in receipts' \ receipts : r = s
    BY <2>4
  <2>6. /\ Open(l) /\ Subtract(l, amounts) /\ Debit(l, Slot(l), amounts) /\ Tick(l)
        /\ UNCHANGED <<family, leaseAvailable, leases>>
    BY <1>3 DEF Charge
  <2> HIDE DEF amounts
  <2> QED BY <2>1, <2>2, <2>4, <2>5, <2>6, ChargeStep
<1>4. ASSUME NEW l \in Ledgers, NEW first \in [Dims -> U64], NEW second \in [Dims -> U64],
             TryChargeBatch(l, first, second)
      PROVE  IInv'
  <2> DEFINE amounts == Requested(first, second)
  <2>1. amounts \in [Kinds -> Nat]
    BY DEF Requested, U64, Kinds
  <2>2. ASSUME NEW k \in Kinds PROVE amounts[k] <= remaining[l][k]
    <3>1. CASE k \in Dims
      BY <3>1, <1>4 DEF TryChargeBatch
    <3>2. CASE k = Pool
      <4>1. amounts[k] = 0
        BY <3>2 DEF Requested
      <4> QED BY <4>1 DEF BudgetTypeOK, U64
    <3> QED BY <3>1, <3>2 DEF Kinds
  <2>3. /\ Open(l) /\ Subtract(l, amounts) /\ Debit(l, Slot(l), amounts) /\ Tick(l)
        /\ UNCHANGED <<family, leaseAvailable, leases>> /\ receipts' = receipts
    BY <1>4 DEF TryChargeBatch
  <2> HIDE DEF amounts
  <2> QED BY <2>1, <2>2, <2>3, ChargeStep
<1>5. ASSUME NEW l \in Ledgers, NEW r \in receipts, Refund(l, r) PROVE IInv'
  <2> DEFINE amounts == Only(r.kind, r.amount)
  <2>1. /\ r.of \in Ledgers /\ r.kind \in Kinds /\ r.amount \in U64 /\ r.seq \in Slots \ {0}
        /\ remaining[r.of][r.kind] + r.amount <= granted[r.of][r.kind]
    BY ReceiptFits
  <2>2. r.of = l /\ r.amount \in Nat /\ amounts \in [Kinds -> Nat]
    BY <1>5, <2>1 DEF Refund, Only, U64
  <2>3. ASSUME NEW k \in Kinds PROVE total[l][r.seq - 1][k] + amounts[k] <= total[l][r.seq][k]
    <3>1. r.seq - 1 \in Slots /\ r.seq \in Slots /\ r.seq - 1 <= r.seq
      BY <2>1, BudgetAssumption DEF Slots
    <3>2. total[l][r.seq - 1][k] <= total[l][r.seq][k] /\ total[l][r.seq - 1][k] \in Nat
      BY <3>1 DEF Balanced, BudgetTypeOK
    <3>3. CASE k = r.kind
      BY <3>3, <2>2 DEF ClaimsCovered, Only
    <3>4. CASE k # r.kind
      BY <3>2, <3>4 DEF Only
    <3> QED BY <3>3, <3>4
  <2>4. ASSUME NEW k \in Kinds PROVE remaining[l][k] + amounts[k] <= granted[l][k]
    <3>1. remaining[l][k] <= granted[l][k] /\ remaining[l][k] \in Nat
      BY NoInflation DEF BudgetTypeOK, U64
    <3> QED BY <3>1, <2>1, <2>2 DEF Only
  <2>5. /\ Open(l) /\ Add(l, amounts) /\ Credit(l, r.seq, amounts) /\ Tick(l)
        /\ receipts' = receipts \ {r}
        /\ UNCHANGED <<live, parent, granted, born, leaseAvailable, leases>>
    BY <1>5 DEF Refund, family
  <2>6. \A s \in receipts' : ~(s.of = l /\ s.seq = r.seq)
    BY <2>2, <2>5 DEF SlotsUnshared
  <2>7. \A c \in live' : ~(parent[c] = l /\ born[c] = r.seq)
    BY <2>2, <2>5 DEF SlotsUnshared
  <2> HIDE DEF amounts
  <2> QED BY <2>1, <2>2, <2>3, <2>4, <2>5, <2>6, <2>7, ReturnStep
<1>6. ASSUME NEW l \in Ledgers, NEW c \in Ledgers, MergeChild(l, c) PROVE IInv'
  <2> DEFINE amounts == [k \in Kinds |-> IF k = Pool THEN 0 ELSE remaining[c][k]]
  <2>1. c \in live /\ parent[c] = l /\ parent[c] # NoLedger /\ Pool \in Kinds
    BY <1>6, BudgetAssumption DEF MergeChild, Kinds
  <2>2. born[c] \in Slots \ {0} /\ \A k \in Kinds : remaining[l][k] + remaining[c][k] <= granted[l][k]
    BY <2>1, ChildFits
  <2>3. amounts \in [Kinds -> Nat] /\ \A k \in Kinds : amounts[k] <= remaining[c][k]
    BY DEF BudgetTypeOK, U64
  <2>4. ASSUME NEW k \in Kinds PROVE total[l][born[c] - 1][k] + amounts[k] <= total[l][born[c]][k]
    <3>1. born[c] - 1 \in Slots /\ born[c] \in Slots
      BY <2>2, BudgetAssumption DEF Slots
    <3>2. total[l][born[c] - 1][k] \in Nat /\ total[l][born[c]][k] \in Nat
          /\ remaining[c][k] \in Nat /\ granted[c][k] \in Nat /\ amounts[k] \in Nat
      BY <3>1, <2>3 DEF BudgetTypeOK, U64
    <3>3. remaining[c][k] <= granted[c][k]
      BY NoInflation
    <3>4. total[l][born[c] - 1][k] + granted[c][k] <= total[l][born[c]][k]
      BY <2>1 DEF ClaimsCovered
    <3>5. amounts[k] <= remaining[c][k]
      BY <2>3
    <3> HIDE DEF amounts
    <3> QED BY <3>2, <3>3, <3>4, <3>5
  <2>5. ASSUME NEW k \in Kinds PROVE remaining[l][k] + amounts[k] <= granted[l][k]
    <3>1. /\ remaining[l][k] \in Nat /\ remaining[c][k] \in Nat /\ amounts[k] \in Nat
          /\ granted[l][k] \in Nat
      BY <2>3 DEF BudgetTypeOK, U64
    <3>2. amounts[k] <= remaining[c][k] /\ remaining[l][k] + remaining[c][k] <= granted[l][k]
      BY <2>2, <2>3
    <3> HIDE DEF amounts
    <3> QED BY <3>1, <3>2
  <2>6. /\ Open(l) /\ Add(l, amounts) /\ Credit(l, born[c], amounts) /\ Tick(l)
        /\ live' = live \ {c}
        /\ UNCHANGED <<receipts, parent, granted, born, leaseAvailable, leases>>
    BY <1>6 DEF MergeChild
  <2>7. \A r \in receipts' : ~(r.of = l /\ r.seq = born[c])
    BY <2>1, <2>6 DEF SlotsUnshared
  <2>8. \A e \in live' : ~(parent[e] = l /\ born[e] = born[c])
    BY <2>1, <2>6 DEF SlotsUnshared
  <2> HIDE DEF amounts
  <2> QED BY <2>2, <2>3, <2>4, <2>5, <2>6, <2>7, <2>8, ReturnStep
<1>7. ASSUME NEW l \in Ledgers, LoseLedger(l) PROVE IInv'
  <2>1. /\ receipts' \subseteq receipts /\ live' \subseteq live
        /\ UNCHANGED <<counters, parent, granted, born, leaseAvailable, leases, remaining>>
    BY <1>7 DEF LoseLedger, counters
  <2> QED BY <2>1, <1>1 DEF VerifierIsolated, BudgetTypeOK
<1>8. ASSUME NEW r \in receipts, LoseReceipt(r) PROVE IInv'
  <2>1. /\ receipts' \subseteq receipts /\ live' \subseteq live
        /\ UNCHANGED <<counters, parent, granted, born, leaseAvailable, leases, remaining>>
    BY <1>8 DEF LoseReceipt, counters, family
  <2> QED BY <2>1, <1>1 DEF VerifierIsolated, BudgetTypeOK
<1>9. CASE UNCHANGED budgetVars
  <2>1. /\ receipts' \subseteq receipts /\ live' \subseteq live
        /\ UNCHANGED <<counters, parent, granted, born, leaseAvailable, leases, remaining>>
    BY <1>9 DEF budgetVars, counters, family
  <2> QED BY <2>1, <1>1 DEF VerifierIsolated, BudgetTypeOK
<1>10. Pool \in Kinds /\ Dims \subseteq Kinds
  BY DEF Kinds
<1> HIDE DEF IInv, Audited
<1> QED BY <1>2, <1>3, <1>4, <1>5, <1>6, <1>7, <1>8, <1>9, <1>10, ReserveStep
        DEF BudgetNext, TryCharge, TryChargeVerifier

-----------------------------------------------------------------------------
(* The theorems. *)

\* Hence it holds always.
LEMMA Invariance == BudgetSpec => []IInv
BY InitIInv, NextIInv, PTL DEF BudgetSpec

\* Every counter of every ledger stays a u64, whatever is charged, refunded,
\* carved, merged or lost (Budget's unchecked arithmetic never leaves it).
THEOREM TypeCorrect == BudgetSpec => []BudgetTypeOK
BY Invariance, PTL DEF IInv

\* Whatever a refund or a merge can bring back fits into the grant of the
\* ledger it comes back to: refund and merge_child cannot inflate or overflow.
THEOREM ReturnsFitHolds == BudgetSpec => []ReturnsFit
<1>1. IInv => ReturnsFit
  <2> SUFFICES ASSUME IInv PROVE ReturnsFit
    OBVIOUS
  <2>1. \A r \in receipts : remaining[r.of][r.kind] + r.amount <= granted[r.of][r.kind]
    BY ReceiptFits DEF IInv
  <2>2. \A c \in live : parent[c] # NoLedger =>
          \A d \in Dims : remaining[parent[c]][d] + remaining[c][d] <= granted[parent[c]][d]
    BY ChildFits DEF IInv, Kinds
  <2> QED BY <2>1, <2>2 DEF ReturnsFit
<1> QED BY <1>1, Invariance, PTL

\* The audit trail behind it.
THEOREM AuditedHolds == BudgetSpec => []Audited
BY Invariance, PTL DEF IInv

\* One pool and one key per root, and none for a child (verifier_lease,
\* reserve_child).
THEOREM VerifierIsolatedHolds == BudgetSpec => []VerifierIsolated
BY Invariance, PTL DEF IInv
-----------------------------------------------------------------------------
(* What a tree can spend.  Beyond IInv it takes that a chain of parents      *)
(* passes through allocated ledgers only, and that the sums are finite.      *)

FamilyTree ==
  /\ \A x \in Ledgers : parent[x] # x /\ parent[x] \notin Unused
  /\ \A r \in receipts : r.of \notin Unused

TreesFinite ==
  /\ IsFiniteSet(receipts)
  /\ \A root \in Roots : IsFiniteSet(Tree(root))

TreeInv == FamilyTree /\ TreesFinite /\ TreeBound

\* The sums of TreeBound, over a given set.
Worth(h, k, X) == SumFunction([l \in X |-> h[l][k]])
Amounts(X) == SumFunction([r \in X |-> r.amount])

\* A child belongs to the trees of its parent.
LEMMA ChildInTree ==
  ASSUME BudgetTypeOK, FamilyOK, NEW c \in Ledgers, parent[c] \in Ledgers, NEW root \in Roots
  PROVE  InTree(c, root) <=> InTree(parent[c], root)
<1> DEFINE l == parent[c]
           Closed(S) == \A x \in S : parent[x] \in S \cup {NoLedger}
<1>0. NoLedger \notin Ledgers /\ parent[root] = NoLedger /\ root # c /\ l # NoLedger
  BY BudgetAssumption DEF FamilyOK
<1>1. ASSUME InTree(c, root), NEW S \in SUBSET Ledgers, l \in S, Closed(S)
      PROVE  root \in S
  <2> DEFINE Q == S \cup {c}
  <2>1. Q \in SUBSET Ledgers /\ c \in Q /\ Closed(Q)
    BY <1>1
  <2>2. root \in Q
    <3> HIDE DEF Q
    <3> QED BY <1>1, <2>1 DEF InTree
  <2> QED BY <1>0, <2>2
<1>2. ASSUME InTree(l, root), NEW S \in SUBSET Ledgers, c \in S, Closed(S)
      PROVE  root \in S
  <2>1. l \in S
    BY <1>0, <1>2
  <2> QED BY <1>2, <2>1 DEF InTree
<1> QED BY <1>1, <1>2 DEF InTree

\* Carving c out of l puts c into the trees of l, and moves no other ledger.
LEMMA CarvedTree ==
  ASSUME BudgetTypeOK, FamilyTree, NEW c \in Unused, NEW l \in Ledgers, l # c,
         parent' = [parent EXCEPT ![c] = l], NEW root \in Roots
  PROVE  /\ \A x \in Ledgers \ {c} : InTree(x, root)' <=> InTree(x, root)
         /\ InTree(c, root)' <=> InTree(l, root)
<1> DEFINE Closed(S) == \A x \in S : parent[x] \in S \cup {NoLedger}
           ClosedNow(S) == \A x \in S : parent'[x] \in S \cup {NoLedger}
<1>0. /\ c \in Ledgers /\ parent[c] = NoLedger /\ root \in Ledgers /\ root # c
      /\ NoLedger \notin Ledgers /\ parent'[c] = l
      /\ \A x \in Ledgers : x # c => parent'[x] = parent[x]
      /\ \A x \in Ledgers : parent[x] # c
  BY BudgetAssumption DEF Unused, BudgetTypeOK, FamilyTree
<1>1. ASSUME NEW S \in SUBSET Ledgers, Closed(S) PROVE ClosedNow(S \ {c})
  BY <1>0, <1>1
<1>2. ASSUME NEW S \in SUBSET Ledgers, ClosedNow(S) PROVE Closed(S \ {c})
  BY <1>0, <1>2
<1>3. ASSUME NEW S \in SUBSET Ledgers, Closed(S), l \in S PROVE ClosedNow(S \cup {c})
  BY <1>0, <1>3
<1>4. ASSUME NEW S \in SUBSET Ledgers, ClosedNow(S), c \in S PROVE l \in S
  BY <1>0, <1>4
<1>d. \A x : /\ InTree(x, root) <=>
                  \A S \in SUBSET Ledgers : (x \in S /\ Closed(S)) => root \in S
             /\ InTree(x, root)' <=>
                  \A S \in SUBSET Ledgers : (x \in S /\ ClosedNow(S)) => root \in S
  BY DEF InTree
<1> HIDE DEF Closed, ClosedNow
<1>5. ASSUME NEW x \in Ledgers \ {c}, InTree(x, root) PROVE InTree(x, root)'
  <2>1. ASSUME NEW S \in SUBSET Ledgers, x \in S, ClosedNow(S) PROVE root \in S
    <3>1. S \ {c} \in SUBSET Ledgers /\ x \in S \ {c} /\ Closed(S \ {c})
      BY <1>2, <2>1
    <3>2. root \in S \ {c}
      BY <1>5, <1>d, <3>1
    <3> QED BY <3>2
  <2> QED BY <1>d, <2>1
<1>6. ASSUME NEW x \in Ledgers \ {c}, InTree(x, root)' PROVE InTree(x, root)
  <2>1. ASSUME NEW S \in SUBSET Ledgers, x \in S, Closed(S) PROVE root \in S
    <3>1. S \ {c} \in SUBSET Ledgers /\ x \in S \ {c} /\ ClosedNow(S \ {c})
      BY <1>1, <2>1
    <3>2. root \in S \ {c}
      BY <1>6, <1>d, <3>1
    <3> QED BY <3>2
  <2> QED BY <1>d, <2>1
<1>7. ASSUME InTree(l, root) PROVE InTree(c, root)'
  <2>1. ASSUME NEW S \in SUBSET Ledgers, c \in S, ClosedNow(S) PROVE root \in S
    <3>1. S \ {c} \in SUBSET Ledgers /\ l \in S \ {c} /\ Closed(S \ {c})
      BY <1>2, <1>4, <2>1
    <3>2. root \in S \ {c}
      BY <1>7, <1>d, <3>1
    <3> QED BY <3>2
  <2> QED BY <1>d, <2>1
<1>8. ASSUME InTree(c, root)' PROVE InTree(l, root)
  <2>1. ASSUME NEW S \in SUBSET Ledgers, l \in S, Closed(S) PROVE root \in S
    <3>1. S \cup {c} \in SUBSET Ledgers /\ c \in S \cup {c} /\ ClosedNow(S \cup {c})
      BY <1>0, <1>3, <2>1
    <3>2. root \in S \cup {c}
      BY <1>8, <1>d, <3>1
    <3> QED BY <1>0, <3>2
  <2> QED BY <1>d, <2>1
<1> QED BY <1>5, <1>6, <1>7, <1>8

-----------------------------------------------------------------------------
(* How the two sums react. *)

\* A new receipt adds its amount.
LEMMA AmountsInsert ==
  ASSUME NEW X \in SUBSET Receipt, IsFiniteSet(X), NEW r \in Receipt, r \notin X
  PROVE  Amounts(X \cup {r}) = Amounts(X) + r.amount
<1> DEFINE f == [s \in X \cup {r} |-> s.amount]
           g == [s \in X |-> s.amount]
<1>1. \A s \in Receipt : s.amount \in Int
  BY DEF Receipt, U64
<1>2. f \in [X \cup {r} -> Int] /\ g \in [X -> Int] /\ (\A s \in X : g[s] = f[s]) /\ f[r] = r.amount
  BY <1>1
<1>3. Amounts(X \cup {r}) = SumFunctionOnSet(f, X \cup {r}) /\ Amounts(X) = SumFunctionOnSet(g, X)
  BY DEF Amounts, SumFunction
<1> HIDE DEF f, g
<1>4. SumFunctionOnSet(f, X \cup {r}) = SumFunctionOnSet(g, X) + f[r]
  BY <1>2, SumInsert
<1> QED BY <1>2, <1>3, <1>4

\* Fewer receipts are worth no more.
LEMMA AmountsLess ==
  ASSUME NEW X \in SUBSET Receipt, IsFiniteSet(X), NEW Y \in SUBSET X
  PROVE  Amounts(X) \in Nat /\ Amounts(Y) \in Nat /\ Amounts(Y) <= Amounts(X)
<1> DEFINE f == [s \in X |-> s.amount]
           g == [s \in Y |-> s.amount]
<1>1. \A s \in Receipt : s.amount \in Nat
  BY DEF Receipt, U64
<1>2. f \in [X -> Nat] /\ g \in [Y -> Nat] /\ \A s \in Y : g[s] = f[s]
  BY <1>1
<1>3. Amounts(X) = SumFunctionOnSet(f, X) /\ Amounts(Y) = SumFunctionOnSet(g, Y)
  BY DEF Amounts, SumFunction
<1>4. IsFiniteSet(Y)
  BY FS_Subset
<1> HIDE DEF f, g
<1>5. SumFunctionOnSet(f, X) \in Nat /\ SumFunctionOnSet(g, Y) \in Nat
  BY <1>2, <1>4, SumNat
<1>6. SumFunctionOnSet(g, Y) <= SumFunctionOnSet(f, X)
  BY <1>2, SumMonotone
<1> QED BY <1>3, <1>5, <1>6

\* h and h2 differ at most at l; the sums differ by as much.
SameBut(h, h2, k, X, l) == \A q \in X : q # l => h2[q][k] = h[q][k]

Differs(h, h2, k, X, l) ==
  /\ Worth(h, k, X) \in Nat /\ Worth(h2, k, X) \in Nat
  /\ Worth(h2, k, X) = Worth(h, k, X) + (IF l \in X THEN h2[l][k] - h[l][k] ELSE 0)

\* A change of one ledger changes the sum by as much, if it is in the tree.
LEMMA WorthChanged ==
  ASSUME NEW h \in [Ledgers -> [Kinds -> U64]], NEW h2 \in [Ledgers -> [Kinds -> U64]],
         NEW k \in Kinds, NEW X \in SUBSET Ledgers, IsFiniteSet(X), NEW l \in Ledgers,
         SameBut(h, h2, k, X, l)
  PROVE  Differs(h, h2, k, X, l)
<1> DEFINE f == [q \in X |-> h[q][k]]
           g == [q \in X |-> h2[q][k]]
<1>1. f \in [X -> Nat] /\ g \in [X -> Nat] /\ f \in [X -> Int] /\ g \in [X -> Int]
  BY DEF U64
<1>2. Worth(h, k, X) = SumFunctionOnSet(f, X) /\ Worth(h2, k, X) = SumFunctionOnSet(g, X)
  BY DEF Worth, SumFunction
<1>3. \A q \in X : (q # l => f[q] = g[q])
  BY DEF SameBut
<1>4. l \in X => f[l] = h[l][k] /\ g[l] = h2[l][k]
  OBVIOUS
<1>5. l \notin X => f = g
  BY DEF SameBut
<1>6. h[l][k] \in Nat /\ h2[l][k] \in Nat
  BY DEF U64
<1> HIDE DEF f, g
<1>7. SumFunctionOnSet(f, X) \in Nat /\ SumFunctionOnSet(g, X) \in Nat
  BY <1>1, SumNat
<1>8. ASSUME l \in X
      PROVE  SumFunctionOnSet(g, X) = SumFunctionOnSet(f, X) - f[l] + g[l]
  <2>1. /\ IsFiniteSet(X) /\ f \in [X -> Int] /\ g \in [X -> Int] /\ l \in X
        /\ \A j \in X : j # l => f[j] = g[j]
    BY <1>1, <1>3, <1>8
  <2> QED BY ONLY <2>1, SumChanged, Zenon
<1> QED BY <1>2, <1>4, <1>5, <1>6, <1>7, <1>8 DEF Differs

\* A new member adds what it holds.
LEMMA WorthInsert ==
  ASSUME NEW h \in [Ledgers -> [Kinds -> U64]], NEW k \in Kinds,
         NEW X \in SUBSET Ledgers, IsFiniteSet(X), NEW c \in Ledgers, c \notin X
  PROVE  Worth(h, k, X \cup {c}) = Worth(h, k, X) + h[c][k]
<1> DEFINE f == [q \in X \cup {c} |-> h[q][k]]
           g == [q \in X |-> h[q][k]]
<1>1. f \in [X \cup {c} -> Int] /\ g \in [X -> Int]
  BY DEF U64
<1>2. Worth(h, k, X \cup {c}) = SumFunctionOnSet(f, X \cup {c}) /\ Worth(h, k, X) = SumFunctionOnSet(g, X)
  BY DEF Worth, SumFunction
<1>3. (\A q \in X : g[q] = f[q]) /\ f[c] = h[c][k]
  OBVIOUS
<1> HIDE DEF f, g
<1>4. SumFunctionOnSet(f, X \cup {c}) = SumFunctionOnSet(g, X) + f[c]
  <2>1. f \in [X \cup {c} -> Int] /\ g \in [X -> Int] /\ \A q \in X : g[q] = f[q]
    BY <1>1, <1>3
  <2> QED BY <2>1, SumInsert, Zenon
<1> QED BY <1>2, <1>3, <1>4

\* Fewer ledgers hold no more.
LEMMA WorthLess ==
  ASSUME NEW h \in [Ledgers -> [Kinds -> U64]], NEW k \in Kinds,
         NEW X \in SUBSET Ledgers, IsFiniteSet(X), NEW Y \in SUBSET X
  PROVE  Worth(h, k, Y) \in Nat /\ Worth(h, k, X) \in Nat /\ Worth(h, k, Y) <= Worth(h, k, X)
<1> DEFINE f == [q \in X |-> h[q][k]]
           g == [q \in Y |-> h[q][k]]
<1>1. f \in [X -> Nat] /\ g \in [Y -> Nat] /\ \A q \in Y : g[q] = f[q]
  BY DEF U64
<1>2. Worth(h, k, X) = SumFunctionOnSet(f, X) /\ Worth(h, k, Y) = SumFunctionOnSet(g, Y)
  BY DEF Worth, SumFunction
<1>3. IsFiniteSet(Y)
  BY FS_Subset
<1> HIDE DEF f, g
<1>4. SumFunctionOnSet(f, X) \in Nat /\ SumFunctionOnSet(g, Y) \in Nat
  BY <1>1, <1>3, SumNat
<1>5. SumFunctionOnSet(g, Y) <= SumFunctionOnSet(f, X)
  BY <1>1, SumMonotone
<1> QED BY <1>2, <1>4, <1>5

\* The sums of TreeBound are over finite sets of ledgers and of receipts.
SumsFinite(root, k) ==
  /\ Tree(root) \in SUBSET Ledgers /\ IsFiniteSet(Tree(root))
  /\ Refundable(root, k) \in SUBSET Receipt /\ IsFiniteSet(Refundable(root, k))
  /\ Unspent(root, k) = Worth(remaining, k, Tree(root)) /\ Unspent(root, k) \in Nat
  /\ Returnable(root, k) = Amounts(Refundable(root, k)) /\ Returnable(root, k) \in Nat

AllSumsFinite == \A root \in Roots, k \in Kinds : SumsFinite(root, k)

\* Finite trees and finitely many receipts have natural sums.
LEMMA FiniteSums == BudgetTypeOK /\ TreesFinite => AllSumsFinite
<1> SUFFICES ASSUME BudgetTypeOK, TreesFinite, NEW root \in Roots, NEW k \in Kinds
             PROVE  SumsFinite(root, k)
  BY DEF AllSumsFinite
<1>1. Tree(root) \in SUBSET Ledgers /\ IsFiniteSet(Tree(root))
  BY DEF Tree, BudgetTypeOK, TreesFinite
<1>2. Refundable(root, k) \in SUBSET Receipt /\ IsFiniteSet(Refundable(root, k))
  <2>1. Refundable(root, k) \subseteq receipts
    BY DEF Refundable
  <2> QED BY <2>1, FS_Subset DEF BudgetTypeOK, TreesFinite
<1>3. Unspent(root, k) = Worth(remaining, k, Tree(root))
  BY DEF Unspent, Worth
<1>4. Returnable(root, k) = Amounts(Refundable(root, k))
  BY DEF Returnable, Amounts
<1>5. Worth(remaining, k, Tree(root)) \in Nat
  <2>1. remaining \in [Ledgers -> [Kinds -> U64]] /\ Tree(root) \in SUBSET Tree(root)
    BY DEF BudgetTypeOK
  <2> QED BY <1>1, <2>1, WorthLess
<1>6. Amounts(Refundable(root, k)) \in Nat
  BY <1>2, AmountsLess
<1> QED BY <1>1, <1>2, <1>3, <1>4, <1>5, <1>6 DEF SumsFinite

\* Both before and after a step.
LEMMA BothFinite ==
  ASSUME IInv, TreeInv, IInv', TreesFinite', NEW root \in Roots, NEW k \in Kinds
  PROVE  SumsFinite(root, k) /\ SumsFinite(root, k)'
<1>1. SumsFinite(root, k)
  BY FiniteSums DEF IInv, TreeInv, AllSumsFinite
<1>2. (BudgetTypeOK /\ TreesFinite => AllSumsFinite)'
  BY FiniteSums, PTL
<1>3. SumsFinite(root, k)'
  BY <1>2 DEF IInv, AllSumsFinite
<1> QED BY <1>1, <1>3

\* It suffices that no step lets the sum grow.
LEMMA BoundKept ==
  ASSUME IInv, TreeInv, IInv', TreesFinite',
         \A root \in Roots, k \in Kinds :
            Unspent(root, k)' + Returnable(root, k)' <= Unspent(root, k) + Returnable(root, k)
  PROVE  TreeBound'
<1> SUFFICES ASSUME NEW root \in Roots, NEW k \in Kinds
             PROVE  Unspent(root, k)' + Returnable(root, k)' <= Limits[root][k]
  BY DEF TreeBound
<1> DEFINE u == Unspent(root, k)
           v == Returnable(root, k)
           u2 == Unspent(root, k)'
           v2 == Returnable(root, k)'
<1>1. u \in Nat /\ v \in Nat /\ u2 \in Nat /\ v2 \in Nat
  BY BothFinite DEF SumsFinite
<1>4. u + v <= Limits[root][k] /\ u2 + v2 <= u + v
  BY DEF TreeInv, TreeBound
<1>5. Limits[root][k] \in Nat
  BY BudgetAssumption DEF U64
<1> HIDE DEF u, v, u2, v2
<1>6. u2 + v2 <= Limits[root][k]
  BY <1>1, <1>4, <1>5
<1> QED BY <1>6 DEF u2, v2

\* A step that only forgets ledgers or receipts.
LEMMA ForgetTree ==
  ASSUME IInv, TreeInv, IInv', UNCHANGED <<remaining, parent>>,
         live' \subseteq live, receipts' \subseteq receipts
  PROVE  TreeInv'
<1>1. \A root \in Roots : Tree(root)' \subseteq Tree(root)
  BY DEF Tree, InTree
<1>2. \A root \in Roots, k \in Kinds : Refundable(root, k)' \subseteq Refundable(root, k)
  BY <1>1 DEF Refundable
<1>3. TreesFinite'
  BY <1>1, FS_Subset DEF TreeInv, TreesFinite
<1>4. FamilyTree'
  BY DEF TreeInv, FamilyTree, Unused
<1>5. ASSUME NEW root \in Roots, NEW k \in Kinds
      PROVE  Unspent(root, k)' + Returnable(root, k)' <= Unspent(root, k) + Returnable(root, k)
  <2>1. SumsFinite(root, k) /\ SumsFinite(root, k)'
    BY <1>3, BothFinite
  <2> DEFINE X == Tree(root)
             Y == Tree(root)'
             R == Refundable(root, k)
             Q == Refundable(root, k)'
  <2>4. X \in SUBSET Ledgers /\ IsFiniteSet(X) /\ Y \in SUBSET X
        /\ R \in SUBSET Receipt /\ IsFiniteSet(R) /\ Q \in SUBSET R
        /\ remaining \in [Ledgers -> [Kinds -> U64]]
    BY <1>1, <1>2, <2>1 DEF SumsFinite, IInv, BudgetTypeOK
  <2>5. /\ Unspent(root, k) = Worth(remaining, k, X) /\ Returnable(root, k) = Amounts(R)
        /\ Unspent(root, k)' = Worth(remaining, k, Y) /\ Returnable(root, k)' = Amounts(Q)
    BY <2>1 DEF SumsFinite
  <2> HIDE DEF X, Y, R, Q
  <2>6. /\ Worth(remaining, k, X) \in Nat /\ Worth(remaining, k, Y) \in Nat
        /\ Worth(remaining, k, Y) <= Worth(remaining, k, X)
    BY <2>4, WorthLess
  <2>7. Amounts(R) \in Nat /\ Amounts(Q) \in Nat /\ Amounts(Q) <= Amounts(R)
    BY <2>4, AmountsLess
  <2>8. Worth(remaining, k, Y) + Amounts(Q) <= Worth(remaining, k, X) + Amounts(R)
    BY <2>6, <2>7
  <2> QED BY <2>5, <2>8
<1>6. TreeBound'
  BY <1>3, <1>5, BoundKept
<1> QED BY <1>3, <1>4, <1>6 DEF TreeInv
\* While no ledger comes or goes the trees are what they were.
LEMMA SameTrees ==
  ASSUME UNCHANGED <<live, parent>>
  PROVE  Unused' = Unused /\ \A root : Tree(root)' = Tree(root)
BY DEF Unused, Tree, InTree

\* A charge: what leaves the ledger is in the receipt.
LEMMA ChargeTree ==
  ASSUME IInv, TreeInv, IInv', NEW l \in Ledgers, NEW kind \in Kinds, NEW amount \in U64,
         Charge(l, kind, amount)
  PROVE  TreeInv'
<1> DEFINE r == [of |-> l, kind |-> kind, amount |-> amount, seq |-> Slot(l)]
<1>1. /\ Open(l) /\ Subtract(l, Only(kind, amount)) /\ amount <= remaining[l][kind]
      /\ receipts' = receipts \cup {r} /\ UNCHANGED <<live, parent>>
  BY DEF Charge, family
<1>2. r.of = l /\ r.kind = kind /\ r.amount = amount /\ r.seq = Slot(l) /\ r \in receipts'
  BY <1>1
<1>r. r \in Receipt
  BY <1>2 DEF IInv, BudgetTypeOK
<1>3. r \notin receipts
  <2>1. sequence[l] \in Nat
    BY BudgetAssumption DEF IInv, BudgetTypeOK, Slots
  <2>2. \A s \in receipts : s.seq <= sequence[s.of]
    BY DEF IInv, Audited, ClaimsCovered
  <2> QED BY <1>2, <2>1, <2>2 DEF Slot
<1>4. l \in live /\ l \notin Unused
  BY <1>1 DEF Open, IInv, FamilyOK
<1> HIDE DEF r
<1>5. Unused' = Unused /\ \A root : Tree(root)' = Tree(root)
  BY <1>1, SameTrees
<1>6. FamilyTree'
  BY <1>1, <1>2, <1>4, <1>5 DEF TreeInv, FamilyTree
<1>7. TreesFinite'
  BY <1>1, <1>5, FS_AddElement DEF TreeInv, TreesFinite
<1>8. ASSUME NEW root \in Roots, NEW k \in Kinds
      PROVE  Unspent(root, k)' + Returnable(root, k)' <= Unspent(root, k) + Returnable(root, k)
  <2>1. SumsFinite(root, k) /\ SumsFinite(root, k)'
    BY <1>7, BothFinite
  <2> DEFINE X == Tree(root)
             R == Refundable(root, k)
             h == remaining
             h2 == remaining'
  <2>2. /\ X \in SUBSET Ledgers /\ IsFiniteSet(X) /\ R \in SUBSET Receipt /\ IsFiniteSet(R)
        /\ h \in [Ledgers -> [Kinds -> U64]] /\ h2 \in [Ledgers -> [Kinds -> U64]]
    BY <2>1 DEF SumsFinite, IInv, BudgetTypeOK
  <2>3. Refundable(root, k)' = IF l \in X /\ k = kind THEN R \cup {r} ELSE R
    BY <1>1, <1>2, <1>5 DEF Refundable
  <2>4. r \notin R
    BY <1>3 DEF Refundable
  <2>5. /\ Unspent(root, k) = Worth(h, k, X) /\ Returnable(root, k) = Amounts(R)
        /\ Unspent(root, k)' = Worth(h2, k, X)
        /\ Returnable(root, k)' = Amounts(IF l \in X /\ k = kind THEN R \cup {r} ELSE R)
    BY <1>5, <2>1, <2>3 DEF SumsFinite
  <2>6. /\ \A q \in X : q # l => h2[q][k] = h[q][k]
        /\ h2[l][k] = h[l][k] - IF k = kind THEN amount ELSE 0
        /\ h[l][k] \in Nat /\ amount \in Nat
    BY <1>1, <2>2 DEF Subtract, Only, U64
  <2> HIDE DEF X, R, h, h2
  <2>7. /\ Worth(h, k, X) \in Nat
        /\ Worth(h2, k, X) = Worth(h, k, X) + (IF l \in X THEN h2[l][k] - h[l][k] ELSE 0)
    <3>1. SameBut(h, h2, k, X, l)
      BY <2>6 DEF SameBut
    <3>2. Differs(h, h2, k, X, l)
      BY <2>2, <3>1, WorthChanged
    <3> QED BY <3>2 DEF Differs
  <2>8. Amounts(R) \in Nat /\ Amounts(R \cup {r}) = Amounts(R) + amount
    <3>1. Amounts(R \cup {r}) = Amounts(R) + r.amount
      BY <1>r, <2>2, <2>4, AmountsInsert
    <3>2. Amounts(R) \in Nat
      BY <2>2, AmountsLess
    <3> QED BY <1>2, <3>1, <3>2
  <2>9. Worth(h2, k, X) + Amounts(IF l \in X /\ k = kind THEN R \cup {r} ELSE R)
          <= Worth(h, k, X) + Amounts(R)
    <3>1. CASE l \in X /\ k = kind
      BY <2>6, <2>7, <2>8, <3>1
    <3>2. CASE ~ (l \in X /\ k = kind)
      BY <2>6, <2>7, <2>8, <3>2
    <3> QED BY <3>1, <3>2
  <2> QED BY <2>5, <2>9
<1>9. TreeBound'
  BY <1>7, <1>8, BoundKept
<1> QED BY <1>6, <1>7, <1>9 DEF TreeInv

\* A batch is gone for good.
LEMMA BatchTree ==
  ASSUME IInv, TreeInv, IInv', NEW l \in Ledgers, NEW amounts \in [Kinds -> Nat],
         Subtract(l, amounts), UNCHANGED <<live, parent, receipts>>
  PROVE  TreeInv'
<1>5. Unused' = Unused /\ \A root : Tree(root)' = Tree(root)
  BY SameTrees
<1>6. FamilyTree'
  BY <1>5 DEF TreeInv, FamilyTree
<1>7. TreesFinite'
  BY <1>5 DEF TreeInv, TreesFinite
<1>8. ASSUME NEW root \in Roots, NEW k \in Kinds
      PROVE  Unspent(root, k)' + Returnable(root, k)' <= Unspent(root, k) + Returnable(root, k)
  <2>1. SumsFinite(root, k) /\ SumsFinite(root, k)'
    BY <1>7, BothFinite
  <2> DEFINE X == Tree(root)
             h == remaining
             h2 == remaining'
             v == Returnable(root, k)
  <2>2. /\ X \in SUBSET Ledgers /\ IsFiniteSet(X) /\ v \in Nat
        /\ h \in [Ledgers -> [Kinds -> U64]] /\ h2 \in [Ledgers -> [Kinds -> U64]]
    BY <2>1 DEF SumsFinite, IInv, BudgetTypeOK
  <2>3. Refundable(root, k)' = Refundable(root, k)
    BY <1>5 DEF Refundable
  <2>5. /\ Unspent(root, k) = Worth(h, k, X) /\ Unspent(root, k)' = Worth(h2, k, X)
        /\ Returnable(root, k)' = v
    BY <1>5, <2>1, <2>3 DEF SumsFinite
  <2>6. /\ \A q \in X : q # l => h2[q][k] = h[q][k]
        /\ h2[l][k] = h[l][k] - amounts[k] /\ h[l][k] \in Nat /\ amounts[k] \in Nat
    BY <2>2 DEF Subtract, U64
  <2>v. v = Returnable(root, k)
    OBVIOUS
  <2> HIDE DEF X, h, h2, v
  <2>7. /\ Worth(h, k, X) \in Nat
        /\ Worth(h2, k, X) = Worth(h, k, X) + (IF l \in X THEN h2[l][k] - h[l][k] ELSE 0)
    <3>1. SameBut(h, h2, k, X, l)
      BY <2>6 DEF SameBut
    <3>2. Differs(h, h2, k, X, l)
      BY <2>2, <3>1, WorthChanged
    <3> QED BY <3>2 DEF Differs
  <2>9. Worth(h2, k, X) + v <= Worth(h, k, X) + v
    BY <2>2, <2>6, <2>7
  <2> QED BY <2>5, <2>9, <2>v
<1>9. TreeBound'
  BY <1>7, <1>8, BoundKept
<1> QED BY <1>6, <1>7, <1>9 DEF TreeInv

\* A refund: the receipt goes as its amount comes back, and it fits.
LEMMA RefundTree ==
  ASSUME IInv, TreeInv, IInv', NEW l \in Ledgers, NEW r \in receipts, Refund(l, r)
  PROVE  TreeInv'
<1>1. /\ r.of = l /\ Add(l, Only(r.kind, r.amount))
      /\ receipts' = receipts \ {r} /\ UNCHANGED <<live, parent>>
  BY DEF Refund, family
<1>2. /\ r.kind \in Kinds /\ r.amount \in U64 /\ r \in Receipt
      /\ remaining[l][r.kind] + r.amount <= granted[l][r.kind]
  BY <1>1, ReceiptFits DEF IInv, BudgetTypeOK
<1>5. Unused' = Unused /\ \A root : Tree(root)' = Tree(root)
  BY <1>1, SameTrees
<1>6. FamilyTree'
  BY <1>1, <1>5 DEF TreeInv, FamilyTree
<1>7. TreesFinite'
  BY <1>1, <1>5, FS_Subset DEF TreeInv, TreesFinite
<1>8. ASSUME NEW root \in Roots, NEW k \in Kinds
      PROVE  Unspent(root, k)' + Returnable(root, k)' <= Unspent(root, k) + Returnable(root, k)
  <2>1. SumsFinite(root, k) /\ SumsFinite(root, k)'
    BY <1>7, BothFinite
  <2> DEFINE X == Tree(root)
             R == Refundable(root, k)
             Q == R \ {r}
             h == remaining
             h2 == remaining'
             back == l \in X /\ k = r.kind
  <2>2. /\ X \in SUBSET Ledgers /\ IsFiniteSet(X) /\ R \in SUBSET Receipt /\ IsFiniteSet(R)
        /\ h \in [Ledgers -> [Kinds -> U64]] /\ h2 \in [Ledgers -> [Kinds -> U64]]
    BY <2>1 DEF SumsFinite, IInv, BudgetTypeOK
  <2>3. Refundable(root, k)' = Q
    BY <1>1, <1>5 DEF Refundable
  <2>4. r \in R <=> back
    BY <1>1 DEF Refundable
  <2>5. /\ Unspent(root, k) = Worth(h, k, X) /\ Returnable(root, k) = Amounts(R)
        /\ Unspent(root, k)' = Worth(h2, k, X) /\ Returnable(root, k)' = Amounts(Q)
    BY <1>5, <2>1, <2>3 DEF SumsFinite
  <2>6. /\ \A q \in X : q # l => h2[q][k] = h[q][k]
        /\ h2[l][k] = h[l][k] + (IF k = r.kind THEN r.amount ELSE 0)
        /\ h[l][k] \in Nat /\ r.amount \in Nat
    <3>1. \A q \in X : q # l => h2[q][k] = h[q][k]
      BY <1>1, <2>2 DEF Add
    <3>2. h2[l][k] = (h[l][k] + Only(r.kind, r.amount)[k]) % (MaxU64 + 1)
      BY <1>1, <2>2 DEF Add
    <3>3. Only(r.kind, r.amount)[k] = IF k = r.kind THEN r.amount ELSE 0
      BY DEF Only
    <3>4. granted[l][k] \in U64 /\ h[l][k] \in U64 /\ r.amount \in U64 /\ MaxU64 \in Nat
      BY <1>2, <2>2, BudgetAssumption DEF IInv, BudgetTypeOK
    <3> DEFINE sum == h[l][k] + IF k = r.kind THEN r.amount ELSE 0
    <3>5. sum \in 0..MaxU64
      <4>1. CASE k = r.kind
        BY <1>2, <3>4, <4>1 DEF U64
      <4>2. CASE k # r.kind
        BY <3>4, <4>2 DEF U64
      <4> QED BY <4>1, <4>2
    <3>6. sum % (MaxU64 + 1) = sum
      BY <3>4, <3>5, NoWrap
    <3>7. h2[l][k] = sum
      BY <3>2, <3>3, <3>6
    <3> QED BY <3>1, <3>4, <3>7 DEF U64
  <2>q. Q = R \ {r}
    OBVIOUS
  <2>b. back <=> l \in X /\ k = r.kind
    OBVIOUS
  <2> HIDE DEF X, R, h, h2, Q, back
  <2>7. /\ Worth(h, k, X) \in Nat
        /\ Worth(h2, k, X) = Worth(h, k, X) + (IF l \in X THEN h2[l][k] - h[l][k] ELSE 0)
    <3>1. SameBut(h, h2, k, X, l)
      BY <2>6 DEF SameBut
    <3>2. Differs(h, h2, k, X, l)
      BY <2>2, <3>1, WorthChanged
    <3> QED BY <3>2 DEF Differs
  <2>8. /\ Amounts(Q) \in Nat /\ Amounts(R) \in Nat /\ Amounts(Q) <= Amounts(R)
        /\ back => Amounts(R) = Amounts(Q) + r.amount
    <3>1. Amounts(Q) \in Nat /\ Amounts(R) \in Nat /\ Amounts(Q) <= Amounts(R)
      BY <2>2, <2>q, AmountsLess
    <3>2. ASSUME back PROVE Amounts(R) = Amounts(Q) + r.amount
      <4>1. Q \in SUBSET Receipt /\ IsFiniteSet(Q) /\ r \notin Q /\ Q \cup {r} = R
        BY <2>2, <2>4, <2>q, <3>2, FS_Subset
      <4>2. Amounts(Q \cup {r}) = Amounts(Q) + r.amount
        BY <1>2, <4>1, AmountsInsert
      <4> QED BY <4>1, <4>2
    <3> QED BY <3>1, <3>2
  <2>9. Worth(h2, k, X) + Amounts(Q) <= Worth(h, k, X) + Amounts(R)
    <3>1. CASE back
      BY <2>6, <2>7, <2>8, <2>b, <3>1
    <3>2. CASE ~ back
      BY <2>6, <2>7, <2>8, <2>b, <3>2
    <3> QED BY <3>1, <3>2
  <2> QED BY <2>5, <2>9
<1>9. TreeBound'
  BY <1>7, <1>8, BoundKept
<1> QED BY <1>6, <1>7, <1>9 DEF TreeInv
\* A merge: the child leaves the tree it shares with its parent, which gets no
\* more than the child had.
LEMMA MergeTree ==
  ASSUME IInv, TreeInv, IInv', NEW l \in Ledgers, NEW c \in Ledgers, MergeChild(l, c)
  PROVE  TreeInv'
<1> DEFINE back == [k \in Kinds |-> IF k = Pool THEN 0 ELSE remaining[c][k]]
<1>1. /\ l \in live /\ c \in live /\ parent[c] = l /\ Add(l, back) /\ live' = live \ {c}
      /\ parent' = parent /\ receipts' = receipts
  BY DEF MergeChild, Open
<1>2. l # c /\ parent[c] # NoLedger
  BY <1>1, BudgetAssumption DEF TreeInv, FamilyTree
<1>3. \A root \in Roots : InTree(c, root) <=> InTree(l, root)
  BY <1>1, ChildInTree DEF IInv
<1>4. /\ \A root \in Roots : Tree(root)' = Tree(root) \ {c}
      /\ \A root \in Roots : c \in Tree(root) <=> l \in Tree(root)
  BY <1>1, <1>3 DEF Tree, InTree
<1>5. \A root \in Roots, k \in Kinds : Refundable(root, k)' \subseteq Refundable(root, k)
  BY <1>1, <1>4 DEF Refundable
<1>6. FamilyTree'
  BY <1>1 DEF TreeInv, FamilyTree, Unused
<1>7. TreesFinite'
  BY <1>1, <1>4, FS_Subset DEF TreeInv, TreesFinite
<1>8. ASSUME NEW root \in Roots, NEW k \in Kinds
      PROVE  Unspent(root, k)' + Returnable(root, k)' <= Unspent(root, k) + Returnable(root, k)
  <2>1. SumsFinite(root, k) /\ SumsFinite(root, k)'
    BY <1>7, BothFinite
  <2> DEFINE X == Tree(root)
             Y == X \ {c}
             R == Refundable(root, k)
             Q == Refundable(root, k)'
             h == remaining
             h2 == remaining'
  <2>2. /\ X \in SUBSET Ledgers /\ IsFiniteSet(X) /\ R \in SUBSET Receipt /\ IsFiniteSet(R)
        /\ h \in [Ledgers -> [Kinds -> U64]] /\ h2 \in [Ledgers -> [Kinds -> U64]]
        /\ Q \in SUBSET R
    BY <1>5, <2>1 DEF SumsFinite, IInv, BudgetTypeOK
  <2>3. Y \in SUBSET Ledgers /\ IsFiniteSet(Y) /\ Y \in SUBSET X
    BY <2>2, FS_Subset
  <2>5. /\ Unspent(root, k) = Worth(h, k, X) /\ Returnable(root, k) = Amounts(R)
        /\ Unspent(root, k)' = Worth(h2, k, Y) /\ Returnable(root, k)' = Amounts(Q)
    BY <1>4, <2>1 DEF SumsFinite
  <2>6. /\ SameBut(h, h2, k, Y, l)
        /\ h2[l][k] = h[l][k] + back[k] /\ h[l][k] \in Nat
        /\ back[k] \in Nat /\ h[c][k] \in Nat /\ back[k] <= h[c][k]
    <3>1. SameBut(h, h2, k, Y, l)
      BY <1>1, <2>2 DEF Add, SameBut
    <3>2. h2[l][k] = (h[l][k] + back[k]) % (MaxU64 + 1)
      BY <1>1, <2>2 DEF Add
    <3>3. h[l][k] + h[c][k] <= granted[l][k]
      BY <1>1, <1>2, ChildFits DEF IInv
    <3>4. granted[l][k] \in U64 /\ h[l][k] \in U64 /\ h[c][k] \in U64 /\ MaxU64 \in Nat
      BY <2>2, BudgetAssumption DEF IInv, BudgetTypeOK
    <3>5. back[k] \in Nat /\ back[k] <= h[c][k]
      BY <3>4 DEF U64
    <3> DEFINE sum == h[l][k] + back[k]
    <3> HIDE DEF back
    <3>6. sum \in 0..MaxU64
      BY <3>3, <3>4, <3>5 DEF U64
    <3>7. sum % (MaxU64 + 1) = sum
      BY <3>4, <3>6, NoWrap
    <3>8. h2[l][k] = sum
      BY <3>2, <3>7
    <3> QED BY <3>1, <3>4, <3>5, <3>8 DEF U64
  <2>7. c \in X <=> l \in X
    BY <1>4
  <2>8. Y = X \ {c}
    OBVIOUS
  <2> DEFINE a == back[k]
  <2>a. a = back[k]
    OBVIOUS
  <2> HIDE DEF X, Y, R, Q, h, h2, back, a
  <2>9. Differs(h, h2, k, Y, l)
    BY <2>2, <2>3, <2>6, WorthChanged
  <2>10. Amounts(R) \in Nat /\ Amounts(Q) \in Nat /\ Amounts(Q) <= Amounts(R)
    BY <2>2, AmountsLess
  <2>11. Worth(h2, k, Y) <= Worth(h, k, X) /\ Worth(h2, k, Y) \in Nat /\ Worth(h, k, X) \in Nat
    <3>1. Worth(h, k, Y) \in Nat /\ Worth(h, k, X) \in Nat /\ Worth(h, k, Y) <= Worth(h, k, X)
      BY <2>2, <2>3, WorthLess
    <3>2. CASE c \in X
      <4>1. Y \cup {c} = X /\ c \notin Y /\ l \in Y
        BY <1>2, <2>7, <2>8, <3>2
      <4>2. Worth(h, k, Y \cup {c}) = Worth(h, k, Y) + h[c][k]
        BY <2>2, <2>3, <4>1, WorthInsert
      <4>3. Worth(h2, k, Y) = Worth(h, k, Y) + (h2[l][k] - h[l][k]) /\ Worth(h2, k, Y) \in Nat
        BY <2>9, <4>1 DEF Differs
      <4>4. Worth(h, k, X) = Worth(h, k, Y) + h[c][k]
        BY <4>1, <4>2
      <4> QED BY <2>6, <3>1, <4>3, <4>4
    <3>3. CASE c \notin X
      <4>1. l \notin Y
        BY <2>7, <2>8, <3>3
      <4> QED BY <2>9, <3>1, <4>1 DEF Differs
    <3> QED BY <3>2, <3>3
  <2>12. Worth(h2, k, Y) + Amounts(Q) <= Worth(h, k, X) + Amounts(R)
    BY <2>10, <2>11
  <2> QED BY <2>5, <2>12
<1>9. TreeBound'
  BY <1>7, <1>8, BoundKept
<1> QED BY <1>6, <1>7, <1>9 DEF TreeInv

\* A reservation moves the caps within the tree.
LEMMA CarveTree ==
  ASSUME IInv, TreeInv, IInv', NEW l \in Ledgers, NEW c \in Ledgers, NEW caps \in [Kinds -> U64],
         Carve(l, c, caps)
  PROVE  TreeInv'
<1>1. /\ l \in live /\ c \in Unused /\ live' = live \cup {c} /\ parent' = [parent EXCEPT ![c] = l]
      /\ remaining' = [remaining EXCEPT ![l] = [k \in Kinds |-> @[k] - caps[k]], ![c] = caps]
      /\ receipts' = receipts
  BY DEF Carve, Open
<1>2. l \notin Unused /\ c \notin live /\ l # c /\ c \notin Roots
  BY <1>1 DEF IInv, FamilyOK, Unused
<1>3. \A root \in Roots :
         /\ \A x \in Ledgers \ {c} : InTree(x, root)' <=> InTree(x, root)
         /\ InTree(c, root)' <=> InTree(l, root)
  BY <1>1, <1>2, CarvedTree DEF IInv, TreeInv
<1>4. /\ \A root \in Roots : Tree(root)' = IF l \in Tree(root) THEN Tree(root) \cup {c} ELSE Tree(root)
      /\ \A root \in Roots : c \notin Tree(root)
  <2>1. live \subseteq Ledgers
    BY DEF IInv, BudgetTypeOK
  <2> QED BY <1>1, <1>2, <1>3, <2>1 DEF Tree
<1>5. \A root \in Roots, k \in Kinds : Refundable(root, k)' = Refundable(root, k)
  BY <1>1, <1>4 DEF Refundable, TreeInv, FamilyTree
<1>6. FamilyTree'
  <2>1. /\ Unused' \subseteq Unused /\ parent'[c] = l
        /\ \A x \in Ledgers : x # c => parent'[x] = parent[x]
    BY <1>1, <1>2, BudgetAssumption DEF Unused, IInv, BudgetTypeOK
  <2> QED BY <1>1, <1>2, <2>1 DEF TreeInv, FamilyTree
<1>7. TreesFinite'
  <2>1. \A root \in Roots : IsFiniteSet(Tree(root))'
    BY <1>4, FS_AddElement DEF TreeInv, TreesFinite
  <2> QED BY <1>1, <2>1 DEF TreeInv, TreesFinite
<1>8. ASSUME NEW root \in Roots, NEW k \in Kinds
      PROVE  Unspent(root, k)' + Returnable(root, k)' <= Unspent(root, k) + Returnable(root, k)
  <2>1. SumsFinite(root, k) /\ SumsFinite(root, k)'
    BY <1>7, BothFinite
  <2> DEFINE X == Tree(root)
             Y == IF l \in X THEN X \cup {c} ELSE X
             h == remaining
             h2 == remaining'
             v == Returnable(root, k)
  <2>2. /\ X \in SUBSET Ledgers /\ IsFiniteSet(X) /\ v \in Nat
        /\ h \in [Ledgers -> [Kinds -> U64]] /\ h2 \in [Ledgers -> [Kinds -> U64]]
    BY <2>1 DEF SumsFinite, IInv, BudgetTypeOK
  <2>3. c \notin X
    BY <1>4
  <2>5. /\ Unspent(root, k) = Worth(h, k, X) /\ Unspent(root, k)' = Worth(h2, k, Y)
        /\ Returnable(root, k)' = v
    BY <1>4, <1>5, <2>1 DEF SumsFinite
  <2>6. /\ SameBut(h, h2, k, X, l)
        /\ h2[l][k] = h[l][k] - caps[k] /\ h[l][k] \in Nat
        /\ h2[c][k] = caps[k] /\ caps[k] \in Nat
    BY <1>1, <1>2, <2>2, <2>3 DEF SameBut, U64
  <2>y. Y = IF l \in X THEN X \cup {c} ELSE X
    OBVIOUS
  <2>v. v = Returnable(root, k)
    OBVIOUS
  <2> HIDE DEF X, Y, h, h2, v
  <2>7. Differs(h, h2, k, X, l)
    BY <2>2, <2>6, WorthChanged
  <2>8. Worth(h2, k, X \cup {c}) = Worth(h2, k, X) + h2[c][k]
    BY <2>2, <2>3, WorthInsert
  <2>9. Worth(h2, k, Y) = Worth(h, k, X) /\ Worth(h, k, X) \in Nat
    <3>1. CASE l \in X
      <4>1. Worth(h2, k, Y) = Worth(h2, k, X) + h2[c][k]
        BY <2>8, <2>y, <3>1
      <4>2. /\ Worth(h2, k, X) = Worth(h, k, X) + (h2[l][k] - h[l][k])
            /\ Worth(h2, k, X) \in Nat /\ Worth(h, k, X) \in Nat
        BY <2>7, <3>1 DEF Differs
      <4> QED BY <2>6, <4>1, <4>2
    <3>2. CASE l \notin X
      BY <2>7, <2>y, <3>2 DEF Differs
    <3> QED BY <3>1, <3>2
  <2>10. Worth(h2, k, Y) + v <= Worth(h, k, X) + v
    BY <2>2, <2>9
  <2> QED BY <2>5, <2>10, <2>v
<1>9. TreeBound'
  BY <1>7, <1>8, BoundKept
<1> QED BY <1>6, <1>7, <1>9 DEF TreeInv

\* Every operation of a ledger preserves the invariant of the trees.
LEMMA NextTree == IInv /\ TreeInv /\ [BudgetNext]_budgetVars => TreeInv'
<1> SUFFICES ASSUME IInv, TreeInv, [BudgetNext]_budgetVars PROVE TreeInv'
  OBVIOUS
<1>0. IInv'
  BY NextIInv
<1>1. ASSUME NEW l \in Ledgers, VerifierLease(l) \/ LoseLedger(l) PROVE TreeInv'
  BY <1>0, <1>1, ForgetTree DEF VerifierLease, LoseLedger, counters, family
<1>2. ASSUME NEW l \in Ledgers, NEW kind \in Kinds, NEW amount \in U64, Charge(l, kind, amount)
      PROVE  TreeInv'
  BY <1>0, <1>2, ChargeTree
<1>3. ASSUME NEW l \in Ledgers, NEW first \in [Dims -> U64], NEW second \in [Dims -> U64],
             TryChargeBatch(l, first, second)
      PROVE  TreeInv'
  <2> DEFINE amounts == Requested(first, second)
  <2>1. amounts \in [Kinds -> Nat]
    BY DEF Requested, U64, Kinds
  <2>2. Subtract(l, amounts) /\ UNCHANGED <<live, parent, receipts>>
    BY <1>3 DEF TryChargeBatch, family
  <2> HIDE DEF amounts
  <2> QED BY <1>0, <2>1, <2>2, BatchTree
<1>4. ASSUME NEW l \in Ledgers, NEW r \in receipts, Refund(l, r) PROVE TreeInv'
  BY <1>0, <1>4, RefundTree
<1>5. ASSUME NEW l \in Ledgers, NEW c \in Ledgers, MergeChild(l, c) PROVE TreeInv'
  BY <1>0, <1>5, MergeTree
<1>6. ASSUME NEW l \in Ledgers, NEW c \in Ledgers, NEW caps \in [Kinds -> U64],
             ReserveChild(l, c, caps)
      PROVE  TreeInv'
  BY <1>0, <1>6, CarveTree DEF ReserveChild
<1>7. ASSUME NEW r \in receipts, LoseReceipt(r) PROVE TreeInv'
  BY <1>0, <1>7, ForgetTree DEF LoseReceipt, counters, family
<1>8. CASE UNCHANGED budgetVars
  BY <1>0, <1>8, ForgetTree DEF budgetVars, counters, family
<1>9. Pool \in Kinds /\ Dims \subseteq Kinds
  BY DEF Kinds
<1> QED BY <1>1, <1>2, <1>3, <1>4, <1>5, <1>6, <1>7, <1>8, <1>9
        DEF BudgetNext, TryCharge, TryChargeVerifier

\* At the start a tree is its root, which holds exactly its limits.
LEMMA InitTree == BudgetInit => TreeInv
<1> SUFFICES ASSUME BudgetInit PROVE TreeInv
  OBVIOUS
<1>1. /\ live = Roots /\ Roots \subseteq Ledgers /\ NoLedger \notin Ledgers /\ receipts = {}
      /\ \A x \in Ledgers : parent[x] = NoLedger
      /\ \A l \in Roots : remaining[l] = Limits[l]
  BY BudgetAssumption DEF BudgetInit
<1>2. FamilyTree
  BY <1>1 DEF FamilyTree, Unused
<1>3. ASSUME NEW root \in Roots PROVE Tree(root) = {root}
  <2>1. ASSUME NEW x \in Roots, InTree(x, root) PROVE x = root
    <3>1. {x} \in SUBSET Ledgers /\ x \in {x} /\ \A y \in {x} : parent[y] \in {x} \cup {NoLedger}
      BY <1>1
    <3>2. root \in {x}
      BY <2>1, <3>1 DEF InTree
    <3> QED BY <3>2
  <2>2. InTree(root, root)
    BY DEF InTree
  <2> QED BY <1>1, <2>1, <2>2 DEF Tree
<1>4. TreesFinite
  <2>1. IsFiniteSet({}) /\ \A root : IsFiniteSet({root})
    BY FS_EmptySet, FS_Singleton
  <2> QED BY <1>1, <1>3, <2>1 DEF TreesFinite
<1>5. ASSUME NEW root \in Roots, NEW k \in Kinds
      PROVE  Unspent(root, k) + Returnable(root, k) <= Limits[root][k]
  <2>t. BudgetTypeOK /\ root \in Ledgers /\ remaining \in [Ledgers -> [Kinds -> U64]]
    BY <1>1, InitIInv DEF IInv, BudgetTypeOK
  <2>1. SumsFinite(root, k)
    BY <1>4, <2>t, FiniteSums DEF AllSumsFinite
  <2>2. Refundable(root, k) = {}
    BY <1>1 DEF Refundable
  <2>3. Unspent(root, k) = Worth(remaining, k, {root}) /\ Returnable(root, k) = Amounts({})
    BY <1>3, <2>1, <2>2 DEF SumsFinite
  <2>4. ASSUME NEW f \in [{} -> Int] PROVE SumFunctionOnSet(f, {}) = 0
    <3>1. IsFiniteSet({})
      BY FS_EmptySet
    <3> QED BY <3>1, SumStep
  <2>5. Amounts({}) = 0 /\ Worth(remaining, k, {}) = 0
    <3> DEFINE f == [r \in {} |-> r.amount]
               g == [l \in {} |-> remaining[l][k]]
    <3>1. f \in [{} -> Int] /\ g \in [{} -> Int]
      OBVIOUS
    <3>2. Amounts({}) = SumFunctionOnSet(f, {}) /\ Worth(remaining, k, {}) = SumFunctionOnSet(g, {})
      BY DEF Amounts, Worth, SumFunction
    <3> HIDE DEF f, g
    <3> QED BY <2>4, <3>1, <3>2
  <2>6. Worth(remaining, k, {} \cup {root}) = Worth(remaining, k, {}) + remaining[root][k]
    <3>1. IsFiniteSet({}) /\ {} \in SUBSET Ledgers /\ root \notin {}
      BY FS_EmptySet
    <3> QED BY <2>t, <3>1, WorthInsert
  <2>7. {} \cup {root} = {root} /\ remaining[root][k] = Limits[root][k] /\ Limits[root][k] \in Nat
    BY <1>1, BudgetAssumption DEF U64
  <2> QED BY <2>3, <2>5, <2>6, <2>7
<1>6. TreeBound
  BY <1>5 DEF TreeBound
<1> QED BY <1>2, <1>4, <1>6 DEF TreeInv

\* However often an allowance is divided, charged, refunded, merged back or
\* lost, what the live ledgers of a root's tree can spend, and what the receipts
\* in hand would bring back, never exceeds the limits Budget::new was given.
THEOREM TreeBoundHolds == BudgetSpec => []TreeBound
<1>1. TreeInv => TreeBound
  BY DEF TreeInv
<1> QED BY <1>1, InitTree, NextTree, Invariance, PTL DEF BudgetSpec
=============================================================================
