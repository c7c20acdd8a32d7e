-------------------------------- MODULE Budget --------------------------------
(***************************************************************************)
(* The multidimensional budget ledgers of crates/fsym-budget/src/lib.rs.   *)
(* A root ledger is built from limits; children are carved out of it and   *)
(* merged back; charges leave receipts that can be refunded.  Receipts,    *)
(* children and leases are Rust values that are moved and never copied:    *)
(* the model keeps those still in somebody's hands, and a holder may hand  *)
(* them to the wrong ledger or drop them.                                  *)
(*                                                                         *)
(* A ledger stands for its authority (an Arc compared by allocation), and  *)
(* verifier_remaining is the entry Pool of remaining.  granted, born and   *)
(* total are history: what a ledger started with, the slot of the parent's *)
(* sequence at which a child was carved, and for every slot n what left    *)
(* the ledger at slots 1..n and has not come back.                         *)
(***************************************************************************)
EXTENDS Integers, Functions

CONSTANTS
  Ledgers,      \* authorities
  Roots,        \* those made by Budget::new
  NoLedger,     \* "no parent"
  Dims,         \* Dimension
  Pool,         \* the protected verifier pool
  Limits,       \* BudgetLimits of every root
  MaxU64,       \* largest counter value (2^64 - 1 in the code)
  MaxSequence   \* bound: operations on one ledger

Kinds == Dims \cup {Pool}
U64   == 0..MaxU64
Slots == 0..MaxSequence

ASSUME BudgetAssumption ==
  /\ Roots \subseteq Ledgers /\ NoLedger \notin Ledgers
  /\ Pool \notin Dims
  /\ MaxU64 \in Nat /\ MaxSequence \in Nat
  /\ Limits \in [Roots -> [Kinds -> U64]]

VARIABLES
  live,            \* ledgers in somebody's hands
  remaining,       \* remaining, verifier_remaining
  leaseAvailable,  \* verifier_lease_available
  sequence,
  parent,          \* parent_authority
  receipts,        \* ChargeReceipts in somebody's hands
  leases,          \* verifier leases issued by each ledger
  granted, born, total

counters == <<remaining, sequence, total>>
family   == <<live, parent, granted, born>>
budgetVars == <<counters, family, leaseAvailable, receipts, leases>>

Receipt == [of : Ledgers, kind : Kinds, amount : U64, seq : Slots \ {0}]

\* Authorities that have never been allocated.
Unused == {l \in Ledgers \ Roots : parent[l] = NoLedger}

Nothing == [k \in Kinds |-> 0]

BudgetInit ==
  /\ live      = Roots
  /\ remaining = [l \in Ledgers |-> IF l \in Roots THEN Limits[l] ELSE Nothing]
  /\ leaseAvailable = [l \in Ledgers |-> l \in Roots /\ remaining[l][Pool] > 0]
  /\ sequence  = [l \in Ledgers |-> 0]
  /\ parent    = [l \in Ledgers |-> NoLedger]
  /\ receipts  = {}
  /\ leases    = [l \in Ledgers |-> 0]
  /\ granted   = remaining
  /\ born      = [l \in Ledgers |-> 0]
  /\ total     = [l \in Ledgers |-> [n \in Slots |-> Nothing]]

\* An operation on ledger l may start; it takes slot Slot(l).
Open(l) == l \in live /\ sequence[l] < MaxSequence
Slot(l) == sequence[l] + 1
Tick(l) == sequence' = [sequence EXCEPT ![l] = @ + 1]

\* amount of kind and nothing else.
Only(kind, amount) == [k \in Kinds |-> IF k = kind THEN amount ELSE 0]

\* amounts[k] leave l at slot n for every k.
Debit(l, n, amounts) ==
  total' = [total EXCEPT ![l] =
              [m \in Slots |-> [k \in Kinds |-> @[m][k] + IF m >= n THEN amounts[k] ELSE 0]]]

\* What left l at slot n comes back.
Credit(l, n, amounts) ==
  total' = [total EXCEPT ![l] =
              [m \in Slots |-> [k \in Kinds |-> @[m][k] - IF m >= n THEN amounts[k] ELSE 0]]]

\* self.remaining[k] -= amounts[k]
Subtract(l, amounts) ==
  remaining' = [remaining EXCEPT ![l] = [k \in Kinds |-> @[k] - amounts[k]]]

\* self.remaining[k] += amounts[k], in u64.
Add(l, amounts) ==
  remaining' = [remaining EXCEPT ![l] = [k \in Kinds |-> (@[k] + amounts[k]) % (MaxU64 + 1)]]

-----------------------------------------------------------------------------
(* Charges. *)

VerifierLease(l) ==
  /\ l \in live /\ leaseAvailable[l]
  /\ leaseAvailable' = [leaseAvailable EXCEPT ![l] = FALSE]
  /\ leases' = [leases EXCEPT ![l] = @ + 1]
  /\ UNCHANGED <<counters, family, receipts>>

\* A charge of one kind, and its receipt.
Charge(l, kind, amount) ==
  /\ Open(l) /\ amount > 0 /\ amount <= remaining[l][kind]
  /\ Subtract(l, Only(kind, amount))
  /\ Debit(l, Slot(l), Only(kind, amount))
  /\ Tick(l)
  /\ receipts' = receipts \cup {[of |-> l, kind |-> kind, amount |-> amount, seq |-> Slot(l)]}
  /\ UNCHANGED <<family, leaseAvailable, leases>>

TryCharge(l, dimension, amount) == Charge(l, dimension, amount)

\* Only a holder of a lease of this very ledger gets past the authority check.
TryChargeVerifier(l, amount) == leases[l] > 0 /\ Charge(l, Pool, amount)

\* Requested amounts of a batch that names every dimension at most twice, zero
\* where it does not: the two entries are summed (checked_add).
Requested(first, second) ==
  [k \in Kinds |-> IF k = Pool THEN 0 ELSE first[k] + second[k]]

\* A charge that is consumed for good.
TryChargeBatch(l, first, second) ==
  LET requested == Requested(first, second)
  IN  /\ Open(l)
      /\ \E d \in Dims : requested[d] > 0
      /\ \A d \in Dims : requested[d] <= MaxU64 /\ requested[d] <= remaining[l][d]
      /\ Subtract(l, requested)
      /\ Debit(l, Slot(l), requested)
      /\ Tick(l)
      /\ UNCHANGED <<family, leaseAvailable, receipts, leases>>

-----------------------------------------------------------------------------
(* Refunds. *)

\* Mutation: the authority of the receipt is not compared.
MutRefund(l, r) ==
  /\ Open(l) /\ r \in receipts
  /\ Add(l, Only(r.kind, r.amount))
  /\ Credit(l, r.seq, Only(r.kind, r.amount))
  /\ Tick(l)
  /\ receipts' = receipts \ {r}
  /\ UNCHANGED <<family, leaseAvailable, leases>>

Refund(l, r) ==
  /\ Open(l) /\ r \in receipts /\ r.of = l
  /\ Add(l, Only(r.kind, r.amount))
  /\ Credit(l, r.seq, Only(r.kind, r.amount))
  /\ Tick(l)
  /\ receipts' = receipts \ {r}
  /\ UNCHANGED <<family, leaseAvailable, leases>>

\* Handed to another ledger, which refuses it but has consumed it, or dropped.
LoseReceipt(r) ==
  /\ r \in receipts
  /\ receipts' = receipts \ {r}
  /\ UNCHANGED <<counters, family, leaseAvailable, leases>>

-----------------------------------------------------------------------------
(* Children. *)

\* Mutation: the reserved amounts stay with the parent as well.
MutCarve(l, c, caps) ==
  /\ Open(l) /\ c \in Unused
  /\ \A d \in Dims : caps[d] <= remaining[l][d]
  /\ remaining' = [remaining EXCEPT ![c] = caps]
  /\ Debit(l, Slot(l), caps)
  /\ Tick(l)
  /\ live'    = live \cup {c}
  /\ parent'  = [parent EXCEPT ![c] = l]
  /\ granted' = [granted EXCEPT ![c] = caps]
  /\ born'    = [born EXCEPT ![c] = Slot(l)]
  /\ UNCHANGED <<leaseAvailable, receipts, leases>>

\* A fresh authority c gets the caps, which leave l at once.
Carve(l, c, caps) ==
  /\ Open(l) /\ c \in Unused
  /\ \A d \in Dims : caps[d] <= remaining[l][d]
  /\ remaining' = [remaining EXCEPT ![l] = [k \in Kinds |-> @[k] - caps[k]], ![c] = caps]
  /\ Debit(l, Slot(l), caps)
  /\ Tick(l)
  /\ live'    = live \cup {c}
  /\ parent'  = [parent EXCEPT ![c] = l]
  /\ granted' = [granted EXCEPT ![c] = caps]
  /\ born'    = [born EXCEPT ![c] = Slot(l)]
  /\ UNCHANGED <<leaseAvailable, receipts, leases>>

ReserveChild(l, c, caps) == caps[Pool] = 0 /\ Carve(l, c, caps)

\* Mutation: a grandchild or a stranger is merged as well.
MutMergeChild(l, c) ==
  /\ Open(l) /\ c \in live /\ c # l
  /\ Add(l, [k \in Kinds |-> IF k = Pool THEN 0 ELSE remaining[c][k]])
  /\ Credit(l, born[c], [k \in Kinds |-> IF k = Pool THEN 0 ELSE remaining[c][k]])
  /\ Tick(l)
  /\ live' = live \ {c}
  /\ UNCHANGED <<parent, granted, born, leaseAvailable, receipts, leases>>

MergeChild(l, c) ==
  /\ Open(l) /\ c \in live /\ parent[c] = l
  /\ Add(l, [k \in Kinds |-> IF k = Pool THEN 0 ELSE remaining[c][k]])
  /\ Credit(l, born[c], [k \in Kinds |-> IF k = Pool THEN 0 ELSE remaining[c][k]])
  /\ Tick(l)
  /\ live' = live \ {c}
  /\ UNCHANGED <<parent, granted, born, leaseAvailable, receipts, leases>>

\* Merged into a ledger that did not reserve it, which refuses it but has
\* consumed it, or dropped.
LoseLedger(c) ==
  /\ c \in live
  /\ live' = live \ {c}
  /\ UNCHANGED <<counters, parent, granted, born, leaseAvailable, receipts, leases>>

-----------------------------------------------------------------------------
BudgetNext ==
  \/ \E l \in Ledgers :
       \/ VerifierLease(l) \/ LoseLedger(l)
       \/ \E amount \in U64 :
            TryChargeVerifier(l, amount) \/ \E d \in Dims : TryCharge(l, d, amount)
       \/ \E first, second \in [Dims -> U64] : TryChargeBatch(l, first, second)
       \/ \E r \in receipts : Refund(l, r)
       \/ \E c \in Ledgers : MergeChild(l, c) \/ \E caps \in [Kinds -> U64] : ReserveChild(l, c, caps)
  \/ \E r \in receipts : LoseReceipt(r)

BudgetSpec == BudgetInit /\ [][BudgetNext]_budgetVars

-----------------------------------------------------------------------------
(* Properties. *)

\* Every counter is a u64 and every receipt one the code can have issued.
BudgetTypeOK ==
  /\ live \in SUBSET Ledgers
  /\ remaining \in [Ledgers -> [Kinds -> U64]]
  /\ leaseAvailable \in [Ledgers -> BOOLEAN]
  /\ sequence \in [Ledgers -> Slots]
  /\ parent \in [Ledgers -> Ledgers \cup {NoLedger}]
  /\ receipts \in SUBSET Receipt
  /\ leases \in [Ledgers -> Nat]
  /\ granted \in [Ledgers -> [Kinds -> U64]]
  /\ born \in [Ledgers -> Slots]
  /\ total \in [Ledgers -> [Slots -> [Kinds -> Nat]]]

\* "Restores the allowance", "any unused remainder returns exactly": whatever
\* is refunded or merged back, in whatever order, no ledger gets more than it
\* was granted, so the unchecked additions of refund and merge_child cannot
\* overflow.
ReturnsFit ==
  /\ \A r \in receipts : remaining[r.of][r.kind] + r.amount <= granted[r.of][r.kind]
  /\ \A c \in live : parent[c] # NoLedger =>
       \A d \in Dims : remaining[parent[c]][d] + remaining[c][d] <= granted[parent[c]][d]

\* "One protected pool per root budget and one key to it": a child holds no
\* part of a verifier pool and no key, and a root issues at most one.
VerifierIsolated ==
  /\ \A l \in Ledgers \ Roots :
       remaining[l][Pool] = 0 /\ ~leaseAvailable[l] /\ leases[l] = 0
  /\ \A l \in Roots : leases[l] + (IF leaseAvailable[l] THEN 1 ELSE 0) <= 1

\* What makes ReturnsFit inductive.  The books of a ledger balance; what left it
\* only grows along its slots; and every claim has a slot of its own, at which
\* at least the claimed amount left.
Balanced ==
  \A l \in Ledgers, k \in Kinds :
    /\ remaining[l][k] + total[l][MaxSequence][k] = granted[l][k]
    /\ total[l][0][k] = 0
    /\ \A m, n \in Slots : m <= n => total[l][m][k] <= total[l][n][k]

ClaimsCovered ==
  /\ \A r \in receipts :
       /\ r.seq <= sequence[r.of]
       /\ total[r.of][r.seq - 1][r.kind] + r.amount <= total[r.of][r.seq][r.kind]
  /\ \A c \in live : parent[c] # NoLedger =>
       /\ born[c] \in 1..sequence[parent[c]]
       /\ \A k \in Kinds :
            total[parent[c]][born[c] - 1][k] + granted[c][k] <= total[parent[c]][born[c]][k]

SlotsUnshared ==
  /\ \A r, s \in receipts : r.of = s.of /\ r.seq = s.seq => r = s
  /\ \A c, e \in live : parent[c] # NoLedger /\ parent[c] = parent[e] /\ born[c] = born[e] => c = e
  /\ \A r \in receipts, c \in live : ~(parent[c] = r.of /\ born[c] = r.seq)

\* The audit trail of every ledger explains where its allowance is.
Audited == Balanced /\ ClaimsCovered /\ SlotsUnshared

\* l was carved, directly or through others, out of root: whoever collects l and
\* the parent of everything collected collects root.
InTree(l, root) ==
  \A S \in SUBSET Ledgers :
    (l \in S /\ \A x \in S : parent[x] \in S \cup {NoLedger}) => root \in S

\* The live ledgers of a root's tree, and the receipts they would take back.
Tree(root) == {l \in live : InTree(l, root)}
Refundable(root, k) == {r \in receipts : r.of \in Tree(root) /\ r.kind = k}

\* What the tree can still spend, and what refunds would add to it.
Unspent(root, k) == SumFunction([l \in Tree(root) |-> remaining[l][k]])
Returnable(root, k) == SumFunction([r \in Refundable(root, k) |-> r.amount])

\* However a root's allowance is divided among descendants, what all live
\* ledgers of its tree can still spend, refunds of receipts still in hand
\* included, never exceeds the root's limits.
TreeBound ==
  \A root \in Roots, k \in Kinds :
    Unspent(root, k) + Returnable(root, k) <= Limits[root][k]
=============================================================================
