------------------------------- MODULE CliStore -------------------------------
(***************************************************************************)
(* The pinned-CLI storage lane (crates/fsym-durable/src/cli_store.rs).     *)
(* Every SQL text is one owned subprocess over one database file and takes *)
(* effect as a whole or not at all, so an action is one SQL text; between  *)
(* two of them other processes run theirs, and the process may die.        *)
(*                                                                         *)
(* A row is (scope, kind, name) with its wire bytes.  The name is the      *)
(* content address of the record and rows are inserted whole, so a table   *)
(* kind is the set of records that have a row of that kind.                *)
(***************************************************************************)
EXTENDS Integers, FiniteSets

CONSTANTS
  Procs,       \* processes that opened the same database
  Records,     \* durable records, identified with their names
  None,        \* "no record"
  Namespaces,  \* scopes
  NsOf,        \* scope of each record
  Limit        \* CLEANUP_RESERVE_LIMIT

VARIABLES
  staging,    \* rows of kind 'staging'
  committed,  \* rows of kind 'committed'
  pc,         \* where each process is inside an operation
  rec,        \* the record of that operation
  acked,      \* history: records whose commit has returned Ok
  overtaken   \* history: processes whose commit verified a row that was released since

vars == <<staging, committed, pc, rec, acked, overtaken>>

Steps == {"idle", "admitted", "verified", "promoting"}

\* SELECT COUNT(*) ... WHERE scope AND kind='staging'.
Held(ns) == Cardinality({r \in staging : NsOf[r] = ns})

\* load_committed orders the committed rows of the scope by name and takes the first.
LoadCandidates(ns) == {r \in committed : NsOf[r] = ns}

Init ==
  /\ staging = {} /\ committed = {}
  /\ pc  = [p \in Procs |-> "idle"]
  /\ rec = [p \in Procs |-> None]
  /\ acked = {} /\ overtaken = {}

Enter(p, r, s) == /\ pc'  = [pc  EXCEPT ![p] = s]
                  /\ rec' = [rec EXCEPT ![p] = r]

Finish(p) == Enter(p, None, "idle") /\ overtaken' = overtaken \ {p}

\* Processes between the verification of record r and the end of its commit.
Committing(r) == {q \in Procs : pc[q] \in {"verified", "promoting"} /\ rec[q] = r}

-----------------------------------------------------------------------------
(* prepare: count, then insert. *)

PrepareRefuse(p, r) ==
  /\ pc[p] = "idle" /\ Held(NsOf[r]) >= Limit
  /\ UNCHANGED vars

\* Mutation: the limit is taken for the last count that admits.
MutPrepareAdmit(p, r) ==
  /\ pc[p] = "idle" /\ Held(NsOf[r]) <= Limit
  /\ Enter(p, r, "admitted")
  /\ UNCHANGED <<staging, committed, acked, overtaken>>

PrepareAdmit(p, r) ==
  /\ pc[p] = "idle" /\ Held(NsOf[r]) < Limit
  /\ Enter(p, r, "admitted")
  /\ UNCHANGED <<staging, committed, acked, overtaken>>

PrepareInsert(p) ==
  /\ pc[p] = "admitted" /\ rec[p] \notin staging
  /\ staging' = staging \cup {rec[p]}
  /\ Finish(p)
  /\ UNCHANGED <<committed, acked>>

\* The row is there already: the primary key refuses the INSERT, Backend error.
PrepareConflict(p) ==
  /\ pc[p] = "admitted" /\ rec[p] \in staging
  /\ Finish(p)
  /\ UNCHANGED <<staging, committed, acked>>

-----------------------------------------------------------------------------
(* commit: verify_prepared, look for the committed row, move the row. *)

CommitRefuse(p, r) ==
  /\ pc[p] = "idle" /\ r \notin staging
  /\ UNCHANGED vars

CommitVerify(p, r) ==
  /\ pc[p] = "idle" /\ r \in staging
  /\ Enter(p, r, "verified")
  /\ UNCHANGED <<staging, committed, acked, overtaken>>

\* A committed row of this name holds the same content-addressed bytes: Ok.
CommitAlready(p) ==
  /\ pc[p] = "verified" /\ rec[p] \in committed
  /\ acked' = acked \cup {rec[p]}
  /\ Finish(p)
  /\ UNCHANGED <<staging, committed>>

CommitAbsent(p) ==
  /\ pc[p] = "verified" /\ rec[p] \notin committed
  /\ Enter(p, rec[p], "promoting")
  /\ UNCHANGED <<staging, committed, acked, overtaken>>

\* Mutation: the row is deleted and never inserted.
MutCommitMove(p) ==
  /\ pc[p] = "promoting" /\ rec[p] \in staging \ committed
  /\ staging'   = staging \ {rec[p]}
  /\ acked'     = acked \cup {rec[p]}
  /\ Finish(p)
  /\ UNCHANGED committed

\* BEGIN; INSERT ... SELECT; DELETE; COMMIT.
CommitMove(p) ==
  /\ pc[p] = "promoting" /\ rec[p] \in staging \ committed
  /\ committed' = committed \cup {rec[p]}
  /\ staging'   = staging \ {rec[p]}
  /\ acked'     = acked \cup {rec[p]}
  /\ Finish(p)

\* No staged row is left: the transaction inserts and deletes nothing, the
\* subprocess succeeds, and commit returns Ok, published elsewhere or not.
CommitEmpty(p) ==
  /\ pc[p] = "promoting" /\ rec[p] \notin staging
  /\ acked' = acked \cup {rec[p]}
  /\ Finish(p)
  /\ UNCHANGED <<staging, committed>>

\* Committed and staged again since the look: the INSERT conflicts and the
\* transaction is abandoned, Backend error.
CommitConflict(p) ==
  /\ pc[p] = "promoting" /\ rec[p] \in staging \cap committed
  /\ Finish(p)
  /\ UNCHANGED <<staging, committed, acked>>

-----------------------------------------------------------------------------
\* release: DELETE the staged row if there is one, Ok in any case.  It looks at
\* no other process: a commit that has verified the row is not held up by it.
Release(p, r) ==
  /\ pc[p] = "idle"
  /\ staging' = staging \ {r}
  /\ overtaken' = IF r \in staging THEN overtaken \cup Committing(r) ELSE overtaken
  /\ UNCHANGED <<committed, pc, rec, acked>>

\* Process death, or a failed subprocess, between two SQL texts.
Interrupt(p) ==
  /\ pc[p] # "idle"
  /\ Finish(p)
  /\ UNCHANGED <<staging, committed, acked>>

Next ==
  \E p \in Procs :
    \/ \E r \in Records :
         \/ PrepareRefuse(p, r) \/ PrepareAdmit(p, r)
         \/ CommitRefuse(p, r)  \/ CommitVerify(p, r)
         \/ Release(p, r)
    \/ PrepareInsert(p) \/ PrepareConflict(p)
    \/ CommitAlready(p) \/ CommitAbsent(p)
    \/ CommitMove(p) \/ CommitEmpty(p) \/ CommitConflict(p)
    \/ Interrupt(p)

Spec == Init /\ [][Next]_vars

-----------------------------------------------------------------------------
(* Properties. *)

\* COUNT and INSERT are separate subprocesses: every process may have been
\* admitted on the same count, and no more than that is over the limit.
ReserveBound ==
  \A ns \in Namespaces : Held(ns) <= Limit + Cardinality(Procs) - 1

\* What commit promises (store.rs: "publishes atomically or refuses"): a record
\* whose commit was answered with Ok is published.
AckedPublished == acked \subseteq committed

\* The trait's contract, rows for records.
Store == INSTANCE DurableStore WITH staged <- staging, published <- committed

\* A commit whose row was released after it was verified, and that no other
\* process published: its transaction moves nothing and it is answered with Ok.
LostAck(p) ==
  /\ p \in overtaken /\ pc[p] = "promoting"
  /\ rec[p] \notin staging \cup committed
  /\ acked' = acked \cup {rec[p]}
  /\ UNCHANGED <<staging, committed>>

\* Whatever the processes do to one another, every SQL text is a step of the
\* contract or leaves it alone; the one departure is the acknowledgement of an
\* overtaken commit.
RefinesDurableStore ==
  Store!Init /\ [][Store!Next \/ \E p \in Procs : LostAck(p)]_(Store!vars)
=============================================================================
