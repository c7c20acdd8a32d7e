----------------------------- MODULE StoreLanes -----------------------------
(***************************************************************************)
(* The two lanes behind the DurableStore trait, each shown to implement its *)
(* contract.  A caller opens one of them and keeps it.                     *)
(***************************************************************************)
EXTENDS FileStore

CONSTANTS CliRecords, CliNsOf, CliLimit    \* the pinned-CLI lane's instance

ASSUME CliAssumption ==
  IsFiniteSet(CliRecords) /\ CliNsOf \in [CliRecords -> Namespaces] /\ CliLimit \in Nat \ {0}

VARIABLES lane,                            \* "file" or "cli"
          cli_staging, cli_committed, cli_pc, cli_rec, cli_acked, cli_overtaken

Cli == INSTANCE CliStore WITH
         Records <- CliRecords, NsOf <- CliNsOf, Limit <- CliLimit,
         staging <- cli_staging, committed <- cli_committed,
         pc <- cli_pc, rec <- cli_rec, acked <- cli_acked,
         overtaken <- cli_overtaken

cliVars == <<cli_staging, cli_committed, cli_pc, cli_rec, cli_acked, cli_overtaken>>

LInit == lane \in {"file", "cli"} /\ Init /\ Cli!Init

FileStep == lane = "file" /\ Next /\ UNCHANGED <<lane, cliVars>>

CliStep == lane = "cli" /\ Cli!Next /\ UNCHANGED <<lane, vars>>

LNext == FileStep \/ CliStep

LSpec == LInit /\ [][LNext]_<<lane, vars, cliVars>>

-----------------------------------------------------------------------------
\* The staged rows of a scope exceed CLEANUP_RESERVE_LIMIT by fewer than there
\* are processes, although count and insert are not one transaction.
CliReserveBound == Cli!ReserveBound

\* The pinned-CLI lane against the trait's contract: rows are staged, moved as a
\* whole and acknowledged as DurableStore says, and the only other step is the
\* acknowledgement of a commit whose row was released after it was verified.
CliRefinesDurableStore == Cli!RefinesDurableStore

\* store.rs says that commit "publishes atomically or refuses": a record whose
\* commit the CLI lane answered with Ok has a committed row.
CliAckedPublished == Cli!AckedPublished
=============================================================================
