---------------------------- MODULE FrontierWorker ----------------------------
(***************************************************************************)
(* The factor-frontier worker processes                                    *)
(* (crates/fsym-durable/src/bin/factor_frontier_worker.rs) on the file     *)
(* lane of the store: "generate" runs the race and stores its checkpoint   *)
(* step by step, leaving a marker file at every boundary; "resume" picks   *)
(* up from a marker in a fresh process, promotes the staged record when    *)
(* nothing is committed, and writes the report.  Any worker may be killed  *)
(* between any two system calls, several resumes may run at once, and a    *)
(* generate may be started again.                                          *)
(*                                                                         *)
(* The input is fixed, so there is one record to store and one report to   *)
(* write.  Marker and report files are written with fs::write: created     *)
(* empty, then filled.                                                     *)
(***************************************************************************)
EXTENDS FileStore

CONSTANTS
  Rec,            \* the record of the race's checkpoint
  Boundaries,     \* the boundaries at which generate leaves a marker
  MaxGenerates,   \* bound: generate processes started
  MaxKills        \* bound: processes killed

ASSUME FrontierAssumption ==
  /\ Rec \in Records
  /\ Boundaries = {"generation-done", "prepared", "verified", "committed"}
  /\ MaxGenerates \in Nat /\ MaxKills \in Nat

VARIABLES
  stage,      \* what each worker does next ("off": no such process)
  marking,    \* the marker a generate worker is writing, or "none"
  boundary,   \* the boundary a resume worker was started with
  marker,     \* marker files: "absent", "empty" or "written"
  report,     \* the report file, likewise
  generates,  \* generate processes started so far
  kills       \* workers killed so far

workerVars == <<stage, marking, boundary, marker, report, generates, kills>>
wvars == <<vars, workerVars>>

FileState == {"absent", "empty", "written"}
GenerateStages == {"race", "prepare", "verify", "commit", "sidecar", "sleep"}
ResumeStages ==
  {"read", "look", "promote", "promote-commit", "load", "accept", "report", "report-fill"}

WInit ==
  /\ Init
  /\ stage    = [p \in Procs |-> "off"]
  /\ marking  = [p \in Procs |-> "none"]
  /\ boundary = [p \in Procs |-> "none"]
  /\ marker   = [b \in Boundaries |-> "absent"]
  /\ report   = "absent"
  /\ generates = 0 /\ kills = 0

\* Worker p goes on to stage s.
To(p, s) == stage' = [stage EXCEPT ![p] = s]

\* Worker p goes on to stage s and first leaves the marker of boundary b.
Boundary(p, s, b) == To(p, s) /\ marking' = [marking EXCEPT ![p] = b]

At(p, s) == stage[p] = s /\ marking[p] = "none"

-----------------------------------------------------------------------------
(* generate *)

\* One generate worker at a time: the parent waits for it or kills it.
StartGenerate(p) ==
  /\ stage[p] = "off" /\ generates < MaxGenerates
  /\ \A q \in Procs : stage[q] \notin GenerateStages
  /\ generates' = generates + 1
  /\ To(p, "race")
  /\ UNCHANGED <<vars, marking, boundary, marker, report, kills>>

\* Mutation: the marker of the next boundary is left already here.
MutRace(p) ==
  /\ At(p, "race")
  /\ Boundary(p, "prepare", "prepared")
  /\ UNCHANGED <<vars, boundary, marker, report, generates, kills>>

\* The race has produced its continuation.
Race(p) ==
  /\ At(p, "race")
  /\ Boundary(p, "prepare", "generation-done")
  /\ UNCHANGED <<vars, boundary, marker, report, generates, kills>>

\* store.prepare(&record)?
Prepare(p) ==
  /\ At(p, "prepare")
  /\ \/ /\ \/ PrepareAdmit(p, Rec) \/ PrepareCreate(p) \/ PrepareWrite(p)
        /\ UNCHANGED <<stage, marking>>
     \/ PrepareRename(p) /\ Boundary(p, "verify", "prepared")
     \/ (PrepareRefuse(p, Rec) \/ PrepareRenameLost(p)) /\ To(p, "off") /\ UNCHANGED marking
  /\ UNCHANGED <<boundary, marker, report, generates, kills>>

\* store.verify_prepared(&handle)? and the comparison with the record.
Verify(p) ==
  /\ At(p, "verify")
  /\ \/ VerifyPrepared(Rec) /\ Boundary(p, "commit", "verified")
     \/ ~VerifyPrepared(Rec) /\ To(p, "off") /\ UNCHANGED marking
  /\ UNCHANGED <<vars, boundary, marker, report, generates, kills>>

\* store.commit(&handle)?, which a resume worker's promotion may overtake.
Commit(p, from, to) ==
  /\ At(p, from)
  /\ \/ (CommitVerify(p, Rec) \/ CommitAbsent(p)) /\ UNCHANGED stage
     \/ (CommitAlready(p) \/ CommitRename(p)) /\ To(p, to)
     \/ (CommitRefuse(p, Rec) \/ CommitRenameLost(p)) /\ To(p, "off")
  /\ UNCHANGED <<marking, boundary, marker, report, generates, kills>>

\* The repair sidecar is written next to the store; nothing reads it back here.
Sidecar(p) ==
  /\ At(p, "sidecar")
  /\ Boundary(p, "sleep", "committed")
  /\ UNCHANGED <<vars, boundary, marker, report, generates, kills>>

\* write_marker: fs::write creates or truncates the file, then fills it.
MarkerCreate(p) ==
  /\ marking[p] # "none" /\ marker[marking[p]] # "empty"
  /\ marker' = [marker EXCEPT ![marking[p]] = "empty"]
  /\ UNCHANGED <<vars, stage, marking, boundary, report, generates, kills>>

MarkerFill(p) ==
  /\ marking[p] # "none" /\ marker[marking[p]] = "empty"
  /\ marker'  = [marker EXCEPT ![marking[p]] = "written"]
  /\ marking' = [marking EXCEPT ![p] = "none"]
  /\ UNCHANGED <<vars, stage, boundary, report, generates, kills>>

-----------------------------------------------------------------------------
(* resume *)

StartResume(p, b) ==
  /\ stage[p] = "off"
  /\ To(p, "read")
  /\ boundary' = [boundary EXCEPT ![p] = b]
  /\ UNCHANGED <<vars, marking, marker, report, generates, kills>>

\* The worker returns (an error, or the finished report) and its process ends.
Exit(p) == To(p, "off") /\ boundary' = [boundary EXCEPT ![p] = "none"]

\* read_marker and decode_universe: an unfinished marker does not decode, and the
\* generation-done marker carries no universe.
ReadMarker(p) ==
  /\ At(p, "read")
  /\ IF marker[boundary[p]] = "written" /\ boundary[p] # "generation-done"
     THEN To(p, "look") /\ UNCHANGED boundary
     ELSE Exit(p)
  /\ UNCHANGED <<vars, marking, marker, report, generates, kills>>

\* Mutation: a resume that finds nothing committed gives up.
MutLook(p) ==
  /\ At(p, "look")
  /\ \/ LoadCandidates(NsOf[Rec]) = {} /\ Exit(p)
     \/ \E r \in LoadCandidates(NsOf[Rec]) :
          IF Whole("committed", r) THEN To(p, "load") /\ UNCHANGED boundary ELSE Exit(p)
  /\ UNCHANGED <<vars, marking, marker, report, generates, kills>>

\* load_committed: none, a record, or a file that does not decode.
Look(p) ==
  /\ At(p, "look")
  /\ \/ LoadCandidates(NsOf[Rec]) = {} /\ To(p, "promote") /\ UNCHANGED boundary
     \/ \E r \in LoadCandidates(NsOf[Rec]) :
          IF Whole("committed", r) THEN To(p, "load") /\ UNCHANGED boundary ELSE Exit(p)
  /\ UNCHANGED <<vars, marking, marker, report, generates, kills>>

\* Mutation: the verified staged record is accepted without its promotion.
MutPromote(p) ==
  /\ At(p, "promote")
  /\ IF VerifyPrepared(Rec) THEN To(p, "accept") /\ UNCHANGED boundary ELSE Exit(p)
  /\ UNCHANGED <<vars, marking, marker, report, generates, kills>>

\* verify_prepared before the promotion.
Promote(p) ==
  /\ At(p, "promote")
  /\ IF VerifyPrepared(Rec) THEN To(p, "promote-commit") /\ UNCHANGED boundary ELSE Exit(p)
  /\ UNCHANGED <<vars, marking, marker, report, generates, kills>>

\* load_committed again, then validation against the universe and the pins.
Load(p) ==
  /\ At(p, "load")
  /\ \/ LoadCandidates(NsOf[Rec]) = {} /\ Exit(p)
     \/ \E r \in LoadCandidates(NsOf[Rec]) :
          IF Whole("committed", r) THEN To(p, "accept") /\ UNCHANGED boundary ELSE Exit(p)
  /\ UNCHANGED <<vars, marking, marker, report, generates, kills>>

\* The checkpoint is decoded and the race accepted in a fresh region.
Accept(p) ==
  /\ At(p, "accept")
  /\ To(p, "report")
  /\ UNCHANGED <<vars, marking, boundary, marker, report, generates, kills>>

ReportCreate(p) ==
  /\ At(p, "report")
  /\ report' = "empty"
  /\ To(p, "report-fill")
  /\ UNCHANGED <<vars, marking, boundary, marker, generates, kills>>

ReportFill(p) ==
  /\ At(p, "report-fill")
  /\ report' = "written"
  /\ Exit(p)
  /\ UNCHANGED <<vars, marking, marker, generates, kills>>

-----------------------------------------------------------------------------
\* SIGKILL between two system calls; a sleeping generate worker is always killed
\* and does not count against the bound.
Kill(p) ==
  /\ stage[p] # "off"
  /\ IF stage[p] = "sleep" /\ marking[p] = "none"
     THEN UNCHANGED kills
     ELSE kills < MaxKills /\ kills' = kills + 1
  /\ IF pc[p] = "idle" THEN UNCHANGED vars ELSE Interrupt(p)
  /\ Exit(p)
  /\ marking' = [marking EXCEPT ![p] = "none"]
  /\ UNCHANGED <<marker, report, generates>>

Step(p) ==
  \/ Race(p) \/ Prepare(p) \/ Verify(p) \/ Commit(p, "commit", "sidecar") \/ Sidecar(p)
  \/ MarkerCreate(p) \/ MarkerFill(p)
  \/ ReadMarker(p) \/ Look(p) \/ Promote(p) \/ Commit(p, "promote-commit", "load")
  \/ Load(p) \/ Accept(p) \/ ReportCreate(p) \/ ReportFill(p)

WNext ==
  \E p \in Procs :
    \/ StartGenerate(p)
    \/ \E b \in Boundaries : StartResume(p, b)
    \/ Step(p)
    \/ Kill(p)

\* A running worker is scheduled, the parent kills a sleeping generate worker, and
\* it retries: resumes at the "prepared" boundary are started again and again,
\* among whatever else it starts (hence strong fairness).
Fairness ==
  \A p \in Procs :
    /\ WF_wvars(Step(p))
    /\ WF_wvars(Kill(p) /\ stage[p] = "sleep")
    /\ SF_wvars(StartResume(p, "prepared"))

WSpec == WInit /\ [][WNext]_wvars /\ Fairness

-----------------------------------------------------------------------------
(* Properties. *)

\* "Nothing is implicitly published": a report exists only for a record that
\* is committed and whole, whichever process was killed where.
ReportFromCommitted == report # "absent" => Whole("committed", Rec)

\* A marker never promises more than the store holds: from the "prepared"
\* marker on the record can be promoted or is committed, from the "committed"
\* marker on it is committed.
MarkersTruthful ==
  /\ marker["prepared"]  = "written" => Whole("staging", Rec) \/ Whole("committed", Rec)
  /\ marker["verified"]  = "written" => Whole("staging", Rec) \/ Whole("committed", Rec)
  /\ marker["committed"] = "written" => Whole("committed", Rec)

\* A "prepared" marker that stands leads to the report, whatever is killed or
\* overtaken or started again in between.  (A second generate truncates the
\* marker before it rewrites it; if it dies in between, the marker is gone for
\* good and only an uncut one promises anything.)
StandingMarkerLeadsToReport ==
  <>[](marker["prepared"] = "written") => <>(report = "written")
=============================================================================
