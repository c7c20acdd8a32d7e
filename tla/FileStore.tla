------------------------------ MODULE FileStore ------------------------------
(***************************************************************************)
(* The canonical file lane of the durable store                            *)
(* (crates/fsym-durable/src/file_store.rs), one action per file-system     *)
(* call, run by several processes that opened the same root and may die    *)
(* between any two calls.                                                  *)
(*                                                                         *)
(* A record's canonical handle is its digest and length, so the handle is  *)
(* modelled by the record itself.  A directory is the set of records whose *)
(* names it holds.  A file's contents are the set of chunks of the         *)
(* record's wire form that are in it: write_all issues one write per       *)
(* chunk, and from_wire accepts exactly the file that holds them all.      *)
(* What a process has open follows the file through renames, because a     *)
(* rename moves the name and not the open file.                            *)
(***************************************************************************)
EXTENDS Integers, FiniteSets

CONSTANTS
  Procs,        \* processes (or threads) sharing one store root
  Records,      \* durable records, identified with their handles
  None,         \* "no record"
  Namespaces,   \* <universe>/<payload schema> directories
  NsOf,         \* namespace of each record
  Writers,      \* Writers[r]: the processes that may be asked to prepare r
  Limit,        \* CLEANUP_RESERVE_LIMIT
  ChunkCount    \* writes that write_all needs for one record

ASSUME FileStoreAssumption ==
  /\ IsFiniteSet(Procs) /\ Procs # {}
  /\ IsFiniteSet(Records)
  /\ None \notin Records
  /\ NsOf \in [Records -> Namespaces]
  /\ Writers \in [Records -> SUBSET Procs]
  /\ Limit \in Nat \ {0}
  /\ ChunkCount \in Nat \ {0}

VARIABLES
  dir,    \* dir[a]: names present ("tmp" and "staging" share the staging directory)
  bytes,  \* bytes[a][r]: chunks in the file of that name ({} when there is none)
  pc,     \* where each process is inside an operation
  rec,    \* the record of that operation
  off,    \* chunks the process has written
  fd,     \* where the file it has open is now
  acked   \* history: records whose commit has returned Ok

vars == <<dir, bytes, pc, rec, off, fd, acked>>

Areas  == {"tmp", "staging", "committed"}
Chunks == 1..ChunkCount
Steps  == {"idle", "admitted", "writing", "verified", "promoting", "releasing"}

-----------------------------------------------------------------------------
(* What the code reads off the disk. *)

InNamespace(area, ns) == {r \in dir[area] : NsOf[r] = ns}

\* read_dir(staging).count(): temporary names count like staged ones.
Held(ns) == Cardinality(InNamespace("tmp", ns)) + Cardinality(InNamespace("staging", ns))

\* read_record succeeds: the digest in the wire form matches only the whole record.
Whole(area, r) == r \in dir[area] /\ bytes[area][r] = Chunks

\* verify_prepared answers with the record.
VerifyPrepared(r) == Whole("staging", r)

\* The file load_committed may pick.  It takes the newest modification time,
\* which a rename preserves and which ties within the clock's granularity, so
\* every committed file of the namespace can be the one.
LoadCandidates(ns) == InNamespace("committed", ns)

-----------------------------------------------------------------------------
Init ==
  /\ dir   = [a \in Areas |-> {}]
  /\ bytes = [a \in Areas |-> [r \in Records |-> {}]]
  /\ pc    = [p \in Procs |-> "idle"]
  /\ rec   = [p \in Procs |-> None]
  /\ off   = [p \in Procs |-> 0]
  /\ fd    = [p \in Procs |-> "none"]
  /\ acked = {}

\* Process p starts an operation on r at step s, or goes on with it.
Enter(p, r, s) == /\ pc'  = [pc  EXCEPT ![p] = s]
                  /\ rec' = [rec EXCEPT ![p] = r]

\* The operation returns (Ok or Err): nothing of it stays in memory.
Finish(p) == /\ Enter(p, None, "idle")
             /\ off' = [off EXCEPT ![p] = 0]

\* Where the file that q has open is after rename(from/r, to/r): an open file
\* keeps its identity, and the file that was at the target loses its name.
Followed(q, r, from, to) ==
  IF rec[q] # r \/ fd[q] \notin {from, to} THEN fd[q]
  ELSE IF fd[q] = from THEN to ELSE "unlinked"

\* rename(from/r, to/r) by a process that has closed its own file.
Rename(p, r, from, to) ==
  /\ dir'   = [dir EXCEPT ![from] = @ \ {r}, ![to] = @ \cup {r}]
  /\ bytes' = [bytes EXCEPT ![from][r] = {}, ![to][r] = bytes[from][r]]
  /\ fd'    = [q \in Procs |-> IF q = p THEN "none" ELSE Followed(q, r, from, to)]

-----------------------------------------------------------------------------
(* prepare: count, create the temporary file, write it, rename it. *)

\* InsufficientCleanupReserve: refused before anything is written.
PrepareRefuse(p, r) ==
  /\ pc[p] = "idle" /\ p \in Writers[r]
  /\ Held(NsOf[r]) >= Limit
  /\ UNCHANGED vars

\* Mutation: the limit itself is still admitted.
MutPrepareAdmit(p, r) ==
  /\ pc[p] = "idle" /\ p \in Writers[r]
  /\ Held(NsOf[r]) <= Limit
  /\ Enter(p, r, "admitted")
  /\ UNCHANGED <<dir, bytes, off, fd, acked>>

PrepareAdmit(p, r) ==
  /\ pc[p] = "idle" /\ p \in Writers[r]
  /\ Held(NsOf[r]) < Limit
  /\ Enter(p, r, "admitted")
  /\ UNCHANGED <<dir, bytes, off, fd, acked>>

\* Mutation: the staged name is created and written in place.
MutPrepareCreate(p) ==
  /\ pc[p] = "admitted"
  /\ dir'   = [dir EXCEPT !["staging"] = @ \cup {rec[p]}]
  /\ bytes' = [bytes EXCEPT !["staging"][rec[p]] = {}]
  /\ fd'    = [fd EXCEPT ![p] = "staging"]
  /\ Enter(p, rec[p], "writing")
  /\ UNCHANGED <<off, acked>>

\* File::create truncates a temporary file of the same name that is already there.
PrepareCreate(p) ==
  /\ pc[p] = "admitted"
  /\ dir'   = [dir EXCEPT !["tmp"] = @ \cup {rec[p]}]
  /\ bytes' = [bytes EXCEPT !["tmp"][rec[p]] = {}]
  /\ fd'    = [fd EXCEPT ![p] = "tmp"]
  /\ Enter(p, rec[p], "writing")
  /\ UNCHANGED <<off, acked>>

PrepareWrite(p) ==
  /\ pc[p] = "writing" /\ off[p] < ChunkCount
  /\ off'   = [off EXCEPT ![p] = @ + 1]
  /\ bytes' = IF fd[p] \in Areas
              THEN [bytes EXCEPT ![fd[p]][rec[p]] = @ \cup {off[p] + 1}]
              ELSE bytes
  /\ UNCHANGED <<dir, pc, rec, fd, acked>>

\* sync_all, close, rename: prepare returns the handle.
PrepareRename(p) ==
  /\ pc[p] = "writing" /\ off[p] = ChunkCount
  /\ rec[p] \in dir["tmp"]
  /\ Rename(p, rec[p], "tmp", "staging")
  /\ Finish(p)
  /\ UNCHANGED acked

\* Another process has renamed the shared temporary name away: Backend error.
PrepareRenameLost(p) ==
  /\ pc[p] = "writing" /\ off[p] = ChunkCount
  /\ rec[p] \notin dir["tmp"]
  /\ fd' = [fd EXCEPT ![p] = "none"]
  /\ Finish(p)
  /\ UNCHANGED <<dir, bytes, acked>>

-----------------------------------------------------------------------------
(* commit: verify the staged bytes, look for the target, rename. *)

\* UnknownHandle or a record that does not decode.
CommitRefuse(p, r) ==
  /\ pc[p] = "idle" /\ ~VerifyPrepared(r)
  /\ UNCHANGED vars

CommitVerify(p, r) ==
  /\ pc[p] = "idle" /\ VerifyPrepared(r)
  /\ Enter(p, r, "verified")
  /\ UNCHANGED <<dir, bytes, off, fd, acked>>

\* The target exists: Ok without a rename; the staged file stays.
CommitAlready(p) ==
  /\ pc[p] = "verified" /\ rec[p] \in dir["committed"]
  /\ acked' = acked \cup {rec[p]}
  /\ Finish(p)
  /\ UNCHANGED <<dir, bytes, fd>>

CommitAbsent(p) ==
  /\ pc[p] = "verified" /\ rec[p] \notin dir["committed"]
  /\ Enter(p, rec[p], "promoting")
  /\ UNCHANGED <<dir, bytes, off, fd, acked>>

\* Mutation: commit copies the staged file and leaves it behind.
MutCommitRename(p) ==
  /\ pc[p] = "promoting" /\ rec[p] \in dir["staging"]
  /\ dir'   = [dir EXCEPT !["committed"] = @ \cup {rec[p]}]
  /\ bytes' = [bytes EXCEPT !["committed"][rec[p]] = bytes["staging"][rec[p]]]
  /\ acked' = acked \cup {rec[p]}
  /\ Finish(p)
  /\ UNCHANGED fd

CommitRename(p) ==
  /\ pc[p] = "promoting" /\ rec[p] \in dir["staging"]
  /\ Rename(p, rec[p], "staging", "committed")
  /\ acked' = acked \cup {rec[p]}
  /\ Finish(p)

\* The staged name is gone (another commit or a release): Backend error.
CommitRenameLost(p) ==
  /\ pc[p] = "promoting" /\ rec[p] \notin dir["staging"]
  /\ Finish(p)
  /\ UNCHANGED <<dir, bytes, fd, acked>>

-----------------------------------------------------------------------------
(* release: look for the staged name, remove it. *)

ReleaseAbsent(p, r) ==
  /\ pc[p] = "idle" /\ r \notin dir["staging"]
  /\ UNCHANGED vars

ReleaseFind(p, r) ==
  /\ pc[p] = "idle" /\ r \in dir["staging"]
  /\ Enter(p, r, "releasing")
  /\ UNCHANGED <<dir, bytes, off, fd, acked>>

\* Mutation: release removes the committed name as well.
MutReleaseRemove(p) ==
  /\ pc[p] = "releasing"
  /\ dir'   = [dir EXCEPT !["staging"] = @ \ {rec[p]}, !["committed"] = @ \ {rec[p]}]
  /\ bytes' = [bytes EXCEPT !["staging"][rec[p]] = {}, !["committed"][rec[p]] = {}]
  /\ UNCHANGED fd
  /\ Finish(p)
  /\ UNCHANGED acked

\* remove_file; when the name has gone meanwhile it is an error and no change.
ReleaseRemove(p) ==
  /\ pc[p] = "releasing"
  /\ dir'   = [dir EXCEPT !["staging"] = @ \ {rec[p]}]
  /\ bytes' = [bytes EXCEPT !["staging"][rec[p]] = {}]
  /\ fd'    = [q \in Procs |-> IF rec[q] = rec[p] /\ fd[q] = "staging"
                               THEN "unlinked" ELSE fd[q]]
  /\ Finish(p)
  /\ UNCHANGED acked

\* Process death, or an I/O error returned to the caller, in the middle of an
\* operation: the files stay as they are.
Interrupt(p) ==
  /\ pc[p] # "idle"
  /\ fd' = [fd EXCEPT ![p] = "none"]
  /\ Finish(p)
  /\ UNCHANGED <<dir, bytes, acked>>

-----------------------------------------------------------------------------
Next ==
  \E p \in Procs :
    \/ \E r \in Records :
         \/ PrepareRefuse(p, r) \/ PrepareAdmit(p, r)
         \/ CommitRefuse(p, r)  \/ CommitVerify(p, r)
         \/ ReleaseAbsent(p, r) \/ ReleaseFind(p, r)
    \/ PrepareCreate(p) \/ PrepareWrite(p) \/ PrepareRename(p) \/ PrepareRenameLost(p)
    \/ CommitAlready(p) \/ CommitAbsent(p) \/ CommitRename(p) \/ CommitRenameLost(p)
    \/ ReleaseRemove(p)
    \/ Interrupt(p)

Spec == Init /\ [][Next]_vars

-----------------------------------------------------------------------------
(* Properties. *)

\* The value of every variable is one the code's types and paths allow.
TypeOK ==
  /\ dir   \in [Areas -> SUBSET Records]
  /\ bytes \in [Areas -> [Records -> SUBSET Chunks]]
  /\ pc    \in [Procs -> Steps]
  /\ rec   \in [Procs -> Records \cup {None}]
  /\ off   \in [Procs -> 0..ChunkCount]
  /\ fd    \in [Procs -> Areas \cup {"none", "unlinked"}]
  /\ acked \in SUBSET Records

\* The reserve is counted before the file is created and not again, so the
\* staging directory of a namespace never holds more than the limit plus one
\* name for every other process that was admitted on the same count.
ReserveBound ==
  \A ns \in Namespaces : Held(ns) <= Limit + Cardinality(Procs) - 1

\* "The observed staging name only ever contains fully written bytes."
StagedComplete == \A r \in dir["staging"] : bytes["staging"][r] = Chunks

\* "A reader either observes the full previous state or the full new state":
\* whichever committed file load_committed reads is whole.
CommittedComplete ==
  \A ns \in Namespaces : \A r \in LoadCandidates(ns) : Whole("committed", r)

\* A commit that returned Ok stays published, whatever other processes
\* prepare, commit, release or leave half done afterwards.
AckedPublished == acked \subseteq dir["committed"]

\* The trait's contract: records are staged, published and acknowledged as
\* DurableStore says, one whole record at a time.
Store == INSTANCE DurableStore WITH
           staged    <- {r \in Records : Whole("staging", r)},
           published <- {r \in Records : Whole("committed", r)}

RefinesDurableStore == Store!Spec
=============================================================================
