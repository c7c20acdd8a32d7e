---- MODULE MCStoreLanes ----
(* Both lanes for TLC. *)
EXTENDS StoreLanes, TLC

CONSTANTS p1, p2, p3, r1, r2, r3, c1, c2, c3, c4

MCNsOf == [r \in Records |-> "ns"]
\* Every record of the file lane has one process that prepares it; anyone
\* commits and releases.
MCOwned == r1 :> {p1} @@ r2 :> {p2} @@ r3 :> {p3}
MCCliNsOf == [r \in CliRecords |-> "ns"]
\* The CLI lane treats its records alike, and the file lane has none of them.
MCCliSymmetry == Permutations(CliRecords)
====
