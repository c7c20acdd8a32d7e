---- MODULE MCFileStore ----
(* FileStore with a record that every process may be asked to prepare. *)
EXTENDS FileStore

MCNsOf == [r \in Records |-> "ns"]
MCShared == [r \in Records |-> Procs]
====
