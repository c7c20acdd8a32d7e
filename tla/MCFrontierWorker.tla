---- MODULE MCFrontierWorker ----
(* Instances of FrontierWorker for TLC: one record, every worker may prepare it. *)
EXTENDS FrontierWorker

MCNsOf == [r \in Records |-> "ns"]
MCWriters == [r \in Records |-> Procs]
====
