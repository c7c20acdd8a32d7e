---- MODULE MCPortfolioRace ----
(* Instances of PortfolioRace for TLC. *)
EXTENDS PortfolioRace
====
