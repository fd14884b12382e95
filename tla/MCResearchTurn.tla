---------------------------- MODULE MCResearchTurn ----------------------------
(* Instances of ResearchTurn for TLC. *)
EXTENDS ResearchTurn, TLC

\* The runs and the URLs are interchangeable (used with invariants and action
\* properties only).
Symmetry == Permutations(Runs) \cup Permutations(Urls)
=============================================================================
