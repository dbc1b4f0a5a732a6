----------------------------- MODULE MCSession -----------------------------
(* Session with small sets of processes; symmetry for the safety runs.     *)
EXTENDS Session, TLC

Symmetry == Permutations(PortfolioReqs) \cup Permutations(RefreshTasks)
=============================================================================
