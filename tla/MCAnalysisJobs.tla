--------------------------- MODULE MCAnalysisJobs ---------------------------
(* AnalysisJobs on small sets of nodes and browsers, which are alike.      *)
EXTENDS AnalysisJobs, TLC

Symmetry == Permutations(Keys) \cup Permutations(Observers)
=============================================================================
