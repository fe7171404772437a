-------------------------- MODULE MCAnalysisQueue --------------------------
(***************************************************************************)
(* Small instances of AnalysisQueue for TLC.                               *)
(***************************************************************************)
EXTENDS AnalysisQueue, TLC

\* Domains and nothing else is symmetric: ties of the claim order are open.
Symmetry == Permutations(Domains)
=============================================================================
