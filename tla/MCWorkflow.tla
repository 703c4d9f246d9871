----------------------------- MODULE MCWorkflow -----------------------------
(***************************************************************************)
(* The process keys of the runs of Workflow are interchangeable.           *)
(***************************************************************************)
EXTENDS Workflow, TLC

CONSTANTS k1, k2
KeySymmetry == Permutations(ProcessKeys)
=============================================================================
