----------------------------- MODULE MCJobStore -----------------------------
(***************************************************************************)
(* Instances of JobStore for TLC.                                          *)
(***************************************************************************)
EXTENDS JobStore, TLC

(* Processes are interchangeable: no property names one.                   *)
Symmetry == Permutations(Procs)
=============================================================================
