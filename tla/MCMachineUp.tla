---------------------------- MODULE MCMachineUp -----------------------------
(***************************************************************************)
(* Instances of MachineUp for TLC.                                         *)
(***************************************************************************)
EXTENDS MachineUp, TLC

(* CLI processes are interchangeable: no property names one.               *)
Symmetry == Permutations(Procs)
=============================================================================
