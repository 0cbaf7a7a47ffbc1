---------------------------- MODULE MCRemoteJobs ----------------------------
(***************************************************************************)
(* Instances of RemoteJobs for TLC: the constants that a .cfg cannot write.*)
(***************************************************************************)
EXTENDS RemoteJobs, TLC

AllModes   == Mode
Background == {[bg |-> TRUE, kept |-> TRUE]}
Recorded   == {[bg |-> b, kept |-> TRUE] : b \in BOOLEAN}

(* Every job on the same machine.                                          *)
OneMachine == [j \in Jobs |-> CHOOSE m \in Machines : TRUE]

(* Jobs and queriers are interchangeable: no property names one.           *)
Symmetry == Permutations(Jobs) \cup Permutations(Queriers)
=============================================================================
