-------------------------- MODULE MCMachineVerify ---------------------------
(* Instances of MachineVerify for TLC.                                     *)
EXTENDS MachineVerify, TLC

(* Both layouts of npu-smi, a card without its second row at the end and   *)
(* before another one, and one card too few.                               *)
A2(i) == [index |-> i, bus |-> TRUE, phy |-> None]
A3(i, chip) == [index |-> i, bus |-> TRUE, phy |-> chip]
Bare(i) == [index |-> i, bus |-> FALSE, phy |-> None]
Layouts == {<<A2(0), A2(1)>>, <<A3(0, 0), A3(0, 1)>>, <<Bare(0), Bare(1)>>,
            <<Bare(0), A2(1)>>, <<A2(0)>>, <<>>}

Good == [reach |-> TRUE, up |-> TRUE, workspace |-> "writable", smi |-> "works",
         npus |-> <<A2(0), A2(1)>>, python |-> TRUE, space |-> TRUE]

(* One thing at a time is different from a good machine.                   *)
OddHosts ==
    {[Good EXCEPT !.npus = npus] : npus \in Layouts}
    \cup {[Good EXCEPT !.workspace = ws] : ws \in {"missing", "readonly"}}
    \cup {[Good EXCEPT !.smi = smi] : smi \in {"absent", "broken"}}
    \cup {[Good EXCEPT !.reach = FALSE], [Good EXCEPT !.up = FALSE],
          [Good EXCEPT !.python = FALSE], [Good EXCEPT !.space = FALSE]}

SomeConfigs ==
    [known : {TRUE}, ascend : BOOLEAN, form : {"int", "digits", "other"},
     cards : {2}]
    \cup [known : {FALSE}, ascend : {TRUE}, form : {"int"}, cards : {2}]

Symmetry == Permutations(Procs)
=============================================================================
