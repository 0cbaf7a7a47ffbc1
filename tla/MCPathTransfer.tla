--------------------------- MODULE MCPathTransfer ---------------------------
(* Instances of PathTransfer for TLC.                                      *)
EXTENDS PathTransfer, TLC

CONSTANTS f, g, dropped, misread

(* One file, or the directory with two, in both directions.                *)
Calls == [push : BOOLEAN, dir : {FALSE}, files : {{dropped}, {misread}}]
            \cup [push : BOOLEAN, dir : {TRUE}, files : {{f, g}}]

(* Any of the directory's files, and the other two on both sides.          *)
AnyDirectory ==
    {t \in [Side -> [Files -> {None, 0}]] :
        \A side \in Side : t[side][dropped] = 0 /\ t[side][misread] = 0}

Symmetry == Permutations(Procs)
=============================================================================
