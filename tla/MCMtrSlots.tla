------------------------------ MODULE MCMtrSlots ------------------------------
(* Three coroutines on one or two slots. *)
EXTENDS MtrSlots, TLC

CONSTANTS t1, t2, t3

Tasks2 == {t1, t2}
Tasks3 == {t1, t2, t3}
Sym3 == Permutations(Tasks3)
===============================================================================
