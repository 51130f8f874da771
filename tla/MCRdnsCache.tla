----------------------------- MODULE MCRdnsCache -----------------------------
(* One unit of time stands for what the settings call 0.3 s to 5 s: only the *)
(* order of the timeouts counts.                                             *)
EXTENDS RdnsCache, TLC

CONSTANTS t1, t2, a1, n1

Tasks2 == {t1, t2}
Addrs1 == {a1}
Names1 == {n1}
Sym == Permutations(Tasks2)
==============================================================================
