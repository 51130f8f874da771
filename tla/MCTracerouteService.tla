------------------------- MODULE MCTracerouteService -------------------------
(* Two requests for one key.  A unit of time stands for 10 s or more of the  *)
(* settings: only the order of the timeouts counts.                          *)
EXTENDS TracerouteService, TLC

CONSTANTS r1, r2, k1

Tasks2 == {r1, r2}
Keys1 == {k1}
BothModes == {"blocking", "stream"}
BlockingOnly == {"blocking"}
Sym2 == Permutations(Tasks2)
===============================================================================
