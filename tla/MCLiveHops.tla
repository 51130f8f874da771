------------------------------ MODULE MCLiveHops ------------------------------
(* Two hops, two addresses each, up to three probes per hop: enough for a     *)
(* reply before, between and after the losses and for a change of address.    *)
EXTENDS LiveHops, TLC

CONSTANTS a1, a2

Hops == 1..2
Addrs == {a1, a2}
SymAddr == Permutations(Addrs)
===============================================================================
