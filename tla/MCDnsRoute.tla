----------------------------- MODULE MCDnsRoute -----------------------------
(* Finite instances of module DnsRoute for TLC.                            *)
EXTENDS DnsRoute, TLC

CONSTANTS m1, m2

MCMods == {m1, m2}

(* For the run without liveness properties: modules are interchangeable.   *)
MCSymmetry == Permutations(MCMods)
=============================================================================
