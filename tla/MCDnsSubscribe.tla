--------------------------- MODULE MCDnsSubscribe ---------------------------
(* Finite instances of module DnsSubscribe for TLC.                        *)
EXTENDS DnsSubscribe

CONSTANTS w1, w2

MCWorkers == {w1, w2}
=============================================================================
