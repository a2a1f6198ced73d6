----------------------------- MODULE MCBalancer -----------------------------
(* The finite instance of module Balancer for TLC.                         *)
EXTENDS Balancer

CONSTANTS h1, h2

MCHosts == {h1, h2}
=============================================================================
