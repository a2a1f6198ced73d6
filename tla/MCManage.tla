------------------------------ MODULE MCManage ------------------------------
(* Finite instances of module Manage for TLC.                              *)
EXTENDS Manage

CONSTANTS m1, h1, h2

MCMods == {m1}

MCHosts == {h1, h2}
=============================================================================
