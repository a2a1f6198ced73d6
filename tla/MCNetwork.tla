----------------------------- MODULE MCNetwork ------------------------------
(* Two clients; a server with no IO thread, one or two.                    *)
EXTENDS Network

CONSTANTS l1, l2

MCIoLoops == <<l1, l2>>
=============================================================================
