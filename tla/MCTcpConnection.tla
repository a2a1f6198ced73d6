--------------------------- MODULE MCTcpConnection ---------------------------
(* Finite instances of module TcpConnection for TLC: three requests, of    *)
(* which the second is handed to a worker and the last is too long.        *)
EXTENDS TcpConnection

MCLengths == <<2, 0, 3>>

MCReplies == <<2, 1, 0>>
=============================================================================
