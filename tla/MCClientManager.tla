--------------------------- MODULE MCClientManager --------------------------
(***************************************************************************)
(* Small instances of ClientManager for TLC.                               *)
(***************************************************************************)
EXTENDS ClientManager

CONSTANTS u1, u2, u3, t1, t2
=============================================================================
