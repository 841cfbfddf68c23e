------------------------------- MODULE MCScene ------------------------------
(***************************************************************************)
(* Small instances of Scene for TLC.                                       *)
(***************************************************************************)
EXTENDS Scene, TLC

CONSTANTS p1, p2, w1, w2, w3

\* three tasks, two of them on the same leaf
Racing == w1 :> {p1} @@ w2 :> {p1} @@ w3 :> {p2}
=============================================================================
