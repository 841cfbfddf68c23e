------------------------------ MODULE MCFanout ------------------------------
(***************************************************************************)
(* Small instances of Fanout for TLC.                                      *)
(***************************************************************************)
EXTENDS Fanout, TLC

CONSTANTS p1, p2, w1, w2, c1

\* one task writes both leaves
OneWriter == w1 :> {p1, p2}
\* two tasks, a leaf each
OwnLeaves == w1 :> {p1} @@ w2 :> {p2}
\* two tasks write the same leaf
SameLeaf == w1 :> {p1} @@ w2 :> {p1}
=============================================================================
