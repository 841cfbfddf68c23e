------------------------------- MODULE MCSwap -------------------------------
(***************************************************************************)
(* Small instances of Swap for TLC.                                        *)
(***************************************************************************)
EXTENDS Swap, TLC

CONSTANTS a, b, k1, c1

\* the client follows the active scene
Follows == c1 :> NoId
=============================================================================
