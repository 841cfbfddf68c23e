-------------------------- MODULE SequenceTracker ---------------------------
(***************************************************************************)
(* The receiver's sequence check (lumencast-protocol/src/sequence.rs).     *)
(* The tracker's whole state is the last number it observed, 0 when it is  *)
(* fresh.                                                                  *)
(***************************************************************************)
EXTENDS Integers

Observations == {"accepted", "duplicate", "gap"}

(***************************************************************************)
(* observe_seq: a fresh tracker takes any number but 0 as its baseline;    *)
(* after that only last + 1 is accepted, older numbers are duplicates.     *)
(***************************************************************************)
\* mutant: any newer number is accepted
ObserveSeqLenient(last, seq) ==
    IF last # 0 /\ seq <= last THEN "duplicate" ELSE "accepted"

ObserveSeq(last, seq) ==
    CASE last = 0 /\ seq < 1                      -> "gap"
      [] last = 0 /\ seq >= 1                     -> "accepted"
      [] last # 0 /\ seq <= last                  -> "duplicate"
      [] last # 0 /\ seq > last /\ seq # last + 1 -> "gap"
      [] last # 0 /\ seq = last + 1               -> "accepted"

(***************************************************************************)
(* The tracker's next state: only an accepted number moves it.             *)
(***************************************************************************)
AfterSeq(last, seq) ==
    IF ObserveSeq(last, seq) = "accepted" THEN seq ELSE last

(***************************************************************************)
(* observe_snapshot: rebase on the number of a snapshot, whatever was      *)
(* observed before; 0 is ignored.                                          *)
(***************************************************************************)
AfterSnapshot(last, seq) == IF seq >= 1 THEN seq ELSE last
=============================================================================
