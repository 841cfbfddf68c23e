---------------------------- MODULE ReplayBuffer ----------------------------
(***************************************************************************)
(* The bounded ring of recent emissions that a resuming subscriber is      *)
(* served from (lumencast-server/src/replay_buffer.rs).  The buffer is a   *)
(* sequence of records with a field seq, oldest first; its capacity is an  *)
(* argument.                                                               *)
(***************************************************************************)
EXTENDS Integers, Sequences

(***************************************************************************)
(* push: at capacity the front record is evicted, whatever its seq; the    *)
(* buffer trusts its caller to push in seq order.                          *)
(***************************************************************************)
\* mutant: never evict
PushForgetsEviction(buf, record, cap) == Append(buf, record)

Push(buf, record, cap) ==
    Append(IF Len(buf) = cap THEN Tail(buf) ELSE buf, record)

(***************************************************************************)
(* since, first half: can the buffer serve a subscriber that has seen      *)
(* everything up to `since'?  Only the front record is consulted, and an   *)
(* empty buffer covers every resume point.                                 *)
(***************************************************************************)
Covered(buf, since) ==
    buf # <<>> => since + 1 >= Head(buf).seq

(***************************************************************************)
(* since, second half: the filter that selects the records of the slice.   *)
(***************************************************************************)
Wanted(record, since) == record.seq > since
=============================================================================
