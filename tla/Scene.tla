------------------------------- MODULE Scene --------------------------------
(***************************************************************************)
(* One scene of the server: its leaf store, sequence counter, replay       *)
(* buffer and delta broadcast channel, written by any number of concurrent *)
(* tasks (lumencast-server/src/scene.rs).                                  *)
(*                                                                         *)
(* set and emit_with_cause take four locks one after the other and hold    *)
(* none of them across two steps, so a write is four actions: Apply (leaf  *)
(* store), AdvanceSeq (number), PushReplay (replay buffer), Send           *)
(* (broadcast).  A refused or empty write returns before Apply and changes *)
(* nothing.  A connection that a swap takes to another scene uses up one   *)
(* number (AdvanceSeqForChange) that no write bears.                       *)
(*                                                                         *)
(* Values are abstracted to the ordinal of the write that produced them:   *)
(* the i-th Apply writes i, the state before any write (the seeded         *)
(* defaults) is 0.  Writes of distinct values are the case that tells the  *)
(* most about order; a leaf holding i says which write won.                *)
(***************************************************************************)
EXTENDS Integers, Sequences, FiniteSets, ReplayBuffer

CONSTANTS
    Paths,         \* leaf paths of the scene
    Writers,       \* tasks that call set / emit / emit_with_cause
    WritesOf,      \* the leaf paths each of them writes
    ReplayCap,     \* DEFAULT_REPLAY_BUFFER_SIZE, 256 in the code
    BroadcastCap,  \* BROADCAST_CAPACITY, 1024 in the code
    MaxEmits,      \* bound on the number of writes
    MaxChanges     \* bound on the numbers that connections take as they leave

ASSUME WritersAssumption ==
    WritesOf \in [Writers -> (SUBSET Paths) \ {{}}]

ASSUME CapsAssumption ==
    /\ ReplayCap \in Nat \ {0}
    /\ BroadcastCap \in Nat \ {0}
    /\ MaxEmits \in Nat
    /\ MaxChanges \in Nat

(***************************************************************************)
(* No leaf is written by two tasks: the deployment in which every adapter  *)
(* and operator owns its leaves.  Not assumed, but a hypothesis of the     *)
(* properties that need it.                                                *)
(***************************************************************************)
DisjointWriters ==
    \A v, w \in Writers : v # w => WritesOf[v] \cap WritesOf[w] = {}

VARIABLES
    store,     \* Store: leaf path -> value
    seq,       \* SceneInner.seq
    replay,    \* SceneInner.replay
    tx,        \* SceneInner.tx: every payload ever sent, in sending order
    pc,        \* where each writer is in its four steps
    record,    \* the payload a writer is carrying through them
    applied,   \* history: number of writes applied so far
    log        \* history: log[n] is the write that was given number n, or
               \* Nothing

sceneVars == <<store, seq, replay, tx, pc, record, applied, log>>

Steps == {"idle", "stored", "numbered", "recorded"}

(***************************************************************************)
(* DeltaPayload and ReplayRecord: number, leaves and what they now hold.   *)
(***************************************************************************)
Payloads == [seq : Nat, paths : SUBSET Paths, id : Nat]

\* what the history keeps of a numbered write
Entries == [paths : SUBSET Paths, id : Nat]

NoPayload == [seq |-> 0, paths |-> {}, id |-> 0]

\* what is logged for a number that no write was given
Nothing == [paths |-> {}, id |-> 0]

(***************************************************************************)
(* The state a scene is created in.  Number 1 stands for the seeded        *)
(* defaults, which no delta carries.                                       *)
(***************************************************************************)
SceneInit ==
    /\ store = [p \in Paths |-> 0]
    /\ seq = 1
    /\ replay = <<>>
    /\ tx = <<>>
    /\ pc = [w \in Writers |-> "idle"]
    /\ record = [w \in Writers |-> NoPayload]
    /\ applied = 0
    /\ log = <<Nothing>>

(***************************************************************************)
(* Store::apply (Store::set for one leaf) under the store's write lock.    *)
(***************************************************************************)
Overwrite(leaves, paths, id) ==
    [p \in Paths |-> IF p \in paths THEN id ELSE leaves[p]]

\* mutant: the write is numbered and sent but never stored
ApplyForgetsStore(w) ==
    /\ pc[w] = "idle"
    /\ applied < MaxEmits
    /\ \E paths \in (SUBSET WritesOf[w]) \ {{}} :
         record' = [record EXCEPT ![w] =
                [seq |-> 0, paths |-> paths, id |-> applied + 1]]
    /\ applied' = applied + 1
    /\ pc' = [pc EXCEPT ![w] = "stored"]
    /\ UNCHANGED <<store, seq, replay, tx, log>>

Apply(w) ==
    /\ pc[w] = "idle"
    /\ applied < MaxEmits
    /\ \E paths \in (SUBSET WritesOf[w]) \ {{}} :
         /\ store' = Overwrite(store, paths, applied + 1)
         /\ record' = [record EXCEPT ![w] =
                [seq |-> 0, paths |-> paths, id |-> applied + 1]]
    /\ applied' = applied + 1
    /\ pc' = [pc EXCEPT ![w] = "stored"]
    /\ UNCHANGED <<seq, replay, tx, log>>

(***************************************************************************)
(* advance_seq: increment and return, under the counter's lock.            *)
(***************************************************************************)
\* mutant: the number before the increment
AdvanceSeqReturnsOld(w) ==
    /\ pc[w] = "stored"
    /\ seq' = seq + 1
    /\ record' = [record EXCEPT ![w] =
           [seq |-> seq, paths |-> @.paths, id |-> @.id]]
    /\ log' = Append(log, [paths |-> record[w].paths, id |-> record[w].id])
    /\ pc' = [pc EXCEPT ![w] = "numbered"]
    /\ UNCHANGED <<store, replay, tx, applied>>

AdvanceSeq(w) ==
    /\ pc[w] = "stored"
    /\ seq' = seq + 1
    /\ record' = [record EXCEPT ![w] =
           [seq |-> seq + 1, paths |-> @.paths, id |-> @.id]]
    /\ log' = Append(log, [paths |-> record[w].paths, id |-> record[w].id])
    /\ pc' = [pc EXCEPT ![w] = "numbered"]
    /\ UNCHANGED <<store, replay, tx, applied>>

\* the numbers that connections took as they left
Taken == {n \in 2 .. seq : log[n] = Nothing}

(***************************************************************************)
(* advance_seq_for_change: a connection that leaves the scene in a swap    *)
(* takes a number for its own scene_changed frame.  The number is neither  *)
(* pushed nor sent on the channel, so the other subscribers never see it.  *)
(***************************************************************************)
AdvanceSeqForChange ==
    /\ Cardinality(Taken) < MaxChanges
    /\ seq' = seq + 1
    /\ log' = Append(log, Nothing)
    /\ UNCHANGED <<store, replay, tx, pc, record, applied>>

(***************************************************************************)
(* The push into the replay buffer, under the buffer's lock.               *)
(***************************************************************************)
\* mutant: the write does not reach the buffer
PushReplayForgotten(w) ==
    /\ pc[w] = "numbered"
    /\ pc' = [pc EXCEPT ![w] = "recorded"]
    /\ UNCHANGED <<store, seq, replay, tx, record, applied, log>>

PushReplay(w) ==
    /\ pc[w] = "numbered"
    /\ replay' = Push(replay, record[w], ReplayCap)
    /\ pc' = [pc EXCEPT ![w] = "recorded"]
    /\ UNCHANGED <<store, seq, tx, record, applied, log>>

(***************************************************************************)
(* tx.send; the result is ignored, zero subscribers is fine.               *)
(***************************************************************************)
Send(w) ==
    /\ pc[w] = "recorded"
    /\ tx' = Append(tx, record[w])
    /\ record' = [record EXCEPT ![w] = NoPayload]
    /\ pc' = [pc EXCEPT ![w] = "idle"]
    /\ UNCHANGED <<store, seq, replay, applied, log>>

(***************************************************************************)
(* The steps of a write that has begun: nothing blocks them, so a task     *)
(* that is scheduled finishes its write.                                   *)
(***************************************************************************)
Continue(w) == AdvanceSeq(w) \/ PushReplay(w) \/ Send(w)

SceneNext ==
    \/ \E w \in Writers : Apply(w) \/ Continue(w)
    \/ AdvanceSeqForChange

SceneSpec == SceneInit /\ [][SceneNext]_sceneVars

-----------------------------------------------------------------------------
SceneTypeOK ==
    /\ store \in [Paths -> Nat]
    /\ seq \in Nat \ {0}
    /\ replay \in Seq(Payloads)
    /\ Len(replay) <= ReplayCap
    /\ tx \in Seq(Payloads)
    /\ pc \in [Writers -> Steps]
    /\ record \in [Writers -> Payloads]
    /\ applied \in 0 .. MaxEmits
    /\ log \in Seq(Entries)
    /\ Len(log) = seq

Quiet == \A w \in Writers : pc[w] = "idle"

Numbered(w) == pc[w] \in {"numbered", "recorded"}

(***************************************************************************)
(* leaves holds, for every leaf, the value of write number n or a later    *)
(* one, for all numbers n in a set.                                        *)
(***************************************************************************)
Reflects(leaves, numbers) ==
    \A n \in numbers : \A p \in log[n].paths : leaves[p] >= log[n].id

(***************************************************************************)
(* What r says about its number is what was logged for it.                 *)
(***************************************************************************)
Logged(r) ==
    /\ r.seq \in 1 .. seq
    /\ log[r.seq].paths = r.paths
    /\ log[r.seq].id = r.id

(***************************************************************************)
(* The inductive invariant of the scene.  A write is in the store before   *)
(* it has a number, so the store reflects every number; nothing that is    *)
(* carried, buffered or sent differs from what was logged for its number;  *)
(* no leaf holds a value that came from nowhere.                           *)
(***************************************************************************)
StoreReflectsLog == Reflects(store, 1 .. seq)

CarriedIsStored ==
    \A w \in Writers : pc[w] # "idle" =>
        /\ record[w].id \in 1 .. applied
        /\ record[w].paths \subseteq WritesOf[w]
        /\ \A p \in record[w].paths : store[p] >= record[w].id

CarriedIsLogged == \A w \in Writers : Numbered(w) => Logged(record[w])

SentIsLogged ==
    /\ \A i \in 1 .. Len(replay) : Logged(replay[i])
    /\ \A i \in 1 .. Len(tx) : Logged(tx[i])

IdsBounded ==
    /\ \A p \in Paths : store[p] <= applied
    /\ \A n \in 1 .. seq : log[n].id <= applied

StoreHasSource ==
    \A p \in Paths :
        \/ store[p] = 0
        \/ \E n \in 1 .. seq : p \in log[n].paths /\ log[n].id = store[p]
        \/ \E w \in Writers :
             /\ pc[w] = "stored"
             /\ p \in record[w].paths
             /\ record[w].id = store[p]

SceneInv ==
    /\ SceneTypeOK
    /\ StoreReflectsLog
    /\ CarriedIsStored
    /\ CarriedIsLogged
    /\ SentIsLogged
    /\ IdsBounded
    /\ StoreHasSource

(***************************************************************************)
(* With one writer per leaf, numbers are given in the order in which the   *)
(* values reached the leaf.  The second conjunct makes it inductive: a     *)
(* write that waits for its number is newer than all numbered ones.        *)
(***************************************************************************)
NumbersInStoreOrder ==
    /\ \A m, n \in 1 .. seq :
         m < n => \A p \in log[m].paths \cap log[n].paths :
                     log[m].id <= log[n].id
    /\ \A w \in Writers : pc[w] = "stored" =>
         \A n \in 1 .. seq : \A p \in log[n].paths \cap record[w].paths :
             log[n].id <= record[w].id

-----------------------------------------------------------------------------
(***************************************************************************)
(* Every number that a write was given is sent exactly once: it is in the  *)
(* channel or one writer is carrying it, and never two of these.  A number *)
(* that a connection took as it left is neither.                           *)
(***************************************************************************)
EachNumberOnce ==
    \A n \in 2 .. seq :
        LET sent == {i \in 1 .. Len(tx) : tx[i].seq = n}
            carriers == {w \in Writers : Numbered(w) /\ record[w].seq = n}
        IN IF n \in Taken
             THEN sent = {} /\ carriers = {}
             ELSE \/ carriers = {} /\ \E i \in sent : sent = {i}
                  \/ sent = {} /\ \E w \in carriers : carriers = {w}

(***************************************************************************)
(* "Return every record with seq > since_seq": whatever the resume point,  *)
(* if the buffer says that it covers it then no later write is missing     *)
(* from it, but for writes that have not reached the buffer yet (these     *)
(* still come through the channel).  Numbers taken by connections that     *)
(* left are not in the buffer and bear no write.                           *)
(***************************************************************************)
SliceComplete ==
    \A s \in 1 .. seq :
        Covered(replay, s) =>
            \A n \in ((s + 1) .. seq) \ Taken :
                \/ \E i \in 1 .. Len(replay) : replay[i].seq = n
                \/ \E w \in Writers :
                     pc[w] = "numbered" /\ record[w].seq = n
=============================================================================
