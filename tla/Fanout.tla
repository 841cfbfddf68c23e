------------------------------- MODULE Fanout -------------------------------
(***************************************************************************)
(* A scene (module Scene) and its subscribers: for every subscriber the    *)
(* server's connection handler (lumencast-server/src/ws_handler.rs, run),  *)
(* the socket, and the client's receiving side (lumencast-client,          *)
(* manager.rs and connection.rs, with the SequenceTracker).                *)
(*                                                                         *)
(* Two kinds of client are modelled.  The Rust client always subscribes    *)
(* without since_sequence and starts a new tracker on every connection.  A *)
(* Resuming client is a runtime outside this repository that uses what the *)
(* protocol crate offers: it keeps its tracker and its view over a         *)
(* reconnect and sends since_sequence.                                     *)
(*                                                                         *)
(* An input that a handler accepts is written by emit_with_cause in the    *)
(* handler's own task; here that task is one of the Writers.  The model    *)
(* therefore lets a handler pump deltas in the middle of its own write,    *)
(* which adds interleavings and removes none.  The select loop's bias is   *)
(* left out in the same way.                                               *)
(*                                                                         *)
(* A swap takes a connection to another scene (Leave).  What it does there *)
(* and how a swap brings it back is the subject of module Swap; here it is *)
(* away until it connects again.                                           *)
(***************************************************************************)
EXTENDS Scene, SequenceTracker

CONSTANTS
    Clients,
    Resuming,   \* the clients that reconnect with since_sequence
    MaxErrors,  \* bound on the error frames for refused client frames
    MaxDrops    \* bound on connections lost or left by the client

ASSUME ClientsAssumption ==
    /\ Resuming \subseteq Clients
    /\ MaxErrors \in Nat
    /\ MaxDrops \in Nat

VARIABLES
    phase,    \* where the handler of each client is in run
    since,    \* subscribe.since_sequence, 0 when absent
    rx,       \* deltas_rx: index in tx of the next payload to receive
    snapSeq,  \* send_snapshot's local seq
    backlog,  \* replay records the handler still has to send
    wire,     \* frames on the socket, server to client
    last,     \* the client's SequenceTracker
    view,     \* the leaves as the client's user has been told they are
    stolen,   \* history: numbers a client accepted from an error frame
    errors,   \* error frames sent for refused client frames
    drops     \* connections lost or left so far

clientVars == <<phase, since, rx, snapSeq, backlog, wire, last, view, stolen,
                errors, drops>>
vars == <<sceneVars, clientVars>>

(***************************************************************************)
(* "closed": the handler returned, frames it sent may still be on the way. *)
(* "leaving": it went on to another scene, and its scene_changed may still *)
(* be on the way; "away": the client knows.                                *)
(***************************************************************************)
Phases == {"down", "subscribed", "replaying", "snapshotting", "live", "closed",
           "leaving", "away"}

SnapshotFrames == [kind : {"snapshot"}, seq : Nat, state : [Paths -> Nat]]
DeltaFrames == [kind : {"delta"}, seq : Nat, paths : SUBSET Paths, id : Nat]
ErrorFrames == [kind : {"error"}, seq : Nat]
ChangedFrames == [kind : {"scene_changed"}, seq : Nat]
Frames == SnapshotFrames \cup DeltaFrames \cup ErrorFrames \cup ChangedFrames

SnapshotFrame(n, state) == [kind |-> "snapshot", seq |-> n, state |-> state]
DeltaFrame(payload) ==
    [kind |-> "delta", seq |-> payload.seq, paths |-> payload.paths,
     id |-> payload.id]
ErrorFrame(n) == [kind |-> "error", seq |-> n]
ChangedFrame(n) == [kind |-> "scene_changed", seq |-> n]

Init ==
    /\ SceneInit
    /\ phase = [c \in Clients |-> "down"]
    /\ since = [c \in Clients |-> 0]
    /\ rx = [c \in Clients |-> 0]
    /\ snapSeq = [c \in Clients |-> 0]
    /\ backlog = [c \in Clients |-> <<>>]
    /\ wire = [c \in Clients |-> <<>>]
    /\ last = [c \in Clients |-> 0]
    /\ view = [c \in Clients |-> [p \in Paths |-> 0]]
    /\ stolen = [c \in Clients |-> {}]
    /\ errors = 0
    /\ drops = 0

-----------------------------------------------------------------------------
(* The connection handler                                                  *)

Emit(c, frame) == wire' = [wire EXCEPT ![c] = Append(@, frame)]

(***************************************************************************)
(* The client connects and the handler reads its subscribe frame; the      *)
(* handler takes its broadcast receiver before it looks at the state.      *)
(***************************************************************************)
Subscribe(c) ==
    /\ phase[c] = "down"
    /\ phase' = [phase EXCEPT ![c] = "subscribed"]
    /\ since' = [since EXCEPT ![c] = IF c \in Resuming THEN last[c] ELSE 0]
    /\ rx' = [rx EXCEPT ![c] = Len(tx) + 1]
    /\ UNCHANGED <<sceneVars, snapSeq, backlog, wire, last, view, stolen,
                   errors, drops>>

(***************************************************************************)
(* The since_sequence that the handler may honour from the replay buffer.  *)
(***************************************************************************)
Resumable(c) ==
    /\ since[c] > 0
    /\ since[c] <= seq
    /\ Covered(replay, since[c])

Resume(c) ==
    /\ phase[c] = "subscribed"
    /\ Resumable(c)
    /\ phase' = [phase EXCEPT ![c] = "replaying"]
    /\ backlog' = [backlog EXCEPT ![c] = replay]
    /\ UNCHANGED <<sceneVars, since, rx, snapSeq, wire, last, view, stolen,
                   errors, drops>>

(***************************************************************************)
(* One turn of the loop over the slice; records the subscriber has seen    *)
(* are filtered out.                                                       *)
(***************************************************************************)
SendReplayed(c) ==
    /\ phase[c] = "replaying"
    /\ backlog[c] # <<>>
    /\ backlog' = [backlog EXCEPT ![c] = Tail(@)]
    /\ IF Wanted(Head(backlog[c]), since[c])
         THEN Emit(c, DeltaFrame(Head(backlog[c])))
         ELSE UNCHANGED wire
    /\ UNCHANGED <<sceneVars, phase, since, rx, snapSeq, last, view, stolen,
                   errors, drops>>

EndReplay(c) ==
    /\ phase[c] = "replaying"
    /\ backlog[c] = <<>>
    /\ phase' = [phase EXCEPT ![c] = "live"]
    /\ UNCHANGED <<sceneVars, since, rx, snapSeq, backlog, wire, last, view,
                   stolen, errors, drops>>

(***************************************************************************)
(* send_snapshot reads the number and then the leaves, under two locks.    *)
(***************************************************************************)
\* mutant: the snapshot takes the next number
ReadSeqAhead(c) ==
    /\ phase[c] = "subscribed"
    /\ ~ Resumable(c)
    /\ phase' = [phase EXCEPT ![c] = "snapshotting"]
    /\ snapSeq' = [snapSeq EXCEPT ![c] = seq + 1]
    /\ UNCHANGED <<sceneVars, since, rx, backlog, wire, last, view, stolen,
                   errors, drops>>

ReadSeq(c) ==
    /\ phase[c] = "subscribed"
    /\ ~ Resumable(c)
    /\ phase' = [phase EXCEPT ![c] = "snapshotting"]
    /\ snapSeq' = [snapSeq EXCEPT ![c] = seq]
    /\ UNCHANGED <<sceneVars, since, rx, backlog, wire, last, view, stolen,
                   errors, drops>>

\* mutant: the receiver is taken after the snapshot
SendSnapshotThenSubscribe(c) ==
    /\ phase[c] = "snapshotting"
    /\ phase' = [phase EXCEPT ![c] = "live"]
    /\ Emit(c, SnapshotFrame(snapSeq[c], store))
    /\ rx' = [rx EXCEPT ![c] = Len(tx) + 1]
    /\ UNCHANGED <<sceneVars, since, snapSeq, backlog, last, view, stolen,
                   errors, drops>>

SendSnapshot(c) ==
    /\ phase[c] = "snapshotting"
    /\ phase' = [phase EXCEPT ![c] = "live"]
    /\ Emit(c, SnapshotFrame(snapSeq[c], store))
    /\ UNCHANGED <<sceneVars, since, rx, snapSeq, backlog, last, view, stolen,
                   errors, drops>>

(***************************************************************************)
(* The delta arm of the select loop.  The channel keeps the last           *)
(* BroadcastCap payloads; a receiver that fell further behind gets Lagged, *)
(* on which the handler sends an error and returns.                        *)
(***************************************************************************)
Unread(c) == Len(tx) - rx[c] + 1

Pump(c) ==
    /\ phase[c] = "live"
    /\ Unread(c) \in 1 .. BroadcastCap
    /\ Emit(c, DeltaFrame(tx[rx[c]]))
    /\ rx' = [rx EXCEPT ![c] = @ + 1]
    /\ UNCHANGED <<sceneVars, phase, since, snapSeq, backlog, last, view,
                   stolen, errors, drops>>

\* mutant: a lagging receiver skips what it lost and goes on
LaggedIgnored(c) ==
    /\ phase[c] = "live"
    /\ Unread(c) > BroadcastCap
    /\ rx' = [rx EXCEPT ![c] = Len(tx) + 1]
    /\ UNCHANGED <<sceneVars, phase, since, snapSeq, backlog, wire, last, view,
                   stolen, errors, drops>>

Lagged(c) ==
    /\ phase[c] = "live"
    /\ Unread(c) > BroadcastCap
    /\ Emit(c, ErrorFrame(seq))
    /\ phase' = [phase EXCEPT ![c] = "closed"]
    /\ UNCHANGED <<sceneVars, since, rx, snapSeq, backlog, last, view, stolen,
                   errors, drops>>

(***************************************************************************)
(* The socket arm, a frame the handler refuses: an input that is not       *)
(* permitted, empty, over the rate or invalid is answered with a           *)
(* recoverable error; malformed JSON, a second subscribe or a binary frame *)
(* also ends the connection.  The error frame carries the scene's current  *)
(* number and takes none of its own.                                       *)
(***************************************************************************)
Refuse(c) ==
    /\ phase[c] = "live"
    /\ errors < MaxErrors
    /\ errors' = errors + 1
    /\ Emit(c, ErrorFrame(seq))
    /\ \/ UNCHANGED phase
       \/ phase' = [phase EXCEPT ![c] = "closed"]
    /\ UNCHANGED <<sceneVars, since, rx, snapSeq, backlog, last, view, stolen,
                   drops>>

(***************************************************************************)
(* The SceneSwap arm, to another scene: the connection takes a number of   *)
(* the scene it leaves for its own scene_changed frame.                    *)
(***************************************************************************)
Leave(c) ==
    /\ phase[c] = "live"
    /\ AdvanceSeqForChange
    /\ Emit(c, ChangedFrame(seq + 1))
    /\ phase' = [phase EXCEPT ![c] = "leaving"]
    /\ UNCHANGED <<since, rx, snapSeq, backlog, last, view, stolen, errors,
                   drops>>

-----------------------------------------------------------------------------
(* The client                                                              *)

(***************************************************************************)
(* The connection to this scene is gone on both sides; frames on the way   *)
(* are lost.                                                               *)
(***************************************************************************)
Detach(c, where, count, numbers) ==
    /\ phase' = [phase EXCEPT ![c] = where]
    /\ since' = [since EXCEPT ![c] = 0]
    /\ rx' = [rx EXCEPT ![c] = 0]
    /\ snapSeq' = [snapSeq EXCEPT ![c] = 0]
    /\ backlog' = [backlog EXCEPT ![c] = <<>>]
    /\ wire' = [wire EXCEPT ![c] = <<>>]
    /\ last' = [last EXCEPT ![c] = count]
    /\ stolen' = [stolen EXCEPT ![c] = numbers]
    /\ UNCHANGED view

(***************************************************************************)
(* The connection ends; the Rust client's tracker goes with it.            *)
(***************************************************************************)
\* mutants: every client's tracker starts again; frames of the old
\* connection are still read
HangupResetsTracker(c) == Detach(c, "down", 0, {})

HangupKeepsFrames(c) ==
    /\ phase' = [phase EXCEPT ![c] = "down"]
    /\ since' = [since EXCEPT ![c] = 0]
    /\ rx' = [rx EXCEPT ![c] = 0]
    /\ snapSeq' = [snapSeq EXCEPT ![c] = 0]
    /\ backlog' = [backlog EXCEPT ![c] = <<>>]
    /\ last' = [last EXCEPT ![c] = IF c \in Resuming THEN @ ELSE 0]
    /\ stolen' = [stolen EXCEPT ![c] = IF c \in Resuming THEN @ ELSE {}]
    /\ UNCHANGED <<wire, view>>

Hangup(c) ==
    IF c \in Resuming
      THEN Detach(c, "down", last[c], stolen[c])
      ELSE Detach(c, "down", 0, {})

(***************************************************************************)
(* The connection breaks or the client unsubscribes, at any moment.        *)
(***************************************************************************)
Drop(c) ==
    /\ phase[c] # "down"
    /\ drops < MaxDrops
    /\ drops' = drops + 1
    /\ Hangup(c)
    /\ UNCHANGED <<sceneVars, errors>>

Arrived(c, kind) == wire[c] # <<>> /\ Head(wire[c]).kind = kind

Consume(c) == wire' = [wire EXCEPT ![c] = Tail(@)]

(***************************************************************************)
(* A snapshot replaces the view and is the tracker's new baseline.         *)
(***************************************************************************)
ReceiveSnapshot(c) ==
    /\ Arrived(c, "snapshot")
    /\ Consume(c)
    /\ last' = [last EXCEPT ![c] = AfterSnapshot(@, Head(wire[c]).seq)]
    /\ view' = [view EXCEPT ![c] = Head(wire[c]).state]
    /\ stolen' = [stolen EXCEPT ![c] = {}]
    /\ UNCHANGED <<sceneVars, phase, since, rx, snapSeq, backlog, errors,
                   drops>>

Counted(c) ==
    Arrived(c, "delta") \/ Arrived(c, "error") \/ Arrived(c, "scene_changed")

Observed(c) == ObserveSeq(last[c], Head(wire[c]).seq)

(***************************************************************************)
(* handle_frame on a delta.                                                *)
(***************************************************************************)
AcceptDelta(c) ==
    /\ Arrived(c, "delta")
    /\ Observed(c) = "accepted"
    /\ Consume(c)
    /\ last' = [last EXCEPT ![c] = AfterSeq(@, Head(wire[c]).seq)]
    /\ view' = [view EXCEPT ![c] =
           Overwrite(@, Head(wire[c]).paths, Head(wire[c]).id)]
    /\ UNCHANGED <<sceneVars, phase, since, rx, snapSeq, backlog, stolen,
                   errors, drops>>

(***************************************************************************)
(* handle_frame on an error: it is counted like a delta, so an error can   *)
(* use up the number of a delta that is still on its way.                  *)
(***************************************************************************)
AcceptError(c) ==
    /\ Arrived(c, "error")
    /\ Observed(c) = "accepted"
    /\ Consume(c)
    /\ last' = [last EXCEPT ![c] = AfterSeq(@, Head(wire[c]).seq)]
    /\ stolen' = [stolen EXCEPT ![c] = @ \cup {Head(wire[c]).seq}]
    /\ UNCHANGED <<sceneVars, phase, since, rx, snapSeq, backlog, view,
                   errors, drops>>

(***************************************************************************)
(* handle_frame on scene_changed: the tracker is reset, and what follows   *)
(* on the socket belongs to the other scene.                               *)
(***************************************************************************)
AcceptChanged(c) ==
    /\ Arrived(c, "scene_changed")
    /\ Observed(c) = "accepted"
    /\ Detach(c, "away", 0, {})
    /\ UNCHANGED <<sceneVars, errors, drops>>

(***************************************************************************)
(* handle_frame on a number seen before: the frame is dropped silently,    *)
(* whatever it is.                                                         *)
(***************************************************************************)
DropDuplicate(c) ==
    /\ Counted(c)
    /\ Observed(c) = "duplicate"
    /\ Consume(c)
    /\ UNCHANGED <<sceneVars, phase, since, rx, snapSeq, backlog, last, view,
                   stolen, errors, drops>>

(***************************************************************************)
(* handle_frame on a missing number, and the end of the stream: the client *)
(* closes, and subscribes again.                                           *)
(***************************************************************************)
CloseOnGap(c) ==
    /\ Counted(c)
    /\ Observed(c) = "gap"
    /\ Hangup(c)
    /\ UNCHANGED <<sceneVars, errors, drops>>

EndOfStream(c) ==
    /\ phase[c] = "closed"
    /\ wire[c] = <<>>
    /\ Hangup(c)
    /\ UNCHANGED <<sceneVars, errors, drops>>

Receive(c) ==
    \/ ReceiveSnapshot(c)
    \/ AcceptDelta(c)
    \/ AcceptError(c)
    \/ AcceptChanged(c)
    \/ DropDuplicate(c)
    \/ CloseOnGap(c)
    \/ EndOfStream(c)

Handle(c) ==
    \/ Subscribe(c)
    \/ Resume(c)
    \/ SendReplayed(c)
    \/ EndReplay(c)
    \/ ReadSeq(c)
    \/ SendSnapshot(c)
    \/ Pump(c)
    \/ Lagged(c)

Next ==
    \/ SceneNext /\ UNCHANGED clientVars
    \/ \E c \in Clients :
         Handle(c) \/ Receive(c) \/ Refuse(c) \/ Leave(c) \/ Drop(c)

Spec == Init /\ [][Next]_vars

(***************************************************************************)
(* A write that has begun is finished, a handler that can move moves, a    *)
(* client reads its socket and reconnects: the runtime schedules every     *)
(* ready task and none of these steps waits for another task's lock for    *)
(* more than a step.  Nothing obliges a task to write, anyone to swap the  *)
(* scene, a client to send a bad frame or a connection to break.           *)
(***************************************************************************)
FairSpec ==
    /\ Spec
    /\ \A w \in Writers : WF_vars(Continue(w) /\ UNCHANGED clientVars)
    /\ \A c \in Clients : WF_vars(Handle(c)) /\ WF_vars(Receive(c))

-----------------------------------------------------------------------------
ClientTypeOK ==
    /\ phase \in [Clients -> Phases]
    /\ since \in [Clients -> Nat]
    /\ rx \in [Clients -> Nat]
    /\ snapSeq \in [Clients -> Nat]
    /\ backlog \in [Clients -> Seq(Payloads)]
    /\ wire \in [Clients -> Seq(Frames)]
    /\ last \in [Clients -> Nat]
    /\ view \in [Clients -> [Paths -> Nat]]
    /\ stolen \in [Clients -> SUBSET Nat]
    /\ errors \in 0 .. MaxErrors
    /\ drops \in 0 .. MaxDrops

(***************************************************************************)
(* Types of the scene's, the handlers' and the clients' variables.         *)
(***************************************************************************)
TypeOK == SceneTypeOK /\ ClientTypeOK

(***************************************************************************)
(* The inductive invariant: what is on a socket or in a handler's hands    *)
(* agrees with the log; a snapshot is the first frame of its connection    *)
(* and no older than what the client has counted; nobody is ahead of the   *)
(* scene.                                                                  *)
(***************************************************************************)
Faithful(frame) ==
    /\ frame.seq \in 1 .. seq
    /\ frame.kind = "delta" => Logged(frame)
    /\ frame.kind = "scene_changed" => log[frame.seq] = Nothing
    /\ frame.kind = "snapshot" =>
         /\ Reflects(frame.state, 1 .. frame.seq)
         /\ \A p \in Paths : frame.state[p] <= store[p]

FramesFaithful ==
    \A c \in Clients : \A i \in 1 .. Len(wire[c]) : Faithful(wire[c][i])

BacklogLogged ==
    \A c \in Clients : \A i \in 1 .. Len(backlog[c]) : Logged(backlog[c][i])

HandlersInBounds ==
    \A c \in Clients :
        /\ phase[c] \notin {"down", "away"} => rx[c] >= 1
        /\ phase[c] = "snapshotting" => snapSeq[c] \in 1 .. seq

ClientsInBounds ==
    \A c \in Clients :
        /\ last[c] <= seq
        /\ \A p \in Paths : view[c][p] <= store[p]

SnapshotComesFirst ==
    \A c \in Clients :
        /\ phase[c] \in {"down", "subscribed", "snapshotting", "away"} =>
             wire[c] = <<>>
        /\ phase[c] = "snapshotting" => snapSeq[c] >= last[c]
        /\ \A i \in 1 .. Len(wire[c]) :
             wire[c][i].kind = "snapshot" =>
                 i = 1 /\ wire[c][i].seq >= last[c]

\* a client that has counted nothing starts from a snapshot
BaselineIsSnapshot ==
    \A c \in Clients : last[c] = 0 =>
        /\ phase[c] # "replaying"
        /\ phase[c] = "subscribed" => since[c] = 0
        /\ phase[c] \in {"live", "closed", "leaving"} =>
             wire[c] # <<>> /\ wire[c][1].kind = "snapshot"

FanoutInv ==
    /\ SceneInv
    /\ ClientTypeOK
    /\ FramesFaithful
    /\ BacklogLogged
    /\ HandlersInBounds
    /\ ClientsInBounds
    /\ SnapshotComesFirst
    /\ BaselineIsSnapshot

-----------------------------------------------------------------------------
(***************************************************************************)
(* A snapshot shipped at number s holds the effect of every write numbered *)
(* up to s, although number and leaves are read under two locks while      *)
(* writers run: send_snapshot reads the number first and every write is    *)
(* stored before it is numbered.                                           *)
(***************************************************************************)
SnapshotCovers ==
    \A c \in Clients : \A i \in 1 .. Len(wire[c]) :
        LET frame == wire[c][i] IN
        frame.kind = "snapshot" =>
            /\ frame.seq \in 1 .. seq
            /\ Reflects(frame.state, 1 .. frame.seq)

(***************************************************************************)
(* A client that has counted up to `last' has been told of every write     *)
(* numbered up to it, whatever was replayed, duplicated, lost or           *)
(* reordered, but for numbers an error frame used up.  It holds if every   *)
(* leaf has one writer.                                                    *)
(***************************************************************************)
ViewCovers ==
    \A c \in Clients : Reflects(view[c], (1 .. last[c]) \ stolen[c])

(***************************************************************************)
(* "Sequence tracking": a gap in the numbers makes the client reconnect,   *)
(* so what a client has counted it has been told of.                       *)
(***************************************************************************)
CountedIsSeen ==
    \A c \in Clients : Reflects(view[c], 1 .. last[c])

(***************************************************************************)
(* A client that has counted every number, while no write is under way,    *)
(* shows exactly the scene's leaves.  It holds if every leaf has one       *)
(* writer.                                                                 *)
(***************************************************************************)
Converged ==
    \A c \in Clients :
        Quiet /\ last[c] = seq /\ stolen[c] = {} => view[c] = store

(***************************************************************************)
(* Number n will reach c on this connection: it is on the socket, or the   *)
(* handler holds it, or it is in the channel past c's receiver, or a       *)
(* writer is still about to send it.                                       *)
(***************************************************************************)
OnItsWay(c, n) ==
    \/ \E i \in 1 .. Len(wire[c]) :
         \/ wire[c][i].kind = "delta" /\ wire[c][i].seq = n
         \/ wire[c][i].kind = "snapshot" /\ wire[c][i].seq >= n
    \/ \E i \in 1 .. Len(backlog[c]) : backlog[c][i].seq = n
    \/ \E i \in rx[c] .. Len(tx) : tx[i].seq = n
    \/ \E w \in Writers :
         pc[w] \in {"numbered", "recorded"} /\ record[w].seq = n
    \/ phase[c] = "snapshotting" /\ snapSeq[c] >= n

(***************************************************************************)
(* While a handler serves a client no write falls between the snapshot or  *)
(* the replayed slice and the live deltas: each one the client has not     *)
(* counted is on its way.  A number that another connection took as it     *)
(* left the scene bears no write and is on nobody's way.                   *)
(***************************************************************************)
NothingSkipped ==
    \A c \in Clients :
        phase[c] \in {"snapshotting", "replaying", "live"} =>
            \A n \in ((last[c] + 1) .. seq) \ Taken : OnItsWay(c, n)

(***************************************************************************)
(* A resuming client never goes back: neither a late snapshot nor a replay *)
(* after a reconnect moves its tracker to an older number.  Only the       *)
(* scene_changed of its own connection makes it start again.               *)
(***************************************************************************)
NeverBackwards ==
    [][\A c \in Resuming : last'[c] >= last[c] \/ AcceptChanged(c)]_vars

(***************************************************************************)
(* Once the writers have stopped, every client ends up live with exactly   *)
(* the scene's leaves, through lag, gaps (those of numbers that others     *)
(* took as they left, too) and broken connections, unless a swap has taken *)
(* it to another scene.                                                    *)
(***************************************************************************)
EventuallyConverges ==
    \A c \in Clients :
        <>[](phase[c] = "away" \/ (phase[c] = "live" /\ view[c] = store))

(***************************************************************************)
(* Scene, handlers, sockets and clients together keep the promise of       *)
(* module Delivery.                                                        *)
(***************************************************************************)
Promise == INSTANCE Delivery WITH
    Values <- 0 .. MaxEmits, Keepers <- Resuming, count <- last,
    missed <- stolen

Implements == Promise!Spec
=============================================================================
