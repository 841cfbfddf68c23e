-------------------------------- MODULE Swap --------------------------------
(***************************************************************************)
(* Scene swaps: the registry (module Registry), the scenes it has created, *)
(* and for every subscriber its connection handler (ws_handler.rs, run,    *)
(* with the SceneSwap arm of its select loop), its socket and the Rust     *)
(* client (manager.rs, handle_frame).                                      *)
(*                                                                         *)
(* A scene is reduced to its counter and its channel, and a write is one   *)
(* step to a leaf of its own, so that the numbers written stand for the    *)
(* leaves.  How the steps of concurrent writes interleave, lag of the      *)
(* delta channel, error frames and resuming are the subject of Fanout.     *)
(***************************************************************************)
EXTENDS Registry, SequenceTracker

CONSTANTS
    Clients,
    Wants,     \* the scene id each client names in subscribe, or NoId
    EventCap,  \* EVENT_CAPACITY, 64 in the code
    MaxSends,  \* bound on the writes and on the numbers others take
    MaxDrops   \* bound on connections lost or left by the client

ASSUME SwapAssumption ==
    /\ Wants \in [Clients -> Ids \cup {NoId}]
    /\ EventCap \in Nat \ {0}
    /\ MaxSends \in Nat
    /\ MaxDrops \in Nat

VARIABLES
    seqOf,     \* SceneInner.seq of every scene
    txOf,      \* SceneInner.tx: the numbers sent, in sending order
    stage,     \* where the handler of each client is in run
    want,      \* resolve_scene's local id
    cur,       \* current, the scene the connection is on
    nxt,       \* new_scene, the scene a swap is moving to
    source,    \* the scene deltas_rx belongs to
    rx,        \* deltas_rx: index in txOf of the next number
    erx,       \* events_rx: index in events of the next event
    snapSeq,   \* send_snapshot's local seq
    wire,      \* frames on the socket, server to client
    last,      \* the client's SequenceTracker
    shown,     \* the scene of the last snapshot this connection gave the user
    view,      \* and the writes to it the user has been told of
    sends,     \* writes and numbers taken by others so far
    drops      \* connections lost or left so far

sceneVars == <<seqOf, txOf, sends>>
handlerVars == <<stage, want, cur, nxt, source, rx, erx, snapSeq>>
clientVars == <<wire, last, shown, view, drops>>
vars == <<registryVars, sceneVars, handlerVars, clientVars>>

Scenes == 1 .. MaxScenes

Stages ==
    {"down", "resolving", "resolved", "admitted", "receiving", "attached",
     "snapshotting", "live", "changing", "shipping", "shipped", "closed"}

Frames ==
    [kind : {"snapshot"}, scene : Scenes, seq : Nat, state : SUBSET Nat]
      \cup [kind : {"delta"}, scene : Scenes, seq : Nat]
      \cup [kind : {"scene_changed"}, scene : Scenes, seq : Nat]
      \cup [kind : {"error"}, seq : Nat]

Init ==
    /\ RegistryInit
    /\ seqOf = [o \in Scenes |-> 1]
    /\ txOf = [o \in Scenes |-> <<>>]
    /\ stage = [c \in Clients |-> "down"]
    /\ want = [c \in Clients |-> NoId]
    /\ cur = [c \in Clients |-> 0]
    /\ nxt = [c \in Clients |-> 0]
    /\ source = [c \in Clients |-> 0]
    /\ rx = [c \in Clients |-> 0]
    /\ erx = [c \in Clients |-> 0]
    /\ snapSeq = [c \in Clients |-> 0]
    /\ wire = [c \in Clients |-> <<>>]
    /\ last = [c \in Clients |-> 0]
    /\ shown = [c \in Clients |-> 0]
    /\ view = [c \in Clients |-> {}]
    /\ sends = 0
    /\ drops = 0

(***************************************************************************)
(* The store of a scene: the writes made to it.                            *)
(***************************************************************************)
Written(o) == {txOf[o][i] : i \in 1 .. Len(txOf[o])}

(***************************************************************************)
(* set or emit on a scene, through any handle to it.                       *)
(***************************************************************************)
Write(o) ==
    /\ o <= made
    /\ sends < MaxSends
    /\ sends' = sends + 1
    /\ seqOf' = [seqOf EXCEPT ![o] = @ + 1]
    /\ txOf' = [txOf EXCEPT ![o] = Append(@, seqOf[o] + 1)]
    /\ UNCHANGED <<registryVars, handlerVars, clientVars>>

(***************************************************************************)
(* A connection that is not among Clients takes a number of the scene it   *)
(* leaves, for its own scene_changed frame; nothing is sent on the channel.*)
(* A handler whose peer is gone does so as well before it notices.         *)
(***************************************************************************)
OtherLeaves(o) ==
    /\ o <= made
    /\ events # <<>>
    /\ sends < MaxSends
    /\ sends' = sends + 1
    /\ seqOf' = [seqOf EXCEPT ![o] = @ + 1]
    /\ UNCHANGED <<registryVars, txOf, handlerVars, clientVars>>

-----------------------------------------------------------------------------
(* The connection handler: the handshake                                   *)

Go(c, from, to) ==
    /\ stage[c] = from
    /\ stage' = [stage EXCEPT ![c] = to]

Emit(c, frame) == wire' = [wire EXCEPT ![c] = Append(@, frame)]

(***************************************************************************)
(* resolve_scene: the id the client names or the active one, and its scene.*)
(* A subscriber that resolves to no scene is refused; the client tries     *)
(* again.                                                                  *)
(***************************************************************************)
Resolve(c) ==
    /\ Go(c, "down", "resolving")
    /\ want' = [want EXCEPT ![c] = IF Wants[c] = NoId THEN active ELSE Wants[c]]
    /\ want'[c] # NoId
    /\ UNCHANGED <<registryVars, sceneVars, cur, nxt, source, rx, erx, snapSeq,
                   clientVars>>

Lookup(c) ==
    /\ stage[c] = "resolving"
    /\ LET o == scenes[want[c]] IN
         /\ stage' = [stage EXCEPT ![c] = IF o = 0 THEN "down" ELSE "resolved"]
         /\ cur' = [cur EXCEPT ![c] = o]
    /\ want' = [want EXCEPT ![c] = NoId]
    /\ UNCHANGED <<registryVars, sceneVars, nxt, source, rx, erx, snapSeq,
                   clientVars>>

(***************************************************************************)
(* A rejected scene is answered with an error instead of a snapshot.       *)
(***************************************************************************)
CheckRejection(c) ==
    /\ stage[c] = "resolved"
    /\ IF cur[c] \in rejected
         THEN /\ stage' = [stage EXCEPT ![c] = "down"]
              /\ cur' = [cur EXCEPT ![c] = 0]
         ELSE /\ stage' = [stage EXCEPT ![c] = "admitted"]
              /\ UNCHANGED cur
    /\ UNCHANGED <<registryVars, sceneVars, want, nxt, source, rx, erx,
                   snapSeq, clientVars>>

SubscribeDeltas(c) ==
    /\ Go(c, "admitted", "receiving")
    /\ source' = [source EXCEPT ![c] = cur[c]]
    /\ rx' = [rx EXCEPT ![c] = Len(txOf[cur[c]]) + 1]
    /\ UNCHANGED <<registryVars, sceneVars, want, cur, nxt, erx, snapSeq,
                   clientVars>>

SubscribeEvents(c) ==
    /\ Go(c, "receiving", "attached")
    /\ erx' = [erx EXCEPT ![c] = Len(events) + 1]
    /\ UNCHANGED <<registryVars, sceneVars, want, cur, nxt, source, rx, snapSeq,
                   clientVars>>

(***************************************************************************)
(* send_snapshot, for the first scene and for one a swap moves to.         *)
(***************************************************************************)
\* mutant: the snapshot takes the next number
ReadSeqAhead(c, o, from, to) ==
    /\ Go(c, from, to)
    /\ snapSeq' = [snapSeq EXCEPT ![c] = seqOf[o] + 1]
    /\ UNCHANGED <<registryVars, sceneVars, want, cur, nxt, source, rx, erx,
                   clientVars>>

ReadSeq(c, o, from, to) ==
    /\ Go(c, from, to)
    /\ snapSeq' = [snapSeq EXCEPT ![c] = seqOf[o]]
    /\ UNCHANGED <<registryVars, sceneVars, want, cur, nxt, source, rx, erx,
                   clientVars>>

SendSnapshot(c, o, from, to) ==
    /\ Go(c, from, to)
    /\ Emit(c, [kind |-> "snapshot", scene |-> o, seq |-> snapSeq[c],
                state |-> Written(o)])
    /\ snapSeq' = [snapSeq EXCEPT ![c] = 0]
    /\ UNCHANGED <<registryVars, sceneVars, want, cur, nxt, source, rx, erx,
                   last, shown, view, drops>>

-----------------------------------------------------------------------------
(* The connection handler: the select loop                                 *)

Pump(c) ==
    /\ stage[c] = "live"
    /\ rx[c] <= Len(txOf[source[c]])
    /\ Emit(c, [kind |-> "delta", scene |-> source[c],
                seq |-> txOf[source[c]][rx[c]]])
    /\ rx' = [rx EXCEPT ![c] = @ + 1]
    /\ UNCHANGED <<registryVars, sceneVars, stage, want, cur, nxt, source, erx,
                   snapSeq, last, shown, view, drops>>

(***************************************************************************)
(* The SceneSwap arm.  An id that is gone from the table is skipped.       *)
(* Otherwise the connection takes a number of the scene it leaves for its  *)
(* own scene_changed frame, ships a snapshot of the new scene, and only    *)
(* then moves its receiver.                                                *)
(***************************************************************************)
NextEvent(c) == events[erx[c]]

EventWaits(c) ==
    /\ stage[c] = "live"
    /\ Len(events) - erx[c] + 1 \in 1 .. EventCap

SkipEvent(c) ==
    /\ EventWaits(c)
    /\ scenes[NextEvent(c)] = 0
    /\ erx' = [erx EXCEPT ![c] = @ + 1]
    /\ UNCHANGED <<registryVars, sceneVars, stage, want, cur, nxt, source, rx,
                   snapSeq, clientVars>>

\* mutant: an id that is gone is not skipped
ChangeToNothing(c) ==
    /\ EventWaits(c)
    /\ LET o == scenes[NextEvent(c)] IN
         /\ nxt' = [nxt EXCEPT ![c] = o]
         /\ seqOf' = [seqOf EXCEPT ![cur[c]] = @ + 1]
         /\ Emit(c, [kind |-> "scene_changed", scene |-> o,
                     seq |-> seqOf[cur[c]] + 1])
    /\ erx' = [erx EXCEPT ![c] = @ + 1]
    /\ stage' = [stage EXCEPT ![c] = "changing"]
    /\ UNCHANGED <<registryVars, txOf, sends, want, cur, source, rx,
                   snapSeq, last, shown, view, drops>>

Change(c) ==
    /\ EventWaits(c)
    /\ LET o == scenes[NextEvent(c)] IN
         /\ o # 0
         /\ nxt' = [nxt EXCEPT ![c] = o]
         /\ seqOf' = [seqOf EXCEPT ![cur[c]] = @ + 1]
         /\ Emit(c, [kind |-> "scene_changed", scene |-> o,
                     seq |-> seqOf[cur[c]] + 1])
    /\ erx' = [erx EXCEPT ![c] = @ + 1]
    /\ stage' = [stage EXCEPT ![c] = "changing"]
    /\ UNCHANGED <<registryVars, txOf, sends, want, cur, source, rx,
                   snapSeq, last, shown, view, drops>>

\* mutants: the receiver of the old scene is kept; the connection goes on
\* before the snapshot
MoveReceiverNot(c) ==
    /\ Go(c, "shipped", "live")
    /\ cur' = [cur EXCEPT ![c] = nxt[c]]
    /\ nxt' = [nxt EXCEPT ![c] = 0]
    /\ UNCHANGED <<registryVars, sceneVars, want, source, rx, erx, snapSeq,
                   clientVars>>

MoveReceiverEarly(c) ==
    /\ Go(c, "changing", "live")
    /\ source' = [source EXCEPT ![c] = nxt[c]]
    /\ rx' = [rx EXCEPT ![c] = Len(txOf[nxt[c]]) + 1]
    /\ cur' = [cur EXCEPT ![c] = nxt[c]]
    /\ nxt' = [nxt EXCEPT ![c] = 0]
    /\ UNCHANGED <<registryVars, sceneVars, want, erx, snapSeq,
                   clientVars>>

MoveReceiver(c) ==
    /\ Go(c, "shipped", "live")
    /\ source' = [source EXCEPT ![c] = nxt[c]]
    /\ rx' = [rx EXCEPT ![c] = Len(txOf[nxt[c]]) + 1]
    /\ cur' = [cur EXCEPT ![c] = nxt[c]]
    /\ nxt' = [nxt EXCEPT ![c] = 0]
    /\ UNCHANGED <<registryVars, sceneVars, want, erx, snapSeq,
                   clientVars>>

(***************************************************************************)
(* A receiver that lost events bounces the client.                         *)
(***************************************************************************)
EventsLagged(c) ==
    /\ Go(c, "live", "closed")
    /\ Len(events) - erx[c] + 1 > EventCap
    /\ Emit(c, [kind |-> "error", seq |-> seqOf[cur[c]]])
    /\ UNCHANGED <<registryVars, sceneVars, want, cur, nxt, source, rx, erx,
                   snapSeq, last, shown, view, drops>>

Handle(c) ==
    \/ Resolve(c)
    \/ Lookup(c)
    \/ CheckRejection(c)
    \/ SubscribeDeltas(c)
    \/ SubscribeEvents(c)
    \/ ReadSeq(c, cur[c], "attached", "snapshotting")
    \/ SendSnapshot(c, cur[c], "snapshotting", "live")
    \/ Pump(c)
    \/ SkipEvent(c)
    \/ Change(c)
    \/ ReadSeq(c, nxt[c], "changing", "shipping")
    \/ SendSnapshot(c, nxt[c], "shipping", "shipped")
    \/ MoveReceiver(c)
    \/ EventsLagged(c)

-----------------------------------------------------------------------------
(* The client                                                              *)

(***************************************************************************)
(* The connection is gone on both sides; the handler's locals, the frames  *)
(* on the way and the client's tracker go with it.                         *)
(***************************************************************************)
Hangup(c) ==
    /\ stage' = [stage EXCEPT ![c] = "down"]
    /\ want' = [want EXCEPT ![c] = NoId]
    /\ cur' = [cur EXCEPT ![c] = 0]
    /\ nxt' = [nxt EXCEPT ![c] = 0]
    /\ source' = [source EXCEPT ![c] = 0]
    /\ rx' = [rx EXCEPT ![c] = 0]
    /\ erx' = [erx EXCEPT ![c] = 0]
    /\ snapSeq' = [snapSeq EXCEPT ![c] = 0]
    /\ wire' = [wire EXCEPT ![c] = <<>>]
    /\ last' = [last EXCEPT ![c] = 0]
    /\ shown' = [shown EXCEPT ![c] = 0]
    /\ view' = [view EXCEPT ![c] = {}]
    /\ UNCHANGED <<registryVars, sceneVars>>

Drop(c) ==
    /\ stage[c] # "down"
    /\ drops < MaxDrops
    /\ drops' = drops + 1
    /\ Hangup(c)

Frame(c) == Head(wire[c])

(***************************************************************************)
(* handle_frame: every frame is counted first.                             *)
(***************************************************************************)
Observed(c) == ObserveSeq(last[c], Frame(c).seq)

Accept(c, kind) ==
    /\ wire[c] # <<>>
    /\ Frame(c).kind = kind
    /\ Observed(c) = "accepted"
    /\ wire' = [wire EXCEPT ![c] = Tail(@)]
    /\ UNCHANGED <<registryVars, sceneVars, handlerVars, drops>>

Count(c) == last' = [last EXCEPT ![c] = AfterSeq(@, Frame(c).seq)]

AcceptSnapshot(c) ==
    /\ Accept(c, "snapshot")
    /\ Count(c)
    /\ shown' = [shown EXCEPT ![c] = Frame(c).scene]
    /\ view' = [view EXCEPT ![c] = Frame(c).state]

AcceptDelta(c) ==
    /\ Accept(c, "delta")
    /\ Count(c)
    /\ view' = [view EXCEPT ![c] = @ \cup {Frame(c).seq}]
    /\ UNCHANGED shown

(***************************************************************************)
(* A scene_changed frame makes the tracker fresh again.                    *)
(***************************************************************************)
\* mutant: the tracker goes on counting
AcceptChangedKeepsTracker(c) ==
    /\ Accept(c, "scene_changed")
    /\ Count(c)
    /\ UNCHANGED <<shown, view>>

AcceptChanged(c) ==
    /\ Accept(c, "scene_changed")
    /\ last' = [last EXCEPT ![c] = 0]
    /\ UNCHANGED <<shown, view>>

AcceptError(c) ==
    /\ Accept(c, "error")
    /\ Count(c)
    /\ UNCHANGED <<shown, view>>

DropDuplicate(c) ==
    /\ wire[c] # <<>>
    /\ Observed(c) = "duplicate"
    /\ wire' = [wire EXCEPT ![c] = Tail(@)]
    /\ UNCHANGED <<registryVars, sceneVars, handlerVars, last, shown, view,
                   drops>>

CloseOnGap(c) ==
    /\ wire[c] # <<>>
    /\ Observed(c) = "gap"
    /\ Hangup(c)
    /\ UNCHANGED drops

EndOfStream(c) ==
    /\ stage[c] = "closed"
    /\ wire[c] = <<>>
    /\ Hangup(c)
    /\ UNCHANGED drops

Receive(c) ==
    \/ AcceptSnapshot(c)
    \/ AcceptDelta(c)
    \/ AcceptChanged(c)
    \/ AcceptError(c)
    \/ DropDuplicate(c)
    \/ CloseOnGap(c)
    \/ EndOfStream(c)

RegistryStep == RegistryNext /\ UNCHANGED <<sceneVars, handlerVars, clientVars>>

Next ==
    \/ RegistryStep
    \/ \E o \in Scenes : Write(o) \/ OtherLeaves(o)
    \/ \E c \in Clients : Handle(c) \/ Receive(c) \/ Drop(c)

Spec == Init /\ [][Next]_vars

(***************************************************************************)
(* An operation that has begun is finished, a handler that can move moves  *)
(* and a client reads its socket and reconnects.  Nothing obliges anybody  *)
(* to call an operation or to write.                                       *)
(***************************************************************************)
FairSpec ==
    /\ Spec
    /\ \A k \in Callers :
         WF_vars(Finish(k) /\ UNCHANGED <<sceneVars, handlerVars, clientVars>>)
    /\ \A c \in Clients : WF_vars(Handle(c)) /\ WF_vars(Receive(c))

-----------------------------------------------------------------------------
(***************************************************************************)
(* Types of the scenes', the handlers' and the clients' variables.         *)
(***************************************************************************)
TypeOK ==
    /\ RegistryTypeOK
    /\ seqOf \in [Scenes -> Nat \ {0}]
    /\ txOf \in [Scenes -> Seq(Nat)]
    /\ stage \in [Clients -> Stages]
    /\ want \in [Clients -> Ids \cup {NoId}]
    /\ cur \in [Clients -> 0 .. made]
    /\ nxt \in [Clients -> 0 .. made]
    /\ source \in [Clients -> 0 .. made]
    /\ rx \in [Clients -> Nat]
    /\ erx \in [Clients -> Nat]
    /\ snapSeq \in [Clients -> Nat]
    /\ wire \in [Clients -> Seq(Frames)]
    /\ last \in [Clients -> Nat]
    /\ shown \in [Clients -> 0 .. made]
    /\ view \in [Clients -> SUBSET Nat]
    /\ sends \in 0 .. MaxSends
    /\ drops \in 0 .. MaxDrops

(***************************************************************************)
(* A delta is applied only to the scene it belongs to, although deltas     *)
(* name no scene and the numbers of two scenes overlap.                    *)
(***************************************************************************)
NoMixing ==
    \A c \in Clients :
        wire[c] # <<>> /\ Frame(c).kind = "delta" /\ Observed(c) = "accepted" =>
            Frame(c).scene = shown[c]

(***************************************************************************)
(* "The next event will be a snapshot": nothing comes between a            *)
(* scene_changed frame and the snapshot of the scene it names.             *)
(***************************************************************************)
ChangedThenSnapshot ==
    \A c \in Clients : \A i \in 1 .. Len(wire[c]) :
        wire[c][i].kind = "scene_changed" =>
            IF i < Len(wire[c])
              THEN /\ wire[c][i + 1].kind = "snapshot"
                   /\ wire[c][i + 1].scene = wire[c][i].scene
              ELSE /\ stage[c] \in {"changing", "shipping"}
                   /\ nxt[c] = wire[c][i].scene

(***************************************************************************)
(* A client that has counted up to a scene's current number shows exactly  *)
(* that scene's leaves, whatever numbers swaps used up and whatever deltas *)
(* a swap lost.  A connection the server has given up is left out: the     *)
(* error it ends with may have used up a number.                           *)
(***************************************************************************)
CountedIsShown ==
    \A c \in Clients :
        /\ stage[c] # "closed"
        /\ last[c] # 0
        /\ last[c] = seqOf[shown[c]]
        => view[c] = Written(shown[c])

(***************************************************************************)
(* As long as the active scene can be served, every client ends up on a    *)
(* connection whose events are all handled, and shows the scene the        *)
(* connection is on: no swap is swallowed between the event and the user.  *)
(***************************************************************************)
Servable == active # NoId /\ scenes[active] \notin rejected \cup {0}

EventuallySettles ==
    \A c \in Clients :
        <>[](Servable =>
               stage[c] = "live" /\ erx[c] > Len(events) /\ shown[c] = cur[c])

-----------------------------------------------------------------------------
(* What the comments say and the code does not do                          *)

(***************************************************************************)
(* "Subscribe before snapshot so the broadcast cannot drop deltas that     *)
(* fire while we serialize the snapshot": every write to the scene that    *)
(* the client's user has not been told of is ahead of the receiver or on   *)
(* the socket.                                                             *)
(***************************************************************************)
NoDeltaDropped ==
    \A c \in Clients : stage[c] = "live" =>
        \A i \in 1 .. Len(txOf[cur[c]]) :
            LET n == txOf[cur[c]][i] IN
            \/ i >= rx[c]
            \/ shown[c] = cur[c] /\ n \in view[c]
            \/ \E j \in 1 .. Len(wire[c]) :
                 LET frame == wire[c][j] IN
                 \/ /\ frame.kind = "snapshot"
                    /\ frame.scene = cur[c]
                    /\ n \in frame.state
                 \/ frame.kind = "delta" /\ frame.scene = cur[c] /\ frame.seq = n
=============================================================================
