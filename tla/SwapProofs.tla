----------------------------- MODULE SwapProofs -----------------------------
(***************************************************************************)
(* Proofs about modules Registry and Swap, for any number of callers,      *)
(* scenes and clients: no delta is applied to a scene it does not belong   *)
(* to, a scene_changed frame is followed by its snapshot, and a client     *)
(* that has counted a scene's numbers shows that scene's leaves.           *)
(***************************************************************************)
EXTENDS Swap, SequenceTheorems, TLAPS

-----------------------------------------------------------------------------
(* The inductive invariant                                                 *)

(***************************************************************************)
(* A caller that has begun a call with an id still has it.                 *)
(***************************************************************************)
CallersHaveIds ==
    \A k \in Callers :
        step[k] \in {"creating", "inserted", "activating", "announcing"} =>
            arg[k] \in Ids

(***************************************************************************)
(* The numbers a scene has sent are numbers it has given out.              *)
(***************************************************************************)
NumbersBounded ==
    \A o \in Scenes : \A n \in Written(o) : n \in 1 .. seqOf[o]

Greeting ==
    {"down", "resolving", "resolved", "admitted", "receiving", "attached",
     "snapshotting"}

Swapping == {"changing", "shipping", "shipped"}

OnScene == Stages \ {"down", "resolving"}

Receiving == OnScene \ {"resolved", "admitted"}

Attached == Receiving \ {"receiving"}

(***************************************************************************)
(* What run has at hand at each of its stages.                             *)
(***************************************************************************)
HandlerAt(c) ==
    /\ stage[c] = "resolving" => want[c] \in Ids
    /\ stage[c] \in OnScene => cur[c] # 0
    /\ stage[c] \in Receiving => source[c] = cur[c] /\ rx[c] >= 1
    /\ stage[c] \in Attached => erx[c] >= 1
    /\ stage[c] \in Swapping => nxt[c] # 0
    /\ stage[c] = "snapshotting" => snapSeq[c] \in 1 .. seqOf[cur[c]]
    /\ stage[c] = "shipping" => snapSeq[c] \in 1 .. seqOf[nxt[c]]
    /\ stage[c] \in Greeting => wire[c] = <<>> /\ last[c] = 0
    /\ \A i \in 1 .. Len(wire[c]) :
         wire[c][i].kind = "error" => stage[c] = "closed"

(***************************************************************************)
(* leaves are among the writes made to a scene, and none numbered up to n  *)
(* is missing.                                                             *)
(***************************************************************************)
Tells(leaves, writes, n) ==
    /\ leaves \subseteq writes
    /\ \A m \in writes : m <= n => m \in leaves

FrameIsTrue(f) ==
    /\ f.seq >= 1
    /\ f.kind # "error" => f.scene \in 1 .. made
    /\ f.kind = "snapshot" =>
         f.seq <= seqOf[f.scene] /\ Tells(f.state, Written(f.scene), f.seq)
    /\ f.kind = "delta" => f.seq \in Written(f.scene)

FramesTrue(c) == \A i \in 1 .. Len(wire[c]) : FrameIsTrue(wire[c][i])

(***************************************************************************)
(* What the client shows is true of the scene it shows.                    *)
(***************************************************************************)
ShownIsTrue(c) ==
    stage[c] # "closed" /\ last[c] # 0 =>
        /\ shown[c] # 0
        /\ last[c] <= seqOf[shown[c]]
        /\ Tells(view[c], Written(shown[c]), last[c])

(***************************************************************************)
(* The order of the frames w on a socket, for a client whose tracker is at *)
(* l and which shows scene s: a snapshot comes after scene_changed or      *)
(* meets a fresh tracker; a delta comes after a snapshot or a delta of its *)
(* own scene, and never meets a fresh tracker.                             *)
(***************************************************************************)
Orderly(w, l, s) ==
    \A i \in 1 .. Len(w) :
        /\ w[i].kind = "snapshot" =>
             IF i = 1 THEN l = 0 ELSE w[i - 1].kind = "scene_changed"
        /\ w[i].kind = "delta" =>
             IF i = 1
               THEN w[i].scene = s /\ l # 0
               ELSE /\ w[i - 1].kind \in {"snapshot", "delta"}
                    /\ w[i - 1].scene = w[i].scene

NoSnapshot(w, a, b) == \A k \in a .. b : w[k].kind # "snapshot"

(***************************************************************************)
(* A scene_changed frame is numbered after everything since the snapshot   *)
(* before it, so that it is never taken for a duplicate.                   *)
(***************************************************************************)
ChangesAreNew(w, l) ==
    \A j \in 1 .. Len(w) : w[j].kind = "scene_changed" =>
        /\ \A i \in 1 .. j - 1 : NoSnapshot(w, i + 1, j) => w[i].seq < w[j].seq
        /\ NoSnapshot(w, 1, j) => l < w[j].seq

(***************************************************************************)
(* No number since the last snapshot is above n.                           *)
(***************************************************************************)
Below(w, l, n) ==
    /\ \A i \in 1 .. Len(w) : NoSnapshot(w, i + 1, Len(w)) => w[i].seq <= n
    /\ NoSnapshot(w, 1, Len(w)) => l <= n

(***************************************************************************)
(* The client will show scene o when it has read all of w.                 *)
(***************************************************************************)
EndsOn(w, l, s, o) ==
    IF w = <<>>
      THEN s = o /\ l # 0
      ELSE w[Len(w)].kind \in {"snapshot", "delta"} /\ w[Len(w)].scene = o

EndsChanged(w, l) ==
    IF w = <<>> THEN l = 0 ELSE w[Len(w)].kind = "scene_changed"

SocketEnd(c) ==
    /\ stage[c] = "live" =>
         /\ EndsOn(wire[c], last[c], shown[c], cur[c])
         /\ Below(wire[c], last[c], seqOf[cur[c]])
    /\ stage[c] = "shipped" =>
         /\ EndsOn(wire[c], last[c], shown[c], nxt[c])
         /\ Below(wire[c], last[c], seqOf[nxt[c]])
    /\ stage[c] \in {"changing", "shipping"} => EndsChanged(wire[c], last[c])

(***************************************************************************)
(* ChangedThenSnapshot for one socket.                                     *)
(***************************************************************************)
Followed(w, at, next) ==
    \A i \in 1 .. Len(w) : w[i].kind = "scene_changed" =>
        IF i < Len(w)
          THEN w[i + 1].kind = "snapshot" /\ w[i + 1].scene = w[i].scene
          ELSE at \in {"changing", "shipping"} /\ next = w[i].scene

ConnectionInv(c) ==
    /\ HandlerAt(c)
    /\ FramesTrue(c)
    /\ ShownIsTrue(c)
    /\ Orderly(wire[c], last[c], shown[c])
    /\ ChangesAreNew(wire[c], last[c])
    /\ SocketEnd(c)
    /\ Followed(wire[c], stage[c], nxt[c])

(***************************************************************************)
(* TypeOK in parts.                                                        *)
(***************************************************************************)
SceneTypes ==
    /\ seqOf \in [Scenes -> Nat \ {0}]
    /\ txOf \in [Scenes -> Seq(Nat)]

HandlerTypes ==
    /\ stage \in [Clients -> Stages]
    /\ want \in [Clients -> Ids \cup {NoId}]
    /\ cur \in [Clients -> 0 .. made]
    /\ nxt \in [Clients -> 0 .. made]
    /\ source \in [Clients -> 0 .. made]
    /\ rx \in [Clients -> Nat]
    /\ erx \in [Clients -> Nat]
    /\ snapSeq \in [Clients -> Nat]

ClientTypes ==
    /\ wire \in [Clients -> Seq(Frames)]
    /\ last \in [Clients -> Nat]
    /\ shown \in [Clients -> 0 .. made]
    /\ view \in [Clients -> SUBSET Nat]

Bounded == sends \in 0 .. MaxSends /\ drops \in 0 .. MaxDrops

SwapInv ==
    /\ RegistryTypeOK
    /\ SceneTypes
    /\ HandlerTypes
    /\ ClientTypes
    /\ Bounded
    /\ CallersHaveIds
    /\ NumbersBounded
    /\ \A c \in Clients : ConnectionInv(c)

-----------------------------------------------------------------------------
(* The registry                                                            *)

LEMMA RegistryBounds == NoId \notin Ids /\ MaxScenes \in Nat /\ MaxCalls \in Nat
  BY RegistryAssumption

LEMMA SwapBounds ==
  /\ Wants \in [Clients -> Ids \cup {NoId}]
  /\ EventCap \in Nat \ {0} /\ MaxSends \in Nat /\ MaxDrops \in Nat
  BY SwapAssumption

LEMMA RegistryInitial == RegistryInit => RegistryTypeOK /\ CallersHaveIds
  <1> SUFFICES ASSUME RegistryInit PROVE RegistryTypeOK /\ CallersHaveIds
    OBVIOUS
  <1>1. events \in Seq(Ids)
    BY EmptySeq DEF RegistryInit
  <1>2. RegistryTypeOK
    BY <1>1, RegistryBounds DEF RegistryInit, RegistryTypeOK, CallerSteps
  <1> QED
    BY <1>2 DEF RegistryInit, CallersHaveIds

(***************************************************************************)
(* Every operation of a ServerHandle keeps the types, scenes are only ever *)
(* added to the ones created, and no event is taken back.                  *)
(***************************************************************************)
LEMMA RegistryStepFacts ==
  ASSUME RegistryTypeOK, CallersHaveIds, [RegistryNext]_registryVars
  PROVE  /\ RegistryTypeOK' /\ CallersHaveIds'
         /\ made \in 0 .. MaxScenes /\ made' \in 0 .. MaxScenes /\ made <= made'
  <1> USE RegistryBounds DEF RegistryTypeOK, CallerSteps
  <1>1. ASSUME NEW k \in Callers, NEW id \in Ids,
               CheckFree(k, id) \/ CheckKnown(k, id)
        PROVE  RegistryTypeOK' /\ CallersHaveIds' /\ made' = made
    <2>1. /\ step' \in [Callers -> CallerSteps]
          /\ arg' \in [Callers -> Ids \cup {NoId}]
      BY <1>1 DEF CheckFree, CheckKnown, Begin
    <2>2. /\ calls' \in 0 .. MaxCalls
          /\ UNCHANGED <<scenes, active, events, rejected, made>>
      BY <1>1 DEF CheckFree, CheckKnown
    <2>3. CallersHaveIds'
      BY <1>1 DEF CheckFree, CheckKnown, Begin, CallersHaveIds
    <2> QED
      BY <2>1, <2>2, <2>3
  <1>2. ASSUME NEW k \in Callers, ClearTable(k)
        PROVE  RegistryTypeOK' /\ CallersHaveIds' /\ made' = made
    <2>1. RegistryTypeOK' /\ made' = made
      BY <1>2 DEF ClearTable, Begin
    <2>2. CallersHaveIds'
      BY <1>2 DEF ClearTable, Begin, CallersHaveIds
    <2> QED
      BY <2>1, <2>2
  <1>3. ASSUME NEW k \in Callers, Reject(k)
        PROVE  RegistryTypeOK' /\ CallersHaveIds' /\ made' = made
    BY <1>3 DEF Reject, CallersHaveIds
  <1>4. ASSUME NEW k \in Callers, Insert(k)
        PROVE  RegistryTypeOK' /\ CallersHaveIds' /\ made' = made + 1
    <2>1. /\ arg[k] \in Ids /\ made' = made + 1 /\ made' \in 0 .. MaxScenes
          /\ scenes' = [scenes EXCEPT ![arg[k]] = made + 1]
          /\ UNCHANGED <<active, events, rejected, calls>>
      BY <1>4 DEF Insert, Move, CallersHaveIds
    <2>2. step' \in [Callers -> CallerSteps]
          /\ arg' \in [Callers -> Ids \cup {NoId}]
      BY <1>4 DEF Insert, Move
    <2>3. scenes' \in [Ids -> 0 .. made'] /\ rejected' \subseteq 1 .. made'
      BY <2>1
    <2>4. CallersHaveIds'
      BY <1>4 DEF Insert, Move, CallersHaveIds
    <2> QED
      BY <2>1, <2>2, <2>3, <2>4
  <1>5. ASSUME NEW k \in Callers,
               ActivateFirst(k) \/ WriteActive(k) \/ ClearActive(k)
        PROVE  RegistryTypeOK' /\ CallersHaveIds' /\ made' = made
    <2>1. step' \in [Callers -> CallerSteps]
          /\ arg' \in [Callers -> Ids \cup {NoId}]
          /\ active' \in Ids \cup {NoId}
          /\ UNCHANGED <<scenes, events, rejected, made, calls>>
      BY <1>5 DEF ActivateFirst, WriteActive, ClearActive, Move
    <2>2. CallersHaveIds'
      BY <1>5 DEF ActivateFirst, WriteActive, ClearActive, Move, CallersHaveIds
    <2> QED
      BY <2>1, <2>2
  <1>6. ASSUME NEW k \in Callers, Announce(k)
        PROVE  RegistryTypeOK' /\ CallersHaveIds' /\ made' = made
    <2>1. arg[k] \in Ids /\ events' = Append(events, arg[k])
      BY <1>6 DEF Announce, Move, CallersHaveIds
    <2>2. events' \in Seq(Ids)
      BY <2>1, AppendProperties
    <2>3. step' \in [Callers -> CallerSteps]
          /\ arg' \in [Callers -> Ids \cup {NoId}]
          /\ UNCHANGED <<scenes, active, rejected, made, calls>>
      BY <1>6 DEF Announce, Move
    <2>4. CallersHaveIds'
      BY <1>6 DEF Announce, Move, CallersHaveIds
    <2> QED
      BY <2>2, <2>3, <2>4
  <1>7. ASSUME UNCHANGED registryVars
        PROVE  RegistryTypeOK' /\ CallersHaveIds' /\ made' = made
    BY <1>7 DEF registryVars, CallersHaveIds
  <1>8. \/ RegistryTypeOK' /\ CallersHaveIds' /\ made' = made
        \/ RegistryTypeOK' /\ CallersHaveIds' /\ made' = made + 1
    BY <1>1, <1>2, <1>3, <1>4, <1>5, <1>6, <1>7, Zenon DEF RegistryNext, Finish
  <1>9. made \in 0 .. MaxScenes /\ (RegistryTypeOK' => made' \in 0 .. MaxScenes)
    OBVIOUS
  <1>10. RegistryTypeOK' /\ CallersHaveIds' /\ made' \in {made, made + 1}
    BY <1>8, Zenon
  <1> HIDE DEF RegistryTypeOK
  <1> QED
    BY <1>9, <1>10

-----------------------------------------------------------------------------
(* The active scene, with one caller                                       *)

(***************************************************************************)
(* What holds at each step of the only caller's operations.                *)
(***************************************************************************)
ActiveIsKnown == active # NoId => scenes[active] # 0

NoneWithoutActive == active = NoId => \A id \in Ids : scenes[id] = 0

CallerInv(k) ==
    /\ step[k] # "clearing" => ActiveIsKnown
    /\ step[k] \notin {"clearing", "inserted"} => NoneWithoutActive
    /\ step[k] \in {"inserted", "activating"} => scenes[arg[k]] # 0
    /\ step[k] = "clearing" => \A id \in Ids : scenes[id] = 0

LEMMA CallerStep ==
  ASSUME NEW k, Callers = {k}, RegistryTypeOK, CallersHaveIds, CallerInv(k),
         [RegistryNext]_registryVars
  PROVE  CallerInv(k)'
  <1>0. /\ scenes \in [Ids -> 0 .. made] /\ made \in Nat
        /\ step \in [Callers -> CallerSteps] /\ arg \in [Callers -> Ids \cup {NoId}]
        /\ active \in Ids \cup {NoId} /\ NoId \notin Ids /\ k \in Callers
    BY RegistryBounds DEF RegistryTypeOK
  <1> USE <1>0 DEF CallerInv, ActiveIsKnown, NoneWithoutActive
  <1>1. ASSUME NEW id \in Ids, CheckFree(k, id) \/ CheckKnown(k, id)
        PROVE  CallerInv(k)'
    BY <1>1 DEF CheckFree, CheckKnown, Begin
  <1>2. ASSUME ClearTable(k) PROVE CallerInv(k)'
    BY <1>2 DEF ClearTable, Begin
  <1>3. ASSUME Reject(k) PROVE CallerInv(k)'
    BY <1>3 DEF Reject
  <1>4. ASSUME Insert(k) PROVE CallerInv(k)'
    <2>1. arg[k] \in Ids
      BY <1>4 DEF Insert, Move, CallersHaveIds
    <2> QED
      BY <1>4, <2>1 DEF Insert, Move
  <1>5. ASSUME ActivateFirst(k) PROVE CallerInv(k)'
    <2>1. arg[k] \in Ids
      BY <1>5 DEF ActivateFirst, Move, CallersHaveIds
    <2> QED
      BY <1>5, <2>1 DEF ActivateFirst, Move
  <1>6. ASSUME WriteActive(k) PROVE CallerInv(k)'
    <2>1. arg[k] \in Ids
      BY <1>6 DEF WriteActive, Move, CallersHaveIds
    <2> QED
      BY <1>6, <2>1 DEF WriteActive, Move
  <1>7. ASSUME Announce(k) PROVE CallerInv(k)'
    BY <1>7 DEF Announce, Move
  <1>8. ASSUME ClearActive(k) PROVE CallerInv(k)'
    BY <1>8 DEF ClearActive, Move
  <1>9. ASSUME UNCHANGED registryVars PROVE CallerInv(k)'
    BY <1>9 DEF registryVars
  <1> QED
    BY <1>1, <1>2, <1>3, <1>4, <1>5, <1>6, <1>7, <1>8, <1>9
       DEF RegistryNext, Finish

LEMMA NextIsRegistryStep == [Next]_vars => [RegistryNext]_registryVars
  <1>1. ASSUME NEW o \in Scenes, Write(o) \/ OtherLeaves(o)
        PROVE  UNCHANGED registryVars
    BY <1>1 DEF Write, OtherLeaves
  <1>2. ASSUME NEW c \in Clients, Handle(c)
        PROVE  UNCHANGED registryVars
    BY <1>2 DEF Handle, Resolve, Lookup, CheckRejection, SubscribeDeltas,
                SubscribeEvents, ReadSeq, SendSnapshot, Pump, SkipEvent,
                Change, MoveReceiver, EventsLagged
  <1>3. ASSUME NEW c \in Clients, Receive(c) \/ Drop(c)
        PROVE  UNCHANGED registryVars
    BY <1>3 DEF Receive, AcceptSnapshot, AcceptDelta, AcceptChanged,
                AcceptError, Accept, DropDuplicate, CloseOnGap, EndOfStream,
                Drop, Hangup
  <1>4. ASSUME UNCHANGED vars
        PROVE  UNCHANGED registryVars
    BY <1>4 DEF vars
  <1> QED
    BY <1>1, <1>2, <1>3, <1>4, Zenon DEF Next, RegistryStep

(***************************************************************************)
(* When one task at a time uses the ServerHandle, between its calls the    *)
(* active scene is registered, and there is one as soon as there is any    *)
(* scene (new_scene_with_version, set_active_scene, clear_scenes).         *)
(***************************************************************************)
THEOREM ActiveSceneIsRegistered ==
  ASSUME NEW k, Callers = {k}
  PROVE  Spec => []ActiveIsRegistered
  <1> DEFINE Inv == RegistryTypeOK /\ CallersHaveIds /\ CallerInv(k)
  <1>1. Init => Inv
    <2> SUFFICES ASSUME Init PROVE Inv
      OBVIOUS
    <2>1. RegistryTypeOK /\ CallersHaveIds
      BY RegistryInitial DEF Init
    <2>2. CallerInv(k)
      BY DEF Init, RegistryInit, CallerInv, ActiveIsKnown, NoneWithoutActive
    <2> QED
      BY <2>1, <2>2
  <1>2. Inv /\ [Next]_vars => Inv'
    <2> SUFFICES ASSUME Inv, [Next]_vars PROVE Inv'
      OBVIOUS
    <2>1. [RegistryNext]_registryVars
      BY NextIsRegistryStep
    <2> QED
      BY <2>1, RegistryStepFacts, CallerStep
  <1>3. Inv => ActiveIsRegistered
    BY DEF ActiveIsRegistered, Settled, CallerInv, ActiveIsKnown,
           NoneWithoutActive
  <1> QED
    BY <1>1, <1>2, <1>3, PTL DEF Spec

-----------------------------------------------------------------------------
(* Frames on a socket                                                      *)

LEMMA FrameFields ==
  ASSUME NEW f \in Frames
  PROVE  /\ f.seq \in Nat
         /\ f.kind \in {"snapshot", "delta", "scene_changed", "error"}
         /\ f.kind # "error" => f.scene \in Scenes
         /\ f.kind = "snapshot" => f.state \subseteq Nat
  BY DEF Frames

LEMMA FrameAt ==
  ASSUME NEW w \in Seq(Frames), NEW i \in 1 .. Len(w)
  PROVE  w[i] \in Frames /\ w[i].seq \in Nat
  <1>1. w[i] \in Frames
    BY ElementOfSeq
  <1> QED
    BY <1>1, FrameFields

LEMMA AppendFacts ==
  ASSUME NEW w \in Seq(Frames), NEW f \in Frames, NEW v, v = Append(w, f)
  PROVE  /\ v \in Seq(Frames) /\ v # <<>>
         /\ Len(w) \in Nat /\ Len(v) = Len(w) + 1
         /\ \A i \in 1 .. Len(w) : v[i] = w[i]
         /\ v[Len(v)] = f
  <1>1. /\ v \in Seq(Frames) /\ Len(v) = Len(w) + 1
        /\ \A i \in 1 .. Len(w) : v[i] = w[i]
        /\ v[Len(w) + 1] = f
    BY AppendProperties
  <1>2. Len(w) \in Nat
    BY LenProperties
  <1>3. v # <<>>
    BY <1>1, <1>2, EmptySeq
  <1> QED
    BY <1>1, <1>2, <1>3

LEMMA TailFacts ==
  ASSUME NEW w \in Seq(Frames), w # <<>>, NEW v, v = Tail(w)
  PROVE  /\ v \in Seq(Frames)
         /\ Len(w) \in Nat /\ Len(w) >= 1 /\ Len(v) = Len(w) - 1
         /\ \A i \in 1 .. Len(v) : v[i] = w[i + 1]
         /\ Head(w) = w[1] /\ w[1] \in Frames
         /\ v = <<>> <=> Len(w) = 1
  <1>1. /\ v \in Seq(Frames) /\ Len(v) = Len(w) - 1
        /\ \A i \in 1 .. Len(v) : v[i] = w[i + 1]
    BY HeadTailProperties
  <1>2. Len(w) \in Nat /\ Len(w) >= 1 /\ Head(w) = w[1]
    BY LenProperties, EmptySeq
  <1>3. w[1] \in Frames
    BY <1>2, ElementOfSeq
  <1>4. v = <<>> <=> Len(v) = 0
    BY <1>1, EmptySeq
  <1> QED
    BY <1>1, <1>2, <1>3, <1>4

(***************************************************************************)
(* A frame that is not scene_changed keeps the changes new.                *)
(***************************************************************************)
LEMMA AppendKeepsChanges ==
  ASSUME NEW w \in Seq(Frames), NEW f \in Frames, NEW v, v = Append(w, f),
         NEW l \in Nat, ChangesAreNew(w, l), f.kind # "scene_changed"
  PROVE  ChangesAreNew(v, l)
  <1>1. /\ Len(w) \in Nat /\ Len(v) = Len(w) + 1 /\ v[Len(v)] = f
        /\ \A i \in 1 .. Len(w) : v[i] = w[i]
    BY AppendFacts
  <1> SUFFICES ASSUME NEW j \in 1 .. Len(v), v[j].kind = "scene_changed"
               PROVE  /\ \A i \in 1 .. j - 1 :
                           NoSnapshot(v, i + 1, j) => v[i].seq < v[j].seq
                      /\ NoSnapshot(v, 1, j) => l < v[j].seq
    BY DEF ChangesAreNew
  <1>2. j \in 1 .. Len(w) /\ v[j] = w[j]
    BY <1>1
  <1>3. /\ \A i \in 1 .. j - 1 : NoSnapshot(w, i + 1, j) => w[i].seq < w[j].seq
        /\ NoSnapshot(w, 1, j) => l < w[j].seq
    BY <1>2 DEF ChangesAreNew
  <1>4. \A i \in 0 .. j - 1 : NoSnapshot(v, i + 1, j) => NoSnapshot(w, i + 1, j)
    BY <1>1, <1>2 DEF NoSnapshot
  <1>5. NoSnapshot(v, 1, j) => NoSnapshot(w, 1, j)
    BY <1>1, <1>2 DEF NoSnapshot
  <1> QED
    BY <1>1, <1>2, <1>3, <1>4, <1>5

(***************************************************************************)
(* scene_changed with a number above all those since the last snapshot.    *)
(***************************************************************************)
LEMMA AppendChange ==
  ASSUME NEW w \in Seq(Frames), NEW f \in Frames, NEW v, v = Append(w, f),
         NEW l \in Nat, ChangesAreNew(w, l), f.kind = "scene_changed",
         NEW n \in Nat, Below(w, l, n), n < f.seq
  PROVE  ChangesAreNew(v, l)
  <1>1. /\ Len(w) \in Nat /\ Len(v) = Len(w) + 1 /\ v[Len(v)] = f
        /\ \A i \in 1 .. Len(w) : v[i] = w[i]
    BY AppendFacts
  <1>2. \A i \in 1 .. Len(w) : w[i].seq \in Nat
    BY FrameAt
  <1>3. f.seq \in Nat
    BY FrameFields
  <1> SUFFICES ASSUME NEW j \in 1 .. Len(v), v[j].kind = "scene_changed"
               PROVE  /\ \A i \in 1 .. j - 1 :
                           NoSnapshot(v, i + 1, j) => v[i].seq < v[j].seq
                      /\ NoSnapshot(v, 1, j) => l < v[j].seq
    BY DEF ChangesAreNew
  <1>4. CASE j \in 1 .. Len(w)
    <2>1. /\ \A i \in 1 .. j - 1 : NoSnapshot(w, i + 1, j) => w[i].seq < w[j].seq
          /\ NoSnapshot(w, 1, j) => l < w[j].seq
      BY <1>1, <1>4 DEF ChangesAreNew
    <2>2. \A i \in 0 .. j - 1 : NoSnapshot(v, i + 1, j) => NoSnapshot(w, i + 1, j)
      BY <1>1, <1>4 DEF NoSnapshot
    <2>3. NoSnapshot(v, 1, j) => NoSnapshot(w, 1, j)
      BY <1>1, <1>4 DEF NoSnapshot
    <2> QED
      BY <1>1, <1>4, <2>1, <2>2, <2>3
  <1>5. CASE j = Len(w) + 1
    <2>1. \A i \in 1 .. Len(w) :
            NoSnapshot(v, i + 1, j) => NoSnapshot(w, i + 1, Len(w))
      BY <1>1, <1>5 DEF NoSnapshot
    <2>2. NoSnapshot(v, 1, j) => NoSnapshot(w, 1, Len(w))
      BY <1>1, <1>5 DEF NoSnapshot
    <2>3. \A i \in 1 .. Len(w) : NoSnapshot(v, i + 1, j) => w[i].seq <= n
      BY <2>1 DEF Below
    <2>4. NoSnapshot(v, 1, j) => l <= n
      BY <2>2 DEF Below
    <2> QED
      BY <1>1, <1>2, <1>3, <1>5, <2>3, <2>4
  <1> QED
    BY <1>1, <1>4, <1>5

(***************************************************************************)
(* A frame numbered at most n, where nothing or a snapshot comes before.   *)
(***************************************************************************)
LEMMA AppendBelow ==
  ASSUME NEW w \in Seq(Frames), NEW f \in Frames, NEW v, v = Append(w, f),
         NEW l \in Nat, NEW n \in Nat, f.seq <= n,
         f.kind = "snapshot" \/ Below(w, l, n)
  PROVE  Below(v, l, n)
  <1>1. /\ Len(w) \in Nat /\ Len(v) = Len(w) + 1 /\ v[Len(v)] = f
        /\ \A i \in 1 .. Len(w) : v[i] = w[i]
    BY AppendFacts
  <1>2. f.kind = "snapshot" =>
          /\ \A i \in 1 .. Len(w) : ~ NoSnapshot(v, i + 1, Len(v))
          /\ ~ NoSnapshot(v, 1, Len(v))
    BY <1>1 DEF NoSnapshot
  <1>3. /\ \A i \in 1 .. Len(w) :
             NoSnapshot(v, i + 1, Len(v)) => NoSnapshot(w, i + 1, Len(w))
        /\ NoSnapshot(v, 1, Len(v)) => NoSnapshot(w, 1, Len(w))
    BY <1>1 DEF NoSnapshot
  <1>4. \A i \in 1 .. Len(w) : NoSnapshot(v, i + 1, Len(v)) => w[i].seq <= n
    BY <1>2, <1>3 DEF Below
  <1>5. NoSnapshot(v, 1, Len(v)) => l <= n
    BY <1>2, <1>3 DEF Below
  <1>6. \A i \in 1 .. Len(v) : NoSnapshot(v, i + 1, Len(v)) => v[i].seq <= n
    <2> SUFFICES ASSUME NEW i \in 1 .. Len(v), NoSnapshot(v, i + 1, Len(v))
                 PROVE  v[i].seq <= n
      OBVIOUS
    <2>1. CASE i \in 1 .. Len(w)
      BY <1>1, <1>4, <2>1
    <2>2. CASE i = Len(v)
      BY <1>1, <2>2
    <2> QED
      BY <1>1, <2>1, <2>2
  <1> QED
    BY <1>5, <1>6 DEF Below

(***************************************************************************)
(* The three frames a live handler sends, each after what may precede it:  *)
(* a snapshot after scene_changed, a delta on the scene the client will    *)
(* show, anything else anywhere.                                           *)
(***************************************************************************)
LEMMA AppendOrderly ==
  ASSUME NEW w \in Seq(Frames), NEW f \in Frames, NEW v, v = Append(w, f),
         NEW l \in Nat, NEW s, Orderly(w, l, s),
         f.kind = "snapshot" => EndsChanged(w, l),
         f.kind = "delta" => EndsOn(w, l, s, f.scene)
  PROVE  Orderly(v, l, s)
  <1>1. /\ Len(w) \in Nat /\ Len(v) = Len(w) + 1 /\ v[Len(v)] = f
        /\ \A i \in 1 .. Len(w) : v[i] = w[i]
        /\ w = <<>> <=> Len(w) = 0
    BY AppendFacts, EmptySeq
  <1> SUFFICES ASSUME NEW i \in 1 .. Len(v)
               PROVE  /\ v[i].kind = "snapshot" =>
                           IF i = 1 THEN l = 0
                                    ELSE v[i - 1].kind = "scene_changed"
                      /\ v[i].kind = "delta" =>
                           IF i = 1
                             THEN v[i].scene = s /\ l # 0
                             ELSE /\ v[i - 1].kind \in {"snapshot", "delta"}
                                  /\ v[i - 1].scene = v[i].scene
    BY DEF Orderly
  <1>2. CASE i \in 1 .. Len(w)
    <2>1. v[i] = w[i] /\ (i # 1 => v[i - 1] = w[i - 1])
      BY <1>1, <1>2
    <2> QED
      BY <1>2, <2>1 DEF Orderly
  <1>3. CASE i = Len(w) + 1
    <2>1. v[i] = f /\ (i # 1 => v[i - 1] = w[Len(w)]) /\ (i = 1 <=> w = <<>>)
      BY <1>1, <1>3
    <2> QED
      BY <2>1 DEF EndsChanged, EndsOn
  <1> QED
    BY <1>1, <1>2, <1>3

(***************************************************************************)
(* Frame f is one that a handler at place at, on its way to scene next,    *)
(* may send; and after sending it the handler is at place at2, on its way  *)
(* to next2 if f announced a change.                                       *)
(***************************************************************************)
MaySend(f, at, next) ==
    \/ f.kind = "snapshot" /\ f.scene = next
    \/ at \notin {"changing", "shipping"}

LeadsTo(f, at2, next2) ==
    f.kind = "scene_changed" =>
        at2 \in {"changing", "shipping"} /\ next2 = f.scene

LEMMA AppendFollowed ==
  ASSUME NEW w \in Seq(Frames), NEW f \in Frames, NEW v, v = Append(w, f),
         NEW at, NEW next, NEW at2, NEW next2, Followed(w, at, next),
         MaySend(f, at, next), LeadsTo(f, at2, next2)
  PROVE  Followed(v, at2, next2)
  <1> USE DEF MaySend, LeadsTo
  <1>1. /\ Len(w) \in Nat /\ Len(v) = Len(w) + 1 /\ v[Len(v)] = f
        /\ \A i \in 1 .. Len(w) : v[i] = w[i]
    BY AppendFacts
  <1> SUFFICES ASSUME NEW i \in 1 .. Len(v), v[i].kind = "scene_changed"
               PROVE  IF i < Len(v)
                        THEN /\ v[i + 1].kind = "snapshot"
                             /\ v[i + 1].scene = v[i].scene
                        ELSE /\ at2 \in {"changing", "shipping"}
                             /\ next2 = v[i].scene
    BY DEF Followed
  <1>2. CASE i < Len(w)
    <2>1. v[i] = w[i] /\ v[i + 1] = w[i + 1] /\ i \in 1 .. Len(w) /\ i < Len(v)
      BY <1>1, <1>2
    <2> QED
      BY <1>2, <2>1 DEF Followed
  <1>3. CASE i = Len(w)
    <2>1. v[i] = w[i] /\ v[i + 1] = f /\ i \in 1 .. Len(w) /\ i < Len(v)
      BY <1>1, <1>3
    <2>2. at \in {"changing", "shipping"} /\ next = w[i].scene
      BY <1>3, <2>1 DEF Followed
    <2> QED
      BY <2>1, <2>2
  <1>4. CASE i = Len(v)
    BY <1>1, <1>4
  <1> QED
    BY <1>1, <1>2, <1>3, <1>4

LEMMA AppendEnds ==
  ASSUME NEW w \in Seq(Frames), NEW f \in Frames, NEW v, v = Append(w, f),
         NEW l, NEW s
  PROVE  /\ f.kind \in {"snapshot", "delta"} => EndsOn(v, l, s, f.scene)
         /\ f.kind = "scene_changed" => EndsChanged(v, l)
  <1>1. v # <<>> /\ v[Len(v)] = f
    BY AppendFacts
  <1> QED
    BY <1>1 DEF EndsOn, EndsChanged

(***************************************************************************)
(* The client takes the first frame h: its tracker goes from l to m and    *)
(* the scene it shows from s to t.  m is h's number, or h is not counted;  *)
(* a scene_changed leaves a fresh tracker, a snapshot or a delta does not, *)
(* and the scene shown is theirs.                                          *)
(***************************************************************************)
Takes(h, l, m, t) ==
    /\ m <= h.seq \/ (m = l /\ h.kind # "snapshot")
    /\ h.kind = "scene_changed" => m = 0
    /\ h.kind \in {"snapshot", "delta"} => m # 0 /\ t = h.scene

LEMMA TailOrderly ==
  ASSUME NEW w \in Seq(Frames), w # <<>>, NEW v, v = Tail(w),
         NEW l \in Nat, NEW m \in Nat, NEW s, NEW t,
         Orderly(w, l, s), Takes(w[1], l, m, t)
  PROVE  Orderly(v, m, t)
  <1>1. /\ Len(w) \in Nat /\ Len(w) >= 1 /\ Len(v) = Len(w) - 1
        /\ \A i \in 1 .. Len(v) : v[i] = w[i + 1]
    BY TailFacts
  <1> SUFFICES ASSUME NEW i \in 1 .. Len(v)
               PROVE  /\ v[i].kind = "snapshot" =>
                           IF i = 1 THEN m = 0
                                    ELSE v[i - 1].kind = "scene_changed"
                      /\ v[i].kind = "delta" =>
                           IF i = 1
                             THEN v[i].scene = t /\ m # 0
                             ELSE /\ v[i - 1].kind \in {"snapshot", "delta"}
                                  /\ v[i - 1].scene = v[i].scene
    BY DEF Orderly
  <1>2. /\ i + 1 \in 1 .. Len(w) /\ i + 1 # 1 /\ (i + 1) - 1 = i
        /\ v[i] = w[i + 1] /\ (i # 1 => v[i - 1] = w[i])
    BY <1>1
  <1>3. /\ v[i].kind = "snapshot" => w[i].kind = "scene_changed"
        /\ v[i].kind = "delta" => /\ w[i].kind \in {"snapshot", "delta"}
                                  /\ w[i].scene = v[i].scene
    BY <1>2 DEF Orderly
  <1>4. CASE i = 1
    BY <1>3, <1>4 DEF Takes
  <1>5. CASE i # 1
    BY <1>2, <1>3, <1>5
  <1> QED
    BY <1>4, <1>5

LEMMA TailChanges ==
  ASSUME NEW w \in Seq(Frames), w # <<>>, NEW v, v = Tail(w),
         NEW l \in Nat, NEW m \in Nat, NEW t,
         ChangesAreNew(w, l), Takes(w[1], l, m, t)
  PROVE  ChangesAreNew(v, m)
  <1>1. /\ Len(w) \in Nat /\ Len(w) >= 1 /\ Len(v) = Len(w) - 1
        /\ \A i \in 1 .. Len(v) : v[i] = w[i + 1]
    BY TailFacts
  <1>2. \A i \in 1 .. Len(w) : w[i].seq \in Nat
    BY FrameAt
  <1> SUFFICES ASSUME NEW j \in 1 .. Len(v), v[j].kind = "scene_changed"
               PROVE  /\ \A i \in 1 .. j - 1 :
                           NoSnapshot(v, i + 1, j) => v[i].seq < v[j].seq
                      /\ NoSnapshot(v, 1, j) => m < v[j].seq
    BY DEF ChangesAreNew
  <1>3. j + 1 \in 1 .. Len(w) /\ v[j] = w[j + 1]
    BY <1>1
  <1>4. /\ \A i \in 1 .. j : NoSnapshot(w, i + 1, j + 1) => w[i].seq < v[j].seq
        /\ NoSnapshot(w, 1, j + 1) => l < v[j].seq
    BY <1>3 DEF ChangesAreNew
  <1>5. \A i \in 0 .. j - 1 :
          NoSnapshot(v, i + 1, j) => NoSnapshot(w, (i + 1) + 1, j + 1)
    <2> SUFFICES ASSUME NEW i \in 0 .. j - 1, NoSnapshot(v, i + 1, j),
                        NEW k \in (i + 1) + 1 .. j + 1
                 PROVE  w[k].kind # "snapshot"
      BY DEF NoSnapshot
    <2>1. k - 1 \in i + 1 .. j /\ k - 1 \in 1 .. Len(v) /\ (k - 1) + 1 = k
      BY <1>1
    <2>2. v[k - 1].kind # "snapshot" /\ v[k - 1] = w[(k - 1) + 1]
      BY <1>1, <2>1 DEF NoSnapshot
    <2> QED
      BY <2>1, <2>2
  <1>6. ASSUME NEW i \in 1 .. j - 1, NoSnapshot(v, i + 1, j)
        PROVE  v[i].seq < v[j].seq
    <2>1. i + 1 \in 1 .. j /\ v[i] = w[i + 1] /\ i \in 0 .. j - 1
      BY <1>1
    <2> QED
      BY <1>4, <1>5, <1>6, <2>1
  <1>7. ASSUME NoSnapshot(v, 1, j) PROVE m < v[j].seq
    <2>1. NoSnapshot(w, 1 + 1, j + 1)
      BY <1>1, <1>5, <1>7
    <2>2. w[1].seq < v[j].seq
      BY <1>4, <2>1
    <2>3. w[1].kind # "snapshot" => NoSnapshot(w, 1, j + 1)
      BY <2>1 DEF NoSnapshot
    <2>4. w[1].seq \in Nat /\ v[j].seq \in Nat
      BY <1>1, <1>2, <1>3
    <2> QED
      BY <1>4, <2>2, <2>3, <2>4 DEF Takes
  <1> QED
    BY <1>6, <1>7

LEMMA TailBelow ==
  ASSUME NEW w \in Seq(Frames), w # <<>>, NEW v, v = Tail(w),
         NEW l \in Nat, NEW m \in Nat, NEW t, NEW n \in Nat,
         Below(w, l, n), Takes(w[1], l, m, t)
  PROVE  Below(v, m, n)
  <1>1. /\ Len(w) \in Nat /\ Len(w) >= 1 /\ Len(v) = Len(w) - 1
        /\ \A i \in 1 .. Len(v) : v[i] = w[i + 1]
    BY TailFacts
  <1>2. \A i \in 1 .. Len(w) : w[i].seq \in Nat
    BY FrameAt
  <1>3. \A i \in 0 .. Len(v) :
          NoSnapshot(v, i + 1, Len(v)) => NoSnapshot(w, (i + 1) + 1, Len(w))
    <2> SUFFICES ASSUME NEW i \in 0 .. Len(v), NoSnapshot(v, i + 1, Len(v)),
                        NEW k \in (i + 1) + 1 .. Len(w)
                 PROVE  w[k].kind # "snapshot"
      BY DEF NoSnapshot
    <2>1. /\ k - 1 \in i + 1 .. Len(v) /\ k - 1 \in 1 .. Len(v)
          /\ (k - 1) + 1 = k
      BY <1>1
    <2>2. v[k - 1].kind # "snapshot" /\ v[k - 1] = w[(k - 1) + 1]
      BY <1>1, <2>1 DEF NoSnapshot
    <2> QED
      BY <2>1, <2>2
  <1>4. ASSUME NEW i \in 1 .. Len(v), NoSnapshot(v, i + 1, Len(v))
        PROVE  v[i].seq <= n
    <2>1. i + 1 \in 1 .. Len(w) /\ v[i] = w[i + 1] /\ i \in 0 .. Len(v)
      BY <1>1
    <2>2. NoSnapshot(w, (i + 1) + 1, Len(w))
      BY <1>3, <1>4, <2>1
    <2> QED
      BY <2>1, <2>2 DEF Below
  <1>5. ASSUME NoSnapshot(v, 1, Len(v)) PROVE m <= n
    <2>1. NoSnapshot(w, 1 + 1, Len(w))
      BY <1>1, <1>3, <1>5
    <2>2. w[1].seq <= n /\ w[1].seq \in Nat
      BY <1>1, <1>2, <2>1 DEF Below
    <2>3. w[1].kind # "snapshot" => NoSnapshot(w, 1, Len(w))
      BY <1>1, <2>1 DEF NoSnapshot
    <2> QED
      BY <2>2, <2>3 DEF Takes, Below
  <1> QED
    BY <1>4, <1>5 DEF Below

LEMMA TailEnds ==
  ASSUME NEW w \in Seq(Frames), w # <<>>, NEW v, v = Tail(w),
         NEW l, NEW m \in Nat, NEW s, NEW t, NEW o, Takes(w[1], l, m, t)
  PROVE  /\ EndsOn(w, l, s, o) => EndsOn(v, m, t, o)
         /\ EndsChanged(w, l) => EndsChanged(v, m)
  <1>1. /\ Len(w) \in Nat /\ Len(w) >= 1 /\ Len(v) = Len(w) - 1
        /\ \A i \in 1 .. Len(v) : v[i] = w[i + 1]
        /\ v = <<>> <=> Len(w) = 1
    BY TailFacts
  <1>2. CASE v = <<>>
    BY <1>1, <1>2 DEF EndsOn, EndsChanged, Takes
  <1>3. CASE v # <<>>
    <2>1. v[Len(v)] = w[Len(w)]
      BY <1>1, <1>3
    <2> QED
      BY <1>3, <2>1 DEF EndsOn, EndsChanged
  <1> QED
    BY <1>2, <1>3

LEMMA TailFollowed ==
  ASSUME NEW w \in Seq(Frames), w # <<>>, NEW v, v = Tail(w),
         NEW at, NEW next, Followed(w, at, next)
  PROVE  Followed(v, at, next)
  <1>1. /\ Len(w) \in Nat /\ Len(w) >= 1 /\ Len(v) = Len(w) - 1
        /\ \A i \in 1 .. Len(v) : v[i] = w[i + 1]
    BY TailFacts
  <1> SUFFICES ASSUME NEW i \in 1 .. Len(v), v[i].kind = "scene_changed"
               PROVE  IF i < Len(v)
                        THEN /\ v[i + 1].kind = "snapshot"
                             /\ v[i + 1].scene = v[i].scene
                        ELSE /\ at \in {"changing", "shipping"}
                             /\ next = v[i].scene
    BY DEF Followed
  <1>2. /\ i + 1 \in 1 .. Len(w) /\ v[i] = w[i + 1]
        /\ i < Len(v) <=> i + 1 < Len(w)
        /\ i < Len(v) => v[i + 1] = w[(i + 1) + 1]
    BY <1>1
  <1> QED
    BY <1>2 DEF Followed

-----------------------------------------------------------------------------
(* Steps of others                                                         *)

(***************************************************************************)
(* A scene's numbers only grow, and a new write has a new number.          *)
(***************************************************************************)
ScenesGrow ==
    /\ made <= made'
    /\ \A o \in Scenes :
         /\ seqOf[o] <= seqOf'[o]
         /\ Written(o) \subseteq Written(o)'
         /\ \A n \in Written(o)' : n \in Written(o) \/ n > seqOf[o]

SameConnection(c) ==
    /\ stage'[c] = stage[c] /\ want'[c] = want[c] /\ cur'[c] = cur[c]
    /\ nxt'[c] = nxt[c] /\ source'[c] = source[c] /\ rx'[c] = rx[c]
    /\ erx'[c] = erx[c] /\ snapSeq'[c] = snapSeq[c] /\ wire'[c] = wire[c]
    /\ last'[c] = last[c] /\ shown'[c] = shown[c] /\ view'[c] = view[c]

LEMMA SceneFacts ==
  ASSUME SceneTypes, NEW o \in Scenes
  PROVE  seqOf[o] \in Nat /\ seqOf[o] >= 1 /\ Written(o) \subseteq Nat
  <1>1. txOf[o] \in Seq(Nat)
    BY DEF SceneTypes
  <1>2. \A i \in 1 .. Len(txOf[o]) : txOf[o][i] \in Nat
    BY <1>1, ElementOfSeq
  <1> QED
    BY <1>2 DEF SceneTypes, Written

LEMMA SceneFactsNext ==
  ASSUME SceneTypes', NEW o \in Scenes
  PROVE  seqOf'[o] \in Nat /\ seqOf'[o] >= 1 /\ Written(o)' \subseteq Nat
  <1>1. txOf'[o] \in Seq(Nat)
    BY DEF SceneTypes
  <1>2. \A i \in 1 .. Len(txOf'[o]) : txOf'[o][i] \in Nat
    BY <1>1, ElementOfSeq
  <1> QED
    BY <1>2 DEF SceneTypes, Written

LEMMA TellsMore ==
  ASSUME NEW leaves, NEW writes, NEW more, NEW n \in Nat, NEW q \in Nat,
         Tells(leaves, writes, n), n <= q, writes \subseteq more,
         more \subseteq Nat, \A m \in more : m \in writes \/ m > q
  PROVE  Tells(leaves, more, n)
  BY DEF Tells

LEMMA BelowMore ==
  ASSUME NEW w \in Seq(Frames), NEW l \in Nat, NEW n \in Nat, NEW m \in Nat,
         Below(w, l, n), n <= m
  PROVE  Below(w, l, m)
  <1>1. \A i \in 1 .. Len(w) : w[i].seq \in Nat
    BY FrameAt
  <1> QED
    BY <1>1 DEF Below

(***************************************************************************)
(* A frame that was true stays true.                                       *)
(***************************************************************************)
LEMMA FrameStable ==
  ASSUME SceneTypes, SceneTypes', made \in 0 .. MaxScenes,
         made' \in 0 .. MaxScenes, ScenesGrow,
         NEW f \in Frames, FrameIsTrue(f)
  PROVE  FrameIsTrue(f)'
  <1> USE RegistryBounds
  <1>1. f.seq \in Nat /\ (f.kind # "error" => f.scene \in 1 .. made')
    BY FrameFields DEF FrameIsTrue, ScenesGrow
  <1>2. CASE f.kind \in {"snapshot", "delta"}
    <2>1. f.scene \in Scenes
      BY <1>2 DEF FrameIsTrue, Scenes
    <2> PICK o \in Scenes : o = f.scene
      BY <2>1
    <2>2. /\ seqOf[o] \in Nat /\ Written(o)' \subseteq Nat /\ seqOf'[o] \in Nat
      BY SceneFacts, SceneFactsNext
    <2>3. /\ seqOf[o] <= seqOf'[o] /\ Written(o) \subseteq Written(o)'
          /\ \A n \in Written(o)' : n \in Written(o) \/ n > seqOf[o]
      BY DEF ScenesGrow
    <2>4. f.kind = "snapshot" =>
            f.seq <= seqOf[o] /\ Tells(f.state, Written(o), f.seq)
      BY DEF FrameIsTrue
    <2>5. f.kind = "snapshot" => Tells(f.state, Written(o)', f.seq)
      BY <1>1, <2>2, <2>3, <2>4, TellsMore
    <2>6. f.kind = "delta" => f.seq \in Written(o)'
      BY <2>3 DEF FrameIsTrue
    <2>7. f.kind = "snapshot" => f.seq <= seqOf'[o]
      BY <1>1, <2>2, <2>3, <2>4
    <2> QED
      BY <1>1, <2>5, <2>6, <2>7 DEF FrameIsTrue
  <1>3. CASE f.kind \notin {"snapshot", "delta"}
    BY <1>1, <1>3 DEF FrameIsTrue
  <1> QED
    BY <1>2, <1>3

LEMMA FramesStable ==
  ASSUME SceneTypes, SceneTypes', made \in 0 .. MaxScenes,
         made' \in 0 .. MaxScenes, ScenesGrow,
         NEW w \in Seq(Frames), \A i \in 1 .. Len(w) : FrameIsTrue(w[i])
  PROVE  \A i \in 1 .. Len(w) : FrameIsTrue(w[i])'
  <1> SUFFICES ASSUME NEW i \in 1 .. Len(w) PROVE FrameIsTrue(w[i])'
    OBVIOUS
  <1>1. w[i] \in Frames
    BY ElementOfSeq
  <1> QED
    BY <1>1, FrameStable

(***************************************************************************)
(* What a connection relies on is not disturbed by the steps of others.    *)
(***************************************************************************)
LEMMA ConnectionStable ==
  ASSUME RegistryTypeOK, made' \in 0 .. MaxScenes, SceneTypes, SceneTypes',
         HandlerTypes, ClientTypes, ScenesGrow,
         NEW c \in Clients, ConnectionInv(c), SameConnection(c)
  PROVE  ConnectionInv(c)'
  <1> USE RegistryBounds
  <1>0. made \in 0 .. MaxScenes
    BY DEF RegistryTypeOK
  <1>1. /\ wire[c] \in Seq(Frames) /\ last[c] \in Nat /\ shown[c] \in 0 .. made
        /\ cur[c] \in 0 .. made /\ nxt[c] \in 0 .. made
    BY DEF ClientTypes, HandlerTypes
  <1>2. /\ cur[c] # 0 => cur[c] \in Scenes
        /\ nxt[c] # 0 => nxt[c] \in Scenes
        /\ shown[c] # 0 => shown[c] \in Scenes
    BY <1>0, <1>1 DEF Scenes
  <1>3. \A o \in Scenes :
          /\ seqOf[o] \in Nat /\ seqOf'[o] \in Nat /\ seqOf[o] <= seqOf'[o]
          /\ Written(o)' \subseteq Nat
    BY SceneFacts, SceneFactsNext DEF ScenesGrow
  <1>4. HandlerAt(c)'
    <2>1. HandlerAt(c)
      BY DEF ConnectionInv
    <2>2. /\ stage[c] = "snapshotting" =>
               cur[c] # 0 /\ snapSeq[c] \in 1 .. seqOf'[cur[c]]
          /\ stage[c] = "shipping" =>
               nxt[c] # 0 /\ snapSeq[c] \in 1 .. seqOf'[nxt[c]]
      BY <1>2, <1>3, <2>1 DEF HandlerAt, OnScene, Stages, Swapping
    <2> QED
      BY <2>1, <2>2 DEF HandlerAt, SameConnection
  <1>5. FramesTrue(c)'
    <2>1. \A i \in 1 .. Len(wire[c]) : FrameIsTrue(wire[c][i])
      BY DEF ConnectionInv, FramesTrue
    <2> PICK w \in Seq(Frames) : w = wire[c]
      BY <1>1
    <2>2. \A i \in 1 .. Len(w) : FrameIsTrue(w[i])
      BY <2>1
    <2>3. \A i \in 1 .. Len(w) : FrameIsTrue(w[i])'
      BY <1>0, <2>2, FramesStable
    <2>4. w = wire'[c]
      BY DEF SameConnection
    <2> QED
      BY <2>3, <2>4 DEF FramesTrue, FrameIsTrue
  <1>6. ShownIsTrue(c)'
    <2> SUFFICES ASSUME stage[c] # "closed", last[c] # 0
                 PROVE  /\ shown[c] # 0
                        /\ last[c] <= seqOf'[shown[c]]
                        /\ Tells(view[c], Written(shown[c])', last[c])
      BY DEF ShownIsTrue, SameConnection
    <2>1. /\ shown[c] # 0 /\ last[c] <= seqOf[shown[c]]
          /\ Tells(view[c], Written(shown[c]), last[c])
      BY DEF ConnectionInv, ShownIsTrue
    <2> PICK s \in Scenes : s = shown[c]
      BY <1>2, <2>1
    <2>2. Written(shown[c])' = Written(s)'
      BY DEF SameConnection, Written
    <2>3. Tells(view[c], Written(s)', last[c])
      BY <1>1, <1>3, <2>1, TellsMore DEF ScenesGrow
    <2> QED
      BY <1>1, <1>3, <2>1, <2>2, <2>3
  <1>7. /\ Orderly(wire[c], last[c], shown[c])'
        /\ ChangesAreNew(wire[c], last[c])'
        /\ Followed(wire[c], stage[c], nxt[c])'
    BY DEF ConnectionInv, SameConnection
  <1>8. SocketEnd(c)'
    <2>1. SocketEnd(c) /\ HandlerAt(c)
      BY DEF ConnectionInv
    <2>2. stage[c] = "live" =>
            /\ EndsOn(wire[c], last[c], shown[c], cur[c])
            /\ Below(wire[c], last[c], seqOf'[cur[c]])
      <3> SUFFICES ASSUME stage[c] = "live"
                   PROVE  Below(wire[c], last[c], seqOf'[cur[c]])
        BY <2>1 DEF SocketEnd
      <3>1. cur[c] \in Scenes /\ Below(wire[c], last[c], seqOf[cur[c]])
        BY <1>2, <2>1 DEF SocketEnd, HandlerAt, OnScene, Stages
      <3> QED
        BY <1>1, <1>3, <3>1, BelowMore
    <2>3. stage[c] = "shipped" =>
            /\ EndsOn(wire[c], last[c], shown[c], nxt[c])
            /\ Below(wire[c], last[c], seqOf'[nxt[c]])
      <3> SUFFICES ASSUME stage[c] = "shipped"
                   PROVE  Below(wire[c], last[c], seqOf'[nxt[c]])
        BY <2>1 DEF SocketEnd
      <3>1. nxt[c] \in Scenes /\ Below(wire[c], last[c], seqOf[nxt[c]])
        BY <1>2, <2>1 DEF SocketEnd, HandlerAt, Swapping
      <3> QED
        BY <1>1, <1>3, <3>1, BelowMore
    <2> QED
      BY <2>1, <2>2, <2>3 DEF SocketEnd, SameConnection
  <1> QED
    BY <1>4, <1>5, <1>6, <1>7, <1>8 DEF ConnectionInv

-----------------------------------------------------------------------------
(* The scenes                                                              *)

LEMMA ScenesKept ==
  ASSUME SceneTypes, NumbersBounded, UNCHANGED <<seqOf, txOf>>,
         made \in Nat, made' \in Nat, made <= made'
  PROVE  SceneTypes' /\ NumbersBounded' /\ ScenesGrow
  <1>1. \A o \in Scenes : Written(o)' = Written(o) /\ seqOf[o] \in Nat
    BY SceneFacts DEF Written
  <1> QED
    BY <1>1 DEF SceneTypes, NumbersBounded, ScenesGrow

(***************************************************************************)
(* A number is taken for a scene_changed frame: nothing is written.        *)
(***************************************************************************)
LEMMA NumberTaken ==
  ASSUME SceneTypes, NumbersBounded, made \in Nat, made' = made,
         NEW o \in Scenes, seqOf' = [seqOf EXCEPT ![o] = @ + 1], txOf' = txOf
  PROVE  SceneTypes' /\ NumbersBounded' /\ ScenesGrow
  <1>1. \A p \in Scenes : /\ Written(p)' = Written(p) /\ Written(p) \subseteq Nat
                          /\ seqOf[p] \in Nat /\ seqOf[p] <= seqOf'[p]
                          /\ seqOf'[p] \in Nat
    BY SceneFacts DEF Written, SceneTypes
  <1>2. SceneTypes'
    BY DEF SceneTypes
  <1>3. NumbersBounded'
    BY <1>1 DEF NumbersBounded
  <1>4. ScenesGrow
    BY <1>1 DEF ScenesGrow
  <1> QED
    BY <1>2, <1>3, <1>4

(***************************************************************************)
(* set and emit: the next number is taken and sent.                        *)
(***************************************************************************)
LEMMA NumberSent ==
  ASSUME SceneTypes, NumbersBounded, made \in Nat, made' = made,
         NEW o \in Scenes, seqOf' = [seqOf EXCEPT ![o] = @ + 1],
         txOf' = [txOf EXCEPT ![o] = Append(@, seqOf[o] + 1)]
  PROVE  SceneTypes' /\ NumbersBounded' /\ ScenesGrow
  <1>1. \A p \in Scenes : /\ Written(p) \subseteq Nat /\ seqOf[p] \in Nat
                          /\ seqOf[p] <= seqOf'[p] /\ seqOf'[p] \in Nat
                          /\ \A n \in Written(p) : n \in 1 .. seqOf[p]
    BY SceneFacts DEF SceneTypes, NumbersBounded
  <1>2. /\ txOf[o] \in Seq(Nat) /\ Len(txOf[o]) \in Nat
        /\ txOf'[o] = Append(txOf[o], seqOf[o] + 1)
        /\ seqOf'[o] = seqOf[o] + 1
    BY LenProperties DEF SceneTypes
  <1>3. /\ txOf'[o] \in Seq(Nat) /\ Len(txOf'[o]) = Len(txOf[o]) + 1
        /\ \A i \in 1 .. Len(txOf[o]) : txOf'[o][i] = txOf[o][i]
        /\ txOf'[o][Len(txOf[o]) + 1] = seqOf[o] + 1
    BY <1>1, <1>2, AppendProperties
  <1>4. Written(o)' = Written(o) \cup {seqOf[o] + 1}
    <2>1. ASSUME NEW n \in Written(o)' PROVE n \in Written(o) \cup {seqOf[o] + 1}
      <3> PICK i \in 1 .. Len(txOf'[o]) : n = txOf'[o][i]
        BY <2>1 DEF Written
      <3>1. CASE i \in 1 .. Len(txOf[o])
        BY <1>3, <3>1 DEF Written
      <3>2. CASE i = Len(txOf[o]) + 1
        BY <1>3, <3>2
      <3> QED
        BY <1>2, <1>3, <3>1, <3>2
    <2>2. ASSUME NEW n \in Written(o) PROVE n \in Written(o)'
      <3> PICK i \in 1 .. Len(txOf[o]) : n = txOf[o][i]
        BY <2>2 DEF Written
      <3>1. i \in 1 .. Len(txOf'[o]) /\ n = txOf'[o][i]
        BY <1>2, <1>3
      <3> QED
        BY <3>1 DEF Written
    <2>3. seqOf[o] + 1 \in Written(o)'
      <3>1. Len(txOf[o]) + 1 \in 1 .. Len(txOf'[o])
        BY <1>2, <1>3
      <3> QED
        BY <1>3, <3>1 DEF Written
    <2> QED
      BY <2>1, <2>2, <2>3
  <1>5. \A p \in Scenes : p # o => Written(p)' = Written(p)
    BY DEF Written, SceneTypes
  <1>6. SceneTypes'
    BY <1>3 DEF SceneTypes
  <1>7. \A p \in Scenes : /\ Written(p) \subseteq Written(p)'
                          /\ \A n \in Written(p)' :
                               \/ n \in Written(p)
                               \/ n = seqOf[p] + 1 /\ n = seqOf'[p]
    <2> SUFFICES ASSUME NEW p \in Scenes
                 PROVE  /\ Written(p) \subseteq Written(p)'
                        /\ \A n \in Written(p)' :
                             \/ n \in Written(p)
                             \/ n = seqOf[p] + 1 /\ n = seqOf'[p]
      OBVIOUS
    <2>1. CASE p = o
      <3>1. Written(p)' = Written(o)' /\ Written(p) = Written(o)
        BY <2>1
      <3> QED
        BY <1>2, <1>4, <2>1, <3>1
    <2>2. CASE p # o
      BY <1>5, <2>2
    <2> QED
      BY <2>1, <2>2
  <1>8. NumbersBounded'
    BY <1>1, <1>7 DEF NumbersBounded
  <1>9. ScenesGrow
    BY <1>1, <1>7 DEF ScenesGrow
  <1> QED
    BY <1>6, <1>8, <1>9

-----------------------------------------------------------------------------
(* The handshake                                                           *)

Others(c) == \A d \in Clients \ {c} : SameConnection(d)

(***************************************************************************)
(* A step of the connection of c and of nobody else.                       *)
(***************************************************************************)
GoodStep(c) ==
    /\ SceneTypes' /\ NumbersBounded' /\ ScenesGrow
    /\ HandlerTypes' /\ ClientTypes' /\ Bounded'
    /\ Others(c)
    /\ ConnectionInv(c)'

LEMMA QuietScenes ==
  ASSUME SwapInv, UNCHANGED <<registryVars, sceneVars>>
  PROVE  SceneTypes' /\ NumbersBounded' /\ ScenesGrow /\ made' = made
  <1>1. UNCHANGED <<seqOf, txOf, made>> /\ made \in Nat
    BY RegistryBounds DEF SwapInv, RegistryTypeOK, registryVars, sceneVars
  <1> QED
    BY <1>1, ScenesKept DEF SwapInv

(***************************************************************************)
(* Before the first snapshot the socket is empty and the tracker fresh.    *)
(***************************************************************************)
LEMMA GreetingInv ==
  ASSUME NEW c \in Clients, HandlerAt(c)', stage'[c] \in Greeting
  PROVE  ConnectionInv(c)'
  <1>1. wire'[c] = <<>> /\ last'[c] = 0
    BY DEF HandlerAt
  <1>2. Len(wire'[c]) = 0
    BY <1>1
  <1>3. FramesTrue(c)' /\ ShownIsTrue(c)' /\ SocketEnd(c)'
    BY <1>1, <1>2 DEF FramesTrue, ShownIsTrue, SocketEnd, Greeting
  <1>4. /\ Orderly(wire[c], last[c], shown[c])'
        /\ ChangesAreNew(wire[c], last[c])'
        /\ Followed(wire[c], stage[c], nxt[c])'
    BY <1>1, <1>2 DEF Orderly, ChangesAreNew, Followed
  <1> QED
    BY <1>3, <1>4 DEF ConnectionInv

LEMMA ConnectionFacts ==
  ASSUME SwapInv, NEW c \in Clients
  PROVE  /\ RegistryTypeOK /\ SceneTypes /\ HandlerTypes /\ ClientTypes
         /\ Bounded /\ NumbersBounded /\ ConnectionInv(c) /\ HandlerAt(c)
         /\ made \in 0 .. MaxScenes /\ 1 .. made \subseteq Scenes
  BY RegistryBounds DEF SwapInv, ConnectionInv, RegistryTypeOK, Scenes

(***************************************************************************)
(* resolve_scene.                                                          *)
(***************************************************************************)
LEMMA ResolveStep ==
  ASSUME SwapInv, NEW c \in Clients, Resolve(c)
  PROVE  GoodStep(c)
  <1>1. /\ RegistryTypeOK /\ HandlerTypes /\ ClientTypes /\ Bounded /\ HandlerAt(c)
    BY ConnectionFacts
  <1>2. SceneTypes' /\ NumbersBounded' /\ ScenesGrow /\ made' = made
    BY QuietScenes DEF Resolve
  <1>3. /\ stage' = [stage EXCEPT ![c] = "resolving"] /\ stage[c] = "down"
        /\ want' = [want EXCEPT ![c] = IF Wants[c] = NoId THEN active ELSE Wants[c]]
        /\ want'[c] # NoId
        /\ UNCHANGED <<cur, nxt, source, rx, erx, snapSeq>>
        /\ UNCHANGED <<wire, last, shown, view, sends, drops>>
    BY DEF Resolve, Go, sceneVars, clientVars
  <1>4. /\ stage' \in [Clients -> Stages] /\ stage'[c] = "resolving"
        /\ want' \in [Clients -> Ids \cup {NoId}] /\ want'[c] \in Ids
    BY <1>1, <1>3, SwapBounds DEF HandlerTypes, Stages, RegistryTypeOK
  <1>5. HandlerTypes' /\ ClientTypes' /\ Bounded'
    BY <1>1, <1>2, <1>3, <1>4 DEF HandlerTypes, ClientTypes, Bounded
  <1>6. Others(c)
    BY <1>1, <1>3 DEF Others, SameConnection, HandlerTypes
  <1>7. HandlerAt(c)'
    BY <1>1, <1>3, <1>4 DEF HandlerAt, Greeting, OnScene, Receiving, Attached,
                            Swapping
  <1> QED
    BY <1>2, <1>4, <1>5, <1>6, <1>7, GreetingInv DEF GoodStep, Greeting

LEMMA LookupStep ==
  ASSUME SwapInv, NEW c \in Clients, Lookup(c)
  PROVE  GoodStep(c)
  <1>1. /\ RegistryTypeOK /\ HandlerTypes /\ ClientTypes /\ Bounded /\ HandlerAt(c)
    BY ConnectionFacts
  <1>2. SceneTypes' /\ NumbersBounded' /\ ScenesGrow /\ made' = made
    BY QuietScenes DEF Lookup
  <1>3. stage[c] = "resolving" /\ want[c] \in Ids
    BY <1>1 DEF Lookup, HandlerAt
  <1> PICK o \in 0 .. made : o = scenes[want[c]]
    BY <1>1, <1>3 DEF RegistryTypeOK
  <1>4. /\ stage' = [stage EXCEPT ![c] = IF o = 0 THEN "down" ELSE "resolved"]
        /\ cur' = [cur EXCEPT ![c] = o]
        /\ want' = [want EXCEPT ![c] = NoId]
        /\ UNCHANGED <<nxt, source, rx, erx, snapSeq>>
        /\ UNCHANGED <<wire, last, shown, view, sends, drops>>
    BY DEF Lookup, sceneVars, clientVars
  <1>5. /\ stage' \in [Clients -> Stages]
        /\ stage'[c] = (IF o = 0 THEN "down" ELSE "resolved")
        /\ cur' \in [Clients -> 0 .. made] /\ cur'[c] = o
        /\ want' \in [Clients -> Ids \cup {NoId}]
    BY <1>1, <1>4 DEF HandlerTypes, Stages
  <1>6. HandlerTypes' /\ ClientTypes' /\ Bounded'
    BY <1>1, <1>2, <1>4, <1>5 DEF HandlerTypes, ClientTypes, Bounded
  <1>7. Others(c)
    BY <1>1, <1>4 DEF Others, SameConnection, HandlerTypes
  <1>8. HandlerAt(c)'
    BY <1>1, <1>3, <1>4, <1>5 DEF HandlerAt, Greeting, OnScene, Receiving,
                                  Attached, Swapping
  <1>9. stage'[c] \in Greeting
    BY <1>5 DEF Greeting
  <1> QED
    BY <1>2, <1>6, <1>7, <1>8, <1>9, GreetingInv DEF GoodStep

LEMMA CheckRejectionStep ==
  ASSUME SwapInv, NEW c \in Clients, CheckRejection(c)
  PROVE  GoodStep(c)
  <1>1. /\ RegistryTypeOK /\ HandlerTypes /\ ClientTypes /\ Bounded /\ HandlerAt(c)
    BY ConnectionFacts
  <1>2. SceneTypes' /\ NumbersBounded' /\ ScenesGrow /\ made' = made
    BY QuietScenes DEF CheckRejection
  <1>3. /\ stage[c] = "resolved"
        /\ \/ /\ stage' = [stage EXCEPT ![c] = "down"]
              /\ cur' = [cur EXCEPT ![c] = 0]
           \/ stage' = [stage EXCEPT ![c] = "admitted"] /\ cur' = cur
        /\ UNCHANGED <<want, nxt, source, rx, erx, snapSeq>>
        /\ UNCHANGED <<wire, last, shown, view, sends, drops>>
    BY DEF CheckRejection, sceneVars, clientVars
  <1>4. /\ stage' \in [Clients -> Stages] /\ cur' \in [Clients -> 0 .. made]
        /\ \/ stage'[c] = "down"
           \/ stage'[c] = "admitted" /\ cur'[c] = cur[c]
    <2>0. made \in Nat
      BY <1>1, RegistryBounds DEF RegistryTypeOK
    <2> QED
      BY <1>1, <1>3, <2>0 DEF HandlerTypes, Stages
  <1>5. HandlerTypes' /\ ClientTypes' /\ Bounded'
    BY <1>1, <1>2, <1>3, <1>4 DEF HandlerTypes, ClientTypes, Bounded
  <1>6. Others(c)
    BY <1>1, <1>3 DEF Others, SameConnection, HandlerTypes
  <1>7. HandlerAt(c)'
    BY <1>1, <1>3, <1>4 DEF HandlerAt, Greeting, OnScene, Receiving, Attached,
                            Swapping, Stages
  <1>8. stage'[c] \in Greeting
    BY <1>4 DEF Greeting
  <1> QED
    BY <1>2, <1>5, <1>6, <1>7, <1>8, GreetingInv DEF GoodStep

(***************************************************************************)
(* scene.subscribe and events.subscribe.                                   *)
(***************************************************************************)
LEMMA SubscribeDeltasStep ==
  ASSUME SwapInv, NEW c \in Clients, SubscribeDeltas(c)
  PROVE  GoodStep(c)
  <1>1. /\ RegistryTypeOK /\ SceneTypes /\ HandlerTypes /\ ClientTypes /\ Bounded
        /\ HandlerAt(c) /\ 1 .. made \subseteq Scenes /\ made \in 0 .. MaxScenes
    BY ConnectionFacts
  <1>2. SceneTypes' /\ NumbersBounded' /\ ScenesGrow /\ made' = made
    BY QuietScenes DEF SubscribeDeltas
  <1>3. /\ stage' = [stage EXCEPT ![c] = "receiving"] /\ stage[c] = "admitted"
        /\ source' = [source EXCEPT ![c] = cur[c]]
        /\ rx' = [rx EXCEPT ![c] = Len(txOf[cur[c]]) + 1]
        /\ UNCHANGED <<want, cur, nxt, erx, snapSeq>>
        /\ UNCHANGED <<wire, last, shown, view, sends, drops>>
    BY DEF SubscribeDeltas, Go, sceneVars, clientVars
  <1>4. cur[c] # 0 /\ cur[c] \in 0 .. made
    BY <1>1, <1>3 DEF HandlerAt, OnScene, Stages, HandlerTypes
  <1>5. Len(txOf[cur[c]]) \in Nat
    <2>1. cur[c] \in Scenes
      BY <1>1, <1>4, RegistryBounds
    <2>2. txOf[cur[c]] \in Seq(Nat)
      BY <1>1, <2>1 DEF SceneTypes
    <2> QED
      BY <2>2, LenProperties
  <1>6. /\ stage' \in [Clients -> Stages] /\ stage'[c] = "receiving"
        /\ source' \in [Clients -> 0 .. made] /\ source'[c] = cur[c]
        /\ rx' \in [Clients -> Nat] /\ rx'[c] >= 1
    BY <1>1, <1>3, <1>4, <1>5 DEF HandlerTypes, Stages
  <1>7. HandlerTypes' /\ ClientTypes' /\ Bounded'
    BY <1>1, <1>2, <1>3, <1>6 DEF HandlerTypes, ClientTypes, Bounded
  <1>8. Others(c)
    BY <1>1, <1>3 DEF Others, SameConnection, HandlerTypes
  <1>9. HandlerAt(c)'
    BY <1>1, <1>3, <1>4, <1>6 DEF HandlerAt, Greeting, OnScene, Receiving,
                                  Attached, Swapping
  <1> QED
    BY <1>2, <1>6, <1>7, <1>8, <1>9, GreetingInv DEF GoodStep, Greeting

LEMMA SubscribeEventsStep ==
  ASSUME SwapInv, NEW c \in Clients, SubscribeEvents(c)
  PROVE  GoodStep(c)
  <1>1. /\ RegistryTypeOK /\ HandlerTypes /\ ClientTypes /\ Bounded /\ HandlerAt(c)
    BY ConnectionFacts
  <1>2. SceneTypes' /\ NumbersBounded' /\ ScenesGrow /\ made' = made
    BY QuietScenes DEF SubscribeEvents
  <1>3. /\ stage' = [stage EXCEPT ![c] = "attached"] /\ stage[c] = "receiving"
        /\ erx' = [erx EXCEPT ![c] = Len(events) + 1]
        /\ UNCHANGED <<want, cur, nxt, source, rx, snapSeq>>
        /\ UNCHANGED <<wire, last, shown, view, sends, drops>>
    BY DEF SubscribeEvents, Go, sceneVars, clientVars
  <1>4. Len(events) \in Nat
    BY <1>1, LenProperties DEF RegistryTypeOK
  <1>5. /\ stage' \in [Clients -> Stages] /\ stage'[c] = "attached"
        /\ erx' \in [Clients -> Nat] /\ erx'[c] >= 1
    BY <1>1, <1>3, <1>4 DEF HandlerTypes, Stages
  <1>6. HandlerTypes' /\ ClientTypes' /\ Bounded'
    BY <1>1, <1>2, <1>3, <1>5 DEF HandlerTypes, ClientTypes, Bounded
  <1>7. Others(c)
    BY <1>1, <1>3 DEF Others, SameConnection, HandlerTypes
  <1>8. HandlerAt(c)'
    BY <1>1, <1>3, <1>5 DEF HandlerAt, Greeting, OnScene, Receiving,
                            Attached, Swapping, Stages
  <1> QED
    BY <1>2, <1>5, <1>6, <1>7, <1>8, GreetingInv DEF GoodStep, Greeting

-----------------------------------------------------------------------------
(* The select loop                                                         *)

LEMMA FramesAppended ==
  ASSUME SceneTypes, SceneTypes', made \in 0 .. MaxScenes,
         made' \in 0 .. MaxScenes, ScenesGrow,
         NEW c \in Clients, NEW w \in Seq(Frames), NEW f \in Frames, NEW v,
         w = wire[c], v = wire'[c], v = Append(w, f),
         FramesTrue(c), FrameIsTrue(f)'
  PROVE  FramesTrue(c)'
  <1>1. \A i \in 1 .. Len(w) : FrameIsTrue(w[i])
    BY DEF FramesTrue
  <1>2. \A i \in 1 .. Len(w) : FrameIsTrue(w[i])'
    BY <1>1, FramesStable
  <1>3. /\ Len(w) \in Nat /\ Len(v) = Len(w) + 1 /\ v[Len(v)] = f
        /\ \A i \in 1 .. Len(w) : v[i] = w[i]
    BY AppendFacts
  <1>4. \A i \in 1 .. Len(v) : FrameIsTrue(v[i])'
    <2> SUFFICES ASSUME NEW i \in 1 .. Len(v) PROVE FrameIsTrue(v[i])'
      OBVIOUS
    <2>1. CASE i \in 1 .. Len(w)
      BY <1>2, <1>3, <2>1
    <2>2. CASE i = Len(v)
      BY <1>3, <2>2
    <2> QED
      BY <1>3, <2>1, <2>2
  <1> QED
    BY <1>4 DEF FramesTrue, FrameIsTrue

LEMMA FramesKept ==
  ASSUME SceneTypes, SceneTypes', made \in 0 .. MaxScenes,
         made' \in 0 .. MaxScenes, ScenesGrow, ClientTypes,
         NEW c \in Clients, wire'[c] = wire[c], FramesTrue(c)
  PROVE  FramesTrue(c)'
  <1> PICK w \in Seq(Frames) : w = wire[c]
    BY DEF ClientTypes
  <1>1. \A i \in 1 .. Len(w) : FrameIsTrue(w[i])
    BY DEF FramesTrue
  <1>2. \A i \in 1 .. Len(w) : FrameIsTrue(w[i])'
    BY <1>1, FramesStable
  <1> QED
    BY <1>2 DEF FramesTrue, FrameIsTrue

(***************************************************************************)
(* What the client shows and counts is not touched by the handler, unless  *)
(* the handler gives up.                                                   *)
(***************************************************************************)
LEMMA ShownKept ==
  ASSUME SceneTypes, SceneTypes', ScenesGrow, ClientTypes,
         made \in 0 .. MaxScenes, NEW c \in Clients, ShownIsTrue(c),
         stage'[c] = "closed" \/ stage[c] # "closed",
         last'[c] = last[c], shown'[c] = shown[c], view'[c] = view[c]
  PROVE  ShownIsTrue(c)'
  <1> SUFFICES ASSUME stage[c] # "closed", last[c] # 0
               PROVE  /\ shown[c] # 0
                      /\ last[c] <= seqOf'[shown[c]]
                      /\ Tells(view[c], Written(shown[c])', last[c])
    BY DEF ShownIsTrue
  <1>1. /\ shown[c] # 0 /\ last[c] <= seqOf[shown[c]]
        /\ Tells(view[c], Written(shown[c]), last[c])
    BY DEF ShownIsTrue
  <1>2. shown[c] \in Scenes /\ last[c] \in Nat
    BY <1>1, RegistryBounds DEF ClientTypes, Scenes
  <1> PICK s \in Scenes : s = shown[c]
    BY <1>2
  <1>3. /\ seqOf[s] \in Nat /\ seqOf'[s] \in Nat /\ seqOf[s] <= seqOf'[s]
        /\ Written(s)' \subseteq Nat
    BY SceneFacts, SceneFactsNext DEF ScenesGrow
  <1>4. Written(shown[c])' = Written(s)'
    BY DEF Written
  <1>5. Tells(view[c], Written(s)', last[c])
    BY <1>1, <1>2, <1>3, TellsMore DEF ScenesGrow
  <1> QED
    BY <1>1, <1>2, <1>3, <1>4, <1>5

(***************************************************************************)
(* send_snapshot reads the scene's number.                                 *)
(***************************************************************************)
LEMMA ReadFirstSeqStep ==
  ASSUME SwapInv, NEW c \in Clients,
         ReadSeq(c, cur[c], "attached", "snapshotting")
  PROVE  GoodStep(c)
  <1>1. /\ RegistryTypeOK /\ SceneTypes /\ HandlerTypes /\ ClientTypes /\ Bounded
        /\ HandlerAt(c) /\ 1 .. made \subseteq Scenes /\ made \in 0 .. MaxScenes
    BY ConnectionFacts
  <1>2. SceneTypes' /\ NumbersBounded' /\ ScenesGrow /\ made' = made
    BY QuietScenes DEF ReadSeq
  <1>3. /\ stage' = [stage EXCEPT ![c] = "snapshotting"] /\ stage[c] = "attached"
        /\ snapSeq' = [snapSeq EXCEPT ![c] = seqOf[cur[c]]]
        /\ UNCHANGED <<want, cur, nxt, source, rx, erx>>
        /\ UNCHANGED <<wire, last, shown, view, seqOf, sends, drops>>
    BY DEF ReadSeq, Go, sceneVars, clientVars
  <1>4. cur[c] # 0 /\ cur[c] \in 0 .. made
    BY <1>1, <1>3 DEF HandlerAt, OnScene, Stages, HandlerTypes
  <1>5. seqOf[cur[c]] \in Nat /\ seqOf[cur[c]] >= 1
    <2>1. cur[c] \in Scenes
      BY <1>1, <1>4, RegistryBounds
    <2> QED
      BY <1>1, <2>1, SceneFacts
  <1>6. /\ stage' \in [Clients -> Stages] /\ stage'[c] = "snapshotting"
        /\ snapSeq' \in [Clients -> Nat] /\ snapSeq'[c] = seqOf[cur[c]]
    BY <1>1, <1>3, <1>5 DEF HandlerTypes, Stages
  <1>7. HandlerTypes' /\ ClientTypes' /\ Bounded'
    BY <1>1, <1>2, <1>3, <1>6 DEF HandlerTypes, ClientTypes, Bounded
  <1>8. Others(c)
    BY <1>1, <1>3 DEF Others, SameConnection, HandlerTypes
  <1>9. HandlerAt(c)'
    BY <1>1, <1>3, <1>5, <1>6 DEF HandlerAt, Greeting, OnScene, Receiving,
                                  Attached, Swapping, Stages
  <1> QED
    BY <1>2, <1>6, <1>7, <1>8, <1>9, GreetingInv DEF GoodStep, Greeting

LEMMA ReadNextSeqStep ==
  ASSUME SwapInv, NEW c \in Clients,
         ReadSeq(c, nxt[c], "changing", "shipping")
  PROVE  GoodStep(c)
  <1>1. /\ RegistryTypeOK /\ SceneTypes /\ HandlerTypes /\ ClientTypes /\ Bounded
        /\ HandlerAt(c) /\ ConnectionInv(c)
        /\ 1 .. made \subseteq Scenes /\ made \in 0 .. MaxScenes
    BY ConnectionFacts
  <1>2. SceneTypes' /\ NumbersBounded' /\ ScenesGrow /\ made' = made
    BY QuietScenes DEF ReadSeq
  <1>3. /\ stage' = [stage EXCEPT ![c] = "shipping"] /\ stage[c] = "changing"
        /\ snapSeq' = [snapSeq EXCEPT ![c] = seqOf[nxt[c]]]
        /\ UNCHANGED <<want, cur, nxt, source, rx, erx>>
        /\ UNCHANGED <<wire, last, shown, view, seqOf, txOf, sends, drops>>
    BY DEF ReadSeq, Go, sceneVars, clientVars
  <1>4. nxt[c] # 0 /\ nxt[c] \in 0 .. made
    BY <1>1, <1>3 DEF HandlerAt, Swapping, HandlerTypes
  <1>5. seqOf[nxt[c]] \in Nat /\ seqOf[nxt[c]] >= 1
    <2>1. nxt[c] \in Scenes
      BY <1>1, <1>4, RegistryBounds
    <2> QED
      BY <1>1, <2>1, SceneFacts
  <1>6. /\ stage' \in [Clients -> Stages] /\ stage'[c] = "shipping"
        /\ snapSeq' \in [Clients -> Nat] /\ snapSeq'[c] = seqOf[nxt[c]]
    BY <1>1, <1>3, <1>5 DEF HandlerTypes, Stages
  <1>7. HandlerTypes' /\ ClientTypes' /\ Bounded'
    BY <1>1, <1>2, <1>3, <1>6 DEF HandlerTypes, ClientTypes, Bounded
  <1>8. Others(c)
    BY <1>1, <1>3 DEF Others, SameConnection, HandlerTypes
  <1>9. ConnectionInv(c)'
    <2>1. HandlerAt(c)'
      BY <1>1, <1>3, <1>5, <1>6 DEF HandlerAt, Greeting, OnScene, Receiving,
                                    Attached, Swapping, Stages
    <2>2. FramesTrue(c)'
      BY <1>1, <1>2, <1>3, FramesKept DEF ConnectionInv
    <2>3. ShownIsTrue(c)'
      BY <1>1, <1>2, <1>3, ShownKept DEF ConnectionInv
    <2>4. /\ Orderly(wire[c], last[c], shown[c])'
          /\ ChangesAreNew(wire[c], last[c])'
      BY <1>1, <1>3 DEF ConnectionInv
    <2>5. SocketEnd(c)'
      BY <1>1, <1>3, <1>6 DEF ConnectionInv, SocketEnd
    <2>6. Followed(wire[c], stage[c], nxt[c])'
      BY <1>1, <1>3, <1>6 DEF ConnectionInv, Followed
    <2> QED
      BY <2>1, <2>2, <2>3, <2>4, <2>5, <2>6 DEF ConnectionInv
  <1> QED
    BY <1>2, <1>7, <1>8, <1>9 DEF GoodStep

(***************************************************************************)
(* send_snapshot sends the state it reads after the number.                *)
(***************************************************************************)
LEMMA SnapshotFrame ==
  ASSUME SwapInv, NEW o \in 1 .. made, NEW n \in 1 .. seqOf[o], NEW f,
         f = [kind |-> "snapshot", scene |-> o, seq |-> n, state |-> Written(o)]
  PROVE  /\ f \in Frames /\ FrameIsTrue(f)
         /\ f.kind = "snapshot" /\ f.scene = o /\ f.seq = n
  <1>1. o \in Scenes /\ SceneTypes /\ made \in 0 .. MaxScenes
    BY RegistryBounds DEF SwapInv, RegistryTypeOK, Scenes
  <1>2. seqOf[o] \in Nat /\ Written(o) \in SUBSET Nat
    BY <1>1, SceneFacts
  <1>3. /\ f.kind = "snapshot" /\ f.scene = o /\ f.seq = n
        /\ f.state = Written(o)
    OBVIOUS
  <1>4. f \in Frames
    BY <1>1, <1>2 DEF Frames
  <1>5. Tells(Written(o), Written(o), n)
    BY DEF Tells
  <1>6. f.scene \in 1 .. made /\ f.seq <= seqOf[f.scene] /\ f.seq >= 1
        /\ Tells(f.state, Written(f.scene), f.seq)
    BY <1>2, <1>3, <1>5
  <1>7. FrameIsTrue(f)
    BY <1>3, <1>6 DEF FrameIsTrue
  <1> QED
    BY <1>3, <1>4, <1>7

(***************************************************************************)
(* What sending a snapshot does to the socket.                             *)
(***************************************************************************)
LEMMA SnapshotSent ==
  ASSUME SwapInv, NEW c \in Clients, NEW o \in 1 .. made,
         snapSeq[c] \in 1 .. seqOf[o], UNCHANGED <<registryVars, sceneVars>>,
         wire' = [wire EXCEPT ![c] =
                    Append(@, [kind |-> "snapshot", scene |-> o,
                               seq |-> snapSeq[c], state |-> Written(o)])],
         last' = last, shown' = shown,
         EndsChanged(wire[c], last[c]),
         wire[c] = <<>> \/ nxt[c] = o
  PROVE  /\ wire' \in [Clients -> Seq(Frames)] /\ wire'[c] # <<>>
         /\ FramesTrue(c)'
         /\ Orderly(wire[c], last[c], shown[c])'
         /\ ChangesAreNew(wire[c], last[c])'
         /\ EndsOn(wire'[c], last'[c], shown'[c], o)
         /\ Below(wire'[c], last'[c], seqOf'[o])
         /\ \A at, next : Followed(wire'[c], at, next)
         /\ stage[c] # "closed" =>
              \A i \in 1 .. Len(wire'[c]) : wire'[c][i].kind # "error"
  <1>1. /\ SceneTypes /\ ClientTypes /\ made \in 0 .. MaxScenes
        /\ ConnectionInv(c) /\ HandlerAt(c) /\ o \in Scenes
    BY ConnectionFacts
  <1>2. SceneTypes' /\ ScenesGrow /\ made' = made /\ seqOf' = seqOf
    BY QuietScenes DEF sceneVars
  <1>3. UNCHANGED txOf
    BY DEF sceneVars
  <1> PICK n \in 1 .. seqOf[o] : n = snapSeq[c]
    OBVIOUS
  <1> PICK f : f = [kind |-> "snapshot", scene |-> o, seq |-> n,
                    state |-> Written(o)]
    OBVIOUS
  <1>4. /\ f \in Frames /\ FrameIsTrue(f)
        /\ f.kind = "snapshot" /\ f.scene = o /\ f.seq = n
    BY SnapshotFrame
  <1>5. FrameIsTrue(f)'
    BY <1>1, <1>2, <1>4, FrameStable
  <1> PICK w \in Seq(Frames) : w = wire[c]
    BY <1>1 DEF ClientTypes
  <1> PICK v : v = wire'[c]
    OBVIOUS
  <1>6. v = Append(w, f)
    BY <1>1 DEF ClientTypes
  <1>7. /\ v \in Seq(Frames) /\ v # <<>>
        /\ Len(w) \in Nat /\ Len(v) = Len(w) + 1
        /\ \A i \in 1 .. Len(w) : v[i] = w[i]
        /\ v[Len(v)] = f
    BY <1>4, <1>6, AppendFacts
  <1>8. wire' \in [Clients -> Seq(Frames)]
    BY <1>1, <1>4, <1>6, <1>7 DEF ClientTypes
  <1>9. FramesTrue(c)'
    BY <1>1, <1>2, <1>4, <1>5, <1>6, FramesAppended DEF ConnectionInv
  <1>10. last[c] \in Nat /\ seqOf[o] \in Nat
    BY <1>1, SceneFacts DEF ClientTypes
  <1>11. Orderly(v, last[c], shown[c])
    <2>1. /\ f.kind = "snapshot" => EndsChanged(w, last[c])
          /\ f.kind = "delta" => EndsOn(w, last[c], shown[c], f.scene)
      BY <1>4
    <2>2. Orderly(w, last[c], shown[c]) /\ f \in Frames /\ last[c] \in Nat
      BY <1>1, <1>4, <1>10 DEF ConnectionInv
    <2> QED
      BY <1>6, <2>1, <2>2, AppendOrderly, Zenon
  <1>12. ChangesAreNew(v, last[c])
    BY <1>1, <1>4, <1>6, <1>10, AppendKeepsChanges DEF ConnectionInv
  <1>13. EndsOn(v, last[c], shown[c], o)
    BY <1>4, <1>6, AppendEnds
  <1>14. Below(v, last[c], seqOf[o])
    <2>1. f.seq <= seqOf[o]
      BY <1>4, <1>10
    <2> QED
      BY <1>4, <1>6, <1>10, <2>1, AppendBelow
  <1>15. ASSUME NEW at, NEW next PROVE Followed(v, at, next)
    <2>1. Followed(w, stage[c], nxt[c])
      BY <1>1 DEF ConnectionInv
    <2>2. CASE nxt[c] = o
      <3>1. f \in Frames /\ MaySend(f, stage[c], nxt[c]) /\ LeadsTo(f, at, next)
        BY <1>4, <2>2 DEF MaySend, LeadsTo
      <3> QED
        BY <1>6, <2>1, <3>1, AppendFollowed, Zenon
    <2>3. CASE wire[c] = <<>>
      <3>1. Len(w) = 0
        BY <2>3
      <3>2. Len(v) = 1 /\ v[1] = f
        BY <1>7, <3>1
      <3> QED
        BY <1>4, <3>2 DEF Followed
    <2> QED
      BY <2>2, <2>3
  <1>16. ASSUME stage[c] # "closed", NEW i \in 1 .. Len(v)
         PROVE  v[i].kind # "error"
    <2>1. CASE i \in 1 .. Len(w)
      BY <1>1, <1>7, <1>16, <2>1 DEF HandlerAt
    <2>2. CASE i = Len(v)
      BY <1>4, <1>7, <2>2
    <2> QED
      BY <1>7, <2>1, <2>2
  <1> QED
    BY <1>2, <1>7, <1>8, <1>9, <1>11, <1>12, <1>13, <1>14, <1>15, <1>16

LEMMA SendFirstSnapshotStep ==
  ASSUME SwapInv, NEW c \in Clients,
         SendSnapshot(c, cur[c], "snapshotting", "live")
  PROVE  GoodStep(c)
  <1>1. /\ RegistryTypeOK /\ SceneTypes /\ HandlerTypes /\ ClientTypes /\ Bounded
        /\ HandlerAt(c) /\ ConnectionInv(c) /\ made \in 0 .. MaxScenes
    BY ConnectionFacts
  <1>2. SceneTypes' /\ NumbersBounded' /\ ScenesGrow /\ made' = made
    BY QuietScenes DEF SendSnapshot
  <1>3. /\ stage' = [stage EXCEPT ![c] = "live"] /\ stage[c] = "snapshotting"
        /\ snapSeq' = [snapSeq EXCEPT ![c] = 0]
        /\ UNCHANGED <<want, cur, nxt, source, rx, erx>>
        /\ UNCHANGED <<last, shown, view, seqOf, sends, drops>>
        /\ UNCHANGED <<registryVars, sceneVars>>
    BY DEF SendSnapshot, Go, sceneVars
  <1>4. /\ cur[c] \in 1 .. made /\ snapSeq[c] \in 1 .. seqOf[cur[c]]
        /\ wire[c] = <<>> /\ last[c] = 0
    BY <1>1, <1>3 DEF HandlerAt, OnScene, Stages, Greeting, HandlerTypes
  <1> PICK o \in 1 .. made : o = cur[c]
    BY <1>4
  <1>5. wire' = [wire EXCEPT ![c] =
                   Append(@, [kind |-> "snapshot", scene |-> o,
                              seq |-> snapSeq[c], state |-> Written(o)])]
    BY DEF SendSnapshot, Emit
  <1>6. EndsChanged(wire[c], last[c])
    BY <1>4 DEF EndsChanged
  <1>7. /\ wire' \in [Clients -> Seq(Frames)] /\ wire'[c] # <<>>
        /\ FramesTrue(c)'
        /\ Orderly(wire[c], last[c], shown[c])'
        /\ ChangesAreNew(wire[c], last[c])'
        /\ EndsOn(wire'[c], last'[c], shown'[c], o)
        /\ Below(wire'[c], last'[c], seqOf'[o])
        /\ \A at, next : Followed(wire'[c], at, next)
        /\ \A i \in 1 .. Len(wire'[c]) : wire'[c][i].kind # "error"
    BY <1>3, <1>4, <1>5, <1>6, SnapshotSent
  <1>8. /\ stage' \in [Clients -> Stages] /\ stage'[c] = "live"
        /\ snapSeq' \in [Clients -> Nat]
    BY <1>1, <1>3 DEF HandlerTypes, Stages
  <1>9. HandlerTypes' /\ ClientTypes' /\ Bounded'
    BY <1>1, <1>2, <1>3, <1>7, <1>8 DEF HandlerTypes, ClientTypes, Bounded
  <1>10. Others(c)
    BY <1>1, <1>3, <1>5 DEF Others, SameConnection, HandlerTypes, ClientTypes
  <1>11. ConnectionInv(c)'
    <2>1. HandlerAt(c)'
      BY <1>1, <1>3, <1>7, <1>8 DEF HandlerAt, Greeting, OnScene, Receiving,
                                    Attached, Swapping, Stages
    <2>2. ShownIsTrue(c)'
      BY <1>3, <1>4 DEF ShownIsTrue
    <2>3. SocketEnd(c)'
      BY <1>3, <1>7, <1>8 DEF SocketEnd
    <2>4. Followed(wire[c], stage[c], nxt[c])'
      BY <1>7
    <2> QED
      BY <1>7, <2>1, <2>2, <2>3, <2>4 DEF ConnectionInv
  <1> QED
    BY <1>2, <1>9, <1>10, <1>11 DEF GoodStep

LEMMA SendNextSnapshotStep ==
  ASSUME SwapInv, NEW c \in Clients,
         SendSnapshot(c, nxt[c], "shipping", "shipped")
  PROVE  GoodStep(c)
  <1>1. /\ RegistryTypeOK /\ SceneTypes /\ HandlerTypes /\ ClientTypes /\ Bounded
        /\ HandlerAt(c) /\ ConnectionInv(c) /\ made \in 0 .. MaxScenes
    BY ConnectionFacts
  <1>2. SceneTypes' /\ NumbersBounded' /\ ScenesGrow /\ made' = made
    BY QuietScenes DEF SendSnapshot
  <1>3. /\ stage' = [stage EXCEPT ![c] = "shipped"] /\ stage[c] = "shipping"
        /\ snapSeq' = [snapSeq EXCEPT ![c] = 0]
        /\ UNCHANGED <<want, cur, nxt, source, rx, erx>>
        /\ UNCHANGED <<last, shown, view, seqOf, sends, drops>>
        /\ UNCHANGED <<registryVars, sceneVars>>
    BY DEF SendSnapshot, Go, sceneVars
  <1>4. nxt[c] \in 1 .. made /\ snapSeq[c] \in 1 .. seqOf[nxt[c]]
    BY <1>1, <1>3 DEF HandlerAt, Swapping, HandlerTypes
  <1> PICK o \in 1 .. made : o = nxt[c]
    BY <1>4
  <1>5. wire' = [wire EXCEPT ![c] =
                   Append(@, [kind |-> "snapshot", scene |-> o,
                              seq |-> snapSeq[c], state |-> Written(o)])]
    BY DEF SendSnapshot, Emit
  <1>6. EndsChanged(wire[c], last[c])
    BY <1>1, <1>3 DEF ConnectionInv, SocketEnd
  <1>7. /\ wire' \in [Clients -> Seq(Frames)] /\ wire'[c] # <<>>
        /\ FramesTrue(c)'
        /\ Orderly(wire[c], last[c], shown[c])'
        /\ ChangesAreNew(wire[c], last[c])'
        /\ EndsOn(wire'[c], last'[c], shown'[c], o)
        /\ Below(wire'[c], last'[c], seqOf'[o])
        /\ \A at, next : Followed(wire'[c], at, next)
        /\ \A i \in 1 .. Len(wire'[c]) : wire'[c][i].kind # "error"
    BY <1>3, <1>4, <1>5, <1>6, SnapshotSent
  <1>8. /\ stage' \in [Clients -> Stages] /\ stage'[c] = "shipped"
        /\ snapSeq' \in [Clients -> Nat]
    BY <1>1, <1>3 DEF HandlerTypes, Stages
  <1>9. HandlerTypes' /\ ClientTypes' /\ Bounded'
    BY <1>1, <1>2, <1>3, <1>7, <1>8 DEF HandlerTypes, ClientTypes, Bounded
  <1>10. Others(c)
    BY <1>1, <1>3, <1>5 DEF Others, SameConnection, HandlerTypes, ClientTypes
  <1>11. ConnectionInv(c)'
    <2>1. HandlerAt(c)'
      BY <1>1, <1>3, <1>7, <1>8 DEF HandlerAt, Greeting, OnScene, Receiving,
                                    Attached, Swapping, Stages
    <2>2. ShownIsTrue(c)'
      BY <1>1, <1>2, <1>3, ShownKept DEF ConnectionInv
    <2>3. SocketEnd(c)'
      BY <1>3, <1>7, <1>8 DEF SocketEnd
    <2>4. Followed(wire[c], stage[c], nxt[c])'
      BY <1>7
    <2> QED
      BY <1>7, <2>1, <2>2, <2>3, <2>4 DEF ConnectionInv
  <1> QED
    BY <1>2, <1>9, <1>10, <1>11 DEF GoodStep

(***************************************************************************)
(* The delta arm.                                                          *)
(***************************************************************************)
LEMMA PumpStep ==
  ASSUME SwapInv, NEW c \in Clients, Pump(c)
  PROVE  GoodStep(c)
  <1>1. /\ RegistryTypeOK /\ SceneTypes /\ HandlerTypes /\ ClientTypes /\ Bounded
        /\ NumbersBounded /\ HandlerAt(c) /\ ConnectionInv(c)
        /\ made \in 0 .. MaxScenes /\ 1 .. made \subseteq Scenes
    BY ConnectionFacts
  <1>2. SceneTypes' /\ NumbersBounded' /\ ScenesGrow /\ made' = made
    BY QuietScenes DEF Pump
  <1>3. /\ stage[c] = "live" /\ rx[c] <= Len(txOf[source[c]])
        /\ rx' = [rx EXCEPT ![c] = @ + 1]
        /\ UNCHANGED <<stage, want, cur, nxt, source, erx, snapSeq>>
        /\ UNCHANGED <<last, shown, view, seqOf, txOf, sends, drops>>
    BY DEF Pump, sceneVars
  <1>4. /\ cur[c] \in 1 .. made /\ source[c] = cur[c] /\ rx[c] \in Nat
        /\ rx[c] >= 1
    BY <1>1, <1>3 DEF HandlerAt, OnScene, Receiving, Stages, HandlerTypes
  <1> PICK o \in 1 .. made : o = cur[c]
    BY <1>4
  <1>5. o \in Scenes /\ txOf[o] \in Seq(Nat) /\ Len(txOf[o]) \in Nat
    BY <1>1, LenProperties DEF SceneTypes
  <1>6. rx[c] \in 1 .. Len(txOf[o])
    BY <1>3, <1>4, <1>5
  <1> PICK n : n = txOf[o][rx[c]]
    OBVIOUS
  <1>7. n \in Written(o) /\ n \in Nat /\ n >= 1 /\ n <= seqOf[o] /\ seqOf[o] \in Nat
    <2>1. n \in Written(o)
      BY <1>6 DEF Written
    <2>2. seqOf[o] \in Nat
      BY <1>1, <1>5, SceneFacts
    <2>3. n \in 1 .. seqOf[o]
      BY <1>1, <1>5, <2>1 DEF NumbersBounded
    <2> QED
      BY <2>1, <2>2, <2>3
  <1>frame. PICK f : f = [kind |-> "delta", scene |-> o, seq |-> n]
    OBVIOUS
  <1>8. f.kind = "delta" /\ f.scene = o /\ f.seq = n /\ f \in Frames
    BY <1>5, <1>7, <1>frame DEF Frames
  <1>9. FrameIsTrue(f)
    BY <1>7, <1>8 DEF FrameIsTrue
  <1>10. FrameIsTrue(f)'
    BY <1>1, <1>2, <1>8, <1>9, FrameStable
  <1>11. wire' = [wire EXCEPT ![c] = Append(@, f)]
    BY <1>4, <1>frame DEF Pump, Emit
  <1> PICK w \in Seq(Frames) : w = wire[c]
    BY <1>1 DEF ClientTypes
  <1> PICK v : v = wire'[c]
    OBVIOUS
  <1>12. v = Append(w, f)
    BY <1>1, <1>11 DEF ClientTypes
  <1>13. /\ v \in Seq(Frames) /\ v # <<>>
         /\ Len(w) \in Nat /\ Len(v) = Len(w) + 1
         /\ \A i \in 1 .. Len(w) : v[i] = w[i]
         /\ v[Len(v)] = f
    <2>1. f \in Frames
      BY <1>8
    <2> QED
      BY <1>12, <2>1, AppendFacts
  <1>14. wire' \in [Clients -> Seq(Frames)] /\ last[c] \in Nat
    BY <1>1, <1>11, <1>12, <1>13 DEF ClientTypes
  <1>15. rx' \in [Clients -> Nat] /\ rx'[c] >= 1
    BY <1>1, <1>3, <1>4 DEF HandlerTypes
  <1>16. HandlerTypes' /\ ClientTypes' /\ Bounded'
    BY <1>1, <1>2, <1>3, <1>14, <1>15 DEF HandlerTypes, ClientTypes, Bounded
  <1>17. Others(c)
    BY <1>1, <1>3, <1>11 DEF Others, SameConnection, HandlerTypes, ClientTypes
  <1>18. ConnectionInv(c)'
    <2>1. HandlerAt(c)'
      <3>1. ASSUME NEW i \in 1 .. Len(v) PROVE v[i].kind # "error"
        <4>1. CASE i \in 1 .. Len(w)
          BY <1>1, <1>3, <1>13, <4>1 DEF HandlerAt
        <4>2. CASE i = Len(v)
          BY <1>8, <1>13, <4>2
        <4> QED
          BY <1>13, <4>1, <4>2
      <3> QED
        BY <1>1, <1>3, <1>15, <3>1 DEF HandlerAt, Greeting, OnScene, Receiving,
                                       Attached, Swapping, Stages
    <2>2. FramesTrue(c)'
      BY <1>1, <1>2, <1>8, <1>10, <1>12, FramesAppended DEF ConnectionInv
    <2>3. ShownIsTrue(c)'
      BY <1>1, <1>2, <1>3, ShownKept DEF ConnectionInv
    <2>4. EndsOn(w, last[c], shown[c], o) /\ Below(w, last[c], seqOf[o])
      BY <1>1, <1>3 DEF ConnectionInv, SocketEnd
    <2>5. Orderly(v, last[c], shown[c])
      BY <1>1, <1>8, <1>12, <1>14, <2>4, AppendOrderly DEF ConnectionInv
    <2>6. ChangesAreNew(v, last[c])
      BY <1>1, <1>8, <1>12, <1>14, AppendKeepsChanges DEF ConnectionInv
    <2>7. EndsOn(v, last[c], shown[c], o)
      BY <1>8, <1>12, AppendEnds
    <2>8. Below(v, last[c], seqOf[o])
      <3>1. f \in Frames /\ f.seq <= seqOf[o]
        BY <1>7, <1>8
      <3>2. last[c] \in Nat /\ seqOf[o] \in Nat /\ Below(w, last[c], seqOf[o])
        BY <1>7, <1>14, <2>4
      <3> QED
        BY <1>12, <3>1, <3>2, AppendBelow, Zenon
    <2>9. SocketEnd(c)'
      BY <1>3, <2>7, <2>8 DEF SocketEnd
    <2>10. Followed(v, stage[c], nxt[c])
      <3>1. Followed(w, stage[c], nxt[c])
        BY <1>1 DEF ConnectionInv
      <3>2. MaySend(f, stage[c], nxt[c])
        BY <1>3 DEF MaySend
      <3>3. f \in Frames /\ LeadsTo(f, stage[c], nxt[c])
        BY <1>8 DEF LeadsTo
      <3> QED
        BY <1>12, <3>1, <3>2, <3>3, AppendFollowed, Zenon
    <2> QED
      BY <1>3, <2>1, <2>2, <2>3, <2>5, <2>6, <2>9, <2>10 DEF ConnectionInv
  <1> QED
    BY <1>2, <1>16, <1>17, <1>18 DEF GoodStep

(***************************************************************************)
(* The SceneSwap arm.                                                      *)
(***************************************************************************)
LEMMA NextEventFacts ==
  ASSUME SwapInv, NEW c \in Clients, EventWaits(c)
  PROVE  NextEvent(c) \in Ids /\ scenes[NextEvent(c)] \in 0 .. made
  <1>1. RegistryTypeOK /\ HandlerTypes /\ HandlerAt(c)
    BY ConnectionFacts
  <1>2. erx[c] \in Nat /\ erx[c] >= 1
    BY <1>1 DEF EventWaits, HandlerAt, HandlerTypes, Attached, Receiving,
                OnScene, Stages
  <1>3. events \in Seq(Ids) /\ Len(events) \in Nat
    BY <1>1, LenProperties DEF RegistryTypeOK
  <1>4. erx[c] \in 1 .. Len(events)
    BY <1>2, <1>3 DEF EventWaits
  <1>5. NextEvent(c) \in Ids
    BY <1>3, <1>4, ElementOfSeq DEF NextEvent
  <1> QED
    BY <1>1, <1>5 DEF RegistryTypeOK

LEMMA SkipEventStep ==
  ASSUME SwapInv, NEW c \in Clients, SkipEvent(c)
  PROVE  GoodStep(c)
  <1>1. /\ RegistryTypeOK /\ SceneTypes /\ HandlerTypes /\ ClientTypes /\ Bounded
        /\ HandlerAt(c) /\ ConnectionInv(c) /\ made \in 0 .. MaxScenes
    BY ConnectionFacts
  <1>2. SceneTypes' /\ NumbersBounded' /\ ScenesGrow /\ made' = made
    BY QuietScenes DEF SkipEvent
  <1>3. /\ stage[c] = "live" /\ erx' = [erx EXCEPT ![c] = @ + 1]
        /\ UNCHANGED <<stage, want, cur, nxt, source, rx, snapSeq>>
        /\ UNCHANGED <<wire, last, shown, view, seqOf, sends, drops>>
    BY DEF SkipEvent, EventWaits, sceneVars, clientVars
  <1>4. erx' \in [Clients -> Nat] /\ erx'[c] >= 1
    BY <1>1, <1>3 DEF HandlerTypes
  <1>5. HandlerTypes' /\ ClientTypes' /\ Bounded'
    BY <1>1, <1>2, <1>3, <1>4 DEF HandlerTypes, ClientTypes, Bounded
  <1>6. Others(c)
    BY <1>1, <1>3 DEF Others, SameConnection, HandlerTypes
  <1>7. ConnectionInv(c)'
    <2>1. HandlerAt(c)'
      BY <1>1, <1>3, <1>4 DEF HandlerAt
    <2>2. FramesTrue(c)'
      BY <1>1, <1>2, <1>3, FramesKept DEF ConnectionInv
    <2>3. ShownIsTrue(c)'
      BY <1>1, <1>2, <1>3, ShownKept DEF ConnectionInv
    <2>4. /\ Orderly(wire[c], last[c], shown[c])'
          /\ ChangesAreNew(wire[c], last[c])'
          /\ Followed(wire[c], stage[c], nxt[c])'
      BY <1>1, <1>3 DEF ConnectionInv
    <2>5. SocketEnd(c)'
      BY <1>1, <1>3 DEF ConnectionInv, SocketEnd
    <2> QED
      BY <2>1, <2>2, <2>3, <2>4, <2>5 DEF ConnectionInv
  <1> QED
    BY <1>2, <1>5, <1>6, <1>7 DEF GoodStep

LEMMA ChangeStep ==
  ASSUME SwapInv, NEW c \in Clients, Change(c)
  PROVE  GoodStep(c)
  <1>1. /\ RegistryTypeOK /\ SceneTypes /\ HandlerTypes /\ ClientTypes /\ Bounded
        /\ NumbersBounded /\ HandlerAt(c) /\ ConnectionInv(c)
        /\ made \in 0 .. MaxScenes /\ 1 .. made \subseteq Scenes
    BY ConnectionFacts
  <1>2. EventWaits(c) /\ scenes[NextEvent(c)] # 0
    BY DEF Change
  <1>3. scenes[NextEvent(c)] \in 1 .. made
    BY <1>1, <1>2, NextEventFacts
  <1> PICK o \in 1 .. made : o = scenes[NextEvent(c)]
    BY <1>3
  <1>4. /\ stage[c] = "live" /\ stage' = [stage EXCEPT ![c] = "changing"]
        /\ nxt' = [nxt EXCEPT ![c] = o]
        /\ erx' = [erx EXCEPT ![c] = @ + 1]
        /\ seqOf' = [seqOf EXCEPT ![cur[c]] = @ + 1]
        /\ wire' = [wire EXCEPT ![c] =
                      Append(@, [kind |-> "scene_changed", scene |-> o,
                                 seq |-> seqOf[cur[c]] + 1])]
        /\ UNCHANGED <<want, cur, source, rx, snapSeq>>
        /\ UNCHANGED <<last, shown, view, txOf, sends, drops>>
    BY DEF Change, EventWaits, Emit
  <1>5. made' = made
    BY DEF Change, registryVars
  <1>6. cur[c] \in 1 .. made
    BY <1>1, <1>4 DEF HandlerAt, OnScene, Stages, HandlerTypes
  <1> PICK p \in Scenes : p = cur[c]
    BY <1>1, <1>6
  <1>7. SceneTypes' /\ NumbersBounded' /\ ScenesGrow
    <2>1. seqOf' = [seqOf EXCEPT ![p] = @ + 1] /\ txOf' = txOf /\ made \in Nat
      BY <1>1, <1>4
    <2> QED
      BY <1>1, <1>5, <2>1, NumberTaken
  <1>8. seqOf[p] \in Nat /\ seqOf'[p] = seqOf[p] + 1
    BY <1>1, <1>4 DEF SceneTypes
  <1>frame. PICK f :
              f = [kind |-> "scene_changed", scene |-> o, seq |-> seqOf[p] + 1]
    OBVIOUS
  <1>9. /\ f.kind = "scene_changed" /\ f.scene = o /\ f.seq = seqOf[p] + 1
        /\ f \in Frames
    BY <1>1, <1>8, <1>frame DEF Frames
  <1>10. FrameIsTrue(f)'
    BY <1>5, <1>8, <1>9 DEF FrameIsTrue
  <1> PICK w \in Seq(Frames) : w = wire[c]
    BY <1>1 DEF ClientTypes
  <1> PICK v : v = wire'[c]
    OBVIOUS
  <1>11. v = Append(w, f)
    BY <1>1, <1>4, <1>frame DEF ClientTypes
  <1>12. /\ v \in Seq(Frames) /\ v # <<>>
         /\ Len(w) \in Nat /\ Len(v) = Len(w) + 1
         /\ \A i \in 1 .. Len(w) : v[i] = w[i]
         /\ v[Len(v)] = f
    <2>1. f \in Frames
      BY <1>9
    <2> QED
      BY <1>11, <2>1, AppendFacts
  <1>13. wire' \in [Clients -> Seq(Frames)] /\ last[c] \in Nat
    BY <1>1, <1>4, <1>11, <1>12 DEF ClientTypes
  <1>14. /\ stage' \in [Clients -> Stages] /\ stage'[c] = "changing"
         /\ nxt' \in [Clients -> 0 .. made] /\ nxt'[c] = o
         /\ erx' \in [Clients -> Nat] /\ erx'[c] >= 1
    <2>1. stage' \in [Clients -> Stages] /\ stage'[c] = "changing"
      BY <1>1, <1>4 DEF HandlerTypes, Stages
    <2>2. nxt' \in [Clients -> 0 .. made] /\ nxt'[c] = o
      BY <1>1, <1>4 DEF HandlerTypes
    <2>3. erx' \in [Clients -> Nat] /\ erx'[c] >= 1
      BY <1>1, <1>4 DEF HandlerTypes
    <2> QED
      BY <2>1, <2>2, <2>3
  <1>15. HandlerTypes' /\ ClientTypes' /\ Bounded'
    BY <1>1, <1>4, <1>5, <1>13, <1>14 DEF HandlerTypes, ClientTypes, Bounded
  <1>16. Others(c)
    BY <1>1, <1>4 DEF Others, SameConnection, HandlerTypes, ClientTypes
  <1>17. ConnectionInv(c)'
    <2>1. HandlerAt(c)'
      <3>1. ASSUME NEW i \in 1 .. Len(v) PROVE v[i].kind # "error"
        <4>1. CASE i \in 1 .. Len(w)
          BY <1>1, <1>4, <1>12, <4>1 DEF HandlerAt
        <4>2. CASE i = Len(v)
          BY <1>9, <1>12, <4>2
        <4> QED
          BY <1>12, <4>1, <4>2
      <3>2. /\ cur'[c] # 0 /\ source'[c] = cur'[c] /\ rx'[c] >= 1 /\ nxt'[c] # 0
        BY <1>1, <1>4, <1>6, <1>14 DEF HandlerAt, OnScene, Receiving, Stages
      <3> QED
        BY <1>14, <3>1, <3>2 DEF HandlerAt, Greeting
    <2>2. FramesTrue(c)'
      BY <1>1, <1>5, <1>7, <1>9, <1>10, <1>11, FramesAppended DEF ConnectionInv
    <2>3. ShownIsTrue(c)'
      BY <1>1, <1>4, <1>7, ShownKept DEF ConnectionInv
    <2>4. EndsOn(w, last[c], shown[c], p) /\ Below(w, last[c], seqOf[p])
      BY <1>1, <1>4 DEF ConnectionInv, SocketEnd
    <2>5. Orderly(v, last[c], shown[c])
      BY <1>1, <1>9, <1>11, <1>13, AppendOrderly DEF ConnectionInv
    <2>6. ChangesAreNew(v, last[c])
      <3>1. seqOf[p] < f.seq
        BY <1>8, <1>9
      <3> QED
        BY <1>1, <1>8, <1>9, <1>11, <1>13, <2>4, <3>1, AppendChange
           DEF ConnectionInv
    <2>7. EndsChanged(v, last[c])
      BY <1>9, <1>11, AppendEnds
    <2>8. SocketEnd(c)'
      BY <1>4, <1>14, <2>7 DEF SocketEnd
    <2>9. Followed(v, "changing", o)
      <3>1. Followed(w, stage[c], nxt[c]) /\ MaySend(f, stage[c], nxt[c])
        BY <1>1, <1>4 DEF ConnectionInv, MaySend
      <3>2. f \in Frames /\ LeadsTo(f, "changing", o)
        BY <1>9 DEF LeadsTo
      <3> QED
        BY <1>11, <3>1, <3>2, AppendFollowed, Zenon
    <2> QED
      BY <1>4, <1>14, <2>1, <2>2, <2>3, <2>5, <2>6, <2>8, <2>9 DEF ConnectionInv
  <1> QED
    BY <1>7, <1>15, <1>16, <1>17 DEF GoodStep

LEMMA MoveReceiverStep ==
  ASSUME SwapInv, NEW c \in Clients, MoveReceiver(c)
  PROVE  GoodStep(c)
  <1>1. /\ RegistryTypeOK /\ SceneTypes /\ HandlerTypes /\ ClientTypes /\ Bounded
        /\ HandlerAt(c) /\ ConnectionInv(c)
        /\ made \in 0 .. MaxScenes /\ 1 .. made \subseteq Scenes
    BY ConnectionFacts
  <1>2. SceneTypes' /\ NumbersBounded' /\ ScenesGrow /\ made' = made
    BY QuietScenes DEF MoveReceiver
  <1>3. /\ stage[c] = "shipped" /\ stage' = [stage EXCEPT ![c] = "live"]
        /\ source' = [source EXCEPT ![c] = nxt[c]]
        /\ rx' = [rx EXCEPT ![c] = Len(txOf[nxt[c]]) + 1]
        /\ cur' = [cur EXCEPT ![c] = nxt[c]]
        /\ nxt' = [nxt EXCEPT ![c] = 0]
        /\ UNCHANGED <<want, erx, snapSeq>>
        /\ UNCHANGED <<wire, last, shown, view, seqOf, sends, drops>>
    BY DEF MoveReceiver, Go, sceneVars, clientVars
  <1>4. nxt[c] \in 1 .. made
    BY <1>1, <1>3 DEF HandlerAt, Swapping, HandlerTypes
  <1> PICK o \in 1 .. made : o = nxt[c]
    BY <1>4
  <1>5. Len(txOf[o]) \in Nat /\ 0 \in 0 .. made
    BY <1>1, LenProperties DEF SceneTypes
  <1>6. /\ stage' \in [Clients -> Stages] /\ stage'[c] = "live"
        /\ source' \in [Clients -> 0 .. made] /\ source'[c] = o
        /\ rx' \in [Clients -> Nat] /\ rx'[c] >= 1
    BY <1>1, <1>3, <1>5 DEF HandlerTypes, Stages
  <1>7. /\ cur' \in [Clients -> 0 .. made] /\ cur'[c] = o
        /\ nxt' \in [Clients -> 0 .. made]
    BY <1>1, <1>3, <1>5 DEF HandlerTypes
  <1>8. HandlerTypes' /\ ClientTypes' /\ Bounded'
    BY <1>1, <1>2, <1>3, <1>6, <1>7 DEF HandlerTypes, ClientTypes, Bounded
  <1>9. Others(c)
    BY <1>1, <1>3 DEF Others, SameConnection, HandlerTypes
  <1>10. ConnectionInv(c)'
    <2>1. HandlerAt(c)'
      BY <1>1, <1>3, <1>6, <1>7 DEF HandlerAt, Greeting, OnScene, Receiving,
                                    Attached, Swapping, Stages
    <2>2. FramesTrue(c)'
      BY <1>1, <1>2, <1>3, FramesKept DEF ConnectionInv
    <2>3. ShownIsTrue(c)'
      BY <1>1, <1>2, <1>3, ShownKept DEF ConnectionInv
    <2>4. /\ Orderly(wire[c], last[c], shown[c])'
          /\ ChangesAreNew(wire[c], last[c])'
      BY <1>1, <1>3 DEF ConnectionInv
    <2>5. SocketEnd(c)'
      BY <1>1, <1>3, <1>6, <1>7 DEF ConnectionInv, SocketEnd
    <2>6. Followed(wire[c], stage[c], nxt[c])'
      <3>1. wire[c] \in Seq(Frames) /\ Followed(wire[c], stage[c], nxt[c])
        BY <1>1 DEF ClientTypes, ConnectionInv
      <3>2. \A at, next : Followed(wire[c], at, next)
        BY <1>3, <3>1 DEF Followed
      <3> QED
        BY <1>3, <3>2
    <2> QED
      BY <2>1, <2>2, <2>3, <2>4, <2>5, <2>6 DEF ConnectionInv
  <1> QED
    BY <1>2, <1>8, <1>9, <1>10 DEF GoodStep

LEMMA EventsLaggedStep ==
  ASSUME SwapInv, NEW c \in Clients, EventsLagged(c)
  PROVE  GoodStep(c)
  <1>1. /\ RegistryTypeOK /\ SceneTypes /\ HandlerTypes /\ ClientTypes /\ Bounded
        /\ HandlerAt(c) /\ ConnectionInv(c)
        /\ made \in 0 .. MaxScenes /\ 1 .. made \subseteq Scenes
    BY ConnectionFacts
  <1>2. SceneTypes' /\ NumbersBounded' /\ ScenesGrow /\ made' = made
    BY QuietScenes DEF EventsLagged
  <1>3. /\ stage[c] = "live" /\ stage' = [stage EXCEPT ![c] = "closed"]
        /\ wire' = [wire EXCEPT ![c] =
                      Append(@, [kind |-> "error", seq |-> seqOf[cur[c]]])]
        /\ UNCHANGED <<want, cur, nxt, source, rx, erx, snapSeq>>
        /\ UNCHANGED <<last, shown, view, seqOf, sends, drops>>
    BY DEF EventsLagged, Go, Emit, sceneVars
  <1>4. cur[c] \in 1 .. made
    BY <1>1, <1>3 DEF HandlerAt, OnScene, Stages, HandlerTypes
  <1>5. seqOf[cur[c]] \in Nat /\ seqOf[cur[c]] >= 1
    <2>1. cur[c] \in Scenes
      BY <1>1, <1>4
    <2> QED
      BY <1>1, <2>1, SceneFacts
  <1> PICK f : f = [kind |-> "error", seq |-> seqOf[cur[c]]]
    OBVIOUS
  <1>6. f.kind = "error" /\ f.seq = seqOf[cur[c]] /\ f \in Frames
    BY <1>5 DEF Frames
  <1>7. FrameIsTrue(f)'
    BY <1>5, <1>6 DEF FrameIsTrue
  <1> PICK w \in Seq(Frames) : w = wire[c]
    BY <1>1 DEF ClientTypes
  <1> PICK v : v = wire'[c]
    OBVIOUS
  <1>8. v = Append(w, f)
    BY <1>1, <1>3 DEF ClientTypes
  <1>9. v \in Seq(Frames) /\ v # <<>>
    BY <1>6, <1>8, AppendFacts
  <1>10. wire' \in [Clients -> Seq(Frames)] /\ last[c] \in Nat
    BY <1>1, <1>3, <1>8, <1>9 DEF ClientTypes
  <1>11. stage' \in [Clients -> Stages] /\ stage'[c] = "closed"
    BY <1>1, <1>3 DEF HandlerTypes, Stages
  <1>12. HandlerTypes' /\ ClientTypes' /\ Bounded'
    BY <1>1, <1>2, <1>3, <1>10, <1>11 DEF HandlerTypes, ClientTypes, Bounded
  <1>13. Others(c)
    BY <1>1, <1>3 DEF Others, SameConnection, HandlerTypes, ClientTypes
  <1>14. ConnectionInv(c)'
    <2>1. HandlerAt(c)'
      BY <1>1, <1>3, <1>11 DEF HandlerAt, Greeting, OnScene, Receiving,
                               Attached, Swapping, Stages
    <2>2. FramesTrue(c)'
      BY <1>1, <1>2, <1>6, <1>7, <1>8, FramesAppended DEF ConnectionInv
    <2>3. ShownIsTrue(c)' /\ SocketEnd(c)'
      BY <1>11 DEF ShownIsTrue, SocketEnd
    <2>4. Orderly(v, last[c], shown[c])
      BY <1>1, <1>6, <1>8, <1>10, AppendOrderly DEF ConnectionInv
    <2>5. ChangesAreNew(v, last[c])
      BY <1>1, <1>6, <1>8, <1>10, AppendKeepsChanges DEF ConnectionInv
    <2>6. Followed(v, "closed", nxt[c])
      <3>1. Followed(w, stage[c], nxt[c]) /\ MaySend(f, stage[c], nxt[c])
        BY <1>1, <1>3 DEF ConnectionInv, MaySend
      <3>2. f \in Frames /\ LeadsTo(f, "closed", nxt[c])
        BY <1>6 DEF LeadsTo
      <3> QED
        BY <1>8, <3>1, <3>2, AppendFollowed, Zenon
    <2> QED
      BY <1>3, <1>11, <2>1, <2>2, <2>3, <2>4, <2>5, <2>6 DEF ConnectionInv
  <1> QED
    BY <1>2, <1>12, <1>13, <1>14 DEF GoodStep

-----------------------------------------------------------------------------
(* The client                                                              *)

LEMMA ObservedFacts ==
  ASSUME NEW l \in Nat, NEW n \in Nat
  PROVE  /\ ObserveSeq(l, n) = "accepted" => n >= 1 /\ (l = 0 \/ n = l + 1)
         /\ ObserveSeq(l, n) = "duplicate" => l # 0 /\ n <= l
         /\ ObserveSeq(l, n) = "accepted" => AfterSeq(l, n) = n
  <1>1. /\ l = 0 /\ n < 1 => ObserveSeq(l, n) = "gap"
        /\ l = 0 /\ n >= 1 => ObserveSeq(l, n) = "accepted"
    BY DEF ObserveSeq
  <1>2. l # 0 /\ n <= l => ObserveSeq(l, n) = "duplicate"
    BY DEF ObserveSeq
  <1>3. l # 0 /\ n > l /\ n # l + 1 => ObserveSeq(l, n) = "gap"
    BY DEF ObserveSeq
  <1>4. l # 0 /\ n = l + 1 => ObserveSeq(l, n) = "accepted"
    BY DEF ObserveSeq
  <1> QED
    BY <1>1, <1>2, <1>3, <1>4 DEF AfterSeq

LEMMA HangupStep ==
  ASSUME SwapInv, NEW c \in Clients, Hangup(c), drops' \in 0 .. MaxDrops
  PROVE  GoodStep(c)
  <1>1. /\ RegistryTypeOK /\ HandlerTypes /\ ClientTypes /\ Bounded
        /\ made \in 0 .. MaxScenes
    BY ConnectionFacts
  <1>2. SceneTypes' /\ NumbersBounded' /\ ScenesGrow /\ made' = made
    BY QuietScenes DEF Hangup
  <1>3. 0 \in 0 .. made
    BY <1>1, RegistryBounds
  <1>4. /\ stage' \in [Clients -> Stages] /\ want' \in [Clients -> Ids \cup {NoId}]
        /\ stage'[c] = "down"
    BY <1>1 DEF Hangup, HandlerTypes, Stages
  <1>5. /\ cur' \in [Clients -> 0 .. made] /\ nxt' \in [Clients -> 0 .. made]
        /\ source' \in [Clients -> 0 .. made]
    BY <1>1, <1>3 DEF Hangup, HandlerTypes
  <1>6. /\ rx' \in [Clients -> Nat] /\ erx' \in [Clients -> Nat]
        /\ snapSeq' \in [Clients -> Nat]
    BY <1>1 DEF Hangup, HandlerTypes
  <1>7. wire' \in [Clients -> Seq(Frames)] /\ wire'[c] = <<>>
    BY <1>1, EmptySeq DEF Hangup, ClientTypes
  <1>8. /\ last' \in [Clients -> Nat] /\ last'[c] = 0
        /\ shown' \in [Clients -> 0 .. made] /\ view' \in [Clients -> SUBSET Nat]
    BY <1>1, <1>3 DEF Hangup, ClientTypes
  <1>9. HandlerTypes' /\ ClientTypes'
    BY <1>2, <1>4, <1>5, <1>6, <1>7, <1>8 DEF HandlerTypes, ClientTypes
  <1>10. Bounded'
    BY <1>1 DEF Hangup, Bounded, sceneVars
  <1>11. Others(c)
    BY <1>1 DEF Hangup, Others, SameConnection, HandlerTypes, ClientTypes
  <1>12. HandlerAt(c)'
    BY <1>4, <1>7, <1>8 DEF HandlerAt, OnScene, Receiving, Attached, Swapping
  <1> QED
    BY <1>2, <1>4, <1>9, <1>10, <1>11, <1>12, GreetingInv DEF GoodStep, Greeting

(***************************************************************************)
(* The client takes a frame: what its tracker, its scene and its view      *)
(* become.                                                                 *)
(***************************************************************************)
TakesFrame(c, m, t, leaves) ==
    /\ wire[c] # <<>>
    /\ Takes(wire[c][1], last[c], m, t)
    /\ wire' = [wire EXCEPT ![c] = Tail(@)]
    /\ last' = [last EXCEPT ![c] = m]
    /\ shown' = [shown EXCEPT ![c] = t]
    /\ view' = [view EXCEPT ![c] = leaves]
    /\ UNCHANGED <<registryVars, sceneVars, handlerVars, drops>>

LEMMA TakesFrameStep ==
  ASSUME SwapInv, NEW c \in Clients, NEW m \in Nat, NEW t \in 0 .. made,
         NEW leaves \in SUBSET Nat, TakesFrame(c, m, t, leaves),
         ShownIsTrue(c)'
  PROVE  GoodStep(c)
  <1>1. /\ RegistryTypeOK /\ SceneTypes /\ HandlerTypes /\ ClientTypes /\ Bounded
        /\ HandlerAt(c) /\ ConnectionInv(c)
        /\ made \in 0 .. MaxScenes /\ 1 .. made \subseteq Scenes
    BY ConnectionFacts
  <1>2. SceneTypes' /\ NumbersBounded' /\ ScenesGrow /\ made' = made
    BY QuietScenes DEF TakesFrame
  <1>3. /\ wire[c] # <<>> /\ Takes(wire[c][1], last[c], m, t)
        /\ wire' = [wire EXCEPT ![c] = Tail(@)]
        /\ last' = [last EXCEPT ![c] = m]
        /\ shown' = [shown EXCEPT ![c] = t]
        /\ view' = [view EXCEPT ![c] = leaves]
    BY DEF TakesFrame
  <1>4. /\ UNCHANGED <<stage, want, cur, nxt, source, rx, erx, snapSeq>>
        /\ UNCHANGED <<seqOf, txOf, sends, drops>>
    BY DEF TakesFrame, handlerVars, sceneVars
  <1> PICK w \in Seq(Frames) : w = wire[c]
    BY <1>1 DEF ClientTypes
  <1> PICK l \in Nat : l = last[c]
    BY <1>1 DEF ClientTypes
  <1> PICK s : s = shown[c]
    OBVIOUS
  <1> PICK v : v = Tail(w)
    OBVIOUS
  <1>5. /\ wire'[c] = v /\ last'[c] = m /\ shown'[c] = t /\ view'[c] = leaves
        /\ w # <<>> /\ Takes(w[1], l, m, t)
    BY <1>1, <1>3 DEF ClientTypes
  <1>6. /\ v \in Seq(Frames)
        /\ Len(w) \in Nat /\ Len(w) >= 1 /\ Len(v) = Len(w) - 1
        /\ \A i \in 1 .. Len(v) : v[i] = w[i + 1]
    BY <1>5, TailFacts
  <1>7. wire' \in [Clients -> Seq(Frames)]
    BY <1>1, <1>3, <1>5, <1>6 DEF ClientTypes
  <1>8. /\ last' \in [Clients -> Nat] /\ shown' \in [Clients -> 0 .. made]
        /\ view' \in [Clients -> SUBSET Nat]
    BY <1>1, <1>3 DEF ClientTypes
  <1>9. HandlerTypes' /\ ClientTypes' /\ Bounded'
    BY <1>1, <1>2, <1>4, <1>7, <1>8 DEF HandlerTypes, ClientTypes, Bounded
  <1>10. Others(c)
    BY <1>1, <1>3, <1>4 DEF Others, SameConnection, ClientTypes
  <1>11. stage[c] \notin Greeting
    BY <1>1, <1>3 DEF HandlerAt
  <1>12. HandlerAt(c)'
    <2>1. ASSUME NEW i \in 1 .. Len(v), v[i].kind = "error"
          PROVE  stage[c] = "closed"
      <3>1. i + 1 \in 1 .. Len(w) /\ v[i] = w[i + 1]
        BY <1>6
      <3> QED
        BY <1>1, <2>1, <3>1 DEF HandlerAt
    <2> QED
      BY <1>1, <1>4, <1>5, <1>11, <2>1 DEF HandlerAt
  <1>13. FramesTrue(c)'
    <2>1. \A i \in 1 .. Len(w) : FrameIsTrue(w[i])
      BY <1>1 DEF ConnectionInv, FramesTrue
    <2>2. \A i \in 1 .. Len(w) : FrameIsTrue(w[i])'
      BY <1>1, <1>2, <2>1, FramesStable
    <2>3. \A i \in 1 .. Len(v) : FrameIsTrue(v[i])'
      <3> SUFFICES ASSUME NEW i \in 1 .. Len(v) PROVE FrameIsTrue(v[i])'
        OBVIOUS
      <3>1. i + 1 \in 1 .. Len(w) /\ v[i] = w[i + 1]
        BY <1>6
      <3> QED
        BY <2>2, <3>1
    <2> QED
      BY <1>5, <2>3 DEF FramesTrue, FrameIsTrue
  <1>14. /\ Orderly(w, l, s) /\ ChangesAreNew(w, l) /\ SocketEnd(c)
         /\ Followed(w, stage[c], nxt[c])
    BY <1>1 DEF ConnectionInv
  <1>15. Orderly(v, m, t)
    <2>1. w # <<>> /\ Takes(w[1], l, m, t)
      BY <1>5
    <2>2. Orderly(w, l, s)
      BY <1>14
    <2> QED
      BY <2>1, <2>2, TailOrderly, Zenon
  <1>16. ChangesAreNew(v, m)
    BY <1>5, <1>14, TailChanges
  <1>17. Followed(v, stage[c], nxt[c])
    BY <1>5, <1>14, TailFollowed
  <1>18. SocketEnd(c)'
    <2>1. ASSUME NEW o \in Scenes, EndsOn(w, l, s, o), Below(w, l, seqOf[o])
          PROVE  EndsOn(v, m, t, o) /\ Below(v, m, seqOf[o])
      <3>1. seqOf[o] \in Nat
        BY <1>1, SceneFacts
      <3>2. EndsOn(v, m, t, o)
        BY <1>5, <2>1, TailEnds
      <3>3. Below(v, m, seqOf[o])
        BY <1>5, <2>1, <3>1, TailBelow
      <3> QED
        BY <3>2, <3>3
    <2>2. stage[c] = "live" => EndsOn(v, m, t, cur[c]) /\ Below(v, m, seqOf[cur[c]])
      <3> SUFFICES ASSUME stage[c] = "live"
                   PROVE  EndsOn(v, m, t, cur[c]) /\ Below(v, m, seqOf[cur[c]])
        OBVIOUS
      <3>1. cur[c] \in 1 .. made
        BY <1>1 DEF HandlerAt, OnScene, Stages, HandlerTypes
      <3>2. cur[c] \in Scenes
        BY <1>1, <3>1
      <3> QED
        BY <1>14, <2>1, <3>2 DEF SocketEnd
    <2>3. stage[c] = "shipped" =>
            EndsOn(v, m, t, nxt[c]) /\ Below(v, m, seqOf[nxt[c]])
      <3> SUFFICES ASSUME stage[c] = "shipped"
                   PROVE  EndsOn(v, m, t, nxt[c]) /\ Below(v, m, seqOf[nxt[c]])
        OBVIOUS
      <3>1. nxt[c] \in 1 .. made
        BY <1>1 DEF HandlerAt, Swapping, HandlerTypes
      <3>2. nxt[c] \in Scenes
        BY <1>1, <3>1
      <3> QED
        BY <1>14, <2>1, <3>2 DEF SocketEnd
    <2>4. EndsChanged(w, l) => EndsChanged(v, m)
      BY <1>5, TailEnds
    <2> QED
      BY <1>4, <1>5, <1>14, <2>2, <2>3, <2>4 DEF SocketEnd
  <1>19. ConnectionInv(c)'
    BY <1>4, <1>5, <1>12, <1>13, <1>15, <1>16, <1>17, <1>18 DEF ConnectionInv
  <1> QED
    BY <1>2, <1>9, <1>10, <1>19 DEF GoodStep

(***************************************************************************)
(* What is known of the first frame on the socket.                         *)
(***************************************************************************)
LEMMA FirstFrame ==
  ASSUME SwapInv, NEW c \in Clients, wire[c] # <<>>
  PROVE  /\ Frame(c) = wire[c][1] /\ Frame(c) \in Frames
         /\ Frame(c).seq \in Nat /\ Frame(c).seq >= 1 /\ last[c] \in Nat
         /\ Frame(c).kind = "snapshot" => last[c] = 0
         /\ Frame(c).kind = "delta" => Frame(c).scene = shown[c] /\ last[c] # 0
         /\ Frame(c).kind = "scene_changed" => last[c] < Frame(c).seq
         /\ Frame(c).kind = "error" => stage[c] = "closed"
         /\ FrameIsTrue(Frame(c))
  <1>1. ClientTypes /\ HandlerAt(c) /\ ConnectionInv(c)
    BY ConnectionFacts
  <1> PICK w \in Seq(Frames) : w = wire[c]
    BY <1>1 DEF ClientTypes
  <1>2. /\ Len(w) \in Nat /\ Len(w) >= 1 /\ Head(w) = w[1] /\ w[1] \in Frames
    BY TailFacts
  <1>3. 1 \in 1 .. Len(w) /\ Frame(c) = w[1]
    BY <1>2 DEF Frame
  <1> PICK f \in Frames : f = w[1]
    BY <1>2
  <1>4. FrameIsTrue(f)
    BY <1>1, <1>3 DEF ConnectionInv, FramesTrue
  <1>5. f.seq \in Nat /\ f.seq >= 1 /\ last[c] \in Nat
    BY <1>1, <1>4, FrameFields DEF FrameIsTrue, ClientTypes
  <1>6. /\ f.kind = "snapshot" => last[c] = 0
        /\ f.kind = "delta" => f.scene = shown[c] /\ last[c] # 0
    BY <1>1, <1>3 DEF ConnectionInv, Orderly
  <1>7. f.kind = "scene_changed" => last[c] < f.seq
    <2> SUFFICES ASSUME f.kind = "scene_changed" PROVE last[c] < f.seq
      OBVIOUS
    <2>1. NoSnapshot(w, 1, 1)
      BY DEF NoSnapshot
    <2> QED
      BY <1>1, <1>3, <2>1 DEF ConnectionInv, ChangesAreNew
  <1>8. f.kind = "error" => stage[c] = "closed"
    BY <1>1, <1>3 DEF HandlerAt
  <1> QED
    BY <1>3, <1>4, <1>5, <1>6, <1>7, <1>8

LEMMA AcceptFacts ==
  ASSUME SwapInv, NEW c \in Clients, NEW kind, Accept(c, kind)
  PROVE  /\ wire[c] # <<>> /\ Frame(c).kind = kind /\ Frame(c).seq >= 1
         /\ last[c] = 0 \/ Frame(c).seq = last[c] + 1
         /\ AfterSeq(last[c], Frame(c).seq) = Frame(c).seq
         /\ wire' = [wire EXCEPT ![c] = Tail(@)]
         /\ UNCHANGED <<registryVars, sceneVars, handlerVars, drops>>
  <1>1. wire[c] # <<>> /\ ObserveSeq(last[c], Frame(c).seq) = "accepted"
    BY DEF Accept, Observed
  <1>2. Frame(c).seq \in Nat /\ last[c] \in Nat
    BY <1>1, FirstFrame
  <1> QED
    BY <1>1, <1>2, ObservedFacts DEF Accept

LEMMA AcceptSnapshotStep ==
  ASSUME SwapInv, NEW c \in Clients, AcceptSnapshot(c)
  PROVE  GoodStep(c)
  <1>1. Accept(c, "snapshot")
    BY DEF AcceptSnapshot
  <1>2. /\ wire[c] # <<>> /\ Frame(c).kind = "snapshot"
        /\ AfterSeq(last[c], Frame(c).seq) = Frame(c).seq
        /\ wire' = [wire EXCEPT ![c] = Tail(@)]
        /\ UNCHANGED <<registryVars, sceneVars, handlerVars, drops>>
    BY <1>1, AcceptFacts
  <1> PICK f \in Frames : f = Frame(c)
    BY <1>2, FirstFrame
  <1>3. /\ f = wire[c][1] /\ f.kind = "snapshot" /\ f.seq \in Nat /\ f.seq >= 1
        /\ FrameIsTrue(f)
    BY <1>2, FirstFrame
  <1>4. /\ f.scene \in 1 .. made /\ f.state \in SUBSET Nat
        /\ f.seq <= seqOf[f.scene] /\ Tells(f.state, Written(f.scene), f.seq)
    BY <1>3, FrameFields DEF FrameIsTrue
  <1>5. /\ last' = [last EXCEPT ![c] = f.seq]
        /\ shown' = [shown EXCEPT ![c] = f.scene]
        /\ view' = [view EXCEPT ![c] = f.state]
    BY <1>2 DEF AcceptSnapshot, Count
  <1>6. Takes(f, last[c], f.seq, f.scene)
    BY <1>3 DEF Takes
  <1>7. TakesFrame(c, f.seq, f.scene, f.state)
    BY <1>2, <1>3, <1>5, <1>6 DEF TakesFrame
  <1>8. ShownIsTrue(c)'
    <2>1. ClientTypes
      BY ConnectionFacts
    <2>2. /\ last'[c] = f.seq /\ shown'[c] = f.scene /\ view'[c] = f.state
          /\ seqOf' = seqOf /\ txOf' = txOf
      BY <1>2, <1>5, <2>1 DEF ClientTypes, sceneVars
    <2>3. Written(shown[c])' = Written(f.scene)
      BY <2>2 DEF Written
    <2>4. f.scene # 0
      BY <1>4
    <2> QED
      BY <1>4, <2>2, <2>3, <2>4 DEF ShownIsTrue
  <1>9. f.scene \in 0 .. made
    BY <1>4
  <1> QED
    BY <1>3, <1>4, <1>7, <1>8, <1>9, TakesFrameStep

LEMMA AcceptDeltaStep ==
  ASSUME SwapInv, NEW c \in Clients, AcceptDelta(c)
  PROVE  GoodStep(c)
  <1>1. Accept(c, "delta")
    BY DEF AcceptDelta
  <1>2. /\ wire[c] # <<>> /\ Frame(c).kind = "delta"
        /\ last[c] = 0 \/ Frame(c).seq = last[c] + 1
        /\ AfterSeq(last[c], Frame(c).seq) = Frame(c).seq
        /\ wire' = [wire EXCEPT ![c] = Tail(@)]
        /\ UNCHANGED <<registryVars, sceneVars, handlerVars, drops>>
    BY <1>1, AcceptFacts
  <1>3. /\ SceneTypes /\ ClientTypes /\ NumbersBounded /\ ConnectionInv(c)
        /\ made \in 0 .. MaxScenes /\ 1 .. made \subseteq Scenes
    BY ConnectionFacts
  <1> PICK f \in Frames : f = Frame(c)
    BY <1>2, FirstFrame
  <1>4. /\ f = wire[c][1] /\ f.kind = "delta" /\ f.seq \in Nat /\ f.seq >= 1
        /\ FrameIsTrue(f) /\ f.scene = shown[c] /\ last[c] # 0 /\ last[c] \in Nat
    BY <1>2, FirstFrame
  <1>5. f.seq = last[c] + 1
    BY <1>2, <1>4
  <1>6. f.scene \in 1 .. made /\ f.seq \in Written(f.scene)
    BY <1>4 DEF FrameIsTrue
  <1> PICK o \in Scenes : o = f.scene
    BY <1>3, <1>6
  <1>7. /\ seqOf[o] \in Nat /\ Written(o) \subseteq Nat /\ f.seq <= seqOf[o]
    BY <1>3, <1>6, SceneFacts DEF NumbersBounded
  <1> PICK leaves \in SUBSET Nat : leaves = view[c] \cup {f.seq}
    BY <1>3, <1>4 DEF ClientTypes
  <1>8. /\ last' = [last EXCEPT ![c] = f.seq]
        /\ shown' = [shown EXCEPT ![c] = o]
        /\ view' = [view EXCEPT ![c] = leaves]
    BY <1>2, <1>3, <1>4 DEF AcceptDelta, Count, ClientTypes
  <1>9. Takes(f, last[c], f.seq, o)
    BY <1>4 DEF Takes
  <1>10. TakesFrame(c, f.seq, o, leaves)
    BY <1>2, <1>4, <1>8, <1>9 DEF TakesFrame
  <1>11. ShownIsTrue(c)'
    <2>1. /\ last'[c] = f.seq /\ shown'[c] = o /\ view'[c] = leaves
          /\ seqOf' = seqOf /\ txOf' = txOf /\ stage' = stage
      BY <1>2, <1>3, <1>8 DEF ClientTypes, sceneVars, handlerVars
    <2>2. Written(shown[c])' = Written(o)
      BY <2>1 DEF Written
    <2>3. stage[c] # "closed" => Tells(view[c], Written(o), last[c])
      BY <1>3, <1>4 DEF ConnectionInv, ShownIsTrue
    <2>4. stage[c] # "closed" => Tells(leaves, Written(o), f.seq)
      BY <1>4, <1>5, <1>6, <1>7, <2>3 DEF Tells
    <2>5. o # 0
      BY <1>6
    <2> QED
      BY <1>7, <2>1, <2>2, <2>4, <2>5 DEF ShownIsTrue
  <1>12. o \in 0 .. made
    BY <1>6
  <1> QED
    BY <1>4, <1>10, <1>11, <1>12, TakesFrameStep

LEMMA AcceptChangedStep ==
  ASSUME SwapInv, NEW c \in Clients, AcceptChanged(c)
  PROVE  GoodStep(c)
  <1>1. Accept(c, "scene_changed")
    BY DEF AcceptChanged
  <1>2. /\ wire[c] # <<>> /\ Frame(c).kind = "scene_changed"
        /\ wire' = [wire EXCEPT ![c] = Tail(@)]
        /\ UNCHANGED <<registryVars, sceneVars, handlerVars, drops>>
    BY <1>1, AcceptFacts
  <1>3. ClientTypes
    BY ConnectionFacts
  <1>4. /\ wire[c][1].kind = "scene_changed" /\ wire[c][1].seq >= 1
        /\ wire[c][1].seq \in Nat
    BY <1>2, FirstFrame
  <1> PICK t \in 0 .. made : t = shown[c]
    BY <1>3 DEF ClientTypes
  <1> PICK leaves \in SUBSET Nat : leaves = view[c]
    BY <1>3 DEF ClientTypes
  <1>5. /\ last' = [last EXCEPT ![c] = 0]
        /\ shown' = [shown EXCEPT ![c] = t]
        /\ view' = [view EXCEPT ![c] = leaves]
    BY <1>3 DEF AcceptChanged, ClientTypes
  <1>6. Takes(wire[c][1], last[c], 0, t)
    BY <1>4 DEF Takes
  <1>7. TakesFrame(c, 0, t, leaves)
    BY <1>2, <1>5, <1>6 DEF TakesFrame
  <1>8. last'[c] = 0
    BY <1>3, <1>5 DEF ClientTypes
  <1>9. ShownIsTrue(c)'
    BY <1>8 DEF ShownIsTrue
  <1> QED
    BY <1>7, <1>9, TakesFrameStep

LEMMA AcceptErrorStep ==
  ASSUME SwapInv, NEW c \in Clients, AcceptError(c)
  PROVE  GoodStep(c)
  <1>1. Accept(c, "error")
    BY DEF AcceptError
  <1>2. /\ wire[c] # <<>> /\ Frame(c).kind = "error"
        /\ AfterSeq(last[c], Frame(c).seq) = Frame(c).seq
        /\ wire' = [wire EXCEPT ![c] = Tail(@)]
        /\ UNCHANGED <<registryVars, sceneVars, handlerVars, drops>>
    BY <1>1, AcceptFacts
  <1>3. ClientTypes
    BY ConnectionFacts
  <1> PICK f \in Frames : f = Frame(c)
    BY <1>2, FirstFrame
  <1>4. /\ f = wire[c][1] /\ f.kind = "error" /\ f.seq \in Nat
        /\ stage[c] = "closed"
    BY <1>2, FirstFrame
  <1> PICK t \in 0 .. made : t = shown[c]
    BY <1>3 DEF ClientTypes
  <1> PICK leaves \in SUBSET Nat : leaves = view[c]
    BY <1>3 DEF ClientTypes
  <1>5. /\ last' = [last EXCEPT ![c] = f.seq]
        /\ shown' = [shown EXCEPT ![c] = t]
        /\ view' = [view EXCEPT ![c] = leaves]
    BY <1>2, <1>3 DEF AcceptError, Count, ClientTypes
  <1>6. Takes(f, last[c], f.seq, t)
    BY <1>4 DEF Takes
  <1>7. TakesFrame(c, f.seq, t, leaves)
    BY <1>2, <1>4, <1>5, <1>6 DEF TakesFrame
  <1>8. ShownIsTrue(c)'
    BY <1>2, <1>4 DEF ShownIsTrue, handlerVars
  <1> QED
    BY <1>4, <1>7, <1>8, TakesFrameStep

(***************************************************************************)
(* A duplicate is a delta or an error: never a snapshot, never a           *)
(* scene_changed.                                                          *)
(***************************************************************************)
LEMMA DropDuplicateStep ==
  ASSUME SwapInv, NEW c \in Clients, DropDuplicate(c)
  PROVE  GoodStep(c)
  <1>1. /\ wire[c] # <<>> /\ ObserveSeq(last[c], Frame(c).seq) = "duplicate"
        /\ wire' = [wire EXCEPT ![c] = Tail(@)]
        /\ UNCHANGED <<registryVars, sceneVars, handlerVars, drops>>
        /\ UNCHANGED <<last, shown, view>>
    BY DEF DropDuplicate, Observed
  <1>2. /\ SceneTypes /\ ClientTypes /\ ConnectionInv(c)
        /\ made \in 0 .. MaxScenes
    BY ConnectionFacts
  <1>3. SceneTypes' /\ ScenesGrow
    BY <1>1, QuietScenes
  <1> PICK f \in Frames : f = Frame(c)
    BY <1>1, FirstFrame
  <1>4. /\ f = wire[c][1] /\ f.seq \in Nat /\ last[c] \in Nat
        /\ f.kind = "snapshot" => last[c] = 0
        /\ f.kind = "delta" => f.scene = shown[c] /\ last[c] # 0
        /\ f.kind = "scene_changed" => last[c] < f.seq
    BY <1>1, FirstFrame
  <1>5. last[c] # 0 /\ f.seq <= last[c]
    BY <1>1, <1>4, ObservedFacts
  <1> PICK m \in Nat : m = last[c]
    BY <1>4
  <1> PICK t \in 0 .. made : t = shown[c]
    BY <1>2 DEF ClientTypes
  <1> PICK leaves \in SUBSET Nat : leaves = view[c]
    BY <1>2 DEF ClientTypes
  <1>6. /\ last' = [last EXCEPT ![c] = m]
        /\ shown' = [shown EXCEPT ![c] = t]
        /\ view' = [view EXCEPT ![c] = leaves]
    BY <1>1, <1>2 DEF ClientTypes
  <1>7. Takes(f, last[c], m, t)
    BY <1>4, <1>5 DEF Takes
  <1>8. TakesFrame(c, m, t, leaves)
    BY <1>1, <1>4, <1>6, <1>7 DEF TakesFrame
  <1>9. ShownIsTrue(c)'
    <2>1. stage' = stage
      BY <1>1 DEF handlerVars
    <2> QED
      BY <1>1, <1>2, <1>3, <2>1, ShownKept DEF ConnectionInv
  <1> QED
    BY <1>8, <1>9, TakesFrameStep

-----------------------------------------------------------------------------
(* The theorems                                                            *)

LEMMA HandleStep ==
  ASSUME SwapInv, NEW c \in Clients, Handle(c)
  PROVE  GoodStep(c)
  BY ResolveStep, LookupStep, CheckRejectionStep, SubscribeDeltasStep,
     SubscribeEventsStep, ReadFirstSeqStep, SendFirstSnapshotStep, PumpStep,
     SkipEventStep, ChangeStep, ReadNextSeqStep, SendNextSnapshotStep,
     MoveReceiverStep, EventsLaggedStep, Zenon
     DEF Handle

LEMMA ReceiveStep ==
  ASSUME SwapInv, NEW c \in Clients, Receive(c) \/ Drop(c)
  PROVE  GoodStep(c)
  <1>1. drops \in 0 .. MaxDrops
    BY DEF SwapInv, Bounded
  <1>2. CASE CloseOnGap(c) \/ EndOfStream(c)
    <2>1. Hangup(c) /\ drops' = drops
      BY <1>2 DEF CloseOnGap, EndOfStream
    <2> QED
      BY <1>1, <2>1, HangupStep
  <1>3. CASE Drop(c)
    <2>1. Hangup(c) /\ drops' = drops + 1 /\ drops < MaxDrops
      BY <1>3 DEF Drop
    <2>2. drops' \in 0 .. MaxDrops
      BY <1>1, <2>1, SwapBounds
    <2> QED
      BY <2>1, <2>2, HangupStep
  <1> QED
    BY <1>2, <1>3, AcceptSnapshotStep, AcceptDeltaStep, AcceptChangedStep,
       AcceptErrorStep, DropDuplicateStep, Zenon DEF Receive

(***************************************************************************)
(* A step in which every connection stays as it is.                        *)
(***************************************************************************)
LEMMA QuietConnections ==
  ASSUME SwapInv, made' \in 0 .. MaxScenes, SceneTypes', ScenesGrow,
         UNCHANGED <<handlerVars, clientVars>>
  PROVE  /\ HandlerTypes' /\ ClientTypes'
         /\ \A c \in Clients : ConnectionInv(c)'
  <1>1. /\ RegistryTypeOK /\ SceneTypes /\ HandlerTypes /\ ClientTypes
        /\ made \in 0 .. MaxScenes
        /\ \A c \in Clients : ConnectionInv(c)
    BY DEF SwapInv, RegistryTypeOK
  <1>2. /\ UNCHANGED <<stage, want, cur, nxt, source, rx, erx, snapSeq>>
        /\ UNCHANGED <<wire, last, shown, view>>
    BY DEF handlerVars, clientVars
  <1>3. 0 .. made \subseteq 0 .. made'
    BY <1>1, RegistryBounds DEF ScenesGrow
  <1>4. /\ cur' \in [Clients -> 0 .. made'] /\ nxt' \in [Clients -> 0 .. made']
        /\ source' \in [Clients -> 0 .. made'] /\ shown' \in [Clients -> 0 .. made']
    BY <1>1, <1>2, <1>3 DEF HandlerTypes, ClientTypes
  <1>5. HandlerTypes' /\ ClientTypes'
    BY <1>1, <1>2, <1>4 DEF HandlerTypes, ClientTypes
  <1>6. \A c \in Clients : SameConnection(c)
    BY <1>2 DEF SameConnection
  <1>7. \A c \in Clients : ConnectionInv(c)'
    BY <1>1, <1>6, ConnectionStable
  <1> QED
    BY <1>5, <1>7

LEMMA SwapInitial == Init => SwapInv
  <1> SUFFICES ASSUME Init PROVE SwapInv
    OBVIOUS
  <1>1. RegistryTypeOK /\ CallersHaveIds
    BY RegistryInitial DEF Init
  <1>2. made = 0
    BY DEF Init, RegistryInit
  <1>3. SceneTypes
    BY EmptySeq DEF Init, SceneTypes
  <1>4. HandlerTypes
    BY <1>2 DEF Init, HandlerTypes, Stages
  <1>5. ClientTypes
    BY <1>2, EmptySeq DEF Init, ClientTypes
  <1>6. Bounded
    BY SwapBounds DEF Init, Bounded
  <1>7. NumbersBounded
    BY DEF Init, NumbersBounded, Written
  <1>8. ASSUME NEW c \in Clients PROVE ConnectionInv(c)
    <2>1. /\ stage[c] = "down" /\ wire[c] = <<>> /\ last[c] = 0
          /\ Len(wire[c]) = 0
      BY DEF Init
    <2>2. HandlerAt(c)
      BY <2>1 DEF HandlerAt, OnScene, Receiving, Attached, Swapping
    <2>3. FramesTrue(c) /\ ShownIsTrue(c) /\ SocketEnd(c)
      BY <2>1 DEF FramesTrue, ShownIsTrue, SocketEnd
    <2>4. /\ Orderly(wire[c], last[c], shown[c])
          /\ ChangesAreNew(wire[c], last[c])
          /\ Followed(wire[c], stage[c], nxt[c])
      BY <2>1 DEF Orderly, ChangesAreNew, Followed
    <2> QED
      BY <2>2, <2>3, <2>4 DEF ConnectionInv
  <1> QED
    BY <1>1, <1>3, <1>4, <1>5, <1>6, <1>7, <1>8 DEF SwapInv

LEMMA SwapStep == SwapInv /\ [Next]_vars => SwapInv'
  <1> SUFFICES ASSUME SwapInv, [Next]_vars PROVE SwapInv'
    OBVIOUS
  <1>1. /\ RegistryTypeOK /\ CallersHaveIds /\ SceneTypes /\ NumbersBounded
        /\ Bounded /\ made \in 0 .. MaxScenes /\ made \in Nat
    BY RegistryBounds DEF SwapInv, RegistryTypeOK
  <1>2. /\ RegistryTypeOK' /\ CallersHaveIds'
        /\ made' \in 0 .. MaxScenes /\ made' \in Nat /\ made <= made'
    BY <1>1, NextIsRegistryStep, RegistryStepFacts, RegistryBounds
  <1>3. ASSUME UNCHANGED <<sceneVars, handlerVars, clientVars>> PROVE SwapInv'
    <2>1. SceneTypes' /\ NumbersBounded' /\ ScenesGrow
      BY <1>1, <1>2, <1>3, ScenesKept DEF sceneVars
    <2>2. /\ HandlerTypes' /\ ClientTypes'
          /\ \A c \in Clients : ConnectionInv(c)'
      BY <1>2, <1>3, <2>1, QuietConnections
    <2>3. Bounded'
      BY <1>1, <1>3 DEF Bounded, sceneVars, clientVars
    <2> QED
      BY <1>2, <2>1, <2>2, <2>3 DEF SwapInv
  <1>4. ASSUME NEW o \in Scenes, Write(o) \/ OtherLeaves(o) PROVE SwapInv'
    <2>1. /\ made' = made /\ seqOf' = [seqOf EXCEPT ![o] = @ + 1]
          /\ \/ txOf' = txOf
             \/ txOf' = [txOf EXCEPT ![o] = Append(@, seqOf[o] + 1)]
          /\ sends < MaxSends /\ sends' = sends + 1 /\ drops' = drops
          /\ UNCHANGED <<handlerVars, clientVars>>
      BY <1>4 DEF Write, OtherLeaves, registryVars, clientVars
    <2>2. SceneTypes' /\ NumbersBounded' /\ ScenesGrow
      BY <1>1, <2>1, NumberTaken, NumberSent
    <2>3. /\ HandlerTypes' /\ ClientTypes'
          /\ \A c \in Clients : ConnectionInv(c)'
      BY <1>2, <2>1, <2>2, QuietConnections
    <2>4. Bounded'
      BY <1>1, <2>1, SwapBounds DEF Bounded
    <2> QED
      BY <1>2, <2>2, <2>3, <2>4 DEF SwapInv
  <1>5. ASSUME NEW c \in Clients, Handle(c) \/ Receive(c) \/ Drop(c)
        PROVE  SwapInv'
    <2>1. GoodStep(c)
      BY <1>5, HandleStep, ReceiveStep
    <2>2. ASSUME NEW d \in Clients, d # c PROVE ConnectionInv(d)'
      <3>1. SameConnection(d) /\ SceneTypes' /\ ScenesGrow
        BY <2>1, <2>2 DEF GoodStep, Others
      <3>2. HandlerTypes /\ ClientTypes /\ ConnectionInv(d)
        BY DEF SwapInv
      <3> QED
        BY <1>1, <1>2, <3>1, <3>2, ConnectionStable
    <2>3. \A d \in Clients : ConnectionInv(d)'
      BY <2>1, <2>2 DEF GoodStep
    <2> QED
      BY <1>2, <2>1, <2>3 DEF GoodStep, SwapInv
  <1>6. ASSUME UNCHANGED vars PROVE SwapInv'
    BY <1>3, <1>6 DEF vars
  <1>7. ASSUME RegistryStep PROVE SwapInv'
    BY <1>3, <1>7 DEF RegistryStep
  <1> QED
    BY <1>4, <1>5, <1>6, <1>7, Zenon DEF Next

(***************************************************************************)
(* The inductive invariant of scene swaps: what every handler has at hand, *)
(* what every frame on every socket says, and in which order.              *)
(***************************************************************************)
THEOREM SwapCorrect == Spec => []SwapInv
  BY SwapInitial, SwapStep, PTL DEF Spec

(***************************************************************************)
(* Type correctness of the registry, the scenes, the handlers and the      *)
(* clients.                                                                *)
(***************************************************************************)
THEOREM SwapTypes == Spec => []TypeOK
  <1>1. SwapInv => TypeOK
    <2> SUFFICES ASSUME SwapInv PROVE TypeOK
      OBVIOUS
    <2>1. RegistryTypeOK /\ SceneTypes /\ HandlerTypes /\ ClientTypes /\ Bounded
      BY DEF SwapInv
    <2> QED
      BY <2>1 DEF TypeOK, SceneTypes, HandlerTypes, ClientTypes, Bounded
  <1> QED
    BY <1>1, SwapCorrect, PTL

(***************************************************************************)
(* A delta that handle_frame accepts belongs to the scene shown, although  *)
(* deltas name no scene and the numbers of two scenes overlap.             *)
(***************************************************************************)
THEOREM DeltasDoNotMix == Spec => []NoMixing
  <1>1. SwapInv => NoMixing
    BY FirstFrame DEF NoMixing
  <1> QED
    BY <1>1, SwapCorrect, PTL

(***************************************************************************)
(* "The next event will be a snapshot": the SceneSwap arm sends nothing    *)
(* between a scene_changed frame and the snapshot of its scene.            *)
(***************************************************************************)
THEOREM SnapshotFollowsChange == Spec => []ChangedThenSnapshot
  <1>1. SwapInv => ChangedThenSnapshot
    <2> SUFFICES ASSUME SwapInv, NEW c \in Clients
                 PROVE  Followed(wire[c], stage[c], nxt[c])
      BY Zenon DEF ChangedThenSnapshot, Followed
    <2> QED
      BY ConnectionFacts DEF ConnectionInv
  <1> QED
    BY <1>1, SwapCorrect, PTL

(***************************************************************************)
(* A client whose tracker has reached the scene's counter shows exactly    *)
(* that scene's leaves: the gaps that swaps leave in the numbers and the   *)
(* deltas a swap loses cannot hide from it.                                *)
(***************************************************************************)
THEOREM CountingIsShowing == Spec => []CountedIsShown
  <1>1. SwapInv => CountedIsShown
    <2> SUFFICES ASSUME SwapInv, NEW c \in Clients, stage[c] # "closed",
                        last[c] # 0, last[c] = seqOf[shown[c]]
                 PROVE  view[c] = Written(shown[c])
      BY DEF CountedIsShown
    <2>1. /\ SceneTypes /\ ClientTypes /\ NumbersBounded /\ ConnectionInv(c)
          /\ made \in 0 .. MaxScenes /\ 1 .. made \subseteq Scenes
      BY ConnectionFacts
    <2>2. shown[c] # 0 /\ Tells(view[c], Written(shown[c]), last[c])
      BY <2>1 DEF ConnectionInv, ShownIsTrue
    <2>3. shown[c] \in Scenes
      BY <2>1, <2>2 DEF ClientTypes
    <2>4. \A n \in Written(shown[c]) : n <= last[c]
      BY <2>1, <2>3, SceneFacts DEF NumbersBounded
    <2> QED
      BY <2>2, <2>4 DEF Tells
  <1> QED
    BY <1>1, SwapCorrect, PTL
=============================================================================
