---------------------------- MODULE FanoutProofs ----------------------------
(***************************************************************************)
(* Proofs about module Fanout, for any number of writers, clients, errors  *)
(* and broken connections and any capacities: type correctness, the        *)
(* consistency of snapshots, what a client that counts numbers may         *)
(* conclude, and convergence.                                              *)
(***************************************************************************)
EXTENDS Fanout, SceneProofs

USE ClientsAssumption

-----------------------------------------------------------------------------
(* Frames.                                                                 *)

LEMMA FrameFields ==
  ASSUME NEW f \in Frames
  PROVE  /\ f.seq \in Nat
         /\ f.kind = "snapshot" => f.state \in [Paths -> Nat]
         /\ f.kind = "delta" => f.paths \in SUBSET Paths /\ f.id \in Nat
  BY DEF Frames, SnapshotFrames, DeltaFrames, ErrorFrames, ChangedFrames

LEMMA SnapshotFrameFields ==
  ASSUME NEW n \in Nat, NEW s \in [Paths -> Nat]
  PROVE  /\ SnapshotFrame(n, s) \in Frames
         /\ SnapshotFrame(n, s).kind = "snapshot"
         /\ SnapshotFrame(n, s).seq = n
         /\ SnapshotFrame(n, s).state = s
  BY DEF Frames, SnapshotFrames, SnapshotFrame

LEMMA DeltaFrameFields ==
  ASSUME NEW r \in Payloads
  PROVE  /\ DeltaFrame(r) \in Frames
         /\ DeltaFrame(r).kind = "delta"
         /\ DeltaFrame(r).seq = r.seq
         /\ DeltaFrame(r).paths = r.paths
         /\ DeltaFrame(r).id = r.id
  BY DEF Frames, DeltaFrames, DeltaFrame, Payloads

LEMMA ErrorFrameFields ==
  ASSUME NEW n \in Nat
  PROVE  /\ ErrorFrame(n) \in Frames
         /\ ErrorFrame(n).kind = "error"
         /\ ErrorFrame(n).seq = n
  BY DEF Frames, ErrorFrames, ErrorFrame

LEMMA ChangedFrameFields ==
  ASSUME NEW n \in Nat
  PROVE  /\ ChangedFrame(n) \in Frames
         /\ ChangedFrame(n).kind = "scene_changed"
         /\ ChangedFrame(n).seq = n
  BY DEF Frames, ChangedFrames, ChangedFrame

-----------------------------------------------------------------------------
(* The socket: what Emit, Consume and Detach do to it.                     *)

\* the connection to this scene ends, or its client learns that it went on
Gone(c) == Hangup(c) \/ AcceptChanged(c)

LEMMA EmitFacts ==
  ASSUME wire \in [Clients -> Seq(Frames)], NEW c \in Clients,
         NEW f \in Frames, Emit(c, f)
  PROVE  /\ wire' \in [Clients -> Seq(Frames)]
         /\ \A d \in Clients \ {c} : wire'[d] = wire[d]
         /\ Len(wire[c]) \in Nat
         /\ Len(wire'[c]) = Len(wire[c]) + 1
         /\ \A i \in 1 .. Len(wire[c]) : wire'[c][i] = wire[c][i]
         /\ wire'[c][Len(wire[c]) + 1] = f
  <1>1. wire[c] \in Seq(Frames)
    OBVIOUS
  <1>2. wire'[c] = Append(wire[c], f)
    BY DEF Emit
  <1>3. /\ Append(wire[c], f) \in Seq(Frames)
        /\ Len(Append(wire[c], f)) = Len(wire[c]) + 1
        /\ \A i \in 1 .. Len(wire[c]) : Append(wire[c], f)[i] = wire[c][i]
        /\ Append(wire[c], f)[Len(wire[c]) + 1] = f
    BY <1>1, AppendProperties
  <1>4. Len(wire[c]) \in Nat
    BY <1>1, LenProperties
  <1>5. \A d \in Clients \ {c} : wire'[d] = wire[d]
    BY DEF Emit
  <1>6. wire' \in [Clients -> Seq(Frames)]
    BY <1>3 DEF Emit
  <1> QED
    BY <1>2, <1>3, <1>4, <1>5, <1>6

LEMMA ConsumeFacts ==
  ASSUME wire \in [Clients -> Seq(Frames)], NEW c \in Clients,
         wire[c] # <<>>, Consume(c)
  PROVE  /\ wire' \in [Clients -> Seq(Frames)]
         /\ \A d \in Clients \ {c} : wire'[d] = wire[d]
         /\ Len(wire[c]) \in Nat \ {0}
         /\ Len(wire'[c]) = Len(wire[c]) - 1
         /\ \A i \in 1 .. Len(wire'[c]) : wire'[c][i] = wire[c][i + 1]
         /\ Head(wire[c]) = wire[c][1]
         /\ Head(wire[c]) \in Frames
  <1>1. wire[c] \in Seq(Frames)
    OBVIOUS
  <1>2. wire'[c] = Tail(wire[c])
    BY DEF Consume
  <1>3. /\ Head(wire[c]) \in Frames
        /\ Tail(wire[c]) \in Seq(Frames)
        /\ Len(Tail(wire[c])) = Len(wire[c]) - 1
        /\ \A i \in 1 .. Len(Tail(wire[c])) : Tail(wire[c])[i] = wire[c][i + 1]
    BY <1>1, HeadTailProperties
  <1>4. Len(wire[c]) \in Nat \ {0}
    BY <1>1, EmptySeq
  <1>5. \A d \in Clients \ {c} : wire'[d] = wire[d]
    BY DEF Consume
  <1>6. wire' \in [Clients -> Seq(Frames)]
    BY <1>3 DEF Consume
  <1>7. Head(wire[c]) = wire[c][1]
    BY <1>1
  <1> QED
    BY <1>2, <1>3, <1>4, <1>5, <1>6, <1>7

(***************************************************************************)
(* Every step of the system is a step of the scene or leaves it alone.     *)
(***************************************************************************)
LEMMA NextIsSceneStep == [Next]_vars => [SceneNext]_sceneVars
  BY DEF Next, vars, sceneVars, Handle, Receive, Subscribe, Resume,
         SendReplayed, EndReplay, ReadSeq, SendSnapshot, Pump, Lagged, Refuse,
         Leave, Drop, ReceiveSnapshot, AcceptDelta, AcceptError, AcceptChanged,
         DropDuplicate, CloseOnGap, EndOfStream, SceneNext

-----------------------------------------------------------------------------
(* Types.                                                                  *)

LEMMA ClientTypeInit == Init => ClientTypeOK
  <1>1. <<>> \in Seq(Payloads) /\ <<>> \in Seq(Frames)
    BY EmptySeq
  <1> QED
    BY <1>1 DEF Init, ClientTypeOK, Phases

LEMMA GoneType ==
  ASSUME ClientTypeOK, NEW c \in Clients, Gone(c)
  PROVE  /\ phase' \in [Clients -> Phases]
         /\ since' \in [Clients -> Nat]
         /\ rx' \in [Clients -> Nat]
         /\ snapSeq' \in [Clients -> Nat]
         /\ backlog' \in [Clients -> Seq(Payloads)]
         /\ wire' \in [Clients -> Seq(Frames)]
         /\ last' \in [Clients -> Nat]
         /\ view' \in [Clients -> [Paths -> Nat]]
         /\ stolen' \in [Clients -> SUBSET Nat]
  <1>1. <<>> \in Seq(Payloads) /\ <<>> \in Seq(Frames)
    BY EmptySeq
  <1>2. \E where \in Phases, count \in Nat, numbers \in SUBSET Nat :
          Detach(c, where, count, numbers)
    <2>1. last[c] \in Nat /\ stolen[c] \in SUBSET Nat
      BY DEF ClientTypeOK
    <2>2. "down" \in Phases /\ "away" \in Phases
      BY DEF Phases
    <2> QED
      BY <2>1, <2>2 DEF Gone, Hangup, AcceptChanged
  <1>3. PICK where \in Phases, count \in Nat, numbers \in SUBSET Nat :
          Detach(c, where, count, numbers)
    BY <1>2
  <1> QED
    BY <1>1, <1>3 DEF Detach, ClientTypeOK

LEMMA HandlerTypeStep ==
  ASSUME SceneTypeOK, ClientTypeOK, HandlersInBounds, NEW c \in Clients,
         Handle(c)
  PROVE  ClientTypeOK'
  <1> USE DEF ClientTypeOK, Phases
  <1>1. CASE Subscribe(c)
    <2>1. Len(tx) + 1 \in Nat
      BY LenProperties DEF SceneTypeOK
    <2> QED
      BY <1>1, <2>1 DEF Subscribe
  <1>2. CASE Resume(c)
    <2>1. replay \in Seq(Payloads)
      BY DEF SceneTypeOK
    <2> QED
      BY <1>2, <2>1 DEF Resume
  <1>3. CASE SendReplayed(c)
    <2>1. /\ backlog[c] \in Seq(Payloads)
          /\ backlog[c] # <<>>
      BY <1>3 DEF SendReplayed
    <2>2. Head(backlog[c]) \in Payloads /\ Tail(backlog[c]) \in Seq(Payloads)
      BY <2>1, HeadTailProperties
    <2>3. DeltaFrame(Head(backlog[c])) \in Frames
      BY <2>2, DeltaFrameFields
    <2>4. wire' \in [Clients -> Seq(Frames)]
      BY <1>3, <2>3, EmitFacts DEF SendReplayed
    <2> QED
      BY <1>3, <2>2, <2>4 DEF SendReplayed
  <1>4. CASE EndReplay(c)
    BY <1>4 DEF EndReplay
  <1>5. CASE ReadSeq(c)
    BY <1>5 DEF ReadSeq, SceneTypeOK
  <1>6. CASE SendSnapshot(c)
    <2>1. SnapshotFrame(snapSeq[c], store) \in Frames
      BY SnapshotFrameFields DEF SceneTypeOK
    <2>2. wire' \in [Clients -> Seq(Frames)]
      BY <1>6, <2>1, EmitFacts DEF SendSnapshot
    <2> QED
      BY <1>6, <2>2 DEF SendSnapshot
  <1>7. CASE Pump(c)
    <2>1. rx[c] \in 1 .. Len(tx) /\ tx \in Seq(Payloads)
      <3>1. rx[c] >= 1
        BY <1>7 DEF Pump, HandlersInBounds
      <3>2. tx \in Seq(Payloads) /\ Len(tx) \in Nat
        BY LenProperties DEF SceneTypeOK
      <3>3. Len(tx) - rx[c] + 1 >= 1
        BY <1>7, <3>2 DEF Pump, Unread
      <3> QED
        BY <3>1, <3>2, <3>3
    <2>2. tx[rx[c]] \in Payloads
      BY <2>1, LenProperties
    <2>3. DeltaFrame(tx[rx[c]]) \in Frames
      BY <2>2, DeltaFrameFields
    <2>4. wire' \in [Clients -> Seq(Frames)]
      BY <1>7, <2>3, EmitFacts DEF Pump
    <2>5. rx' \in [Clients -> Nat]
      BY <1>7 DEF Pump
    <2>6. UNCHANGED <<phase, since, snapSeq, backlog, last, view, stolen,
                      errors, drops>>
      BY <1>7 DEF Pump
    <2> QED
      BY <2>4, <2>5, <2>6
  <1>8. CASE Lagged(c)
    <2>1. ErrorFrame(seq) \in Frames
      BY ErrorFrameFields DEF SceneTypeOK
    <2>2. wire' \in [Clients -> Seq(Frames)]
      BY <1>8, <2>1, EmitFacts DEF Lagged
    <2> QED
      BY <1>8, <2>2 DEF Lagged
  <1> QED
    BY <1>1, <1>2, <1>3, <1>4, <1>5, <1>6, <1>7, <1>8 DEF Handle

LEMMA ReceiverTypeStep ==
  ASSUME SceneTypeOK, ClientTypeOK, NEW c \in Clients,
         Receive(c) \/ Refuse(c) \/ Leave(c) \/ Drop(c)
  PROVE  ClientTypeOK'
  <1> USE DEF ClientTypeOK
  <1>1. CASE ReceiveSnapshot(c)
    <2>1. /\ wire' \in [Clients -> Seq(Frames)]
          /\ Head(wire[c]) \in Frames
          /\ Head(wire[c]).kind = "snapshot"
      BY <1>1, ConsumeFacts DEF ReceiveSnapshot, Arrived
    <2>2. Head(wire[c]).seq \in Nat /\ Head(wire[c]).state \in [Paths -> Nat]
      BY <2>1, FrameFields
    <2> QED
      BY <1>1, <2>1, <2>2 DEF ReceiveSnapshot, AfterSnapshot
  <1>2. CASE AcceptDelta(c)
    <2>1. /\ wire' \in [Clients -> Seq(Frames)]
          /\ Head(wire[c]) \in Frames
          /\ Head(wire[c]).kind = "delta"
      BY <1>2, ConsumeFacts DEF AcceptDelta, Arrived
    <2>2. Head(wire[c]).seq \in Nat /\ Head(wire[c]).id \in Nat
      BY <2>1, FrameFields
    <2>3. Overwrite(view[c], Head(wire[c]).paths, Head(wire[c]).id)
            \in [Paths -> Nat]
      BY <2>2 DEF Overwrite
    <2> QED
      BY <1>2, <2>1, <2>2, <2>3 DEF AcceptDelta, AfterSeq
  <1>3. CASE AcceptError(c)
    <2>1. /\ wire' \in [Clients -> Seq(Frames)]
          /\ Head(wire[c]) \in Frames
      BY <1>3, ConsumeFacts DEF AcceptError, Arrived
    <2>2. Head(wire[c]).seq \in Nat
      BY <2>1, FrameFields
    <2> QED
      BY <1>3, <2>1, <2>2 DEF AcceptError, AfterSeq
  <1>4. CASE DropDuplicate(c)
    <2>1. wire' \in [Clients -> Seq(Frames)]
      BY <1>4, ConsumeFacts DEF DropDuplicate, Counted, Arrived
    <2> QED
      BY <1>4, <2>1 DEF DropDuplicate
  <1>5. CASE CloseOnGap(c) \/ EndOfStream(c) \/ AcceptChanged(c)
    <2>1. Gone(c) /\ errors' = errors /\ drops' = drops
      BY <1>5 DEF CloseOnGap, EndOfStream, AcceptChanged, Gone
    <2> QED
      BY <2>1, GoneType
  <1>6. CASE Drop(c)
    <2>1. drops' \in 0 .. MaxDrops
      BY <1>6 DEF Drop
    <2>2. Gone(c) /\ errors' = errors
      BY <1>6 DEF Drop, Gone
    <2> QED
      BY <2>1, <2>2, GoneType
  <1>7. CASE Refuse(c)
    <2>1. ErrorFrame(seq) \in Frames
      BY ErrorFrameFields DEF SceneTypeOK
    <2>2. wire' \in [Clients -> Seq(Frames)]
      BY <1>7, <2>1, EmitFacts DEF Refuse
    <2>3. errors' \in 0 .. MaxErrors
      BY <1>7 DEF Refuse
    <2>4. phase' \in [Clients -> Phases]
      BY <1>7 DEF Refuse, Phases
    <2>5. UNCHANGED <<since, rx, snapSeq, backlog, last, view, stolen, drops>>
      BY <1>7 DEF Refuse
    <2> QED
      BY <2>2, <2>3, <2>4, <2>5
  <1>8. CASE Leave(c)
    <2>1. ChangedFrame(seq + 1) \in Frames
      BY ChangedFrameFields DEF SceneTypeOK
    <2>2. wire' \in [Clients -> Seq(Frames)]
      BY <1>8, <2>1, EmitFacts DEF Leave
    <2>3. phase' \in [Clients -> Phases]
      BY <1>8 DEF Leave, Phases
    <2>4. UNCHANGED <<since, rx, snapSeq, backlog, last, view, stolen, errors,
                      drops>>
      BY <1>8 DEF Leave
    <2> QED
      BY <2>2, <2>3, <2>4
  <1> QED
    BY <1>1, <1>2, <1>3, <1>4, <1>5, <1>6, <1>7, <1>8 DEF Receive

LEMMA ClientTypeStep ==
  ASSUME SceneTypeOK, ClientTypeOK, HandlersInBounds, [Next]_vars
  PROVE  ClientTypeOK'
  <1>1. CASE UNCHANGED clientVars
    BY <1>1 DEF clientVars, ClientTypeOK
  <1> QED
    BY <1>1, HandlerTypeStep, ReceiverTypeStep DEF Next, vars

-----------------------------------------------------------------------------
(* What is on the way agrees with the log.                                 *)

LEMMA FaithfulStable ==
  ASSUME SceneInv, [SceneNext]_sceneVars, NEW f \in Frames, Faithful(f)
  PROVE  /\ f.seq \in 1 .. seq'
         /\ f.kind = "delta" =>
              /\ f.seq \in 1 .. seq'
              /\ log'[f.seq].paths = f.paths
              /\ log'[f.seq].id = f.id
         /\ f.kind = "scene_changed" => log'[f.seq] = Nothing
         /\ f.kind = "snapshot" =>
              /\ \A n \in 1 .. f.seq : \A p \in log'[n].paths :
                   f.state[p] >= log'[n].id
              /\ \A p \in Paths : f.state[p] <= store'[p]
  <1>1. /\ seq \in Nat /\ seq' \in Nat /\ seq' >= seq
        /\ \A n \in 1 .. seq : log'[n] = log[n]
        /\ \A p \in Paths : store'[p] >= store[p]
    BY SceneGrows DEF SceneInv, SceneTypeOK
  <1>2. store \in [Paths -> Nat] /\ store' \in [Paths -> Nat]
    BY SceneTypeStep DEF SceneInv, SceneTypeOK
  <1>3. f.seq \in 1 .. seq
    BY DEF Faithful
  <1>4. f.seq \in 1 .. seq'
    BY <1>1, <1>3
  <1>5. CASE f.kind = "delta"
    BY <1>1, <1>3, <1>4, <1>5 DEF Faithful, Logged
  <1>7. CASE f.kind = "scene_changed"
    BY <1>1, <1>3, <1>4, <1>7 DEF Faithful
  <1>6. CASE f.kind = "snapshot"
    <2>1. f.state \in [Paths -> Nat]
      BY <1>6, FrameFields
    <2>2. \A n \in 1 .. f.seq : \A p \in log'[n].paths :
            f.state[p] >= log'[n].id
      BY <1>1, <1>3, <1>6 DEF Faithful, Reflects
    <2>3. \A p \in Paths : f.state[p] <= store'[p]
      BY <1>1, <1>2, <1>6, <2>1 DEF Faithful
    <2> QED
      BY <1>4, <1>6, <2>2, <2>3
  <1> QED
    BY <1>4, <1>5, <1>6, <1>7

LEMMA DeltaFaithful ==
  ASSUME NEW r \in Payloads, Logged(r)
  PROVE  Faithful(DeltaFrame(r))
  BY DeltaFrameFields DEF Faithful, Logged

(***************************************************************************)
(* The snapshot: the leaves are read after the number, and the store       *)
(* reflects every number given out, so also those up to the one read.      *)
(***************************************************************************)
LEMMA SnapshotFaithful ==
  ASSUME SceneInv, NEW n \in 1 .. seq
  PROVE  Faithful(SnapshotFrame(n, store))
  <1>1. store \in [Paths -> Nat] /\ seq \in Nat
    BY DEF SceneInv, SceneTypeOK
  <1>2. Reflects(store, 1 .. n)
    BY <1>1 DEF SceneInv, StoreReflectsLog, Reflects
  <1>3. /\ SnapshotFrame(n, store).kind = "snapshot"
        /\ SnapshotFrame(n, store).seq = n
        /\ SnapshotFrame(n, store).state = store
    BY <1>1, SnapshotFrameFields
  <1> QED
    BY <1>1, <1>2, <1>3 DEF Faithful

LEMMA ErrorFaithful ==
  ASSUME SceneInv
  PROVE  ErrorFrame(seq) \in Frames /\ Faithful(ErrorFrame(seq))
  <1>1. seq \in Nat \ {0}
    BY DEF SceneInv, SceneTypeOK
  <1> QED
    BY <1>1, ErrorFrameFields DEF Faithful

(***************************************************************************)
(* The frame of a connection that leaves bears the number it takes.        *)
(***************************************************************************)
LEMMA ChangedFaithful ==
  ASSUME SceneInv, AdvanceSeqForChange
  PROVE  /\ seq + 1 \in 1 .. seq'
         /\ log'[seq + 1] = Nothing
         /\ ChangedFrame(seq + 1) \in Frames
         /\ ChangedFrame(seq + 1).kind = "scene_changed"
         /\ ChangedFrame(seq + 1).seq = seq + 1
  <1>1. seq \in Nat \ {0} /\ Len(log) = seq /\ log \in Seq(Entries)
    BY DEF SceneInv, SceneTypeOK
  <1>2. seq' = seq + 1 /\ log' = Append(log, Nothing)
    BY DEF AdvanceSeqForChange
  <1>3. seq + 1 \in Nat
    BY <1>1
  <1>4. log'[seq + 1] = Nothing
    BY <1>1, <1>2, NothingType, AppendProperties
  <1> QED
    BY <1>1, <1>2, <1>3, <1>4, ChangedFrameFields

LEMMA PumpedIsLogged ==
  ASSUME SceneInv, ClientTypeOK, HandlersInBounds, NEW c \in Clients, Pump(c)
  PROVE  tx[rx[c]] \in Payloads /\ Logged(tx[rx[c]])
  <1>1. rx[c] >= 1 /\ rx[c] \in Nat
    BY DEF Pump, HandlersInBounds, ClientTypeOK
  <1>2. tx \in Seq(Payloads) /\ Len(tx) \in Nat
    BY LenProperties DEF SceneInv, SceneTypeOK
  <1>3. Len(tx) - rx[c] + 1 >= 1
    BY <1>1, <1>2 DEF Pump, Unread
  <1>4. rx[c] \in 1 .. Len(tx)
    BY <1>1, <1>2, <1>3
  <1> QED
    BY <1>2, <1>4, LenProperties DEF SceneInv, SentIsLogged

LEMMA BacklogHead ==
  ASSUME ClientTypeOK, BacklogLogged, NEW c \in Clients, backlog[c] # <<>>
  PROVE  /\ Head(backlog[c]) \in Payloads /\ Logged(Head(backlog[c]))
         /\ Len(backlog[c]) \in Nat
         /\ Len(Tail(backlog[c])) = Len(backlog[c]) - 1
         /\ \A i \in 1 .. Len(Tail(backlog[c])) :
              Tail(backlog[c])[i] = backlog[c][i + 1]
  <1>1. backlog[c] \in Seq(Payloads)
    BY DEF ClientTypeOK
  <1>2. Len(backlog[c]) \in Nat \ {0}
    BY <1>1, EmptySeq
  <1>3. Head(backlog[c]) = backlog[c][1]
    BY <1>1
  <1>4. Logged(backlog[c][1])
    BY <1>2 DEF BacklogLogged
  <1> QED
    BY <1>1, <1>2, <1>3, <1>4, HeadTailProperties

LEMMA FramesFaithfulStep ==
  ASSUME FanoutInv, [Next]_vars
  PROVE  FramesFaithful'
  <1> DEFINE Still(f) ==
        /\ f.seq \in 1 .. seq'
        /\ f.kind = "delta" =>
             /\ f.seq \in 1 .. seq'
             /\ log'[f.seq].paths = f.paths
             /\ log'[f.seq].id = f.id
        /\ f.kind = "scene_changed" => log'[f.seq] = Nothing
        /\ f.kind = "snapshot" =>
             /\ \A n \in 1 .. f.seq : \A p \in log'[n].paths :
                  f.state[p] >= log'[n].id
             /\ \A p \in Paths : f.state[p] <= store'[p]
  <1> DEFINE Goal ==
        \A d \in Clients : \A i \in 1 .. Len(wire'[d]) : Still(wire'[d][i])
  <1> SUFFICES Goal
    BY DEF FramesFaithful, Faithful, Logged, Reflects
  <1>a. /\ SceneInv /\ ClientTypeOK /\ FramesFaithful /\ BacklogLogged
        /\ HandlersInBounds
        /\ wire \in [Clients -> Seq(Frames)]
        /\ [SceneNext]_sceneVars
    BY NextIsSceneStep DEF FanoutInv, ClientTypeOK
  <1>b. \A f \in Frames : Faithful(f) => Still(f)
    BY <1>a, FaithfulStable
  <1> HIDE DEF Still
  <1>c. \A d \in Clients : \A i \in 1 .. Len(wire[d]) : Still(wire[d][i])
    <2> SUFFICES ASSUME NEW d \in Clients, NEW i \in 1 .. Len(wire[d])
                 PROVE  Still(wire[d][i])
      OBVIOUS
    <2>1. wire[d][i] \in Frames
      BY <1>a, LenProperties
    <2> QED
      BY <1>a, <1>b, <2>1 DEF FramesFaithful
  <1>0. ASSUME NEW c \in Clients, NEW f \in Frames, Still(f), Emit(c, f)
        PROVE  Goal
    <2>1. /\ \A d \in Clients \ {c} : wire'[d] = wire[d]
          /\ Len(wire[c]) \in Nat
          /\ Len(wire'[c]) = Len(wire[c]) + 1
          /\ \A i \in 1 .. Len(wire[c]) : wire'[c][i] = wire[c][i]
          /\ wire'[c][Len(wire[c]) + 1] = f
      BY <1>0, <1>a, EmitFacts
    <2>2. \A i \in 1 .. Len(wire'[c]) : Still(wire'[c][i])
      <3> SUFFICES ASSUME NEW i \in 1 .. Len(wire'[c])
                   PROVE  Still(wire'[c][i])
        OBVIOUS
      <3>1. i \in 1 .. Len(wire[c]) \/ i = Len(wire[c]) + 1
        BY <2>1
      <3> QED
        BY <1>0, <1>c, <2>1, <3>1
    <2> QED
      BY <1>c, <2>1, <2>2
  <1>1. ASSUME NEW c \in Clients, NEW f \in Frames, Faithful(f), Emit(c, f)
        PROVE  Goal
    BY <1>0, <1>1, <1>b
  <1>2. ASSUME NEW c \in Clients, wire[c] # <<>>, Consume(c)
        PROVE  Goal
    <2>1. /\ \A d \in Clients \ {c} : wire'[d] = wire[d]
          /\ Len(wire[c]) \in Nat \ {0}
          /\ Len(wire'[c]) = Len(wire[c]) - 1
          /\ \A i \in 1 .. Len(wire'[c]) : wire'[c][i] = wire[c][i + 1]
      BY <1>2, <1>a, ConsumeFacts
    <2>2. \A i \in 1 .. Len(wire'[c]) : i + 1 \in 1 .. Len(wire[c])
      BY <2>1
    <2>3. \A i \in 1 .. Len(wire'[c]) : Still(wire'[c][i])
      BY <1>c, <2>1, <2>2
    <2> QED
      BY <1>c, <2>1, <2>3
  <1>3. ASSUME NEW c \in Clients, Gone(c)
        PROVE  Goal
    <2>1. /\ \A d \in Clients \ {c} : wire'[d] = wire[d]
          /\ wire'[c] = <<>>
      BY <1>3, <1>a DEF Gone, Hangup, AcceptChanged, Detach
    <2> QED
      BY <1>c, <2>1, EmptySeq
  <1>4. CASE wire' = wire
    BY <1>4, <1>c
  <1> HIDE DEF Goal
  <1>5. ASSUME NEW c \in Clients, Handle(c) PROVE Goal
    <2>1. CASE SendReplayed(c)
      <3>1. Head(backlog[c]) \in Payloads /\ Logged(Head(backlog[c]))
        BY <1>a, <2>1, BacklogHead DEF SendReplayed
      <3>2. /\ DeltaFrame(Head(backlog[c])) \in Frames
            /\ Faithful(DeltaFrame(Head(backlog[c])))
        BY <3>1, DeltaFaithful, DeltaFrameFields
      <3> QED
        BY <1>1, <1>4, <2>1, <3>2 DEF SendReplayed
    <2>2. CASE SendSnapshot(c)
      <3>1. snapSeq[c] \in 1 .. seq
        BY <1>a, <2>2 DEF SendSnapshot, HandlersInBounds
      <3>2. snapSeq[c] \in Nat /\ store \in [Paths -> Nat]
        BY <1>a DEF ClientTypeOK, SceneInv, SceneTypeOK
      <3>3. /\ SnapshotFrame(snapSeq[c], store) \in Frames
            /\ Faithful(SnapshotFrame(snapSeq[c], store))
        BY <1>a, <3>1, <3>2, SnapshotFrameFields, SnapshotFaithful
      <3> QED
        BY <1>1, <2>2, <3>3 DEF SendSnapshot
    <2>3. CASE Pump(c)
      <3>1. /\ DeltaFrame(tx[rx[c]]) \in Frames
            /\ Faithful(DeltaFrame(tx[rx[c]]))
        BY <1>a, <2>3, PumpedIsLogged, DeltaFaithful, DeltaFrameFields
      <3> QED
        BY <1>1, <2>3, <3>1 DEF Pump
    <2>4. CASE Lagged(c)
      BY <1>1, <1>a, <2>4, ErrorFaithful DEF Lagged
    <2>5. CASE Subscribe(c) \/ Resume(c) \/ EndReplay(c) \/ ReadSeq(c)
      BY <1>4, <2>5 DEF Subscribe, Resume, EndReplay, ReadSeq
    <2> QED
      BY <1>5, <2>1, <2>2, <2>3, <2>4, <2>5 DEF Handle
  <1>6. ASSUME NEW c \in Clients, Receive(c) PROVE Goal
    <2>1. CASE ReceiveSnapshot(c) \/ AcceptDelta(c) \/ AcceptError(c)
               \/ DropDuplicate(c)
      BY <1>2, <2>1 DEF ReceiveSnapshot, AcceptDelta, AcceptError,
                        DropDuplicate, Counted, Arrived
    <2>2. CASE CloseOnGap(c) \/ EndOfStream(c) \/ AcceptChanged(c)
      BY <1>3, <2>2 DEF CloseOnGap, EndOfStream, Gone
    <2> QED
      BY <1>6, <2>1, <2>2 DEF Receive
  <1>7. ASSUME NEW c \in Clients, Refuse(c) PROVE Goal
    BY <1>1, <1>7, <1>a, ErrorFaithful DEF Refuse
  <1>8. ASSUME NEW c \in Clients, Drop(c) PROVE Goal
    BY <1>3, <1>8 DEF Drop, Gone
  <1>9. CASE UNCHANGED clientVars
    BY <1>4, <1>9 DEF clientVars
  <1>10. ASSUME NEW c \in Clients, Leave(c) PROVE Goal
    <2>1. AdvanceSeqForChange /\ Emit(c, ChangedFrame(seq + 1))
      BY <1>10 DEF Leave
    <2>2. /\ seq + 1 \in 1 .. seq' /\ log'[seq + 1] = Nothing
          /\ ChangedFrame(seq + 1) \in Frames
          /\ ChangedFrame(seq + 1).kind = "scene_changed"
          /\ ChangedFrame(seq + 1).seq = seq + 1
      BY <1>a, <2>1, ChangedFaithful
    <2>3. Still(ChangedFrame(seq + 1))
      BY <2>2 DEF Still
    <2> QED
      BY <1>0, <2>1, <2>2, <2>3
  <1> QED
    BY <1>5, <1>6, <1>7, <1>8, <1>9, <1>10 DEF Next, vars

LEMMA BacklogLoggedStep ==
  ASSUME FanoutInv, [Next]_vars
  PROVE  BacklogLogged'
  <1> DEFINE Still(r) ==
        /\ r.seq \in 1 .. seq'
        /\ log'[r.seq].paths = r.paths
        /\ log'[r.seq].id = r.id
  <1> DEFINE Goal ==
        \A d \in Clients : \A i \in 1 .. Len(backlog'[d]) :
            Still(backlog'[d][i])
  <1> SUFFICES Goal
    BY DEF BacklogLogged, Logged
  <1>a. /\ SceneInv /\ SceneTypeOK /\ IdsBounded /\ SentIsLogged
        /\ ClientTypeOK /\ BacklogLogged
        /\ backlog \in [Clients -> Seq(Payloads)]
        /\ [SceneNext]_sceneVars
    BY NextIsSceneStep DEF FanoutInv, SceneInv, ClientTypeOK
  <1>b. \A d \in Clients : \A i \in 1 .. Len(backlog[d]) : Still(backlog[d][i])
    BY <1>a, LoggedStable DEF BacklogLogged
  <1>c. \A i \in 1 .. Len(replay) : Still(replay[i])
    BY <1>a, LoggedStable DEF SentIsLogged
  <1> HIDE DEF Still
  <1>1. CASE backlog' = backlog
    BY <1>1, <1>b
  <1>2. ASSUME NEW c \in Clients, Resume(c) PROVE Goal
    <2>1. backlog' = [backlog EXCEPT ![c] = replay]
      BY <1>2 DEF Resume
    <2> QED
      BY <1>a, <1>b, <1>c, <2>1
  <1>3. ASSUME NEW c \in Clients, SendReplayed(c) PROVE Goal
    <2>1. /\ backlog[c] # <<>>
          /\ backlog' = [backlog EXCEPT ![c] = Tail(backlog[c])]
      BY <1>3 DEF SendReplayed
    <2>2. /\ Len(backlog[c]) \in Nat
          /\ Len(Tail(backlog[c])) = Len(backlog[c]) - 1
          /\ \A i \in 1 .. Len(Tail(backlog[c])) :
               Tail(backlog[c])[i] = backlog[c][i + 1]
      BY <1>a, <2>1, BacklogHead
    <2>3. \A i \in 1 .. Len(Tail(backlog[c])) : i + 1 \in 1 .. Len(backlog[c])
      BY <2>2
    <2>4. \A i \in 1 .. Len(Tail(backlog[c])) : Still(Tail(backlog[c])[i])
      BY <1>b, <2>2, <2>3
    <2> QED
      BY <1>a, <1>b, <2>1, <2>4
  <1>4. ASSUME NEW c \in Clients, Gone(c) PROVE Goal
    <2>1. backlog' = [backlog EXCEPT ![c] = <<>>]
      BY <1>4 DEF Gone, Hangup, AcceptChanged, Detach
    <2> QED
      BY <1>a, <1>b, <2>1, EmptySeq
  <1> HIDE DEF Goal
  <1>5. ASSUME NEW c \in Clients, Handle(c) PROVE Goal
    <2>1. CASE Subscribe(c) \/ EndReplay(c) \/ ReadSeq(c) \/ SendSnapshot(c)
               \/ Pump(c) \/ Lagged(c)
      BY <1>1, <2>1 DEF Subscribe, EndReplay, ReadSeq, SendSnapshot, Pump,
                        Lagged
    <2> QED
      BY <1>2, <1>3, <1>5, <2>1 DEF Handle
  <1>6. ASSUME NEW c \in Clients,
               Receive(c) \/ Refuse(c) \/ Leave(c) \/ Drop(c)
        PROVE  Goal
    <2>1. Gone(c) \/ backlog' = backlog
      BY <1>6 DEF Receive, Refuse, Leave, Drop, ReceiveSnapshot, AcceptDelta,
                  AcceptError, DropDuplicate, CloseOnGap, EndOfStream, Gone
    <2> QED
      BY <1>1, <1>4, <2>1
  <1>7. CASE UNCHANGED clientVars
    BY <1>1, <1>7 DEF clientVars
  <1> QED
    BY <1>5, <1>6, <1>7 DEF Next, vars

-----------------------------------------------------------------------------
(* Handlers, and nobody ahead of the scene.                                *)

LEMMA HandlersInBoundsStep ==
  ASSUME FanoutInv, [Next]_vars
  PROVE  HandlersInBounds'
  <1>a. /\ HandlersInBounds
        /\ seq \in Nat \ {0} /\ seq' \in Nat /\ seq' >= seq
        /\ phase \in [Clients -> Phases]
        /\ rx \in [Clients -> Nat] /\ rx' \in [Clients -> Nat]
        /\ snapSeq \in [Clients -> Nat]
        /\ Len(tx) \in Nat
    BY NextIsSceneStep, SceneGrows, ClientTypeStep, LenProperties
       DEF FanoutInv, SceneInv, SceneTypeOK, ClientTypeOK
  <1> SUFFICES ASSUME NEW d \in Clients
               PROVE  /\ phase'[d] \notin {"down", "away"} => rx'[d] >= 1
                      /\ phase'[d] = "snapshotting" => snapSeq'[d] \in 1 .. seq'
    BY DEF HandlersInBounds
  <1> DEFINE Goal ==
        /\ phase'[d] \notin {"down", "away"} => rx'[d] >= 1
        /\ phase'[d] = "snapshotting" => snapSeq'[d] \in 1 .. seq'
  <1>1. ASSUME phase'[d] = phase[d] \/ phase'[d] \in {"live", "closed", "leaving"},
               phase'[d] \in {"down", "away"} \/ phase[d] \notin {"down", "away"},
               rx'[d] >= rx[d], snapSeq'[d] = snapSeq[d]
        PROVE  Goal
    <2>1. /\ phase[d] \notin {"down", "away"} => rx[d] >= 1
          /\ phase[d] = "snapshotting" => snapSeq[d] \in 1 .. seq
      BY <1>a DEF HandlersInBounds
    <2>2. phase'[d] \notin {"down", "away"} => rx'[d] >= 1
      <3>1. CASE phase'[d] \notin {"down", "away"}
        BY <1>1, <1>a, <2>1, <3>1
      <3> QED
        BY <3>1
    <2> QED
      BY <1>1, <1>a, <2>1, <2>2
  <1>2. CASE UNCHANGED <<phase, rx, snapSeq>>
    BY <1>1, <1>2, <1>a
  <1>3. ASSUME NEW c \in Clients, Handle(c) PROVE Goal
    <2>1. CASE Subscribe(c)
      <3>1. CASE c = d
        <4>1. rx'[d] = Len(tx) + 1 /\ phase'[d] = "subscribed"
          BY <1>a, <2>1, <3>1 DEF Subscribe
        <4> QED
          BY <1>a, <4>1
      <3>2. CASE c # d
        BY <1>1, <1>a, <2>1, <3>2 DEF Subscribe
      <3> QED
        BY <3>1, <3>2
    <2>2. CASE ReadSeq(c)
      <3>1. CASE c = d
        <4>1. snapSeq'[d] = seq /\ phase[d] = "subscribed" /\ rx' = rx
          BY <1>a, <2>2, <3>1 DEF ReadSeq
        <4>2. rx[d] >= 1
          BY <1>a, <4>1 DEF HandlersInBounds
        <4>3. snapSeq'[d] \in 1 .. seq'
          BY <1>a, <4>1
        <4> QED
          BY <4>1, <4>2, <4>3
      <3>2. CASE c # d
        BY <1>1, <1>a, <2>2, <3>2 DEF ReadSeq
      <3> QED
        BY <3>1, <3>2
    <2>3. CASE Resume(c)
      <3>1. CASE c = d
        <4>1. /\ phase[d] = "subscribed" /\ phase'[d] = "replaying"
              /\ rx' = rx
          BY <1>a, <2>3, <3>1 DEF Resume
        <4> QED
          BY <1>a, <4>1 DEF HandlersInBounds
      <3>2. CASE c # d
        BY <1>1, <1>a, <2>3, <3>2 DEF Resume
      <3> QED
        BY <3>1, <3>2
    <2>4. CASE EndReplay(c)
      BY <1>1, <1>a, <2>4 DEF EndReplay
    <2>5. CASE SendReplayed(c)
      BY <1>2, <2>5 DEF SendReplayed
    <2>6. CASE SendSnapshot(c)
      BY <1>1, <1>a, <2>6 DEF SendSnapshot
    <2>7. CASE Pump(c)
      BY <1>1, <1>a, <2>7 DEF Pump
    <2>8. CASE Lagged(c)
      BY <1>1, <1>a, <2>8 DEF Lagged
    <2> QED
      BY <1>3, <2>1, <2>2, <2>3, <2>4, <2>5, <2>6, <2>7, <2>8 DEF Handle
  <1>4. ASSUME NEW c \in Clients, Gone(c) PROVE Goal
    <2>1. CASE c = d
      BY <1>a, <1>4, <2>1 DEF Gone, Hangup, AcceptChanged, Detach
    <2>2. CASE c # d
      BY <1>1, <1>a, <1>4, <2>2 DEF Gone, Hangup, AcceptChanged, Detach
    <2> QED
      BY <2>1, <2>2
  <1>5. ASSUME NEW c \in Clients, Refuse(c) \/ Leave(c) PROVE Goal
    BY <1>1, <1>a, <1>5 DEF Refuse, Leave
  <1>6. ASSUME NEW c \in Clients, Receive(c) \/ Drop(c) PROVE Goal
    <2>1. Gone(c) \/ UNCHANGED <<phase, rx, snapSeq>>
      BY <1>6 DEF Receive, Drop, ReceiveSnapshot, AcceptDelta,
                  AcceptError, DropDuplicate, CloseOnGap, EndOfStream, Gone
    <2> QED
      BY <1>2, <1>4, <2>1
  <1>7. CASE UNCHANGED clientVars
    BY <1>2, <1>7 DEF clientVars
  <1> QED
    BY <1>3, <1>5, <1>6, <1>7 DEF Next, vars

(***************************************************************************)
(* The frame at the head of a socket.                                      *)
(***************************************************************************)
LEMMA ArrivedFrame ==
  ASSUME FanoutInv, NEW c \in Clients, wire[c] # <<>>
  PROVE  /\ Head(wire[c]) \in Frames
         /\ Head(wire[c]) = wire[c][1]
         /\ Len(wire[c]) \in Nat \ {0}
         /\ Faithful(Head(wire[c]))
  <1>1. wire[c] \in Seq(Frames)
    BY DEF FanoutInv, ClientTypeOK
  <1>2. Len(wire[c]) \in Nat \ {0}
    BY <1>1, EmptySeq
  <1>3. Head(wire[c]) \in Frames /\ Head(wire[c]) = wire[c][1]
    BY <1>1, HeadTailProperties
  <1>4. Faithful(wire[c][1])
    BY <1>2 DEF FanoutInv, FramesFaithful
  <1> QED
    BY <1>2, <1>3, <1>4

LEMMA ClientsInBoundsStep ==
  ASSUME FanoutInv, [Next]_vars
  PROVE  ClientsInBounds'
  <1>a. /\ ClientsInBounds
        /\ seq \in Nat /\ seq' \in Nat /\ seq' >= seq
        /\ store \in [Paths -> Nat] /\ store' \in [Paths -> Nat]
        /\ \A p \in Paths : store'[p] >= store[p]
        /\ last \in [Clients -> Nat] /\ view \in [Clients -> [Paths -> Nat]]
    BY NextIsSceneStep, SceneGrows, SceneTypeStep
       DEF FanoutInv, SceneInv, SceneTypeOK, ClientTypeOK
  <1> SUFFICES ASSUME NEW d \in Clients
               PROVE  /\ last'[d] <= seq'
                      /\ \A p \in Paths : view'[d][p] <= store'[p]
    BY DEF ClientsInBounds
  <1> DEFINE Goal ==
        /\ last'[d] <= seq'
        /\ \A p \in Paths : view'[d][p] <= store'[p]
  <1>1. /\ last[d] <= seq'
        /\ \A p \in Paths : view[d][p] <= store'[p]
    BY <1>a DEF ClientsInBounds
  <1>2. ASSUME last'[d] = last[d] \/ last'[d] = 0, view'[d] = view[d]
        PROVE  Goal
    BY <1>1, <1>2, <1>a
  <1>3. ASSUME NEW c \in Clients, ReceiveSnapshot(c) PROVE Goal
    <2>1. CASE c = d
      <3> DEFINE f == Head(wire[d])
      <3>1. f \in Frames /\ f.kind = "snapshot" /\ Faithful(f)
        BY <1>3, <2>1, ArrivedFrame DEF ReceiveSnapshot, Arrived
      <3>2. /\ f.seq \in 1 .. seq /\ f.state \in [Paths -> Nat]
            /\ \A p \in Paths : f.state[p] <= store[p]
        BY <3>1, FrameFields DEF Faithful
      <3>3. last'[d] = f.seq /\ view'[d] = f.state
        BY <1>3, <1>a, <2>1, <3>2 DEF ReceiveSnapshot, AfterSnapshot
      <3> QED
        BY <1>a, <3>2, <3>3
    <2>2. CASE c # d
      BY <1>2, <1>3, <1>a, <2>2 DEF ReceiveSnapshot
    <2> QED
      BY <2>1, <2>2
  <1>4. ASSUME NEW c \in Clients, AcceptDelta(c) PROVE Goal
    <2>1. CASE c = d
      <3> DEFINE f == Head(wire[d])
      <3>1. f \in Frames /\ f.kind = "delta" /\ Faithful(f)
        BY <1>4, <2>1, ArrivedFrame DEF AcceptDelta, Arrived
      <3>2. /\ f.seq \in 1 .. seq /\ log[f.seq].paths = f.paths
            /\ log[f.seq].id = f.id /\ f.paths \subseteq Paths /\ f.id \in Nat
        BY <3>1, FrameFields DEF Faithful, Logged
      <3>3. \A p \in f.paths : store[p] >= f.id
        BY <3>2 DEF FanoutInv, SceneInv, StoreReflectsLog, Reflects
      <3>4. last'[d] = f.seq \/ last'[d] = last[d]
        BY <1>4, <1>a, <2>1 DEF AcceptDelta, AfterSeq
      <3>5. view'[d] = Overwrite(view[d], f.paths, f.id)
        BY <1>4, <1>a, <2>1 DEF AcceptDelta
      <3>6. \A p \in Paths : view'[d][p] <= store'[p]
        BY <1>1, <1>a, <3>2, <3>3, <3>5 DEF Overwrite
      <3> QED
        BY <1>1, <1>a, <3>2, <3>4, <3>6
    <2>2. CASE c # d
      BY <1>2, <1>4, <1>a, <2>2 DEF AcceptDelta
    <2> QED
      BY <2>1, <2>2
  <1>5. ASSUME NEW c \in Clients, AcceptError(c) PROVE Goal
    <2>1. CASE c = d
      <3> DEFINE f == Head(wire[d])
      <3>1. f.seq \in 1 .. seq
        BY <1>5, <2>1, ArrivedFrame DEF AcceptError, Arrived, Faithful
      <3>2. last'[d] = f.seq \/ last'[d] = last[d]
        BY <1>5, <1>a, <2>1 DEF AcceptError, AfterSeq
      <3>3. view' = view
        BY <1>5 DEF AcceptError
      <3> QED
        BY <1>1, <1>a, <3>1, <3>2, <3>3
    <2>2. CASE c # d
      BY <1>2, <1>5, <1>a, <2>2 DEF AcceptError
    <2> QED
      BY <2>1, <2>2
  <1>6. ASSUME NEW c \in Clients, Gone(c) PROVE Goal
    BY <1>2, <1>6, <1>a DEF Gone, Hangup, AcceptChanged, Detach
  <1>7. CASE UNCHANGED <<last, view>>
    BY <1>2, <1>7
  <1>8. ASSUME NEW c \in Clients, Handle(c) \/ Refuse(c) \/ Leave(c)
        PROVE  Goal
    <2>1. UNCHANGED <<last, view>>
      BY <1>8 DEF Handle, Refuse, Leave, Subscribe, Resume, SendReplayed, EndReplay,
                  ReadSeq, SendSnapshot, Pump, Lagged
    <2> QED
      BY <1>7, <2>1
  <1>9. ASSUME NEW c \in Clients, Receive(c) \/ Drop(c) PROVE Goal
    <2>1. CASE Gone(c) \/ UNCHANGED <<last, view>>
      BY <1>6, <1>7, <2>1
    <2> QED
      BY <1>3, <1>4, <1>5, <1>9, <2>1
         DEF Receive, Drop, DropDuplicate, CloseOnGap, EndOfStream, Gone
  <1>10. CASE UNCHANGED clientVars
    BY <1>7, <1>10 DEF clientVars
  <1> QED
    BY <1>8, <1>9, <1>10 DEF Next, vars

-----------------------------------------------------------------------------
(* The snapshot is the first frame of its connection.                      *)

LEMMA SnapshotComesFirstStep ==
  ASSUME FanoutInv, [Next]_vars
  PROVE  SnapshotComesFirst'
  <1>a. /\ SnapshotComesFirst /\ ClientsInBounds /\ HandlersInBounds
        /\ SceneInv /\ ClientTypeOK /\ BacklogLogged
        /\ seq \in Nat
        /\ store \in [Paths -> Nat]
        /\ phase \in [Clients -> Phases]
        /\ snapSeq \in [Clients -> Nat] /\ last \in [Clients -> Nat]
        /\ wire \in [Clients -> Seq(Frames)]
    BY DEF FanoutInv, SceneInv, SceneTypeOK, ClientTypeOK
  <1> SUFFICES ASSUME NEW d \in Clients
               PROVE  /\ phase'[d] \in {"down", "subscribed", "snapshotting",
                                        "away"} => wire'[d] = <<>>
                      /\ phase'[d] = "snapshotting" => snapSeq'[d] >= last'[d]
                      /\ \A i \in 1 .. Len(wire'[d]) :
                           wire'[d][i].kind = "snapshot" =>
                               i = 1 /\ wire'[d][i].seq >= last'[d]
    BY DEF SnapshotComesFirst
  <1> DEFINE Goal ==
        /\ phase'[d] \in {"down", "subscribed", "snapshotting", "away"} =>
             wire'[d] = <<>>
        /\ phase'[d] = "snapshotting" => snapSeq'[d] >= last'[d]
        /\ \A i \in 1 .. Len(wire'[d]) :
             wire'[d][i].kind = "snapshot" =>
                 i = 1 /\ wire'[d][i].seq >= last'[d]
  <1>b. /\ phase[d] \in {"down", "subscribed", "snapshotting", "away"} =>
             wire[d] = <<>>
        /\ phase[d] = "snapshotting" => snapSeq[d] >= last[d]
        /\ \A i \in 1 .. Len(wire[d]) :
             wire[d][i].kind = "snapshot" =>
                 i = 1 /\ wire[d][i].seq >= last[d]
    BY <1>a DEF SnapshotComesFirst
  <1>1. ASSUME phase'[d] = phase[d], snapSeq'[d] = snapSeq[d],
               wire'[d] = wire[d], last'[d] = last[d]
        PROVE  Goal
    BY <1>1, <1>b
  <1>2. ASSUME Gone(d) PROVE Goal
    <2>1. phase'[d] \in {"down", "away"} /\ wire'[d] = <<>>
      BY <1>2, <1>a DEF Gone, Hangup, AcceptChanged, Detach
    <2>2. Len(wire'[d]) = 0
      BY <2>1, EmptySeq
    <2> QED
      BY <2>1, <2>2
  <1>3. ASSUME NEW f \in Frames, f.kind # "snapshot", Emit(d, f),
               phase'[d] \in {"replaying", "live", "closed", "leaving"},
               last'[d] = last[d]
        PROVE  Goal
    <2>1. /\ Len(wire[d]) \in Nat
          /\ Len(wire'[d]) = Len(wire[d]) + 1
          /\ \A i \in 1 .. Len(wire[d]) : wire'[d][i] = wire[d][i]
          /\ wire'[d][Len(wire[d]) + 1] = f
      BY <1>3, <1>a, EmitFacts
    <2>2. ASSUME NEW i \in 1 .. Len(wire'[d]), wire'[d][i].kind = "snapshot"
          PROVE  i = 1 /\ wire'[d][i].seq >= last'[d]
      <3>1. i \in 1 .. Len(wire[d])
        BY <1>3, <2>1, <2>2
      <3> QED
        BY <1>3, <1>b, <2>1, <2>2, <3>1
    <2> QED
      BY <1>3, <2>2
  <1>4. ASSUME wire[d] # <<>>, Consume(d), phase'[d] = phase[d]
        PROVE  Goal
    <2>1. /\ Len(wire[d]) \in Nat \ {0}
          /\ Len(wire'[d]) = Len(wire[d]) - 1
          /\ \A i \in 1 .. Len(wire'[d]) : wire'[d][i] = wire[d][i + 1]
      BY <1>4, <1>a, ConsumeFacts
    <2>2. \A i \in 1 .. Len(wire'[d]) : wire'[d][i].kind # "snapshot"
      <3> SUFFICES ASSUME NEW i \in 1 .. Len(wire'[d]),
                          wire'[d][i].kind = "snapshot"
                   PROVE  FALSE
        OBVIOUS
      <3>1. i + 1 \in 1 .. Len(wire[d]) /\ wire[d][i + 1].kind = "snapshot"
        BY <2>1
      <3>2. i + 1 = 1
        BY <1>b, <3>1
      <3> QED
        BY <3>2
    <2>3. phase[d] \notin {"down", "subscribed", "snapshotting", "away"}
      BY <1>4, <1>b
    <2> QED
      BY <1>4, <2>2, <2>3
  <1> HIDE DEF Goal
  <1>5. ASSUME NEW c \in Clients, c # d,
               Handle(c) \/ Receive(c) \/ Refuse(c) \/ Leave(c) \/ Drop(c)
        PROVE  Goal
    <2>1. /\ phase'[d] = phase[d] /\ snapSeq'[d] = snapSeq[d]
          /\ wire'[d] = wire[d] /\ last'[d] = last[d]
      BY <1>5, <1>a
         DEF Handle, Receive, Refuse, Leave, Drop, Subscribe, Resume,
             SendReplayed, EndReplay, ReadSeq, SendSnapshot, Pump, Lagged,
             ReceiveSnapshot, AcceptDelta, AcceptError, AcceptChanged,
             DropDuplicate, CloseOnGap, EndOfStream, Hangup, Detach, Emit,
             Consume
    <2> QED
      BY <1>1, <2>1
  <1>6. ASSUME Handle(d) PROVE Goal
    <2>1. CASE Subscribe(d) \/ ReadSeq(d) \/ Resume(d) \/ EndReplay(d)
      <3>1. /\ wire' = wire /\ last' = last
            /\ phase'[d] \in {"subscribed", "snapshotting"} => wire[d] = <<>>
            /\ phase'[d] \in {"subscribed", "snapshotting", "replaying", "live"}
        BY <1>a, <1>b, <2>1 DEF Subscribe, ReadSeq, Resume, EndReplay
      <3>2. phase'[d] = "snapshotting" => snapSeq'[d] = seq
        BY <1>a, <2>1 DEF Subscribe, ReadSeq, Resume, EndReplay
      <3>3. last[d] <= seq
        BY <1>a DEF ClientsInBounds
      <3> QED
        BY <1>a, <1>b, <3>1, <3>2, <3>3 DEF Goal
    <2>2. CASE SendReplayed(d)
      <3>1. /\ phase'[d] = "replaying" /\ phase' = phase /\ last' = last
            /\ snapSeq' = snapSeq
        BY <2>2 DEF SendReplayed
      <3>2. CASE wire' = wire
        BY <1>1, <3>1, <3>2
      <3>3. CASE Emit(d, DeltaFrame(Head(backlog[d])))
        <4>1. Head(backlog[d]) \in Payloads
          BY <1>a, <2>2, BacklogHead DEF SendReplayed
        <4>2. /\ DeltaFrame(Head(backlog[d])) \in Frames
              /\ DeltaFrame(Head(backlog[d])).kind # "snapshot"
          BY <4>1, DeltaFrameFields
        <4> QED
          BY <1>3, <3>1, <3>3, <4>2
      <3> QED
        BY <2>2, <3>2, <3>3 DEF SendReplayed
    <2>3. CASE SendSnapshot(d)
      <3> DEFINE f == SnapshotFrame(snapSeq[d], store)
      <3>1. /\ phase[d] = "snapshotting" /\ phase'[d] = "live"
            /\ Emit(d, f) /\ last' = last
        BY <1>a, <2>3 DEF SendSnapshot
      <3>2. f \in Frames /\ f.seq = snapSeq[d]
        BY <1>a, SnapshotFrameFields
      <3> HIDE DEF f
      <3>3. Len(wire[d]) = 0
        BY <1>b, <3>1, EmptySeq
      <3>4. Len(wire'[d]) = 1 /\ wire'[d][1] = f
        <4>1. /\ Len(wire'[d]) = Len(wire[d]) + 1
              /\ wire'[d][Len(wire[d]) + 1] = f
          BY <1>a, <3>1, <3>2, EmitFacts
        <4>2. Len(wire[d]) + 1 = 1
          BY <3>3
        <4> QED
          BY <4>1, <4>2
      <3>5. f.seq >= last[d]
        BY <1>b, <3>1, <3>2
      <3> QED
        BY <3>1, <3>4, <3>5 DEF Goal
    <2>4. CASE Pump(d)
      <3>1. tx[rx[d]] \in Payloads
        BY <1>a, <2>4, PumpedIsLogged
      <3>2. /\ DeltaFrame(tx[rx[d]]) \in Frames
            /\ DeltaFrame(tx[rx[d]]).kind # "snapshot"
        BY <3>1, DeltaFrameFields
      <3>3. /\ Emit(d, DeltaFrame(tx[rx[d]])) /\ phase'[d] = "live"
            /\ last' = last
        BY <2>4 DEF Pump
      <3> QED
        BY <1>3, <3>2, <3>3
    <2>5. CASE Lagged(d)
      <3>1. ErrorFrame(seq) \in Frames /\ ErrorFrame(seq).kind # "snapshot"
        BY <1>a, ErrorFrameFields
      <3>2. Emit(d, ErrorFrame(seq)) /\ phase'[d] = "closed" /\ last' = last
        BY <1>a, <2>5 DEF Lagged
      <3> QED
        BY <1>3, <3>1, <3>2
    <2> QED
      BY <1>6, <2>1, <2>2, <2>3, <2>4, <2>5 DEF Handle
  <1>7. ASSUME Refuse(d) PROVE Goal
    <2>1. ErrorFrame(seq) \in Frames /\ ErrorFrame(seq).kind # "snapshot"
      BY <1>a, ErrorFrameFields
    <2>2. /\ Emit(d, ErrorFrame(seq)) /\ phase'[d] \in {"live", "closed"}
          /\ last' = last
      BY <1>a, <1>7 DEF Refuse
    <2> QED
      BY <1>3, <2>1, <2>2
  <1>8. ASSUME Receive(d) \/ Drop(d) PROVE Goal
    <2>1. CASE CloseOnGap(d) \/ EndOfStream(d) \/ AcceptChanged(d) \/ Drop(d)
      BY <1>2, <2>1 DEF CloseOnGap, EndOfStream, Drop, Gone
    <2>2. CASE ReceiveSnapshot(d) \/ AcceptDelta(d) \/ AcceptError(d)
               \/ DropDuplicate(d)
      BY <1>4, <2>2 DEF ReceiveSnapshot, AcceptDelta, AcceptError,
                        DropDuplicate, Counted, Arrived
    <2> QED
      BY <1>8, <2>1, <2>2 DEF Receive
  <1>9. ASSUME UNCHANGED clientVars PROVE Goal
    <2>1. /\ phase'[d] = phase[d] /\ snapSeq'[d] = snapSeq[d]
          /\ wire'[d] = wire[d] /\ last'[d] = last[d]
      BY <1>9 DEF clientVars
    <2> QED
      BY <1>1, <2>1
  <1>10. ASSUME Leave(d) PROVE Goal
    <2>1. /\ ChangedFrame(seq + 1) \in Frames
          /\ ChangedFrame(seq + 1).kind # "snapshot"
      BY <1>a, ChangedFrameFields
    <2>2. /\ Emit(d, ChangedFrame(seq + 1)) /\ phase'[d] = "leaving"
          /\ last' = last
      BY <1>a, <1>10 DEF Leave
    <2> QED
      BY <1>3, <2>1, <2>2
  <1> QED
    BY <1>5, <1>6, <1>7, <1>8, <1>9, <1>10 DEF Next, vars, Goal

(***************************************************************************)
(* A fresh client starts from a snapshot: a delta or an error can never be *)
(* its tracker's baseline.                                                 *)
(***************************************************************************)
LEMMA BaselineStep ==
  ASSUME FanoutInv, [Next]_vars
  PROVE  BaselineIsSnapshot'
  <1>a. /\ BaselineIsSnapshot /\ BacklogLogged /\ HandlersInBounds
        /\ SceneInv /\ ClientTypeOK
        /\ seq \in Nat
        /\ store \in [Paths -> Nat]
        /\ phase \in [Clients -> Phases]
        /\ since \in [Clients -> Nat] /\ snapSeq \in [Clients -> Nat]
        /\ last \in [Clients -> Nat]
        /\ wire \in [Clients -> Seq(Frames)]
    BY DEF FanoutInv, SceneInv, SceneTypeOK, ClientTypeOK
  <1> SUFFICES ASSUME NEW d \in Clients, last'[d] = 0
               PROVE  /\ phase'[d] # "replaying"
                      /\ phase'[d] = "subscribed" => since'[d] = 0
                      /\ phase'[d] \in {"live", "closed", "leaving"} =>
                           wire'[d] # <<>> /\ wire'[d][1].kind = "snapshot"
    BY DEF BaselineIsSnapshot
  <1> DEFINE Goal ==
        /\ phase'[d] # "replaying"
        /\ phase'[d] = "subscribed" => since'[d] = 0
        /\ phase'[d] \in {"live", "closed", "leaving"} =>
             wire'[d] # <<>> /\ wire'[d][1].kind = "snapshot"
  <1>b. ASSUME last[d] = 0
        PROVE  /\ phase[d] # "replaying"
               /\ phase[d] = "subscribed" => since[d] = 0
               /\ phase[d] \in {"live", "closed", "leaving"} =>
                    wire[d] # <<>> /\ wire[d][1].kind = "snapshot"
    BY <1>a, <1>b DEF BaselineIsSnapshot
  <1>1. ASSUME phase'[d] = phase[d], since'[d] = since[d],
               wire'[d] = wire[d], last'[d] = last[d]
        PROVE  Goal
    BY <1>1, <1>b
  <1>2. ASSUME Gone(d) PROVE Goal
    BY <1>2, <1>a DEF Gone, Hangup, AcceptChanged, Detach
  <1>3. ASSUME phase[d] = "live", NEW f \in Frames, Emit(d, f),
               phase'[d] \in {"live", "closed", "leaving"}, last'[d] = last[d]
        PROVE  Goal
    <2>1. /\ wire[d] \in Seq(Frames) /\ wire[d] # <<>>
          /\ wire[d][1].kind = "snapshot"
      BY <1>3, <1>a, <1>b
    <2>2. Len(wire[d]) \in Nat \ {0}
      BY <2>1, EmptySeq
    <2>3. /\ \A i \in 1 .. Len(wire[d]) : wire'[d][i] = wire[d][i]
          /\ Len(wire'[d]) = Len(wire[d]) + 1
      BY <1>3, <1>a, EmitFacts
    <2>4. wire'[d][1] = wire[d][1]
      BY <2>2, <2>3
    <2>5. wire'[d] # <<>>
      BY <2>2, <2>3, EmptySeq
    <2> QED
      BY <1>3, <2>1, <2>4, <2>5
  <1>4. ASSUME wire[d] # <<>>, AcceptDelta(d) \/ AcceptError(d)
        PROVE  FALSE
    <2>1. Head(wire[d]).seq \in 1 .. seq
      BY <1>4, ArrivedFrame DEF Faithful
    <2>2. Observed(d) = "accepted"
      BY <1>4 DEF AcceptDelta, AcceptError
    <2>3. last'[d] = Head(wire[d]).seq
      BY <1>4, <1>a, <2>2 DEF AcceptDelta, AcceptError, AfterSeq, Observed
    <2> QED
      BY <1>a, <2>1, <2>3
  <1> HIDE DEF Goal
  <1>5. ASSUME NEW c \in Clients, c # d,
               Handle(c) \/ Receive(c) \/ Refuse(c) \/ Leave(c) \/ Drop(c)
        PROVE  Goal
    <2>1. /\ phase'[d] = phase[d] /\ since'[d] = since[d]
          /\ wire'[d] = wire[d] /\ last'[d] = last[d]
      BY <1>5, <1>a
         DEF Handle, Receive, Refuse, Leave, Drop, Subscribe, Resume,
             SendReplayed, EndReplay, ReadSeq, SendSnapshot, Pump, Lagged,
             ReceiveSnapshot, AcceptDelta, AcceptError, AcceptChanged,
             DropDuplicate, CloseOnGap, EndOfStream, Hangup, Detach, Emit,
             Consume
    <2> QED
      BY <1>1, <2>1
  <1>6. ASSUME Handle(d) PROVE Goal
    <2>a. last'[d] = last[d] /\ last[d] = 0
      BY <1>6 DEF Handle, Subscribe, Resume, SendReplayed, EndReplay, ReadSeq,
                  SendSnapshot, Pump, Lagged
    <2>1. CASE Subscribe(d)
      BY <1>a, <2>a, <2>1 DEF Subscribe, Goal
    <2>2. CASE Resume(d) \/ SendReplayed(d) \/ EndReplay(d)
      BY <1>b, <2>a, <2>2 DEF Resume, Resumable, SendReplayed, EndReplay
    <2>3. CASE ReadSeq(d)
      BY <1>a, <2>3 DEF ReadSeq, Goal
    <2>4. CASE SendSnapshot(d)
      <3> DEFINE f == SnapshotFrame(snapSeq[d], store)
      <3>1. phase[d] = "snapshotting" /\ phase'[d] = "live" /\ Emit(d, f)
        BY <1>a, <2>4 DEF SendSnapshot
      <3>2. f \in Frames /\ f.kind = "snapshot"
        BY <1>a, SnapshotFrameFields
      <3> HIDE DEF f
      <3>3. wire[d] = <<>>
        BY <3>1 DEF FanoutInv, SnapshotComesFirst
      <3>4. Len(wire[d]) = 0
        BY <3>3, EmptySeq
      <3>5. /\ Len(wire'[d]) = Len(wire[d]) + 1
            /\ wire'[d][Len(wire[d]) + 1] = f
        BY <1>a, <3>1, <3>2, EmitFacts
      <3>6. Len(wire[d]) + 1 = 1
        BY <3>4
      <3>7. wire'[d] # <<>> /\ wire'[d][1] = f
        BY <3>5, <3>6, EmptySeq
      <3> QED
        BY <3>1, <3>2, <3>7 DEF Goal
    <2>5. CASE Pump(d)
      <3>1. DeltaFrame(tx[rx[d]]) \in Frames
        BY <1>a, <2>5, PumpedIsLogged, DeltaFrameFields
      <3>2. /\ Emit(d, DeltaFrame(tx[rx[d]])) /\ phase[d] = "live"
            /\ phase'[d] = "live"
        BY <2>5 DEF Pump
      <3> QED
        BY <1>3, <2>a, <3>1, <3>2
    <2>6. CASE Lagged(d)
      <3>1. ErrorFrame(seq) \in Frames
        BY <1>a, ErrorFrameFields
      <3>2. /\ Emit(d, ErrorFrame(seq)) /\ phase[d] = "live"
            /\ phase'[d] = "closed"
        BY <1>a, <2>6 DEF Lagged
      <3> QED
        BY <1>3, <2>a, <3>1, <3>2
    <2> QED
      BY <1>6, <2>1, <2>2, <2>3, <2>4, <2>5, <2>6 DEF Handle
  <1>7. ASSUME Refuse(d) PROVE Goal
    <2>1. ErrorFrame(seq) \in Frames
      BY <1>a, ErrorFrameFields
    <2>2. /\ Emit(d, ErrorFrame(seq)) /\ phase[d] = "live"
          /\ phase'[d] \in {"live", "closed"} /\ last' = last
      BY <1>a, <1>7 DEF Refuse
    <2> QED
      BY <1>3, <2>1, <2>2
  <1>8. ASSUME Receive(d) \/ Drop(d) PROVE Goal
    <2>1. CASE CloseOnGap(d) \/ EndOfStream(d) \/ AcceptChanged(d) \/ Drop(d)
      BY <1>2, <2>1 DEF CloseOnGap, EndOfStream, Drop, Gone
    <2>2. CASE AcceptDelta(d) \/ AcceptError(d)
      BY <1>4, <2>2 DEF AcceptDelta, AcceptError, Arrived
    <2>3. CASE ReceiveSnapshot(d)
      <3>1. Head(wire[d]).seq \in 1 .. seq
        BY <2>3, ArrivedFrame DEF Faithful, ReceiveSnapshot, Arrived
      <3>2. last'[d] = Head(wire[d]).seq
        BY <1>a, <2>3, <3>1 DEF ReceiveSnapshot, AfterSnapshot
      <3> QED
        BY <1>a, <3>1, <3>2
    <2>4. CASE DropDuplicate(d)
      <3>1. wire[d] # <<>> /\ Head(wire[d]).kind # "snapshot" /\ last' = last
            /\ phase' = phase
        BY <2>4 DEF DropDuplicate, Counted, Arrived
      <3>2. wire[d][1].kind # "snapshot"
        BY <3>1, ArrivedFrame
      <3>3. phase[d] \in {"down", "subscribed", "snapshotting", "replaying",
                          "away"}
        BY <1>a, <1>b, <3>1, <3>2 DEF Phases
      <3>4. phase[d] = "replaying"
        BY <3>1, <3>3 DEF FanoutInv, SnapshotComesFirst
      <3> QED
        BY <1>b, <3>1, <3>4
    <2> QED
      BY <1>8, <2>1, <2>2, <2>3, <2>4 DEF Receive
  <1>9. ASSUME UNCHANGED clientVars PROVE Goal
    <2>1. /\ phase'[d] = phase[d] /\ since'[d] = since[d]
          /\ wire'[d] = wire[d] /\ last'[d] = last[d]
      BY <1>9 DEF clientVars
    <2> QED
      BY <1>1, <2>1
  <1>10. ASSUME Leave(d) PROVE Goal
    <2>1. ChangedFrame(seq + 1) \in Frames
      BY <1>a, ChangedFrameFields
    <2>2. /\ Emit(d, ChangedFrame(seq + 1)) /\ phase[d] = "live"
          /\ phase'[d] = "leaving" /\ last' = last
      BY <1>a, <1>10 DEF Leave
    <2> QED
      BY <1>3, <2>1, <2>2
  <1> QED
    BY <1>5, <1>6, <1>7, <1>8, <1>9, <1>10 DEF Next, vars, Goal

-----------------------------------------------------------------------------
(* The invariant, and what follows from it.                                *)

LEMMA FanoutInvInit == Init => FanoutInv
  <1> SUFFICES ASSUME Init PROVE FanoutInv
    OBVIOUS
  <1>1. SceneInv
    BY SceneInvInit DEF Init
  <1>2. ClientTypeOK
    BY ClientTypeInit
  <1>3. \A c \in Clients : Len(wire[c]) = 0 /\ Len(backlog[c]) = 0
    BY EmptySeq DEF Init
  <1>4. FramesFaithful /\ BacklogLogged
    BY <1>3 DEF FramesFaithful, BacklogLogged
  <1>5. HandlersInBounds
    BY DEF Init, HandlersInBounds
  <1>6. ClientsInBounds
    BY DEF Init, SceneInit, ClientsInBounds
  <1>7. SnapshotComesFirst
    BY <1>3 DEF Init, SnapshotComesFirst
  <1>8. BaselineIsSnapshot
    BY DEF Init, BaselineIsSnapshot
  <1> QED
    BY <1>1, <1>2, <1>4, <1>5, <1>6, <1>7, <1>8 DEF FanoutInv

LEMMA FanoutInvStep == FanoutInv /\ [Next]_vars => FanoutInv'
  <1> SUFFICES ASSUME FanoutInv, [Next]_vars PROVE FanoutInv'
    OBVIOUS
  <1>1. SceneInv'
    BY NextIsSceneStep, SceneInvStep DEF FanoutInv
  <1>2. ClientTypeOK'
    BY ClientTypeStep DEF FanoutInv, SceneInv
  <1> QED
    BY <1>1, <1>2, FramesFaithfulStep, BacklogLoggedStep,
       HandlersInBoundsStep, ClientsInBoundsStep, SnapshotComesFirstStep,
       BaselineStep
       DEF FanoutInv

(***************************************************************************)
(* The inductive invariant holds in every reachable state.                 *)
(***************************************************************************)
THEOREM FanoutCorrect == Spec => []FanoutInv
  BY FanoutInvInit, FanoutInvStep, PTL DEF Spec

(***************************************************************************)
(* Type correctness.                                                       *)
(***************************************************************************)
THEOREM TypeCorrect == Spec => []TypeOK
  <1>1. FanoutInv => TypeOK
    BY DEF FanoutInv, SceneInv, TypeOK
  <1> QED
    BY <1>1, FanoutCorrect, PTL

(***************************************************************************)
(* Every snapshot a handler ships holds all writes up to its number, even  *)
(* when writers race on the same leaves.                                   *)
(***************************************************************************)
THEOREM SnapshotsCorrect == Spec => []SnapshotCovers
  <1>1. FanoutInv => SnapshotCovers
    BY DEF FanoutInv, FramesFaithful, Faithful, SnapshotCovers
  <1> QED
    BY <1>1, FanoutCorrect, PTL

-----------------------------------------------------------------------------
(* What a client that counts numbers may conclude, when every leaf has one *)
(* writer.                                                                 *)

LEMMA ViewCoversInit == Init => ViewCovers
  BY DEF Init, ViewCovers, Reflects

(***************************************************************************)
(* An accepted number continues the client's count.                        *)
(***************************************************************************)
LEMMA AcceptedContinues ==
  ASSUME FanoutInv, NEW c \in Clients, Counted(c), Observed(c) = "accepted"
  PROVE  /\ last[c] # 0
         /\ Head(wire[c]).seq = last[c] + 1
         /\ AfterSeq(last[c], Head(wire[c]).seq) = last[c] + 1
         /\ Head(wire[c]) \in Frames
         /\ Faithful(Head(wire[c]))
  <1>a. /\ last \in [Clients -> Nat] /\ phase \in [Clients -> Phases]
        /\ seq \in Nat
    BY DEF FanoutInv, ClientTypeOK, SceneInv, SceneTypeOK
  <1> DEFINE f == Head(wire[c])
  <1>1. wire[c] # <<>> /\ f.kind # "snapshot"
    BY DEF Counted, Arrived
  <1>2. f \in Frames /\ f = wire[c][1] /\ Faithful(f)
    BY <1>1, ArrivedFrame
  <1>3. last[c] # 0
    <2> SUFFICES ASSUME last[c] = 0 PROVE FALSE
      OBVIOUS
    <2>1. phase[c] \in {"replaying", "live", "closed", "leaving"}
      BY <1>a, <1>1 DEF FanoutInv, SnapshotComesFirst, Phases
    <2> QED
      BY <1>1, <1>2, <2>1 DEF FanoutInv, BaselineIsSnapshot
  <1>4. f.seq \in Nat
    BY <1>2, FrameFields
  <1>5. ObserveSeq(last[c], f.seq) = "accepted"
    BY DEF Observed
  <1>6. f.seq = last[c] + 1
    BY <1>a, <1>3, <1>4, <1>5 DEF ObserveSeq
  <1>7. AfterSeq(last[c], f.seq) = f.seq
    BY <1>5 DEF AfterSeq
  <1> QED
    BY <1>2, <1>3, <1>6, <1>7

LEMMA AcceptsContinue ==
  ASSUME FanoutInv, NEW c \in Clients, AcceptDelta(c) \/ AcceptError(c)
  PROVE  /\ last[c] # 0
         /\ Head(wire[c]).seq = last[c] + 1
         /\ last'[c] = last[c] + 1
         /\ Head(wire[c]) \in Frames
         /\ Faithful(Head(wire[c]))
  <1>1. Counted(c) /\ Observed(c) = "accepted"
    BY DEF AcceptDelta, AcceptError, Counted
  <1>2. last'[c] = AfterSeq(last[c], Head(wire[c]).seq)
    BY DEF AcceptDelta, AcceptError, FanoutInv, ClientTypeOK
  <1> QED
    BY <1>1, <1>2, AcceptedContinues

LEMMA ViewCoversStep ==
  ASSUME FanoutInv, NumbersInStoreOrder, ViewCovers, [Next]_vars
  PROVE  ViewCovers'
  <1>a. /\ seq \in Nat
        /\ \A n \in 1 .. seq : log'[n] = log[n]
        /\ \A c \in Clients : last[c] <= seq
        /\ last \in [Clients -> Nat] /\ stolen \in [Clients -> SUBSET Nat]
        /\ view \in [Clients -> [Paths -> Nat]]
    BY NextIsSceneStep, SceneGrows
       DEF FanoutInv, SceneInv, SceneTypeOK, ClientTypeOK, ClientsInBounds
  <1> SUFFICES ASSUME NEW d \in Clients,
                      NEW n \in (1 .. last'[d]) \ stolen'[d],
                      NEW p \in log'[n].paths
               PROVE  view'[d][p] >= log'[n].id
    BY DEF ViewCovers, Reflects
  <1>1. ASSUME n \in 1 .. last[d], n \notin stolen[d], view'[d] = view[d]
        PROVE  view'[d][p] >= log'[n].id
    <2>1. n \in 1 .. seq
      BY <1>1, <1>a
    <2>2. p \in log[n].paths /\ log'[n] = log[n]
      BY <1>a, <2>1
    <2>3. view[d][p] >= log[n].id
      BY <1>1, <2>2 DEF ViewCovers, Reflects
    <2> QED
      BY <1>1, <2>2, <2>3
  <1>2. ASSUME UNCHANGED <<last, stolen, view>>
        PROVE  view'[d][p] >= log'[n].id
    BY <1>1, <1>2
  <1>3. ASSUME NEW c \in Clients, c # d, Receive(c) \/ Drop(c)
        PROVE  view'[d][p] >= log'[n].id
    <2>1. last'[d] = last[d] /\ stolen'[d] = stolen[d] /\ view'[d] = view[d]
      BY <1>3, <1>a DEF Receive, Drop, ReceiveSnapshot, AcceptDelta,
                        AcceptError, AcceptChanged, DropDuplicate, CloseOnGap,
                        EndOfStream, Hangup, Detach
    <2> QED
      BY <1>1, <2>1
  <1>4. ASSUME ReceiveSnapshot(d)
        PROVE  view'[d][p] >= log'[n].id
    <2> DEFINE f == Head(wire[d])
    <2>1. f \in Frames /\ f.kind = "snapshot" /\ Faithful(f)
      BY <1>4, ArrivedFrame DEF ReceiveSnapshot, Arrived
    <2>2. f.seq \in 1 .. seq /\ Reflects(f.state, 1 .. f.seq)
      BY <2>1 DEF Faithful
    <2>3. last'[d] = f.seq /\ view'[d] = f.state
      BY <1>4, <1>a, <2>2 DEF ReceiveSnapshot, AfterSnapshot
    <2>4. n \in 1 .. f.seq /\ n \in 1 .. seq
      BY <1>a, <2>2, <2>3
    <2> QED
      BY <1>a, <2>2, <2>3, <2>4 DEF Reflects
  <1>5. ASSUME AcceptDelta(d)
        PROVE  view'[d][p] >= log'[n].id
    <2> DEFINE f == Head(wire[d])
    <2>1. /\ f.seq = last[d] + 1 /\ last'[d] = last[d] + 1
          /\ f \in Frames /\ Faithful(f)
      BY <1>5, AcceptsContinue
    <2>2. f.kind = "delta"
      BY <1>5 DEF AcceptDelta, Arrived
    <2>3. /\ f.seq \in 1 .. seq /\ log[f.seq].paths = f.paths
          /\ log[f.seq].id = f.id /\ f.id \in Nat
      BY <2>1, <2>2, FrameFields DEF Faithful, Logged
    <2>4. view'[d] = Overwrite(view[d], f.paths, f.id) /\ stolen' = stolen
      BY <1>5, <1>a DEF AcceptDelta
    <2>a. n \in 1 .. last[d] + 1 /\ last[d] \in Nat
      BY <1>a, <2>1
    <2>5. n \in 1 .. seq /\ log'[n] = log[n]
      BY <1>a, <2>1, <2>3
    <2>6. p \in Paths /\ log[n].id \in Nat
      BY <2>5, LogTyped DEF FanoutInv, SceneInv
    <2>7. CASE p \in f.paths
      <3>1. view'[d][p] = log[f.seq].id
        BY <2>3, <2>4, <2>6, <2>7 DEF Overwrite
      <3>2. CASE n = f.seq
        BY <2>3, <2>5, <3>1, <3>2
      <3>3. CASE n # f.seq
        <4>1. n < f.seq
          BY <2>a, <2>1, <3>3
        <4>2. p \in log[n].paths \cap log[f.seq].paths
          BY <2>3, <2>5, <2>7
        <4>3. log[n].id <= log[f.seq].id
          BY <2>3, <2>5, <4>1, <4>2 DEF NumbersInStoreOrder
        <4> QED
          BY <2>3, <2>5, <2>6, <3>1, <4>3
      <3> QED
        BY <3>2, <3>3
    <2>8. CASE p \notin f.paths
      <3>1. n # f.seq
        BY <2>3, <2>5, <2>8
      <3>2. n \in 1 .. last[d] /\ n \notin stolen[d]
        BY <1>a, <2>1, <2>4, <3>1
      <3>3. view[d][p] >= log[n].id
        BY <2>5, <3>2 DEF ViewCovers, Reflects
      <3>4. view'[d][p] = view[d][p]
        BY <2>4, <2>6, <2>8 DEF Overwrite
      <3> QED
        BY <2>5, <3>3, <3>4
    <2> QED
      BY <2>7, <2>8
  <1>6. ASSUME AcceptError(d)
        PROVE  view'[d][p] >= log'[n].id
    <2>1. Head(wire[d]).seq = last[d] + 1 /\ last'[d] = last[d] + 1
      BY <1>6, AcceptsContinue
    <2>2. /\ stolen'[d] = stolen[d] \cup {last[d] + 1}
          /\ view' = view
      BY <1>6, <1>a, <2>1 DEF AcceptError
    <2>3. n \in 1 .. last[d] /\ n \notin stolen[d]
      BY <1>a, <2>1, <2>2
    <2> QED
      BY <1>1, <2>2, <2>3
  <1>7. ASSUME Gone(d)
        PROVE  view'[d][p] >= log'[n].id
    <2>1. /\ \/ last'[d] = last[d] /\ stolen'[d] = stolen[d]
             \/ last'[d] = 0
          /\ view' = view
      BY <1>7, <1>a DEF Gone, Hangup, AcceptChanged, Detach
    <2>2. last'[d] = last[d] /\ stolen'[d] = stolen[d]
      BY <2>1
    <2> QED
      BY <1>1, <2>1, <2>2
  <1>8. ASSUME NEW c \in Clients, Handle(c) \/ Refuse(c) \/ Leave(c)
        PROVE  view'[d][p] >= log'[n].id
    <2>1. UNCHANGED <<last, stolen, view>>
      BY <1>8 DEF Handle, Refuse, Leave, Subscribe, Resume, SendReplayed, EndReplay,
                  ReadSeq, SendSnapshot, Pump, Lagged
    <2> QED
      BY <1>2, <2>1
  <1>9. ASSUME Receive(d) \/ Drop(d)
        PROVE  view'[d][p] >= log'[n].id
    <2>1. CASE Gone(d) \/ UNCHANGED <<last, stolen, view>>
      BY <1>2, <1>7, <2>1
    <2> QED
      BY <1>4, <1>5, <1>6, <1>9, <2>1
         DEF Receive, Drop, DropDuplicate, CloseOnGap, EndOfStream, Gone
  <1>10. CASE UNCHANGED clientVars
    BY <1>2, <1>10 DEF clientVars
  <1> QED
    BY <1>3, <1>8, <1>9, <1>10 DEF Next, vars

(***************************************************************************)
(* Scene steps and client steps keep the order of numbers.                 *)
(***************************************************************************)
LEMMA ViewInvariant ==
  ASSUME DisjointWriters
  PROVE  Spec => [](FanoutInv /\ NumbersInStoreOrder /\ ViewCovers)
  <1> DEFINE Inv == FanoutInv /\ NumbersInStoreOrder /\ ViewCovers
  <1>1. Init => Inv
    BY FanoutInvInit, OrderInit, ViewCoversInit DEF Init
  <1>2. Inv /\ [Next]_vars => Inv'
    <2> SUFFICES ASSUME Inv, [Next]_vars PROVE Inv'
      OBVIOUS
    <2>1. NumbersInStoreOrder'
      BY NextIsSceneStep, OrderStep DEF FanoutInv
    <2> QED
      BY <2>1, FanoutInvStep, ViewCoversStep
  <1> HIDE DEF Inv
  <1>3. Spec => []Inv
    BY <1>1, <1>2, PTL DEF Spec
  <1> QED
    BY <1>3 DEF Inv

(***************************************************************************)
(* If every leaf has one writer, a client has been told of every write it  *)
(* has counted, but for numbers that error frames used up.                 *)
(***************************************************************************)
THEOREM ViewsCorrect ==
  ASSUME DisjointWriters
  PROVE  Spec => []ViewCovers
  BY ViewInvariant, PTL

(***************************************************************************)
(* When no write is under way, the store holds only logged values; a       *)
(* client that has counted all numbers has at least these and, being       *)
(* behind the store, at most these.                                        *)
(***************************************************************************)
LEMMA CoveredIsConverged ==
  FanoutInv /\ NumbersInStoreOrder /\ ViewCovers => Converged
  <1> SUFFICES ASSUME FanoutInv, ViewCovers, NEW c \in Clients,
                      Quiet, last[c] = seq, stolen[c] = {}
               PROVE  view[c] = store
    BY DEF Converged
  <1>1. /\ store \in [Paths -> Nat] /\ view[c] \in [Paths -> Nat]
        /\ seq \in Nat
    BY DEF FanoutInv, ClientTypeOK, SceneInv, SceneTypeOK
  <1>2. ASSUME NEW p \in Paths PROVE view[c][p] = store[p]
    <2>1. view[c][p] <= store[p]
      BY DEF FanoutInv, ClientsInBounds
    <2>2. \/ store[p] = 0
          \/ \E n \in 1 .. seq : p \in log[n].paths /\ log[n].id = store[p]
      BY DEF FanoutInv, SceneInv, StoreHasSource, Quiet
    <2>3. CASE store[p] = 0
      BY <1>1, <2>1, <2>3
    <2>4. ASSUME NEW n \in 1 .. seq, p \in log[n].paths, log[n].id = store[p]
          PROVE  view[c][p] = store[p]
      <3>1. n \in (1 .. last[c]) \ stolen[c]
        OBVIOUS
      <3>2. view[c][p] >= log[n].id
        BY <2>4, <3>1 DEF ViewCovers, Reflects
      <3> QED
        BY <1>1, <2>1, <2>4, <3>2
    <2> QED
      BY <2>2, <2>3, <2>4
  <1> QED
    BY <1>1, <1>2

(***************************************************************************)
(* If every leaf has one writer, a client that has counted every number    *)
(* while no write is under way shows exactly the scene's leaves.           *)
(***************************************************************************)
THEOREM Convergence ==
  ASSUME DisjointWriters
  PROVE  Spec => []Converged
  BY ViewInvariant, CoveredIsConverged, PTL

-----------------------------------------------------------------------------
(* Resuming clients.                                                       *)

LEMMA NeverBackwardsStep ==
  ASSUME FanoutInv, [Next]_vars, NEW d \in Resuming
  PROVE  last'[d] >= last[d] \/ AcceptChanged(d)
  <1>a. d \in Clients /\ last \in [Clients -> Nat] /\ last[d] \in Nat
        /\ seq \in Nat
    BY DEF FanoutInv, ClientTypeOK, SceneInv, SceneTypeOK
  <1>1. CASE last'[d] = last[d]
    BY <1>1, <1>a
  <1>2. ASSUME ReceiveSnapshot(d) PROVE last'[d] >= last[d]
    <2>1. wire[d] # <<>> /\ Head(wire[d]).kind = "snapshot"
      BY <1>2 DEF ReceiveSnapshot, Arrived
    <2>2. /\ Head(wire[d]) = wire[d][1] /\ 1 \in 1 .. Len(wire[d])
          /\ Head(wire[d]).seq \in 1 .. seq
      BY <1>a, <2>1, ArrivedFrame DEF Faithful
    <2>3. wire[d][1].seq >= last[d]
      BY <1>a, <2>1, <2>2 DEF FanoutInv, SnapshotComesFirst
    <2>4. last'[d] = Head(wire[d]).seq
      BY <1>2, <1>a, <2>2 DEF ReceiveSnapshot, AfterSnapshot
    <2> QED
      BY <1>a, <2>2, <2>3, <2>4
  <1>3. ASSUME AcceptDelta(d) \/ AcceptError(d) PROVE last'[d] >= last[d]
    BY <1>3, <1>a, AcceptsContinue
  <1>4. ASSUME NEW c \in Clients, Hangup(c) PROVE last'[d] = last[d]
    BY <1>4, <1>a DEF Hangup, Detach
  <1>5. ASSUME NEW c \in Clients, c # d, Receive(c) \/ Drop(c)
        PROVE  last'[d] = last[d]
    BY <1>5, <1>a DEF Receive, Drop, ReceiveSnapshot, AcceptDelta,
                      AcceptError, AcceptChanged, DropDuplicate, CloseOnGap,
                      EndOfStream, Hangup, Detach
  <1>6. ASSUME NEW c \in Clients, Handle(c) \/ Refuse(c) \/ Leave(c)
        PROVE  last'[d] = last[d]
    BY <1>6 DEF Handle, Refuse, Leave, Subscribe, Resume, SendReplayed, EndReplay,
                ReadSeq, SendSnapshot, Pump, Lagged
  <1>7. ASSUME Receive(d) \/ Drop(d)
        PROVE  last'[d] >= last[d] \/ AcceptChanged(d)
    BY <1>1, <1>2, <1>3, <1>4, <1>7, <1>a
       DEF Receive, Drop, DropDuplicate, CloseOnGap, EndOfStream
  <1>8. CASE UNCHANGED clientVars
    BY <1>1, <1>8 DEF clientVars
  <1> QED
    BY <1>1, <1>5, <1>6, <1>7, <1>8, <1>a DEF Next, vars

(***************************************************************************)
(* A resuming client's count never goes backwards, unless the client       *)
(* learns that its connection went on to another scene.                    *)
(***************************************************************************)
THEOREM ResumeMonotone == Spec => NeverBackwards
  <1>1. FanoutInv /\ [Next]_vars =>
          [\A c \in Resuming : last'[c] >= last[c] \/ AcceptChanged(c)]_vars
    BY NeverBackwardsStep
  <1> QED
    BY <1>1, FanoutCorrect, PTL DEF Spec, NeverBackwards
=============================================================================
