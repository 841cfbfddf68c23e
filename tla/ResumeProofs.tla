---------------------------- MODULE ResumeProofs ----------------------------
(***************************************************************************)
(* Proofs about what reaches a subscriber of module Fanout: every number   *)
(* of a write is sent exactly once, a slice of the replay buffer lacks no  *)
(* write when one task writes, and no write falls between a snapshot or a  *)
(* replayed slice and the live deltas.                                     *)
(***************************************************************************)
EXTENDS FanoutProofs

-----------------------------------------------------------------------------
(* Every number once                                                       *)

SentAs(n) == {i \in 1 .. Len(tx) : tx[i].seq = n}

CarriersOf(n) == {w \in Writers : Numbered(w) /\ record[w].seq = n}

Single(n) ==
    \/ CarriersOf(n) = {} /\ \E i \in SentAs(n) : SentAs(n) = {i}
    \/ SentAs(n) = {} /\ \E w \in CarriersOf(n) : CarriersOf(n) = {w}

Absent(n) == SentAs(n) = {} /\ CarriersOf(n) = {}

Once(n) == IF n \in Taken THEN Absent(n) ELSE Single(n)

LEMMA OnceByNumber == EachNumberOnce <=> \A n \in 2 .. seq : Once(n)
  BY Zenon DEF EachNumberOnce, Once, Single, Absent, SentAs, CarriersOf

(***************************************************************************)
(* Numbers stay what they were logged as, and the number of a write is not *)
(* one that a connection took.                                             *)
(***************************************************************************)
LEMMA TakenStable ==
  ASSUME SceneInv, [SceneNext]_sceneVars, NEW n \in 1 .. seq
  PROVE  n \in Taken' <=> n \in Taken
  <1>1. /\ seq \in Nat /\ seq' \in Nat /\ seq' >= seq /\ log'[n] = log[n]
    BY SceneGrows DEF SceneInv, SceneTypeOK
  <1> QED
    BY <1>1 DEF Taken

LEMMA WriteIsNotTaken ==
  ASSUME SceneInv, NEW w \in Writers, AdvanceSeq(w)
  PROVE  seq + 1 \notin Taken'
  <1>1. log'[seq + 1].id = record[w].id
    BY AdvanceSeqLogs DEF SceneInv
  <1>2. record[w].id \in 1 .. applied /\ applied \in Nat
    BY DEF AdvanceSeq, SceneInv, CarriedIsStored, SceneTypeOK
  <1>3. record[w].id # 0
    BY <1>2
  <1> QED
    BY <1>1, <1>3 DEF Taken, Nothing

LEMMA ChangeTakes ==
  ASSUME SceneInv, AdvanceSeqForChange
  PROVE  seq + 1 \in Taken' /\ seq' = seq + 1
  <1>1. seq \in Nat \ {0} /\ seq' = seq + 1 /\ log'[seq + 1] = Nothing
    BY ChangeLogs DEF SceneInv, SceneTypeOK
  <1> QED
    BY <1>1 DEF Taken

(***************************************************************************)
(* Nothing sent or carried has a number that has not been given out.       *)
(***************************************************************************)
LEMMA NumbersGivenOut ==
  ASSUME SceneInv, NEW n \in Nat, n > seq
  PROVE  SentAs(n) = {} /\ CarriersOf(n) = {}
  <1>1. seq \in Nat
    BY DEF SceneInv, SceneTypeOK
  <1>2. \A i \in 1 .. Len(tx) : tx[i].seq # n
    BY <1>1 DEF SceneInv, SentIsLogged, Logged
  <1>3. \A w \in Writers : Numbered(w) => record[w].seq # n
    BY <1>1 DEF SceneInv, CarriedIsLogged, Logged
  <1> QED
    BY <1>2, <1>3 DEF SentAs, CarriersOf

(***************************************************************************)
(* What each step of a write does to the carriers of a number.             *)
(***************************************************************************)
LEMMA AdvanceSeqCarries ==
  ASSUME SceneInv, NEW w \in Writers, AdvanceSeq(w), NEW n \in Nat
  PROVE  /\ SentAs(n)' = SentAs(n)
         /\ CarriersOf(n)' = IF n = seq + 1 THEN CarriersOf(n) \cup {w}
                                            ELSE CarriersOf(n)
  <1>1. /\ pc \in [Writers -> Steps] /\ pc[w] = "stored" /\ tx' = tx
        /\ pc' = [pc EXCEPT ![w] = "numbered"]
    BY DEF SceneInv, SceneTypeOK, AdvanceSeq
  <1>2. record'[w].seq = seq + 1 /\ \A v \in Writers \ {w} : record'[v] = record[v]
    <2>1. SceneTypeOK
      BY DEF SceneInv
    <2>2. /\ record'[w] = [seq |-> seq + 1, paths |-> record[w].paths,
                           id |-> record[w].id]
          /\ \A v \in Writers \ {w} : record'[v] = record[v]
      BY <2>1, AdvanceSeqLogs, Zenon
    <2> QED
      BY <2>2
  <1> QED
    BY <1>1, <1>2 DEF SentAs, CarriersOf, Numbered

LEMMA SendDelivers ==
  ASSUME SceneInv, NEW w \in Writers, Send(w), NEW n \in Nat
  PROVE  IF n = record[w].seq
           THEN /\ w \in CarriersOf(n)
                /\ CarriersOf(n)' = CarriersOf(n) \ {w}
                /\ SentAs(n)' = SentAs(n) \cup {Len(tx) + 1}
           ELSE CarriersOf(n)' = CarriersOf(n) /\ SentAs(n)' = SentAs(n)
  <1>1. /\ pc \in [Writers -> Steps] /\ pc[w] = "recorded"
        /\ pc' = [pc EXCEPT ![w] = "idle"]
        /\ record \in [Writers -> Payloads]
        /\ \A v \in Writers \ {w} : record'[v] = record[v]
    BY DEF SceneInv, SceneTypeOK, Send
  <1>2. /\ Len(tx) \in Nat /\ Len(tx') = Len(tx) + 1
        /\ tx'[Len(tx) + 1] = record[w]
        /\ \A i \in 1 .. Len(tx) : tx'[i] = tx[i]
    <2>1. tx \in Seq(Payloads) /\ record[w] \in Payloads
      BY DEF SceneInv, SceneTypeOK
    <2> QED
      BY <2>1, AppendProperties, LenProperties DEF Send
  <1>3. SentAs(n)' = IF n = record[w].seq THEN SentAs(n) \cup {Len(tx) + 1}
                                          ELSE SentAs(n)
    BY <1>2 DEF SentAs
  <1>4. /\ n = record[w].seq => w \in CarriersOf(n)
        /\ CarriersOf(n)' = CarriersOf(n) \ {w}
        /\ n # record[w].seq => w \notin CarriersOf(n)
    BY <1>1 DEF CarriersOf, Numbered
  <1> QED
    BY <1>3, <1>4

LEMMA OtherStepsCarry ==
  ASSUME SceneInv, NEW n \in Nat,
         \/ \E w \in Writers : Apply(w) \/ PushReplay(w)
         \/ AdvanceSeqForChange
         \/ UNCHANGED sceneVars
  PROVE  SentAs(n)' = SentAs(n) /\ CarriersOf(n)' = CarriersOf(n)
  <1>1. /\ pc \in [Writers -> Steps] /\ record \in [Writers -> Payloads]
    BY DEF SceneInv, SceneTypeOK
  <1>2. ASSUME NEW w \in Writers, Apply(w)
        PROVE  /\ tx' = tx /\ \A v \in Writers : Numbered(v)' <=> Numbered(v)
               /\ \A v \in Writers : Numbered(v) => record'[v] = record[v]
    BY <1>1, <1>2 DEF Apply, Numbered
  <1>3. ASSUME NEW w \in Writers, PushReplay(w)
        PROVE  /\ tx' = tx /\ \A v \in Writers : Numbered(v)' <=> Numbered(v)
               /\ record' = record
    BY <1>1, <1>3 DEF PushReplay, Numbered
  <1>4. ASSUME AdvanceSeqForChange \/ UNCHANGED sceneVars
        PROVE  /\ tx' = tx /\ \A v \in Writers : Numbered(v)' <=> Numbered(v)
               /\ record' = record
    BY <1>4 DEF AdvanceSeqForChange, sceneVars, Numbered
  <1> QED
    BY <1>2, <1>3, <1>4 DEF SentAs, CarriersOf

LEMMA OnceStep ==
  ASSUME SceneInv, EachNumberOnce, [SceneNext]_sceneVars
  PROVE  EachNumberOnce'
  <1>0. seq \in Nat \ {0} /\ \A n \in 2 .. seq : Once(n)
    BY OnceByNumber DEF SceneInv, SceneTypeOK
  <1> SUFFICES ASSUME NEW n \in 2 .. seq'
               PROVE  IF n \in Taken' THEN Absent(n)' ELSE Single(n)'
    BY Zenon DEF EachNumberOnce, Absent, Single, SentAs, CarriersOf, Numbered
  <1>1. seq' \in Nat /\ n \in Nat /\ n >= 2
    BY <1>0, SceneGrows DEF SceneInv
  <1>a. ASSUME n <= seq
        PROVE  Once(n) /\ (n \in Taken' <=> n \in Taken)
    BY <1>0, <1>1, <1>a, TakenStable
  <1>b. ASSUME n <= seq, SentAs(n)' = SentAs(n), CarriersOf(n)' = CarriersOf(n)
        PROVE  IF n \in Taken' THEN Absent(n)' ELSE Single(n)'
    BY <1>a, <1>b, Zenon DEF Once, Absent, Single
  <1>c. n <= seq \/ (n = seq + 1 /\ seq' = seq + 1)
    <2>1. seq' \in {seq, seq + 1}
      BY DEF SceneNext, Continue, Apply, AdvanceSeq, PushReplay, Send,
             AdvanceSeqForChange, sceneVars
    <2> QED
      BY <1>0, <1>1, <2>1
  <1>2. ASSUME NEW w \in Writers, AdvanceSeq(w), n = seq + 1
        PROVE  IF n \in Taken' THEN Absent(n)' ELSE Single(n)'
    <2>1. SentAs(n)' = {} /\ CarriersOf(n)' = {w}
      BY <1>0, <1>1, <1>2, AdvanceSeqCarries, NumbersGivenOut
    <2>2. n \notin Taken'
      BY <1>2, WriteIsNotTaken
    <2> QED
      BY <2>1, <2>2 DEF Single
  <1>3. ASSUME AdvanceSeqForChange, n = seq + 1
        PROVE  IF n \in Taken' THEN Absent(n)' ELSE Single(n)'
    <2>1. SentAs(n)' = {} /\ CarriersOf(n)' = {}
      BY <1>0, <1>1, <1>3, OtherStepsCarry, NumbersGivenOut
    <2>2. n \in Taken'
      BY <1>3, ChangeTakes
    <2> QED
      BY <2>1, <2>2 DEF Absent
  <1>4. ASSUME NEW w \in Writers, AdvanceSeq(w), n <= seq
        PROVE  IF n \in Taken' THEN Absent(n)' ELSE Single(n)'
    <2>1. n # seq + 1
      BY <1>0, <1>1, <1>4
    <2> QED
      BY <1>1, <1>4, <1>b, <2>1, AdvanceSeqCarries
  <1>5. ASSUME NEW w \in Writers, Send(w), n <= seq
        PROVE  IF n \in Taken' THEN Absent(n)' ELSE Single(n)'
    <2>1. CASE n = record[w].seq
      <3>1. /\ w \in CarriersOf(n)
            /\ CarriersOf(n)' = CarriersOf(n) \ {w}
            /\ SentAs(n)' = SentAs(n) \cup {Len(tx) + 1}
        BY <1>1, <1>5, <2>1, SendDelivers
      <3>2. n \notin Taken /\ SentAs(n) = {} /\ CarriersOf(n) = {w}
        BY <1>5, <1>a, <3>1 DEF Once, Absent, Single
      <3>3. CarriersOf(n)' = {} /\ SentAs(n)' = {Len(tx) + 1}
        BY <3>1, <3>2
      <3>4. Single(n)'
        BY <3>3 DEF Single
      <3> QED
        BY <1>5, <1>a, <3>2, <3>4
    <2>2. CASE n # record[w].seq
      BY <1>1, <1>5, <1>b, <2>2, SendDelivers
    <2> QED
      BY <2>1, <2>2
  <1>6. ASSUME \/ \E w \in Writers : Apply(w) \/ PushReplay(w)
               \/ AdvanceSeqForChange
               \/ UNCHANGED sceneVars,
               n <= seq
        PROVE  IF n \in Taken' THEN Absent(n)' ELSE Single(n)'
    BY <1>1, <1>6, <1>b, OtherStepsCarry
  <1>7. CASE n <= seq
    BY <1>4, <1>5, <1>6, <1>7 DEF SceneNext, Continue
  <1>8. CASE n = seq + 1 /\ seq' = seq + 1
    <2>1. AdvanceSeqForChange \/ \E w \in Writers : AdvanceSeq(w)
      BY <1>0, <1>8 DEF SceneNext, Continue, Apply, PushReplay, Send, sceneVars
    <2> QED
      BY <1>2, <1>3, <1>8, <2>1
  <1> QED
    BY <1>c, <1>7, <1>8

(***************************************************************************)
(* Whatever the interleaving of the four steps of set and emit_with_cause, *)
(* and of swaps that take connections away, every number that advance_seq  *)
(* has given to a write is in the broadcast channel exactly once or is     *)
(* carried there by exactly one writer; a number that                      *)
(* advance_seq_for_change took is neither.                                 *)
(***************************************************************************)
THEOREM NumbersSentOnce == Spec => []EachNumberOnce
  <1>1. Init => FanoutInv /\ EachNumberOnce
    <2>1. Init => EachNumberOnce
      BY DEF Init, SceneInit, EachNumberOnce
    <2> QED
      BY <2>1, FanoutInvInit
  <1>2. (FanoutInv /\ EachNumberOnce) /\ [Next]_vars
        => (FanoutInv /\ EachNumberOnce)'
    BY FanoutInvStep, NextIsSceneStep, OnceStep DEF FanoutInv
  <1> QED
    BY <1>1, <1>2, PTL DEF Spec

-----------------------------------------------------------------------------
(* The replay buffer of a scene with one writer                            *)

(***************************************************************************)
(* One task writes the scene.  Not assumed, but a hypothesis of what needs *)
(* it: run scene_slice shows that two writers leave holes in the buffer.   *)
(***************************************************************************)
OneWriter == \A v, w \in Writers : v = w

(***************************************************************************)
(* The buffer holds its numbers in order, and one that is on its way there *)
(* is larger; a write that is neither in the buffer nor on its way there   *)
(* is older than everything in it.                                         *)
(***************************************************************************)
Buffered(n) == \E i \in 1 .. Len(replay) : replay[i].seq = n

ToBuffer(n) == \E w \in Writers : pc[w] = "numbered" /\ record[w].seq = n

BufferInOrder ==
    \A i, j \in 1 .. Len(replay) : i < j => replay[i].seq < replay[j].seq

CarriedIsNewer ==
    \A w \in Writers : pc[w] = "numbered" =>
        \A i \in 1 .. Len(replay) : replay[i].seq < record[w].seq

OldestEvicted ==
    \A n \in (2 .. seq) \ Taken :
        \/ Buffered(n)
        \/ ToBuffer(n)
        \/ replay # <<>> /\ n < replay[1].seq

ReplayInv == BufferInOrder /\ CarriedIsNewer /\ OldestEvicted

LEMMA ReplayInvInit == SceneInit => ReplayInv
  BY EmptySeq
     DEF SceneInit, ReplayInv, BufferInOrder, CarriedIsNewer, OldestEvicted

(***************************************************************************)
(* push: the new record is the last one, and the others keep their         *)
(* distance to the end.                                                    *)
(***************************************************************************)
LEMMA PushKeepsOrder ==
  ASSUME NEW S, NEW buf \in Seq(S), NEW r \in S, NEW cap \in Nat \ {0},
         Len(buf) <= cap, NEW new, new = Push(buf, r, cap)
  PROVE  /\ new # <<>>
         /\ Len(new) \in Nat /\ Len(buf) \in Nat
         /\ Len(new) = Len(buf) \/ Len(new) = Len(buf) + 1
         /\ new[Len(new)] = r
         /\ \A i \in 1 .. Len(new) - 1 :
               /\ i + Len(buf) - Len(new) + 1 \in 1 .. Len(buf)
               /\ new[i] = buf[i + Len(buf) - Len(new) + 1]
  <1>1. CASE Len(buf) = cap
    <2>1. buf # <<>>
      BY <1>1, EmptySeq
    <2> DEFINE t == Tail(buf)
    <2>2. /\ t \in Seq(S)
          /\ Len(t) = Len(buf) - 1
          /\ \A i \in 1 .. Len(t) : t[i] = buf[i + 1]
      BY <2>1, HeadTailProperties
    <2>3. new = Append(t, r)
      BY <1>1 DEF Push
    <2> HIDE DEF t
    <2>4. /\ Append(t, r) # <<>>
          /\ Len(Append(t, r)) = Len(t) + 1
          /\ \A i \in 1 .. Len(t) : Append(t, r)[i] = t[i]
          /\ Append(t, r)[Len(t) + 1] = r
      BY <2>2, AppendProperties
    <2>5. Len(buf) \in Nat /\ Len(t) \in Nat
      BY <2>2, LenProperties
    <2> QED
      BY <1>1, <2>2, <2>3, <2>4, <2>5
  <1>2. CASE Len(buf) # cap
    <2>1. new = Append(buf, r)
      BY <1>2 DEF Push
    <2>2. /\ Append(buf, r) # <<>>
          /\ Len(Append(buf, r)) = Len(buf) + 1
          /\ \A i \in 1 .. Len(buf) : Append(buf, r)[i] = buf[i]
          /\ Append(buf, r)[Len(buf) + 1] = r
      BY AppendProperties
    <2>3. Len(buf) \in Nat
      BY LenProperties
    <2> QED
      BY <2>1, <2>2, <2>3
  <1> QED
    BY <1>1, <1>2

LEMMA PushStep ==
  ASSUME OneWriter, SceneInv, ReplayInv, NEW w \in Writers, PushReplay(w)
  PROVE  ReplayInv'
  <1>0. /\ pc \in [Writers -> Steps] /\ record \in [Writers -> Payloads]
        /\ replay \in Seq(Payloads) /\ Len(replay) <= ReplayCap
        /\ seq \in Nat
    BY DEF SceneInv, SceneTypeOK
  <1>1. /\ pc[w] = "numbered" /\ pc'[w] = "recorded"
        /\ UNCHANGED <<seq, record, log>>
        /\ replay' = Push(replay, record[w], ReplayCap)
    BY <1>0 DEF PushReplay
  <1>2. PICK r \in Payloads : r = record[w]
    BY <1>0
  <1>3. PICK new : new = Push(replay, r, ReplayCap)
    OBVIOUS
  <1>4. /\ new # <<>>
        /\ Len(new) \in Nat /\ Len(replay) \in Nat
        /\ Len(new) = Len(replay) \/ Len(new) = Len(replay) + 1
        /\ new[Len(new)] = r
        /\ \A i \in 1 .. Len(new) - 1 :
             /\ i + Len(replay) - Len(new) + 1 \in 1 .. Len(replay)
             /\ new[i] = replay[i + Len(replay) - Len(new) + 1]
    BY <1>0, <1>3, CapsAssumption, PushKeepsOrder
  <1>5. replay' = new /\ Taken' = Taken
    BY <1>1, <1>2, <1>3 DEF Taken
  <1>6. Len(new) \in Nat /\ Len(new) >= 1
    BY <1>4
  <1>7. /\ r.seq \in Nat
        /\ \A i \in 1 .. Len(replay) :
              replay[i].seq \in Nat /\ replay[i].seq < r.seq
    <2>1. \A i \in 1 .. Len(replay) : replay[i] \in Payloads
      BY <1>0, LenProperties
    <2> QED
      BY <1>1, <1>2, <2>1 DEF Payloads, ReplayInv, CarriedIsNewer
  <1>8. \A v \in Writers : pc'[v] # "numbered"
    BY <1>1 DEF OneWriter
  <1>9. ASSUME NEW i \in 1 .. Len(new), NEW j \in 1 .. Len(new), i < j
        PROVE  new[i].seq < new[j].seq
    <2>1. i \in 1 .. Len(new) - 1
      BY <1>4, <1>9
    <2>2. PICK k \in 1 .. Len(replay) :
            k = i + Len(replay) - Len(new) + 1 /\ new[i] = replay[k]
      BY <1>4, <2>1
    <2>3. CASE j = Len(new)
      BY <1>4, <1>7, <2>2, <2>3
    <2>4. CASE j # Len(new)
      <3>1. j \in 1 .. Len(new) - 1
        BY <1>4, <2>4
      <3>2. PICK l \in 1 .. Len(replay) :
              l = j + Len(replay) - Len(new) + 1 /\ new[j] = replay[l]
        BY <1>4, <3>1
      <3>3. k < l
        BY <1>4, <1>9, <2>2, <3>2
      <3> QED
        BY <2>2, <3>2, <3>3 DEF ReplayInv, BufferInOrder
    <2> QED
      BY <2>3, <2>4
  <1>10. ASSUME NEW i \in 1 .. Len(replay)
         PROVE  \/ \E j \in 1 .. Len(new) : new[j] = replay[i]
                \/ i = 1 /\ replay[i].seq < new[1].seq
    <2> DEFINE j == i + Len(new) - Len(replay) - 1
    <2>1. CASE j >= 1
      <3>1. j \in 1 .. Len(new) - 1 /\ j + Len(replay) - Len(new) + 1 = i
        BY <1>4, <2>1
      <3>2. new[j] = replay[i] /\ j \in 1 .. Len(new)
        BY <1>4, <3>1
      <3> QED
        BY <3>2
    <2>2. CASE ~ (j >= 1)
      <3>1. i = 1 /\ Len(new) = Len(replay)
        BY <1>4, <2>2
      <3>2. CASE Len(new) = 1
        BY <1>4, <1>7, <3>1, <3>2
      <3>3. CASE Len(new) # 1
        <4>1. 1 \in 1 .. Len(new) - 1 /\ 1 + Len(replay) - Len(new) + 1 = 2
          BY <1>4, <1>6, <3>1, <3>3
        <4>2. new[1] = replay[2] /\ 2 \in 1 .. Len(replay)
          BY <1>4, <4>1
        <4> QED
          BY <3>1, <4>2 DEF ReplayInv, BufferInOrder
      <3> QED
        BY <3>2, <3>3
    <2> QED
      BY <1>4, <2>1, <2>2
  <1>11. \A i \in 1 .. Len(new) : new[i].seq \in Nat
    <2> SUFFICES ASSUME NEW i \in 1 .. Len(new) PROVE new[i].seq \in Nat
      OBVIOUS
    <2>1. CASE i = Len(new)
      BY <1>4, <1>7, <2>1
    <2>2. CASE i # Len(new)
      <3>1. i \in 1 .. Len(new) - 1
        BY <1>4, <2>2
      <3> QED
        BY <1>4, <1>7, <3>1
    <2> QED
      BY <2>1, <2>2
  <1>12. ASSUME NEW n \in (2 .. seq) \ Taken
         PROVE  \/ \E i \in 1 .. Len(new) : new[i].seq = n
                \/ n < new[1].seq
    <2>1. CASE Buffered(n)
      <3>1. PICK i \in 1 .. Len(replay) : replay[i].seq = n
        BY <2>1 DEF Buffered
      <3> QED
        BY <1>10, <3>1
    <2>2. CASE ToBuffer(n)
      <3>1. r.seq = n
        BY <1>2, <2>2 DEF ToBuffer, OneWriter
      <3> QED
        BY <1>4, <1>6, <3>1
    <2>3. CASE replay # <<>> /\ n < replay[1].seq
      <3>1. 1 \in 1 .. Len(replay) /\ 1 \in 1 .. Len(new)
        BY <1>0, <1>4, <1>6, <2>3, EmptySeq
      <3>2. \/ replay[1].seq < new[1].seq
            \/ \E j \in 1 .. Len(new) : new[j] = replay[1]
        BY <1>10, <3>1
      <3>3. CASE replay[1].seq < new[1].seq
        BY <1>0, <1>7, <1>11, <2>3, <3>1, <3>3
      <3>4. CASE ~ (replay[1].seq < new[1].seq)
        <4>1. PICK j \in 1 .. Len(new) : new[j] = replay[1]
          BY <3>2, <3>4
        <4>2. CASE Len(new) = 1
          BY <1>0, <1>4, <1>7, <2>3, <3>1, <4>2
        <4>3. CASE Len(new) # 1
          <5>0. 1 \in 1 .. Len(new) - 1
            <6>1. PICK m \in Nat : m = Len(new)
              BY <1>6
            <6>2. m >= 1 /\ m # 1
              BY <1>6, <4>3, <6>1
            <6>3. 1 \in 1 .. m - 1
              BY <6>2
            <6> QED
              BY <6>1, <6>3
          <5>1. PICK i \in 1 .. Len(new) - 1 : i = 1
            BY <5>0
          <5>a. /\ i + Len(replay) - Len(new) + 1 \in 1 .. Len(replay)
                /\ new[i] = replay[i + Len(replay) - Len(new) + 1]
            BY <1>4
          <5>2. PICK k \in 1 .. Len(replay) : new[i] = replay[k]
            BY <5>a
          <5>3. k = 1 \/ 1 < k
            OBVIOUS
          <5>4. k = 1
            BY <3>1, <3>4, <5>1, <5>2, <5>3 DEF ReplayInv, BufferInOrder
          <5> QED
            BY <2>3, <5>1, <5>2, <5>4
        <4> QED
          BY <4>2, <4>3
      <3> QED
        BY <3>3, <3>4
    <2> QED
      BY <2>1, <2>2, <2>3 DEF ReplayInv, OldestEvicted
  <1>13. BufferInOrder'
    BY <1>5, <1>9 DEF BufferInOrder
  <1>14. CarriedIsNewer'
    BY <1>8 DEF CarriedIsNewer
  <1>15. OldestEvicted'
    BY <1>1, <1>4, <1>5, <1>12 DEF OldestEvicted, Buffered
  <1> QED
    BY <1>13, <1>14, <1>15 DEF ReplayInv

LEMMA ReplayInvStep ==
  ASSUME OneWriter, SceneInv, ReplayInv, [SceneNext]_sceneVars
  PROVE  ReplayInv'
  <1>0. /\ SceneTypeOK /\ seq \in Nat \ {0} /\ pc \in [Writers -> Steps]
        /\ seq' \in Nat
    BY SceneGrows DEF SceneInv, SceneTypeOK
  <1>a. ASSUME replay' = replay,
               \A w \in Writers : pc'[w] = "numbered" =>
                   \/ pc[w] = "numbered" /\ record'[w] = record[w]
                   \/ record'[w].seq = seq + 1
        PROVE  BufferInOrder' /\ CarriedIsNewer'
    <2>1. BufferInOrder'
      BY <1>a DEF ReplayInv, BufferInOrder
    <2>2. \A i \in 1 .. Len(replay) : replay[i].seq \in 1 .. seq
      BY DEF SceneInv, SentIsLogged, Logged
    <2>3. CarriedIsNewer'
      BY <1>0, <1>a, <2>2 DEF ReplayInv, CarriedIsNewer
    <2> QED
      BY <2>1, <2>3
  <1>b. ASSUME replay' = replay,
               \A w \in Writers : pc[w] = "numbered" =>
                   pc'[w] = "numbered" /\ record'[w] = record[w],
               \A n \in (2 .. seq') \ Taken' : n <= seq \/ ToBuffer(n)'
        PROVE  OldestEvicted'
    <2> SUFFICES ASSUME NEW n \in (2 .. seq') \ Taken'
                 PROVE  \/ Buffered(n)'
                        \/ ToBuffer(n)'
                        \/ replay' # <<>> /\ n < replay'[1].seq
      BY DEF OldestEvicted
    <2>1. CASE n <= seq
      <3>1. n \in (2 .. seq) \ Taken
        BY <1>0, <2>1, TakenStable
      <3>2. \/ Buffered(n)
            \/ ToBuffer(n)
            \/ replay # <<>> /\ n < replay[1].seq
        BY <3>1 DEF ReplayInv, OldestEvicted
      <3> QED
        BY <1>b, <3>2 DEF Buffered, ToBuffer
    <2> QED
      BY <1>b, <2>1
  <1>1. ASSUME NEW w \in Writers, Apply(w) PROVE ReplayInv'
    <2>1. /\ replay' = replay /\ seq' = seq
          /\ \A v \in Writers : pc'[v] = "numbered" <=> pc[v] = "numbered"
          /\ \A v \in Writers : pc[v] = "numbered" => record'[v] = record[v]
      BY <1>0, <1>1 DEF Apply, SceneTypeOK
    <2> QED
      BY <1>0, <1>a, <1>b, <2>1 DEF ReplayInv
  <1>2. ASSUME NEW w \in Writers, AdvanceSeq(w) PROVE ReplayInv'
    <2>1. /\ pc[w] = "stored" /\ pc' = [pc EXCEPT ![w] = "numbered"]
          /\ seq' = seq + 1 /\ replay' = replay
      BY <1>2 DEF AdvanceSeq
    <2>2. /\ record'[w].seq = seq + 1
          /\ \A v \in Writers \ {w} : record'[v] = record[v]
      <3>1. /\ record'[w] = [seq |-> seq + 1, paths |-> record[w].paths,
                             id |-> record[w].id]
            /\ \A v \in Writers \ {w} : record'[v] = record[v]
        BY <1>0, <1>2, AdvanceSeqLogs, Zenon
      <3> QED
        BY <3>1
    <2>a. pc'[w] = "numbered" /\ \A v \in Writers \ {w} : pc'[v] = pc[v]
      BY <1>0, <2>1
    <2>4. \A n \in (2 .. seq') \ Taken' : n <= seq \/ ToBuffer(n)'
      <3> SUFFICES ASSUME NEW n \in 2 .. seq', ~ (n <= seq)
                   PROVE  ToBuffer(n)'
        OBVIOUS
      <3>1. n = seq + 1
        BY <1>0, <2>1
      <3> QED
        BY <2>a, <2>2, <3>1 DEF ToBuffer
    <2>5. \A v \in Writers : pc[v] = "numbered" =>
            pc'[v] = "numbered" /\ record'[v] = record[v]
      BY <2>1, <2>a, <2>2
    <2>6. \A v \in Writers : pc'[v] = "numbered" =>
            \/ pc[v] = "numbered" /\ record'[v] = record[v]
            \/ record'[v].seq = seq + 1
      BY <2>a, <2>2
    <2>7. BufferInOrder' /\ CarriedIsNewer'
      BY <1>a, <2>1, <2>6
    <2>8. OldestEvicted'
      BY <1>b, <2>1, <2>4, <2>5
    <2> QED
      BY <2>7, <2>8 DEF ReplayInv
  <1>3. ASSUME NEW w \in Writers, PushReplay(w) PROVE ReplayInv'
    BY <1>3, PushStep
  <1>4. ASSUME NEW w \in Writers, Send(w) PROVE ReplayInv'
    <2>1. /\ replay' = replay /\ seq' = seq
          /\ \A v \in Writers : pc'[v] = "numbered" <=> pc[v] = "numbered"
          /\ \A v \in Writers : pc[v] = "numbered" => record'[v] = record[v]
      BY <1>0, <1>4 DEF Send, SceneTypeOK
    <2> QED
      BY <1>0, <1>a, <1>b, <2>1 DEF ReplayInv
  <1>5. ASSUME AdvanceSeqForChange PROVE ReplayInv'
    <2>1. UNCHANGED <<replay, pc, record>> /\ seq' = seq + 1
          /\ seq + 1 \in Taken'
      BY <1>5, ChangeTakes DEF AdvanceSeqForChange
    <2>2. \A n \in (2 .. seq') \ Taken' : n <= seq
      <3> SUFFICES ASSUME NEW n \in 2 .. seq', ~ (n <= seq)
                   PROVE  n \in Taken'
        OBVIOUS
      <3>1. n = seq + 1
        BY <1>0, <2>1
      <3> QED
        BY <2>1, <3>1
    <2> QED
      BY <1>0, <1>a, <1>b, <2>1, <2>2 DEF ReplayInv
  <1>6. CASE UNCHANGED sceneVars
    <2>1. UNCHANGED <<seq, replay, pc, record>>
      BY <1>6 DEF sceneVars
    <2> QED
      BY <1>0, <1>a, <1>b, <2>1 DEF ReplayInv
  <1> QED
    BY <1>1, <1>2, <1>3, <1>4, <1>5, <1>6 DEF SceneNext, Continue

LEMMA OrderIsComplete ==
  ASSUME SceneInv, ReplayInv
  PROVE  SliceComplete
  <1>0. /\ seq \in Nat /\ replay \in Seq(Payloads)
    BY DEF SceneInv, SceneTypeOK
  <1> SUFFICES ASSUME NEW s \in 1 .. seq, Covered(replay, s),
                      NEW n \in (s + 1 .. seq) \ Taken
               PROVE  Buffered(n) \/ ToBuffer(n)
    BY DEF SliceComplete, Buffered, ToBuffer
  <1>1. n \in (2 .. seq) \ Taken
    BY <1>0
  <1>2. ASSUME replay # <<>>, n < replay[1].seq PROVE FALSE
    <2>1. s + 1 >= replay[1].seq
      BY <1>0, <1>2 DEF Covered
    <2>2. replay[1].seq \in Nat
      <3>1. Len(replay) \in Nat \ {0}
        BY <1>0, <1>2, EmptySeq
      <3>2. replay[1] \in Payloads
        BY <1>0, <3>1, LenProperties
      <3> QED
        BY <3>2 DEF Payloads
    <2> QED
      BY <1>0, <1>2, <2>1, <2>2
  <1> QED
    BY <1>1, <1>2 DEF ReplayInv, OldestEvicted

(***************************************************************************)
(* When one task writes a scene, a slice that ReplayBuffer::since returns  *)
(* lacks no write, at any capacity, for any resume point and however many  *)
(* connections have taken numbers as they left.                            *)
(***************************************************************************)
THEOREM SlicesComplete ==
  ASSUME OneWriter
  PROVE  Spec => []SliceComplete
  <1>1. Init => FanoutInv /\ ReplayInv
    BY FanoutInvInit, ReplayInvInit DEF Init
  <1>2. (FanoutInv /\ ReplayInv) /\ [Next]_vars => (FanoutInv /\ ReplayInv)'
    BY FanoutInvStep, NextIsSceneStep, ReplayInvStep DEF FanoutInv
  <1>3. FanoutInv /\ ReplayInv => SliceComplete
    BY OrderIsComplete DEF FanoutInv
  <1> QED
    BY <1>1, <1>2, <1>3, PTL DEF Spec

-----------------------------------------------------------------------------
(* Bounds of the handlers' receivers and resume points                     *)

(***************************************************************************)
(* No receiver is ahead of the channel; nobody resumes from a number it    *)
(* has not counted, and only a resuming client resumes.                    *)
(***************************************************************************)
ReceiversInBounds == \A c \in Clients : rx[c] <= Len(tx) + 1

SinceIsBehind ==
    \A c \in Clients :
        since[c] <= last[c] /\ (c \notin Resuming => since[c] = 0)

(***************************************************************************)
(* Steps of a connection leave other connections alone, and the scene too, *)
(* but for the number that is taken by one that leaves.                    *)
(***************************************************************************)
ClientStep(c) == Handle(c) \/ Receive(c) \/ Refuse(c) \/ Drop(c)

SameForOthers(c) ==
    \A d \in Clients \ {c} :
        /\ phase'[d] = phase[d] /\ since'[d] = since[d] /\ rx'[d] = rx[d]
        /\ snapSeq'[d] = snapSeq[d] /\ backlog'[d] = backlog[d]
        /\ wire'[d] = wire[d] /\ last'[d] = last[d]

LEMMA ClientStepsAreLocal ==
  ASSUME ClientTypeOK, NEW c \in Clients, ClientStep(c)
  PROVE  UNCHANGED sceneVars /\ SameForOthers(c)
  <1> USE DEF ClientTypeOK, SameForOthers
  <1>1. CASE Handle(c)
    BY <1>1 DEF Handle, Subscribe, Resume, SendReplayed, EndReplay, ReadSeq,
                SendSnapshot, Pump, Lagged, Emit
  <1>2. CASE Gone(c) /\ UNCHANGED sceneVars
    BY <1>2 DEF Gone, Hangup, AcceptChanged, Detach
  <1>3. CASE Receive(c) \/ Refuse(c) \/ Drop(c)
    BY <1>2, <1>3
       DEF Receive, Refuse, Drop, ReceiveSnapshot, AcceptDelta, AcceptError,
           AcceptChanged, DropDuplicate, CloseOnGap, EndOfStream, Gone, Emit,
           Consume
  <1> QED
    BY <1>1, <1>3 DEF ClientStep

LEMMA LeaveIsLocal ==
  ASSUME ClientTypeOK, NEW c \in Clients, Leave(c)
  PROVE  /\ SameForOthers(c)
         /\ AdvanceSeqForChange
         /\ UNCHANGED <<since, rx, snapSeq, backlog, last>>
         /\ phase'[c] = "leaving"
  BY DEF ClientTypeOK, SameForOthers, Leave, Emit

LEMMA ReceiverIsTaken ==
  ASSUME FanoutInv, NEW c \in Clients, phase[c] \notin {"down", "away"}
  PROVE  rx[c] \in Nat \ {0}
  <1>1. rx[c] \in Nat
    BY DEF FanoutInv, ClientTypeOK
  <1>2. rx[c] >= 1
    BY DEF FanoutInv, HandlersInBounds
  <1> QED
    BY <1>1, <1>2

LEMMA StepCases ==
  [Next]_vars =>
    \/ [SceneNext]_sceneVars /\ UNCHANGED clientVars
    \/ \E c \in Clients : ClientStep(c)
    \/ \E c \in Clients : Leave(c)
  BY DEF Next, ClientStep, vars

(***************************************************************************)
(* A snapshot that arrives is not older than what its client has counted.  *)
(***************************************************************************)
LEMMA SnapshotIsNotOlder ==
  ASSUME FanoutInv, NEW c \in Clients, ReceiveSnapshot(c)
  PROVE  /\ last'[c] = Head(wire[c]).seq /\ last'[c] \in Nat
         /\ last[c] \in Nat /\ last[c] <= last'[c]
  <1>1. wire[c] # <<>> /\ Head(wire[c]).kind = "snapshot"
    BY DEF ReceiveSnapshot, Arrived
  <1>2. /\ Head(wire[c]) = wire[c][1] /\ Head(wire[c]) \in Frames
        /\ Faithful(Head(wire[c])) /\ 1 \in 1 .. Len(wire[c])
    <2>1. wire[c] \in Seq(Frames)
      BY DEF FanoutInv, ClientTypeOK
    <2>2. Len(wire[c]) \in Nat \ {0}
      BY <1>1, <2>1, EmptySeq
    <2> QED
      BY <1>1, <2>2, ArrivedFrame
  <1>3. Head(wire[c]).seq >= last[c]
    BY <1>1, <1>2 DEF FanoutInv, SnapshotComesFirst
  <1>4. Head(wire[c]).seq \in Nat /\ Head(wire[c]).seq >= 1
    BY <1>2, FrameFields DEF Faithful
  <1>5. last[c] \in Nat /\ last'[c] = AfterSnapshot(last[c], Head(wire[c]).seq)
    BY DEF ReceiveSnapshot, FanoutInv, ClientTypeOK
  <1> QED
    BY <1>3, <1>4, <1>5 DEF AfterSnapshot

LEMMA SinceIsBehindStep ==
  ASSUME FanoutInv, SinceIsBehind, [Next]_vars
  PROVE  SinceIsBehind'
  <1>0. /\ ClientTypeOK /\ last \in [Clients -> Nat]
        /\ since \in [Clients -> Nat]
    BY DEF FanoutInv, ClientTypeOK
  <1> SUFFICES ASSUME NEW d \in Clients
               PROVE  since'[d] <= last'[d] /\ (d \notin Resuming => since'[d] = 0)
    BY DEF SinceIsBehind
  <1>1. since[d] \in Nat /\ last[d] \in Nat /\ since[d] <= last[d]
        /\ (d \notin Resuming => since[d] = 0)
    BY <1>0 DEF SinceIsBehind
  <1>2. CASE since'[d] = since[d] /\ last'[d] = last[d]
    BY <1>1, <1>2
  <1>3. CASE ClientStep(d)
    <2>1. CASE Subscribe(d)
      BY <1>0, <1>1, <2>1 DEF Subscribe
    <2>2. CASE Gone(d)
      BY <1>0, <1>1, <2>2 DEF Gone, Hangup, AcceptChanged, Detach
    <2>3. CASE ReceiveSnapshot(d)
      <3>1. since' = since
        BY <2>3 DEF ReceiveSnapshot
      <3> QED
        BY <1>1, <2>3, <3>1, SnapshotIsNotOlder
    <2>4. CASE AcceptDelta(d) \/ AcceptError(d)
      <3>1. since' = since /\ last'[d] = last[d] + 1
        BY <2>4, AcceptsContinue DEF AcceptDelta, AcceptError
      <3> QED
        BY <1>1, <3>1
    <2>5. \/ Subscribe(d) \/ Gone(d) \/ ReceiveSnapshot(d)
          \/ AcceptDelta(d) \/ AcceptError(d) \/ UNCHANGED <<since, last>>
      BY <1>3
         DEF ClientStep, Handle, Receive, Refuse, Drop, Resume, SendReplayed,
             EndReplay, ReadSeq, SendSnapshot, Pump, Lagged, DropDuplicate,
             CloseOnGap, EndOfStream, Gone
    <2> QED
      BY <1>2, <2>1, <2>2, <2>3, <2>4, <2>5
  <1>4. CASE UNCHANGED clientVars
    BY <1>2, <1>4 DEF clientVars
  <1>5. ASSUME NEW c \in Clients, Leave(c)
        PROVE  since'[d] <= last'[d] /\ (d \notin Resuming => since'[d] = 0)
    BY <1>0, <1>2, <1>5, LeaveIsLocal
  <1> QED
    BY <1>0, <1>2, <1>3, <1>4, <1>5, ClientStepsAreLocal, StepCases
       DEF SameForOthers

(***************************************************************************)
(* The channel only grows.                                                 *)
(***************************************************************************)
LEMMA ChannelGrows ==
  ASSUME SceneInv, [SceneNext]_sceneVars
  PROVE  /\ Len(tx) \in Nat /\ Len(tx') \in Nat /\ Len(tx) <= Len(tx')
         /\ \A i \in 1 .. Len(tx) : tx'[i] = tx[i]
  <1>0. tx \in Seq(Payloads) /\ Len(tx) \in Nat
    BY LenProperties DEF SceneInv, SceneTypeOK
  <1>1. ASSUME NEW w \in Writers, Send(w)
        PROVE  /\ Len(tx') = Len(tx) + 1
               /\ \A i \in 1 .. Len(tx) : tx'[i] = tx[i]
    <2>1. record[w] \in Payloads
      BY DEF SceneInv, SceneTypeOK
    <2> QED
      BY <1>0, <1>1, <2>1, AppendProperties DEF Send
  <1>2. tx' = tx \/ \E w \in Writers : Send(w)
    BY DEF SceneNext, Continue, Apply, AdvanceSeq, PushReplay,
           AdvanceSeqForChange, sceneVars
  <1> QED
    BY <1>0, <1>1, <1>2

LEMMA ReceiversInBoundsStep ==
  ASSUME FanoutInv, ReceiversInBounds, [Next]_vars
  PROVE  ReceiversInBounds'
  <1>0. /\ SceneInv /\ ClientTypeOK /\ rx \in [Clients -> Nat]
    BY DEF FanoutInv, ClientTypeOK
  <1>1. /\ Len(tx) \in Nat /\ Len(tx') \in Nat /\ Len(tx) <= Len(tx')
    BY <1>0, NextIsSceneStep, ChannelGrows
  <1> SUFFICES ASSUME NEW d \in Clients PROVE rx'[d] <= Len(tx') + 1
    BY DEF ReceiversInBounds
  <1>2. rx[d] \in Nat /\ rx[d] <= Len(tx) + 1
    BY <1>0 DEF ReceiversInBounds
  <1>3. CASE rx'[d] = rx[d]
    BY <1>1, <1>2, <1>3
  <1>4. CASE ClientStep(d)
    <2>1. CASE Subscribe(d) \/ Gone(d)
      BY <1>0, <1>1, <2>1 DEF Subscribe, Gone, Hangup, AcceptChanged, Detach
    <2>2. CASE Pump(d)
      BY <1>0, <1>1, <1>2, <2>2 DEF Pump, Unread
    <2>3. Subscribe(d) \/ Gone(d) \/ Pump(d) \/ UNCHANGED rx
      BY <1>4
         DEF ClientStep, Handle, Receive, Refuse, Drop, Resume, SendReplayed,
             EndReplay, ReadSeq, SendSnapshot, Lagged, DropDuplicate,
             CloseOnGap, EndOfStream, ReceiveSnapshot, AcceptDelta,
             AcceptError, Gone
    <2> QED
      BY <1>3, <2>1, <2>2, <2>3
  <1>5. CASE UNCHANGED clientVars
    BY <1>3, <1>5 DEF clientVars
  <1>6. ASSUME NEW c \in Clients, Leave(c) PROVE rx'[d] <= Len(tx') + 1
    BY <1>0, <1>3, <1>6, LeaveIsLocal
  <1> QED
    BY <1>0, <1>3, <1>4, <1>5, <1>6, ClientStepsAreLocal, StepCases
       DEF SameForOthers

-----------------------------------------------------------------------------
(* Nothing is skipped                                                      *)

(***************************************************************************)
(* The places a number can be in on its way to a client.                   *)
(***************************************************************************)
OnWire(c, n) ==
    \E i \in 1 .. Len(wire[c]) :
        \/ wire[c][i].kind = "delta" /\ wire[c][i].seq = n
        \/ wire[c][i].kind = "snapshot" /\ wire[c][i].seq >= n

InBacklog(c, n) == \E i \in 1 .. Len(backlog[c]) : backlog[c][i].seq = n

InChannel(c, n) == \E i \in rx[c] .. Len(tx) : tx[i].seq = n

Carried(n) == \E w \in Writers : Numbered(w) /\ record[w].seq = n

InSnapshot(c, n) == phase[c] = "snapshotting" /\ snapSeq[c] >= n

Serving(c) == phase[c] \in {"snapshotting", "replaying", "live"}

LEMMA OnItsWayParts ==
  ASSUME NEW c, NEW n
  PROVE  /\ OnItsWay(c, n) <=>
              \/ OnWire(c, n) \/ InBacklog(c, n) \/ InChannel(c, n)
              \/ Carried(n) \/ InSnapshot(c, n)
         /\ OnItsWay(c, n)' <=>
              \/ OnWire(c, n)' \/ InBacklog(c, n)' \/ InChannel(c, n)'
              \/ Carried(n)' \/ InSnapshot(c, n)'
  BY DEF OnItsWay, OnWire, InBacklog, InChannel, Carried, InSnapshot, Numbered

(***************************************************************************)
(* A number that a writer carries or that is in the channel ahead of a     *)
(* receiver stays so until the receiver takes it.                          *)
(***************************************************************************)
LEMMA ChannelKeeps ==
  ASSUME SceneInv, [SceneNext]_sceneVars, NEW c, NEW n \in Nat,
         rx[c] \in Nat \ {0}, rx[c] <= Len(tx) + 1, rx'[c] = rx[c],
         InChannel(c, n) \/ Carried(n)
  PROVE  InChannel(c, n)' \/ Carried(n)'
  <1>0. /\ Len(tx) \in Nat /\ Len(tx') \in Nat /\ Len(tx) <= Len(tx')
        /\ \A i \in 1 .. Len(tx) : tx'[i] = tx[i]
    BY ChannelGrows
  <1>1. CASE InChannel(c, n)
    BY <1>0, <1>1 DEF InChannel
  <1>2. CASE Carried(n)
    <2>1. PICK v \in Writers : v \in CarriersOf(n)
      BY <1>2 DEF Carried, CarriersOf
    <2>2. CASE \E w \in Writers : Send(w)
      <3>1. PICK w \in Writers : Send(w)
        BY <2>2
      <3>2. CASE n = record[w].seq
        <4>1. Len(tx) + 1 \in SentAs(n)'
          BY <3>1, <3>2, SendDelivers
        <4>2. Len(tx) + 1 \in 1 .. Len(tx') /\ tx'[Len(tx) + 1].seq = n
          BY <4>1 DEF SentAs
        <4> QED
          BY <1>0, <4>2 DEF InChannel
      <3>3. CASE n # record[w].seq
        <4>1. v \in CarriersOf(n)'
          BY <2>1, <3>1, <3>3, SendDelivers
        <4> QED
          BY <4>1 DEF CarriersOf, Carried
      <3> QED
        BY <3>2, <3>3
    <2>3. CASE ~ \E w \in Writers : Send(w)
      <3>1. v \in CarriersOf(n)'
        <4>1. CASE \E w \in Writers : AdvanceSeq(w)
          BY <2>1, <4>1, AdvanceSeqCarries
        <4>2. CASE \/ \E w \in Writers : Apply(w) \/ PushReplay(w)
                   \/ AdvanceSeqForChange
                   \/ UNCHANGED sceneVars
          BY <2>1, <4>2, OtherStepsCarry
        <4> QED
          BY <2>3, <4>1, <4>2 DEF SceneNext, Continue
      <3> QED
        BY <3>1 DEF CarriersOf, Carried
    <2> QED
      BY <2>2, <2>3
  <1> QED
    BY <1>1, <1>2

(***************************************************************************)
(* The number of a new write is carried by the writer it was given to.     *)
(***************************************************************************)
LEMMA NewNumberIsCarried ==
  ASSUME SceneInv, [SceneNext]_sceneVars, NEW n \in Nat, n > seq, n <= seq',
         n \notin Taken'
  PROVE  Carried(n)'
  <1>0. seq \in Nat
    BY DEF SceneInv, SceneTypeOK
  <1>1. AdvanceSeqForChange \/ \E w \in Writers : AdvanceSeq(w)
    BY <1>0 DEF SceneNext, Continue, Apply, PushReplay, Send, sceneVars
  <1>2. n = seq + 1
    <2>1. seq' = seq + 1
      BY <1>1 DEF AdvanceSeq, AdvanceSeqForChange
    <2> QED
      BY <1>0, <2>1
  <1>3. PICK w \in Writers : AdvanceSeq(w)
    BY <1>1, <1>2, ChangeTakes
  <1>4. w \in CarriersOf(n)'
    BY <1>2, <1>3, AdvanceSeqCarries
  <1> QED
    BY <1>4 DEF CarriersOf, Carried

(***************************************************************************)
(* What Emit puts on the socket is there, and what was there stays.        *)
(***************************************************************************)
LEMMA EmitKeeps ==
  ASSUME ClientTypeOK, NEW c \in Clients, NEW f \in Frames, Emit(c, f),
         NEW n \in Nat
  PROVE  /\ OnWire(c, n) => OnWire(c, n)'
         /\ f.kind = "delta" /\ f.seq = n => OnWire(c, n)'
         /\ f.kind = "snapshot" /\ f.seq >= n => OnWire(c, n)'
  <1>1. /\ Len(wire[c]) \in Nat
        /\ Len(wire'[c]) = Len(wire[c]) + 1
        /\ \A i \in 1 .. Len(wire[c]) : wire'[c][i] = wire[c][i]
        /\ wire'[c][Len(wire[c]) + 1] = f
    BY EmitFacts DEF ClientTypeOK
  <1>2. Len(wire[c]) + 1 \in 1 .. Len(wire'[c])
    BY <1>1
  <1>3. ASSUME OnWire(c, n) PROVE OnWire(c, n)'
    <2>1. PICK i \in 1 .. Len(wire[c]) :
             \/ wire[c][i].kind = "delta" /\ wire[c][i].seq = n
             \/ wire[c][i].kind = "snapshot" /\ wire[c][i].seq >= n
      BY <1>3 DEF OnWire
    <2>2. i \in 1 .. Len(wire'[c]) /\ wire'[c][i] = wire[c][i]
      BY <1>1
    <2> QED
      BY <2>1, <2>2, Zenon DEF OnWire
  <1>4. ASSUME \/ f.kind = "delta" /\ f.seq = n
               \/ f.kind = "snapshot" /\ f.seq >= n
        PROVE  OnWire(c, n)'
    BY <1>1, <1>2, <1>4, Zenon DEF OnWire
  <1> QED
    BY <1>3, <1>4

(***************************************************************************)
(* A frame that is read takes nothing off the socket that its client has   *)
(* not counted then.                                                       *)
(***************************************************************************)
LEMMA ConsumeKeeps ==
  ASSUME ClientTypeOK, NEW c \in Clients, wire[c] # <<>>, Consume(c),
         NEW n \in Nat, OnWire(c, n), Head(wire[c]).seq < n
  PROVE  OnWire(c, n)'
  <1>1. /\ Len(wire[c]) \in Nat \ {0}
        /\ Len(wire'[c]) = Len(wire[c]) - 1
        /\ \A i \in 1 .. Len(wire'[c]) : wire'[c][i] = wire[c][i + 1]
        /\ Head(wire[c]) = wire[c][1] /\ Head(wire[c]) \in Frames
    BY ConsumeFacts DEF ClientTypeOK
  <1>2. PICK i \in 1 .. Len(wire[c]) :
          \/ wire[c][i].kind = "delta" /\ wire[c][i].seq = n
          \/ wire[c][i].kind = "snapshot" /\ wire[c][i].seq >= n
    BY DEF OnWire
  <1>3. Head(wire[c]).seq \in Nat
    BY <1>1, FrameFields
  <1>4. i # 1
    BY <1>1, <1>2, <1>3
  <1>5. PICK j \in 1 .. Len(wire'[c]) : j + 1 = i
    <2>1. i - 1 \in 1 .. Len(wire'[c]) /\ (i - 1) + 1 = i
      BY <1>1, <1>4
    <2> QED
      BY <2>1
  <1>6. wire'[c][j] = wire[c][i]
    BY <1>1, <1>5
  <1> QED
    BY <1>2, <1>6 DEF OnWire

(***************************************************************************)
(* The actions of a connection, for a number that its client has not       *)
(* counted after the step.                                                 *)
(***************************************************************************)
LEMMA HandlerKeepsWay ==
  ASSUME FanoutInv, SinceIsBehind, NEW d \in Clients, NEW n \in Nat,
         n > last[d], OnItsWay(d, n),
         \/ SendReplayed(d) \/ EndReplay(d) \/ SendSnapshot(d)
         \/ Pump(d) \/ Refuse(d)
  PROVE  OnItsWay(d, n)'
  <1>0. /\ ClientTypeOK /\ SceneInv /\ seq \in Nat /\ store \in [Paths -> Nat]
        /\ phase \in [Clients -> Phases] /\ rx \in [Clients -> Nat]
        /\ backlog \in [Clients -> Seq(Payloads)]
        /\ since[d] \in Nat /\ last[d] \in Nat /\ since[d] <= last[d]
        /\ snapSeq[d] \in Nat
    BY DEF FanoutInv, ClientTypeOK, SinceIsBehind, SceneInv, SceneTypeOK
  <1>1. /\ UNCHANGED <<tx, pc, record>>
        /\ Carried(n)' <=> Carried(n)
    BY DEF SendReplayed, EndReplay, SendSnapshot, Pump, Refuse, sceneVars,
           Carried, Numbered
  <1>2. CASE SendReplayed(d)
    <2>1. /\ phase[d] = "replaying" /\ rx' = rx /\ backlog[d] # <<>>
          /\ backlog'[d] = Tail(backlog[d])
      BY <1>0, <1>2 DEF SendReplayed
    <2>2. /\ Head(backlog[d]) \in Payloads
          /\ Len(backlog[d]) \in Nat \ {0} /\ Head(backlog[d]) = backlog[d][1]
          /\ Len(backlog'[d]) = Len(backlog[d]) - 1
          /\ \A i \in 1 .. Len(backlog'[d]) : backlog'[d][i] = backlog[d][i + 1]
      BY <1>0, <2>1, EmptySeq, HeadTailProperties
    <2>3. OnWire(d, n) => OnWire(d, n)'
      <3>1. DeltaFrame(Head(backlog[d])) \in Frames
        BY <2>2, DeltaFrameFields
      <3>2. \/ wire' = wire
            \/ Emit(d, DeltaFrame(Head(backlog[d])))
        BY <1>2 DEF SendReplayed
      <3> QED
        BY <1>0, <3>1, <3>2, EmitKeeps DEF OnWire
    <2>4. ASSUME InBacklog(d, n) PROVE OnWire(d, n)' \/ InBacklog(d, n)'
      <3>1. PICK i \in 1 .. Len(backlog[d]) : backlog[d][i].seq = n
        BY <2>4 DEF InBacklog
      <3>2. CASE i = 1
        <4>1. Head(backlog[d]).seq = n
          BY <2>2, <3>1, <3>2
        <4>2. Wanted(Head(backlog[d]), since[d])
          BY <1>0, <4>1 DEF Wanted
        <4>3. Emit(d, DeltaFrame(Head(backlog[d])))
          BY <1>2, <4>2 DEF SendReplayed
        <4>4. /\ DeltaFrame(Head(backlog[d])) \in Frames
              /\ DeltaFrame(Head(backlog[d])).kind = "delta"
              /\ DeltaFrame(Head(backlog[d])).seq = n
          BY <2>2, <4>1, DeltaFrameFields
        <4> QED
          BY <1>0, <4>3, <4>4, EmitKeeps
      <3>3. CASE i # 1
        <4>1. i - 1 \in 1 .. Len(backlog'[d]) /\ (i - 1) + 1 = i
          BY <2>2, <3>3
        <4>2. backlog'[d][i - 1] = backlog[d][i]
          BY <2>2, <4>1
        <4> QED
          BY <3>1, <4>1, <4>2 DEF InBacklog
      <3> QED
        BY <3>2, <3>3
    <2>5. ~ InSnapshot(d, n) /\ (InChannel(d, n)' <=> InChannel(d, n))
      BY <1>1, <2>1 DEF InSnapshot, InChannel
    <2> QED
      BY <1>1, <2>3, <2>4, <2>5, OnItsWayParts
  <1>3. CASE EndReplay(d)
    <2>1. phase[d] = "replaying" /\ UNCHANGED <<rx, backlog, wire>>
      BY <1>3 DEF EndReplay
    <2>2. /\ ~ InSnapshot(d, n)
          /\ InChannel(d, n)' <=> InChannel(d, n)
          /\ OnWire(d, n)' <=> OnWire(d, n)
          /\ InBacklog(d, n)' <=> InBacklog(d, n)
      BY <1>1, <2>1 DEF InSnapshot, InChannel, OnWire, InBacklog
    <2> QED
      BY <1>1, <2>2, OnItsWayParts
  <1>4. CASE SendSnapshot(d)
    <2>1. /\ UNCHANGED <<rx, backlog>>
          /\ Emit(d, SnapshotFrame(snapSeq[d], store))
      BY <1>4 DEF SendSnapshot
    <2>2. /\ SnapshotFrame(snapSeq[d], store) \in Frames
          /\ SnapshotFrame(snapSeq[d], store).kind = "snapshot"
          /\ SnapshotFrame(snapSeq[d], store).seq = snapSeq[d]
      BY <1>0, SnapshotFrameFields
    <2>3. OnWire(d, n) \/ InSnapshot(d, n) => OnWire(d, n)'
      BY <1>0, <2>1, <2>2, EmitKeeps DEF InSnapshot
    <2>4. /\ InChannel(d, n)' <=> InChannel(d, n)
          /\ InBacklog(d, n)' <=> InBacklog(d, n)
      BY <1>1, <2>1 DEF InChannel, InBacklog
    <2> QED
      BY <1>1, <2>3, <2>4, OnItsWayParts
  <1>5. CASE Pump(d)
    <2>1. /\ phase[d] = "live" /\ UNCHANGED backlog
          /\ rx'[d] = rx[d] + 1 /\ rx[d] \in 1 .. Len(tx)
          /\ Emit(d, DeltaFrame(tx[rx[d]])) /\ tx[rx[d]] \in Payloads
      <3>1. rx[d] \in Nat \ {0}
        BY <1>5, ReceiverIsTaken DEF Pump
      <3>2. tx \in Seq(Payloads) /\ Len(tx) \in Nat
        BY LenProperties DEF FanoutInv, SceneInv, SceneTypeOK
      <3>3. rx[d] \in 1 .. Len(tx)
        BY <1>5, <3>1, <3>2 DEF Pump, Unread
      <3>4. tx[rx[d]] \in Payloads
        BY <3>2, <3>3, ElementOfSeq
      <3>5. /\ phase[d] = "live" /\ UNCHANGED backlog /\ rx'[d] = rx[d] + 1
            /\ Emit(d, DeltaFrame(tx[rx[d]]))
        BY <1>0, <1>5 DEF Pump
      <3> QED
        BY <3>3, <3>4, <3>5
    <2>2. /\ DeltaFrame(tx[rx[d]]) \in Frames
          /\ DeltaFrame(tx[rx[d]]).kind = "delta"
          /\ DeltaFrame(tx[rx[d]]).seq = tx[rx[d]].seq
      BY <2>1, DeltaFrameFields
    <2>3. OnWire(d, n) => OnWire(d, n)'
      BY <1>0, <2>1, <2>2, EmitKeeps
    <2>4. ASSUME InChannel(d, n) PROVE OnWire(d, n)' \/ InChannel(d, n)'
      <3>1. PICK i \in rx[d] .. Len(tx) : tx[i].seq = n
        BY <2>4 DEF InChannel
      <3>2. CASE i = rx[d]
        BY <1>0, <2>1, <2>2, <3>1, <3>2, EmitKeeps
      <3>3. CASE i # rx[d]
        <4>1. i \in rx'[d] .. Len(tx')
          BY <1>1, <2>1, <3>3
        <4> QED
          BY <1>1, <3>1, <4>1 DEF InChannel
      <3> QED
        BY <3>2, <3>3
    <2>5. ~ InSnapshot(d, n) /\ (InBacklog(d, n)' <=> InBacklog(d, n))
      BY <2>1 DEF InSnapshot, InBacklog
    <2> QED
      BY <1>1, <2>3, <2>4, <2>5, OnItsWayParts
  <1>6. CASE Refuse(d)
    <2>1. /\ phase[d] = "live" /\ UNCHANGED <<rx, backlog>>
          /\ Emit(d, ErrorFrame(seq))
      BY <1>6 DEF Refuse
    <2>2. OnWire(d, n) => OnWire(d, n)'
      BY <1>0, <2>1, ErrorFrameFields, EmitKeeps
    <2>3. /\ ~ InSnapshot(d, n)
          /\ InChannel(d, n)' <=> InChannel(d, n)
          /\ InBacklog(d, n)' <=> InBacklog(d, n)
      BY <1>1, <2>1 DEF InSnapshot, InChannel, InBacklog
    <2> QED
      BY <1>1, <2>2, <2>3, OnItsWayParts
  <1> QED
    BY <1>2, <1>3, <1>4, <1>5, <1>6

LEMMA ReceiverKeepsWay ==
  ASSUME FanoutInv, NEW d \in Clients, NEW n \in Nat,
         n > last'[d], OnItsWay(d, n),
         \/ ReceiveSnapshot(d) \/ AcceptDelta(d) \/ AcceptError(d)
         \/ DropDuplicate(d)
  PROVE  OnItsWay(d, n)'
  <1>0. ClientTypeOK /\ last \in [Clients -> Nat]
    BY DEF FanoutInv, ClientTypeOK
  <1>1. wire[d] # <<>> /\ Consume(d)
    BY DEF ReceiveSnapshot, AcceptDelta, AcceptError, DropDuplicate, Arrived,
           Counted
  <1>2. Head(wire[d]).seq <= last'[d] /\ Head(wire[d]).seq \in Nat
        /\ last'[d] \in Nat
    <2>0. Head(wire[d]).seq \in Nat
      BY <1>0, <1>1, ConsumeFacts, FrameFields DEF ClientTypeOK
    <2>1. CASE ReceiveSnapshot(d)
      BY <2>0, <2>1, SnapshotIsNotOlder
    <2>2. CASE AcceptDelta(d) \/ AcceptError(d)
      BY <1>0, <2>0, <2>2, AcceptsContinue
    <2>3. CASE DropDuplicate(d)
      BY <1>0, <2>0, <2>3 DEF DropDuplicate, Observed, ObserveSeq
    <2> QED
      BY <2>1, <2>2, <2>3
  <1>3. OnWire(d, n) => OnWire(d, n)'
    BY <1>0, <1>1, <1>2, ConsumeKeeps
  <1>4. /\ UNCHANGED <<tx, pc, record, phase, rx, backlog, snapSeq>>
    BY DEF ReceiveSnapshot, AcceptDelta, AcceptError, DropDuplicate, sceneVars
  <1>5. /\ InBacklog(d, n)' <=> InBacklog(d, n)
        /\ InChannel(d, n)' <=> InChannel(d, n)
        /\ Carried(n)' <=> Carried(n)
        /\ InSnapshot(d, n)' <=> InSnapshot(d, n)
    BY <1>4 DEF InBacklog, InChannel, Carried, InSnapshot, Numbered
  <1> QED
    BY <1>3, <1>5, OnItsWayParts

(***************************************************************************)
(* A slice without holes holds every number that the client has not        *)
(* counted and that is not still on its way to the buffer.                 *)
(***************************************************************************)
LEMMA ResumeFindsWay ==
  ASSUME FanoutInv, SinceIsBehind, SliceComplete \/ Resuming = {},
         NEW d \in Clients, Resume(d), NEW n \in Nat, n > last[d], n <= seq,
         n \notin Taken
  PROVE  OnItsWay(d, n)'
  <1>0. /\ since[d] \in Nat /\ last[d] \in Nat /\ since[d] <= last[d]
        /\ seq \in Nat /\ backlog \in [Clients -> Seq(Payloads)]
    BY DEF FanoutInv, ClientTypeOK, SinceIsBehind, SceneInv, SceneTypeOK
  <1>1. /\ since[d] > 0 /\ since[d] <= seq /\ Covered(replay, since[d])
        /\ backlog'[d] = replay /\ UNCHANGED <<pc, record>>
    BY <1>0 DEF Resume, Resumable, sceneVars
  <1>2. SliceComplete
    BY <1>1 DEF SinceIsBehind
  <1>3. \/ \E i \in 1 .. Len(replay) : replay[i].seq = n
        \/ \E w \in Writers : pc[w] = "numbered" /\ record[w].seq = n
    BY <1>0, <1>1, <1>2 DEF SliceComplete
  <1>4. InBacklog(d, n)' \/ Carried(n)'
    BY <1>1, <1>3 DEF InBacklog, Carried, Numbered
  <1> QED
    BY <1>4, OnItsWayParts

LEMMA NothingSkippedStep ==
  ASSUME FanoutInv, SinceIsBehind, ReceiversInBounds, NothingSkipped,
         SliceComplete \/ Resuming = {}, [Next]_vars
  PROVE  NothingSkipped'
  <1>0. /\ SceneInv /\ ClientTypeOK /\ seq \in Nat /\ seq' \in Nat
        /\ last \in [Clients -> Nat] /\ last' \in [Clients -> Nat]
        /\ phase \in [Clients -> Phases]
    <2>1. FanoutInv'
      BY FanoutInvStep
    <2> QED
      BY <2>1 DEF FanoutInv, ClientTypeOK, SceneInv, SceneTypeOK
  <1> SUFFICES ASSUME NEW d \in Clients, Serving(d)',
                      NEW n \in (last'[d] + 1 .. seq') \ Taken'
               PROVE  OnItsWay(d, n)'
    BY DEF NothingSkipped, Serving
  <1>1. /\ n \in Nat /\ n > last'[d] /\ n <= seq' /\ n >= 1
        /\ last[d] \in Nat /\ last'[d] \in Nat
    BY <1>0
  <1>a. n <= seq => n \notin Taken
    BY <1>0, <1>1, NextIsSceneStep, TakenStable
  <1>2. ASSUME Serving(d), n > last[d], n <= seq PROVE OnItsWay(d, n)
    BY <1>0, <1>1, <1>2, <1>a DEF NothingSkipped, Serving
  <1>3. CASE [SceneNext]_sceneVars /\ UNCHANGED clientVars
    <2>1. UNCHANGED <<phase, since, rx, snapSeq, backlog, wire, last>>
      BY <1>3 DEF clientVars
    <2>2. CASE n > seq
      BY <1>0, <1>1, <1>3, <2>2, NewNumberIsCarried, OnItsWayParts
    <2>3. CASE n <= seq
      <3>1. OnItsWay(d, n)
        BY <1>1, <1>2, <2>1, <2>3 DEF Serving
      <3>2. rx[d] \in Nat \ {0} /\ rx[d] <= Len(tx) + 1
        <4>1. phase[d] \notin {"down", "away"}
          BY <2>1 DEF Serving
        <4> QED
          BY <4>1, ReceiverIsTaken DEF ReceiversInBounds
      <3>3. InChannel(d, n) \/ Carried(n) => InChannel(d, n)' \/ Carried(n)'
        BY <1>0, <1>1, <1>3, <2>1, <3>2, ChannelKeeps
      <3>4. /\ OnWire(d, n)' <=> OnWire(d, n)
            /\ InBacklog(d, n)' <=> InBacklog(d, n)
            /\ InSnapshot(d, n)' <=> InSnapshot(d, n)
        BY <2>1 DEF OnWire, InBacklog, InSnapshot
      <3> QED
        BY <3>1, <3>3, <3>4, OnItsWayParts
    <2> QED
      BY <1>0, <1>1, <2>2, <2>3
  <1>4. ASSUME NEW c \in Clients, c # d, ClientStep(c)
        PROVE  OnItsWay(d, n)'
    <2>1. /\ phase'[d] = phase[d] /\ rx'[d] = rx[d]
          /\ snapSeq'[d] = snapSeq[d] /\ backlog'[d] = backlog[d]
          /\ wire'[d] = wire[d] /\ last'[d] = last[d]
          /\ UNCHANGED <<seq, tx, pc, record>>
      BY <1>0, <1>4, ClientStepsAreLocal DEF sceneVars, SameForOthers
    <2>2. OnItsWay(d, n)
      BY <1>1, <1>2, <2>1 DEF Serving
    <2>3. /\ OnWire(d, n)' <=> OnWire(d, n)
          /\ InBacklog(d, n)' <=> InBacklog(d, n)
          /\ InChannel(d, n)' <=> InChannel(d, n)
          /\ Carried(n)' <=> Carried(n)
          /\ InSnapshot(d, n)' <=> InSnapshot(d, n)
      BY <2>1 DEF OnWire, InBacklog, InChannel, Carried, InSnapshot, Numbered
    <2> QED
      BY <2>2, <2>3, OnItsWayParts
  <1>5. ASSUME ClientStep(d) PROVE OnItsWay(d, n)'
    <2>0. seq' = seq
      BY <1>0, <1>5, ClientStepsAreLocal DEF sceneVars
    <2>1. ~ (Subscribe(d) \/ Gone(d) \/ Lagged(d))
      BY <1>0 DEF Subscribe, Gone, Hangup, AcceptChanged, Detach, Lagged,
                  Serving
    <2>2. CASE Resume(d)
      <3>1. last' = last
        BY <2>2 DEF Resume
      <3> QED
        BY <1>1, <1>a, <2>0, <2>2, <3>1, ResumeFindsWay
    <2>3. CASE ReadSeq(d)
      <3>1. InSnapshot(d, n)'
        BY <1>0, <1>1, <2>0, <2>3
           DEF ReadSeq, InSnapshot, FanoutInv, ClientTypeOK
      <3> QED
        BY <3>1, OnItsWayParts
    <2>4. CASE \/ SendReplayed(d) \/ EndReplay(d) \/ SendSnapshot(d)
               \/ Pump(d) \/ Refuse(d)
      <3>1. last' = last /\ Serving(d)
        BY <2>4 DEF SendReplayed, EndReplay, SendSnapshot, Pump, Refuse, Serving
      <3>2. OnItsWay(d, n)
        BY <1>1, <1>2, <2>0, <3>1
      <3> QED
        BY <1>1, <2>4, <3>1, <3>2, HandlerKeepsWay
    <2>5. CASE \/ ReceiveSnapshot(d) \/ AcceptDelta(d) \/ AcceptError(d)
               \/ DropDuplicate(d)
      <3>1. phase' = phase
        BY <2>5 DEF ReceiveSnapshot, AcceptDelta, AcceptError, DropDuplicate
      <3>2. last[d] <= last'[d]
        <4>1. CASE ReceiveSnapshot(d)
          BY <4>1, SnapshotIsNotOlder
        <4>2. CASE AcceptDelta(d) \/ AcceptError(d)
          BY <1>1, <4>2, AcceptsContinue
        <4>3. CASE DropDuplicate(d)
          BY <1>1, <4>3 DEF DropDuplicate
        <4> QED
          BY <2>5, <4>1, <4>2, <4>3
      <3>3. OnItsWay(d, n)
        BY <1>1, <1>2, <2>0, <3>1, <3>2 DEF Serving
      <3> QED
        BY <1>1, <2>5, <3>3, ReceiverKeepsWay
    <2>6. \/ Subscribe(d) \/ Gone(d) \/ Lagged(d) \/ Resume(d) \/ ReadSeq(d)
          \/ SendReplayed(d) \/ EndReplay(d) \/ SendSnapshot(d)
          \/ Pump(d) \/ Refuse(d)
          \/ ReceiveSnapshot(d) \/ AcceptDelta(d) \/ AcceptError(d)
          \/ DropDuplicate(d)
      BY <1>5 DEF ClientStep, Handle, Receive, Drop, CloseOnGap, EndOfStream,
                  Gone
    <2> QED
      BY <2>1, <2>2, <2>3, <2>4, <2>5, <2>6
  <1>6. ASSUME NEW c \in Clients, Leave(c)
        PROVE  OnItsWay(d, n)'
    <2>1. /\ SameForOthers(c) /\ AdvanceSeqForChange /\ phase'[c] = "leaving"
          /\ seq' = seq + 1 /\ seq + 1 \in Taken'
      BY <1>0, <1>6, LeaveIsLocal, ChangeTakes
    <2>2. n <= seq /\ UNCHANGED <<tx, pc, record>> /\ c # d
      BY <1>0, <1>1, <2>1 DEF AdvanceSeqForChange, Serving
    <2>3. /\ phase'[d] = phase[d] /\ rx'[d] = rx[d]
          /\ snapSeq'[d] = snapSeq[d] /\ backlog'[d] = backlog[d]
          /\ wire'[d] = wire[d] /\ last'[d] = last[d]
      BY <2>1, <2>2 DEF SameForOthers
    <2>4. OnItsWay(d, n)
      BY <1>1, <1>2, <2>2, <2>3 DEF Serving
    <2>5. /\ OnWire(d, n)' <=> OnWire(d, n)
          /\ InBacklog(d, n)' <=> InBacklog(d, n)
          /\ InChannel(d, n)' <=> InChannel(d, n)
          /\ Carried(n)' <=> Carried(n)
          /\ InSnapshot(d, n)' <=> InSnapshot(d, n)
      BY <2>2, <2>3
         DEF OnWire, InBacklog, InChannel, Carried, InSnapshot, Numbered
    <2> QED
      BY <2>4, <2>5, OnItsWayParts
  <1> QED
    BY <1>3, <1>4, <1>5, <1>6, StepCases

LEMMA WayInit ==
  Init => SinceIsBehind /\ ReceiversInBounds /\ NothingSkipped
  BY EmptySeq DEF Init, SceneInit, SinceIsBehind, ReceiversInBounds,
                  NothingSkipped

(***************************************************************************)
(* While a handler serves a client, every write whose number the client    *)
(* has not counted is on its way to it: for any number of racing writers   *)
(* as long as nobody resumes (Subscribe takes the receiver before          *)
(* send_snapshot reads the number), and with resuming clients when one     *)
(* task writes, so that the replayed slice lacks no write.  Numbers that   *)
(* other connections took as they left are excepted: nobody is sent them.  *)
(***************************************************************************)
THEOREM NothingIsSkipped ==
  ASSUME OneWriter \/ Resuming = {}
  PROVE  Spec => []NothingSkipped
  <1> DEFINE Inv == /\ FanoutInv /\ SinceIsBehind /\ ReceiversInBounds
                    /\ NothingSkipped /\ (OneWriter => ReplayInv)
  <1>1. Init => Inv
    BY FanoutInvInit, WayInit, ReplayInvInit DEF Init
  <1>2. Inv /\ [Next]_vars => Inv'
    <2> SUFFICES ASSUME Inv, [Next]_vars PROVE Inv'
      OBVIOUS
    <2>1. FanoutInv' /\ SinceIsBehind' /\ ReceiversInBounds'
      BY FanoutInvStep, SinceIsBehindStep, ReceiversInBoundsStep
    <2>2. OneWriter => ReplayInv'
      BY NextIsSceneStep, ReplayInvStep DEF FanoutInv
    <2>3. OneWriter => SliceComplete
      BY OrderIsComplete DEF FanoutInv
    <2>4. NothingSkipped'
      BY <2>3, NothingSkippedStep
    <2> QED
      BY <2>1, <2>2, <2>4 DEF OneWriter
  <1>3. Inv => NothingSkipped
    OBVIOUS
  <1> QED
    BY <1>1, <1>2, <1>3, PTL DEF Spec

-----------------------------------------------------------------------------
(* What Delivery promises                                                  *)

LEMMA InitMaps == Init => Promise!Init
  BY DEF Init, SceneInit, Nothing, Promise!Init

LEMMA ChangePublishes ==
  ASSUME AdvanceSeqForChange, UNCHANGED <<last, view, stolen>>
  PROVE  Promise!Publish
  <1>1. log' = Append(log, [paths |-> {}, id |-> 0])
    BY DEF AdvanceSeqForChange, Nothing
  <1>2. 0 \in 0 .. MaxEmits /\ {} \in SUBSET Paths
    BY CapsAssumption
  <1> QED
    BY <1>1, <1>2 DEF Promise!Publish

(***************************************************************************)
(* A write is published when it gets its number, and a number taken by a   *)
(* connection that leaves is published as a write of nothing; the other    *)
(* steps of the scene cannot be told from outside.                         *)
(***************************************************************************)
LEMMA SceneStepMaps ==
  ASSUME FanoutInv, SceneNext, UNCHANGED clientVars
  PROVE  Promise!Publish \/ UNCHANGED <<log, last, view, stolen>>
  <1>a. UNCHANGED <<last, view, stolen>>
    BY DEF clientVars
  <1>1. ASSUME NEW w \in Writers, AdvanceSeq(w)
        PROVE  Promise!Publish
    <2>1. log' = Append(log, [paths |-> record[w].paths, id |-> record[w].id])
      BY <1>1 DEF AdvanceSeq
    <2>2. record[w].paths \in SUBSET Paths
      BY DEF FanoutInv, SceneInv, SceneTypeOK, Payloads
    <2>3. pc[w] # "idle"
      BY <1>1 DEF AdvanceSeq
    <2>4. record[w].id \in 1 .. applied
      BY <2>3 DEF FanoutInv, SceneInv, CarriedIsStored
    <2>5. applied \in 0 .. MaxEmits
      BY DEF FanoutInv, SceneInv, SceneTypeOK
    <2>6. record[w].id \in 0 .. MaxEmits
      BY <2>4, <2>5, CapsAssumption
    <2> QED
      BY <1>a, <2>1, <2>2, <2>6 DEF Promise!Publish
  <1>2. ASSUME NEW w \in Writers, Apply(w) \/ PushReplay(w) \/ Send(w)
        PROVE  UNCHANGED log
    BY <1>2 DEF Apply, PushReplay, Send
  <1>3. CASE AdvanceSeqForChange
    BY <1>a, <1>3, ChangePublishes
  <1> QED
    BY <1>a, <1>1, <1>2, <1>3 DEF SceneNext, Continue

(***************************************************************************)
(* A snapshot rebases its client: it covers its number, which is no older  *)
(* than the client's count, and holds only values that were written.       *)
(***************************************************************************)
LEMMA SnapshotMaps ==
  ASSUME FanoutInv, NEW c \in Clients, ReceiveSnapshot(c)
  PROVE  Promise!Rebase(c)
  <1> DEFINE f == Head(wire[c])
  <1>a. /\ last \in [Clients -> Nat] /\ seq \in Nat /\ Len(log) = seq
        /\ store \in [Paths -> Nat] /\ applied \in 0 .. MaxEmits
        /\ \A p \in Paths : store[p] <= applied
    BY DEF FanoutInv, ClientTypeOK, SceneInv, SceneTypeOK, IdsBounded
  <1>1. wire[c] # <<>> /\ f.kind = "snapshot"
    BY DEF ReceiveSnapshot, Arrived
  <1>2. /\ f \in Frames /\ f = wire[c][1] /\ 1 \in 1 .. Len(wire[c])
        /\ Faithful(f)
    BY <1>1, ArrivedFrame
  <1>3. f.seq \in 1 .. Len(log) /\ Reflects(f.state, 1 .. f.seq)
    BY <1>a, <1>1, <1>2 DEF Faithful
  <1>4. f.seq >= last[c]
    BY <1>1, <1>2 DEF FanoutInv, SnapshotComesFirst
  <1>5. f.state \in [Paths -> Nat] /\ \A p \in Paths : f.state[p] <= store[p]
    BY <1>1, <1>2, FrameFields DEF Faithful
  <1>6. f.state \in [Paths -> 0 .. MaxEmits]
    <2>1. ASSUME NEW p \in Paths PROVE f.state[p] \in 0 .. MaxEmits
      BY <1>a, <1>5, CapsAssumption
    <2> QED
      BY <1>5, <2>1
  <1>7. Promise!Covers(f.state, f.seq)
    BY <1>3 DEF Reflects, Promise!Covers
  <1>8. /\ last' = [last EXCEPT ![c] = f.seq]
        /\ view' = [view EXCEPT ![c] = f.state]
        /\ stolen' = [stolen EXCEPT ![c] = {}]
        /\ log' = log
    <2>1. AfterSnapshot(last[c], f.seq) = f.seq
      BY <1>a, <1>3 DEF AfterSnapshot
    <2>2. last' = [last EXCEPT ![c] = AfterSnapshot(last[c], f.seq)]
      BY DEF ReceiveSnapshot
    <2>3. /\ view' = [view EXCEPT ![c] = f.state]
          /\ stolen' = [stolen EXCEPT ![c] = {}]
          /\ log' = log
      BY DEF ReceiveSnapshot, sceneVars
    <2> QED
      BY <2>1, <2>2, <2>3
  <1> QED
    BY <1>3, <1>4, <1>6, <1>7, <1>8 DEF Promise!Rebase

(***************************************************************************)
(* An accepted delta is the next write of the log, an accepted error only  *)
(* takes its number.                                                       *)
(***************************************************************************)
LEMMA AcceptedIsBehind ==
  ASSUME FanoutInv, NEW c \in Clients, AcceptDelta(c) \/ AcceptError(c)
  PROVE  /\ Promise!Behind(c)
         /\ Promise!CountOne(c)
         /\ Head(wire[c]).seq = last[c] + 1
         /\ Faithful(Head(wire[c]))
         /\ UNCHANGED log
  <1>a. last \in [Clients -> Nat] /\ seq \in Nat /\ Len(log) = seq
    BY DEF FanoutInv, ClientTypeOK, SceneInv, SceneTypeOK
  <1>1. /\ last[c] # 0 /\ Head(wire[c]).seq = last[c] + 1
        /\ last'[c] = last[c] + 1 /\ Faithful(Head(wire[c]))
    BY AcceptsContinue
  <1>2. last[c] \in 1 .. Len(log) - 1
    BY <1>a, <1>1 DEF Faithful
  <1>3. last' = [last EXCEPT ![c] = last[c] + 1]
    <2>1. \E n : last' = [last EXCEPT ![c] = n]
      BY DEF AcceptDelta, AcceptError
    <2> QED
      BY <1>a, <1>1, <2>1
  <1>4. UNCHANGED log
    BY DEF AcceptDelta, AcceptError, sceneVars
  <1> QED
    BY <1>1, <1>2, <1>3, <1>4 DEF Promise!Behind, Promise!CountOne

LEMMA DeltaMaps ==
  ASSUME FanoutInv, NEW c \in Clients, AcceptDelta(c)
  PROVE  Promise!Learn(c)
  <1> DEFINE f == Head(wire[c])
  <1>1. /\ Promise!Behind(c) /\ Promise!CountOne(c) /\ UNCHANGED log
        /\ f.seq = last[c] + 1 /\ Faithful(f)
    BY AcceptedIsBehind
  <1>2. f.kind = "delta"
    BY DEF AcceptDelta, Arrived
  <1>3. log[last[c] + 1].paths = f.paths /\ log[last[c] + 1].id = f.id
    BY <1>1, <1>2 DEF Faithful, Logged
  <1>4. /\ view' = [view EXCEPT ![c] = Overwrite(view[c], f.paths, f.id)]
        /\ stolen' = stolen
    BY DEF AcceptDelta
  <1> QED
    BY <1>1, <1>3, <1>4 DEF Promise!Learn, Overwrite

LEMMA ErrorMaps ==
  ASSUME FanoutInv, NEW c \in Clients, AcceptError(c)
  PROVE  Promise!Miss(c)
  <1>1. /\ Promise!Behind(c) /\ Promise!CountOne(c) /\ UNCHANGED log
        /\ Head(wire[c]).seq = last[c] + 1
    BY AcceptedIsBehind
  <1>2. /\ stolen' = [stolen EXCEPT ![c] = stolen[c] \cup {Head(wire[c]).seq}]
        /\ view' = view
    BY DEF AcceptError
  <1> QED
    BY <1>1, <1>2 DEF Promise!Miss

(***************************************************************************)
(* A client whose connection has gone starts again, or keeps its count and *)
(* its view.                                                               *)
(***************************************************************************)
LEMMA HangupMaps ==
  ASSUME FanoutInv, NEW c \in Clients, Hangup(c), UNCHANGED sceneVars
  PROVE  Promise!StartAgain(c) \/ UNCHANGED <<log, last, view, stolen>>
  <1>a. last \in [Clients -> Nat] /\ stolen \in [Clients -> SUBSET Nat]
    BY DEF FanoutInv, ClientTypeOK
  <1>1. UNCHANGED <<log, view>>
    BY DEF Hangup, Detach, sceneVars
  <1>2. CASE c \in Resuming
    <2>1. last' = last /\ stolen' = stolen
      BY <1>a, <1>2 DEF Hangup, Detach
    <2> QED
      BY <1>1, <2>1
  <1>3. CASE c \notin Resuming
    <2>1. /\ last' = [last EXCEPT ![c] = 0]
          /\ stolen' = [stolen EXCEPT ![c] = {}]
      BY <1>3 DEF Hangup, Detach
    <2> QED
      BY <1>1, <1>3, <2>1 DEF Promise!StartAgain
  <1> QED
    BY <1>2, <1>3

(***************************************************************************)
(* A client that learns that its connection went on starts again: the next *)
(* number of its log is the one its own connection took.                   *)
(***************************************************************************)
LEMMA ChangedMaps ==
  ASSUME FanoutInv, NEW c \in Clients, AcceptChanged(c)
  PROVE  Promise!StartAgain(c)
  <1> DEFINE f == Head(wire[c])
  <1>a. last \in [Clients -> Nat] /\ seq \in Nat /\ Len(log) = seq
    BY DEF FanoutInv, ClientTypeOK, SceneInv, SceneTypeOK
  <1>1. /\ f.kind = "scene_changed" /\ Counted(c) /\ Observed(c) = "accepted"
        /\ UNCHANGED <<log, view>>
        /\ last' = [last EXCEPT ![c] = 0]
        /\ stolen' = [stolen EXCEPT ![c] = {}]
    BY DEF AcceptChanged, Arrived, Counted, Detach, sceneVars
  <1>2. last[c] # 0 /\ f.seq = last[c] + 1 /\ Faithful(f)
    BY <1>1, AcceptedContinues
  <1>3. f.seq \in 1 .. seq /\ log[f.seq] = Nothing
    BY <1>1, <1>2 DEF Faithful
  <1>4. last[c] \in 1 .. Len(log) - 1 /\ log[last[c] + 1].paths = {}
    BY <1>a, <1>2, <1>3 DEF Nothing
  <1> QED
    BY <1>1, <1>4 DEF Promise!StartAgain, Promise!Behind

LEMMA StepMaps ==
  ASSUME FanoutInv, [Next]_vars
  PROVE  [Promise!Next]_<<log, last, view, stolen>>
  <1>1. CASE SceneNext /\ UNCHANGED clientVars
    BY <1>1, SceneStepMaps DEF Promise!Next
  <1>2. ASSUME NEW c \in Clients, Handle(c) \/ Refuse(c) \/ DropDuplicate(c)
        PROVE  UNCHANGED <<log, last, view, stolen>>
    BY <1>2 DEF Handle, Refuse, DropDuplicate, Subscribe, Resume, SendReplayed,
                EndReplay, ReadSeq, SendSnapshot, Pump, Lagged, sceneVars
  <1>3. ASSUME NEW c \in Clients, ReceiveSnapshot(c)
        PROVE  Promise!Next
    BY <1>3, SnapshotMaps DEF Promise!Next
  <1>4. ASSUME NEW c \in Clients, AcceptDelta(c)
        PROVE  Promise!Next
    BY <1>4, DeltaMaps DEF Promise!Next
  <1>5. ASSUME NEW c \in Clients, AcceptError(c)
        PROVE  Promise!Next
    BY <1>5, ErrorMaps DEF Promise!Next
  <1>6. ASSUME NEW c \in Clients, CloseOnGap(c) \/ EndOfStream(c) \/ Drop(c)
        PROVE  [Promise!Next]_<<log, last, view, stolen>>
    <2>1. Hangup(c) /\ UNCHANGED sceneVars
      BY <1>6 DEF CloseOnGap, EndOfStream, Drop
    <2> QED
      BY <2>1, HangupMaps DEF Promise!Next
  <1>7. CASE UNCHANGED vars
    BY <1>7 DEF vars, sceneVars, clientVars
  <1>8. ASSUME NEW c \in Clients, AcceptChanged(c)
        PROVE  Promise!Next
    BY <1>8, ChangedMaps DEF Promise!Next
  <1>9. ASSUME NEW c \in Clients, Leave(c)
        PROVE  Promise!Next
    <2>1. AdvanceSeqForChange /\ UNCHANGED <<last, view, stolen>>
      BY <1>9 DEF Leave
    <2> QED
      BY <2>1, ChangePublishes DEF Promise!Next
  <1> QED
    BY <1>1, <1>2, <1>3, <1>4, <1>5, <1>6, <1>7, <1>8, <1>9 DEF Next, Receive

(***************************************************************************)
(* The server and its clients implement Delivery: whatever is interleaved, *)
(* evicted, lagging, replayed, lost or taken to another scene, a client    *)
(* counts the scene's log without skipping a number and shows nothing but  *)
(* what the log and covering snapshots say.                                *)
(***************************************************************************)
THEOREM Refinement == Spec => Implements
  <1>1. FanoutInv /\ [Next]_vars => [Promise!Next]_(Promise!vars)
    BY StepMaps DEF Promise!vars
  <1> QED
    BY InitMaps, <1>1, FanoutCorrect, PTL DEF Spec, Implements, Promise!Spec
=============================================================================
