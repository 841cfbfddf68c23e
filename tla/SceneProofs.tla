----------------------------- MODULE SceneProofs ----------------------------
(***************************************************************************)
(* Proofs about module Scene: its type invariant, its inductive invariant, *)
(* and the order of numbers when every leaf has one writer.                *)
(***************************************************************************)
EXTENDS Scene, SequenceTheorems, TLAPS

USE WritersAssumption, CapsAssumption

(***************************************************************************)
(* The payload of a write has the type that the buffers hold.              *)
(***************************************************************************)
LEMMA NoPayloadType == NoPayload \in Payloads
  BY DEF NoPayload, Payloads

LEMMA NothingType == Nothing \in Entries
  BY DEF Nothing, Entries

(***************************************************************************)
(* push: the result is a buffer of payloads, within capacity, and every    *)
(* record in it is the new one or was there before.                        *)
(***************************************************************************)
LEMMA PushFacts ==
  ASSUME NEW S, NEW buf \in Seq(S), NEW r \in S, NEW cap \in Nat \ {0},
         Len(buf) <= cap
  PROVE  /\ Push(buf, r, cap) \in Seq(S)
         /\ Len(Push(buf, r, cap)) <= cap
         /\ \A i \in 1 .. Len(Push(buf, r, cap)) :
              \/ Push(buf, r, cap)[i] = r
              \/ \E j \in 1 .. Len(buf) : Push(buf, r, cap)[i] = buf[j]
  <1>1. CASE Len(buf) = cap
    <2>1. buf # <<>>
      BY <1>1, EmptySeq
    <2> DEFINE t == Tail(buf)
    <2>2. /\ t \in Seq(S)
          /\ Len(t) = Len(buf) - 1
          /\ \A i \in 1 .. Len(t) : t[i] = buf[i + 1]
      BY <2>1, HeadTailProperties
    <2>3. Push(buf, r, cap) = Append(t, r)
      BY <1>1 DEF Push
    <2>4. /\ Append(t, r) \in Seq(S)
          /\ Len(Append(t, r)) = Len(t) + 1
          /\ \A i \in 1 .. Len(t) : Append(t, r)[i] = t[i]
          /\ Append(t, r)[Len(t) + 1] = r
      BY <2>2, AppendProperties
    <2>5. Len(buf) \in Nat
      BY LenProperties
    <2> QED
      BY <1>1, <2>2, <2>3, <2>4, <2>5
  <1>2. CASE Len(buf) # cap
    <2>1. Push(buf, r, cap) = Append(buf, r)
      BY <1>2 DEF Push
    <2>2. /\ Append(buf, r) \in Seq(S)
          /\ Len(Append(buf, r)) = Len(buf) + 1
          /\ \A i \in 1 .. Len(buf) : Append(buf, r)[i] = buf[i]
          /\ Append(buf, r)[Len(buf) + 1] = r
      BY AppendProperties
    <2>3. Len(buf) \in Nat
      BY LenProperties
    <2> QED
      BY <1>2, <2>1, <2>2, <2>3
  <1> QED
    BY <1>1, <1>2

(***************************************************************************)
(* Each step of a write keeps the types of the scene's variables.          *)
(***************************************************************************)
LEMMA SceneTypeInit == SceneInit => SceneTypeOK
  <1> SUFFICES ASSUME SceneInit PROVE SceneTypeOK
    OBVIOUS
  <1>1. <<>> \in Seq(Payloads) /\ Len(<<>>) = 0
    BY EmptySeq
  <1>2. /\ log \in Seq(Entries)
        /\ Len(log) = 1
    BY DEF SceneInit, Entries, Nothing
  <1> QED
    BY <1>1, <1>2, NoPayloadType DEF SceneInit, SceneTypeOK, Steps

LEMMA SceneTypeStep == SceneTypeOK /\ [SceneNext]_sceneVars => SceneTypeOK'
  <1> SUFFICES ASSUME SceneTypeOK, [SceneNext]_sceneVars PROVE SceneTypeOK'
    OBVIOUS
  <1> USE DEF SceneTypeOK, Steps
  <1>1. ASSUME NEW w \in Writers, Apply(w) PROVE SceneTypeOK'
    <2>1. PICK paths \in (SUBSET WritesOf[w]) \ {{}} :
            /\ store' = Overwrite(store, paths, applied + 1)
            /\ record' = [record EXCEPT ![w] =
                   [seq |-> 0, paths |-> paths, id |-> applied + 1]]
      BY <1>1 DEF Apply
    <2>2. paths \subseteq Paths
      OBVIOUS
    <2>3. store' \in [Paths -> Nat]
      BY <2>1 DEF Overwrite
    <2>4. record' \in [Writers -> Payloads]
      BY <2>1, <2>2 DEF Payloads
    <2> QED
      BY <1>1, <2>3, <2>4 DEF Apply
  <1>2. ASSUME NEW w \in Writers, AdvanceSeq(w) PROVE SceneTypeOK'
    <2> DEFINE e == [paths |-> record[w].paths, id |-> record[w].id]
    <2>1. e \in Entries
      BY DEF Payloads, Entries
    <2>2. /\ log' \in Seq(Entries)
          /\ Len(log') = Len(log) + 1
      BY <1>2, <2>1, AppendProperties DEF AdvanceSeq
    <2> DEFINE r == [seq |-> seq + 1, paths |-> record[w].paths,
                     id |-> record[w].id]
    <2>4. r \in Payloads
      BY DEF Payloads
    <2>5. record' = [record EXCEPT ![w] = r]
      BY <1>2 DEF AdvanceSeq
    <2>3. record' \in [Writers -> Payloads]
      <3> HIDE DEF r
      <3> QED
        BY <2>4, <2>5
    <2> QED
      BY <1>2, <2>2, <2>3 DEF AdvanceSeq
  <1>3. ASSUME NEW w \in Writers, PushReplay(w) PROVE SceneTypeOK'
    <2>1. replay' \in Seq(Payloads) /\ Len(replay') <= ReplayCap
      BY <1>3, PushFacts DEF PushReplay
    <2> QED
      BY <1>3, <2>1 DEF PushReplay
  <1>4. ASSUME NEW w \in Writers, Send(w) PROVE SceneTypeOK'
    <2>1. tx' \in Seq(Payloads)
      BY <1>4, AppendProperties DEF Send
    <2> QED
      BY <1>4, <2>1, NoPayloadType DEF Send
  <1>5. CASE AdvanceSeqForChange
    <2>1. /\ log' \in Seq(Entries)
          /\ Len(log') = Len(log) + 1
      BY <1>5, NothingType, AppendProperties DEF AdvanceSeqForChange
    <2> QED
      BY <1>5, <2>1 DEF AdvanceSeqForChange
  <1>6. CASE UNCHANGED sceneVars
    BY <1>6 DEF sceneVars
  <1> QED
    BY <1>1, <1>2, <1>3, <1>4, <1>5, <1>6 DEF SceneNext, Continue

(***************************************************************************)
(* advance_seq_for_change logs nothing under the new number and leaves the *)
(* leaves, the buffers and the writers alone.                              *)
(***************************************************************************)
LEMMA ChangeLogs ==
  ASSUME SceneTypeOK, AdvanceSeqForChange
  PROVE  /\ seq \in Nat /\ seq' = seq + 1
         /\ log'[seq + 1] = Nothing
         /\ \A n \in 1 .. seq : log'[n] = log[n]
         /\ UNCHANGED <<store, replay, tx, pc, record, applied>>
  BY NothingType, AppendProperties DEF SceneTypeOK, AdvanceSeqForChange

(***************************************************************************)
(* What no step of the scene takes back: numbers and the log only grow,    *)
(* and values in the store only get newer.                                 *)
(***************************************************************************)
LEMMA SceneGrows ==
  ASSUME SceneTypeOK, IdsBounded, [SceneNext]_sceneVars
  PROVE  /\ seq' \in Nat /\ seq' >= seq
         /\ \A n \in 1 .. seq : log'[n] = log[n]
         /\ \A p \in Paths : store'[p] >= store[p]
         /\ applied' \in Nat /\ applied' >= applied
  <1> USE DEF SceneTypeOK
  <1>1. ASSUME NEW w \in Writers, Apply(w)
        PROVE  /\ \A p \in Paths : store'[p] >= store[p]
               /\ UNCHANGED <<seq, log>> /\ applied' = applied + 1
    BY <1>1 DEF Apply, Overwrite, IdsBounded
  <1>2. ASSUME NEW w \in Writers, AdvanceSeq(w)
        PROVE  /\ seq' = seq + 1
               /\ \A n \in 1 .. seq : log'[n] = log[n]
               /\ UNCHANGED <<store, applied>>
    <2> DEFINE e == [paths |-> record[w].paths, id |-> record[w].id]
    <2>1. e \in Entries
      BY DEF Payloads, Entries
    <2>2. \A n \in 1 .. Len(log) : Append(log, e)[n] = log[n]
      BY <2>1, AppendProperties
    <2> QED
      BY <1>2, <2>2 DEF AdvanceSeq
  <1>3. ASSUME NEW w \in Writers, PushReplay(w) \/ Send(w)
        PROVE  UNCHANGED <<seq, log, store, applied>>
    BY <1>3 DEF PushReplay, Send
  <1>4. ASSUME AdvanceSeqForChange
        PROVE  /\ seq' = seq + 1
               /\ \A n \in 1 .. seq : log'[n] = log[n]
               /\ UNCHANGED <<store, applied>>
    BY <1>4, ChangeLogs
  <1> QED
    BY <1>1, <1>2, <1>3, <1>4 DEF SceneNext, Continue, sceneVars

(***************************************************************************)
(* The type of a logged write.                                             *)
(***************************************************************************)
LEMMA LogTyped ==
  ASSUME SceneTypeOK, NEW n \in 1 .. seq
  PROVE  log[n].paths \subseteq Paths /\ log[n].id \in Nat
  <1>1. log[n] \in Entries
    BY LenProperties DEF SceneTypeOK
  <1> QED
    BY <1>1 DEF Entries

(***************************************************************************)
(* AdvanceSeq logs the write under the new number.                         *)
(***************************************************************************)
LEMMA AdvanceSeqLogs ==
  ASSUME SceneTypeOK, NEW w \in Writers, AdvanceSeq(w)
  PROVE  /\ seq' = seq + 1
         /\ log'[seq + 1].paths = record[w].paths
         /\ log'[seq + 1].id = record[w].id
         /\ \A n \in 1 .. seq : log'[n] = log[n]
         /\ record'[w] = [seq |-> seq + 1, paths |-> record[w].paths,
                          id |-> record[w].id]
         /\ \A v \in Writers \ {w} : record'[v] = record[v]
  <1> USE DEF SceneTypeOK
  <1> DEFINE e == [paths |-> record[w].paths, id |-> record[w].id]
  <1>1. e \in Entries
    BY DEF Payloads, Entries
  <1>2. /\ \A n \in 1 .. Len(log) : Append(log, e)[n] = log[n]
        /\ Append(log, e)[Len(log) + 1] = e
    BY <1>1, AppendProperties
  <1>3. log' = Append(log, e) /\ Len(log) = seq /\ seq' = seq + 1
    BY DEF AdvanceSeq
  <1>4. /\ record'[w] = [seq |-> seq + 1, paths |-> record[w].paths,
                         id |-> record[w].id]
        /\ \A v \in Writers \ {w} : record'[v] = record[v]
    BY DEF AdvanceSeq
  <1> QED
    BY <1>2, <1>3, <1>4

(***************************************************************************)
(* What agrees with the log, or reflects numbers of it, goes on doing so.  *)
(***************************************************************************)
LEMMA LoggedStable ==
  ASSUME SceneTypeOK, IdsBounded, [SceneNext]_sceneVars, NEW r, Logged(r)
  PROVE  /\ r.seq \in 1 .. seq'
         /\ log'[r.seq].paths = r.paths
         /\ log'[r.seq].id = r.id
  BY SceneGrows DEF Logged, SceneTypeOK

(***************************************************************************)
(* The inductive invariant of the scene, established ...                   *)
(***************************************************************************)
LEMMA SceneInvInit == SceneInit => SceneInv
  <1> SUFFICES ASSUME SceneInit PROVE SceneInv
    OBVIOUS
  <1>1. SceneTypeOK
    BY SceneTypeInit
  <1>2. /\ seq = 1
        /\ log[1].paths = {} /\ log[1].id = 0
        /\ Len(replay) = 0
        /\ Len(tx) = 0
        /\ applied = 0
    BY EmptySeq DEF SceneInit, Nothing
  <1>3. StoreReflectsLog /\ IdsBounded /\ StoreHasSource
    BY <1>2 DEF SceneInit, StoreReflectsLog, Reflects, IdsBounded,
                StoreHasSource
  <1>4. CarriedIsStored /\ CarriedIsLogged
    BY DEF SceneInit, CarriedIsStored, CarriedIsLogged, Numbered
  <1>5. SentIsLogged
    BY <1>2 DEF SentIsLogged
  <1> QED
    BY <1>1, <1>3, <1>4, <1>5 DEF SceneInv

(***************************************************************************)
(* ... and kept by every step, conjunct by conjunct.                       *)
(***************************************************************************)
LEMMA IdsBoundedStep ==
  ASSUME SceneInv, [SceneNext]_sceneVars
  PROVE  IdsBounded'
  <1> USE DEF SceneInv, SceneTypeOK
  <1>1. ASSUME NEW w \in Writers, Apply(w) PROVE IdsBounded'
    <2>1. \A p \in Paths : store'[p] <= applied'
      BY <1>1 DEF Apply, Overwrite, IdsBounded
    <2>2. \A n \in 1 .. seq' : log'[n].id <= applied'
      BY <1>1, LogTyped DEF Apply, IdsBounded
    <2> QED
      BY <2>1, <2>2 DEF IdsBounded
  <1>2. ASSUME NEW w \in Writers, AdvanceSeq(w) PROVE IdsBounded'
    <2>2. record[w].id <= applied
      BY <1>2 DEF AdvanceSeq, CarriedIsStored
    <2> QED
      BY <1>2, <2>2, AdvanceSeqLogs DEF AdvanceSeq, IdsBounded
  <1>3. ASSUME NEW w \in Writers, PushReplay(w) \/ Send(w)
        PROVE IdsBounded'
    BY <1>3 DEF PushReplay, Send, IdsBounded
  <1>4. CASE AdvanceSeqForChange
    <2>1. /\ seq' = seq + 1
          /\ log'[seq + 1].id = 0
          /\ \A n \in 1 .. seq : log'[n] = log[n]
          /\ UNCHANGED <<store, applied>>
      BY <1>4, ChangeLogs DEF Nothing
    <2>2. \A n \in 1 .. seq' : n \in 1 .. seq \/ n = seq + 1
      BY <2>1
    <2>3. \A p \in Paths : store'[p] <= applied'
      BY <2>1 DEF IdsBounded
    <2>4. 0 <= applied
      OBVIOUS
    <2>5. \A n \in 1 .. seq' : log'[n].id <= applied'
      <3> SUFFICES ASSUME NEW n \in 1 .. seq' PROVE log'[n].id <= applied
        BY <2>1
      <3>1. CASE n \in 1 .. seq
        BY <2>1, <3>1 DEF IdsBounded
      <3>2. CASE n = seq + 1
        BY <2>1, <2>4, <3>2
      <3> QED
        BY <2>2, <3>1, <3>2
    <2> QED
      BY <2>3, <2>5 DEF IdsBounded
  <1>5. CASE UNCHANGED sceneVars
    BY <1>5 DEF sceneVars, IdsBounded
  <1> QED
    BY <1>1, <1>2, <1>3, <1>4, <1>5 DEF SceneNext, Continue

LEMMA StoreReflectsLogStep ==
  ASSUME SceneInv, [SceneNext]_sceneVars
  PROVE  StoreReflectsLog'
  <1> USE DEF SceneInv
  <1>1. ASSUME NEW w \in Writers, AdvanceSeq(w) PROVE StoreReflectsLog'
    <2>1. \A p \in record[w].paths : store[p] >= record[w].id
      BY <1>1 DEF AdvanceSeq, CarriedIsStored
    <2>2. store' = store
      BY <1>1 DEF AdvanceSeq
    <2> SUFFICES ASSUME NEW n \in 1 .. seq', NEW p \in log'[n].paths
                 PROVE  store'[p] >= log'[n].id
      BY DEF StoreReflectsLog, Reflects
    <2>3. CASE n \in 1 .. seq
      BY <1>1, <2>2, <2>3, AdvanceSeqLogs DEF StoreReflectsLog, Reflects
    <2>4. CASE n = seq + 1
      BY <1>1, <2>1, <2>2, <2>4, AdvanceSeqLogs
    <2>5. seq' = seq + 1 /\ seq \in Nat
      BY <1>1, AdvanceSeqLogs DEF SceneTypeOK
    <2> QED
      BY <2>3, <2>4, <2>5
  <1>2. ASSUME UNCHANGED <<seq, log>> PROVE StoreReflectsLog'
    <2> SUFFICES ASSUME NEW n \in 1 .. seq, NEW p \in log[n].paths
                 PROVE  store'[p] >= log[n].id
      BY <1>2 DEF StoreReflectsLog, Reflects
    <2>1. log[n].id \in Nat /\ p \in Paths
      BY LogTyped
    <2>2. store[p] >= log[n].id
      BY DEF StoreReflectsLog, Reflects
    <2>3. store'[p] >= store[p] /\ store'[p] \in Nat /\ store[p] \in Nat
      BY <2>1, SceneGrows, SceneTypeStep DEF SceneTypeOK
    <2> QED
      BY <2>1, <2>2, <2>3
  <1>3. ASSUME AdvanceSeqForChange PROVE StoreReflectsLog'
    <2> SUFFICES ASSUME NEW n \in 1 .. seq', NEW p \in log'[n].paths
                 PROVE  store'[p] >= log'[n].id
      BY DEF StoreReflectsLog, Reflects
    <2>1. CASE n \in 1 .. seq
      BY <1>3, <2>1, ChangeLogs DEF StoreReflectsLog, Reflects
    <2>2. CASE n = seq + 1
      BY <1>3, <2>2, ChangeLogs DEF Nothing
    <2> QED
      BY <1>3, <2>1, <2>2, ChangeLogs
  <1> QED
    BY <1>1, <1>2, <1>3 DEF SceneNext, Continue, Apply, PushReplay, Send, sceneVars

LEMMA CarriedIsStoredStep ==
  ASSUME SceneInv, [SceneNext]_sceneVars
  PROVE  CarriedIsStored'
  <1> SUFFICES ASSUME NEW v \in Writers, pc'[v] # "idle"
               PROVE  /\ record'[v].id \in 1 .. applied'
                      /\ record'[v].paths \subseteq WritesOf[v]
                      /\ \A p \in record'[v].paths : store'[p] >= record'[v].id
    BY DEF CarriedIsStored
  <1> DEFINE Goal ==
        /\ record'[v].id \in 1 .. applied'
        /\ record'[v].paths \subseteq WritesOf[v]
        /\ \A p \in record'[v].paths : store'[p] >= record'[v].id
  <1>a. /\ SceneTypeOK /\ SceneTypeOK'
        /\ CarriedIsStored
        /\ \A p \in Paths : store'[p] >= store[p]
        /\ applied' \in Nat /\ applied' >= applied
    BY SceneTypeStep, SceneGrows DEF SceneInv
  <1>b. /\ store \in [Paths -> Nat] /\ store' \in [Paths -> Nat]
        /\ applied \in Nat
        /\ pc \in [Writers -> Steps] /\ record \in [Writers -> Payloads]
    BY <1>a DEF SceneTypeOK
  <1>1. ASSUME pc[v] # "idle", record'[v].id = record[v].id,
               record'[v].paths = record[v].paths
        PROVE  Goal
    <2>1. /\ record[v].id \in 1 .. applied
          /\ record[v].paths \subseteq WritesOf[v]
          /\ \A p \in record[v].paths : store[p] >= record[v].id
      BY <1>1, <1>a DEF CarriedIsStored
    <2>2. record[v].paths \subseteq Paths
      BY <2>1
    <2> QED
      BY <1>1, <1>a, <1>b, <2>1, <2>2
  <1>2. ASSUME NEW w \in Writers, Apply(w)
        PROVE  Goal
    <2>1. CASE v = w
      <3>1. PICK paths \in (SUBSET WritesOf[w]) \ {{}} :
              /\ store' = Overwrite(store, paths, applied + 1)
              /\ record' = [record EXCEPT ![w] =
                     [seq |-> 0, paths |-> paths, id |-> applied + 1]]
        BY <1>2 DEF Apply
      <3>2. paths \subseteq Paths /\ applied' = applied + 1
        BY <1>2 DEF Apply
      <3>3. record'[v].paths = paths /\ record'[v].id = applied + 1
        BY <1>b, <2>1, <3>1
      <3>4. \A p \in paths : store'[p] = applied + 1
        BY <3>1, <3>2 DEF Overwrite
      <3> QED
        BY <1>b, <2>1, <3>2, <3>3, <3>4
    <2>2. CASE v # w
      <3>1. pc'[v] = pc[v] /\ record'[v] = record[v]
        BY <1>2, <1>b, <2>2 DEF Apply
      <3> QED
        BY <1>1, <3>1
    <2> QED
      BY <2>1, <2>2
  <1>3. ASSUME NEW w \in Writers, AdvanceSeq(w)
        PROVE  Goal
    <2>1. pc[v] # "idle"
      BY <1>3, <1>b DEF AdvanceSeq
    <2>2. record'[v].id = record[v].id /\ record'[v].paths = record[v].paths
      <3>1. /\ record'[w] = [seq |-> seq + 1, paths |-> record[w].paths,
                             id |-> record[w].id]
            /\ \A u \in Writers \ {w} : record'[u] = record[u]
        BY <1>3, <1>a, AdvanceSeqLogs
      <3> QED
        BY <3>1
    <2> QED
      BY <1>1, <2>1, <2>2
  <1>4. ASSUME NEW w \in Writers, PushReplay(w) PROVE Goal
    <2>1. pc[v] # "idle" /\ record' = record
      BY <1>4, <1>b DEF PushReplay
    <2> QED
      BY <1>1, <2>1
  <1>5. ASSUME NEW w \in Writers, Send(w) PROVE Goal
    <2>1. pc[v] # "idle" /\ record'[v] = record[v]
      BY <1>5, <1>b DEF Send
    <2> QED
      BY <1>1, <2>1
  <1>6. CASE AdvanceSeqForChange \/ UNCHANGED sceneVars
    BY <1>1, <1>6 DEF AdvanceSeqForChange, sceneVars
  <1> QED
    BY <1>2, <1>3, <1>4, <1>5, <1>6 DEF SceneNext, Continue

LEMMA CarriedIsLoggedStep ==
  ASSUME SceneInv, [SceneNext]_sceneVars
  PROVE  CarriedIsLogged'
  <1> SUFFICES ASSUME NEW v \in Writers, Numbered(v)'
               PROVE  Logged(record[v])'
    BY DEF CarriedIsLogged
  <1> USE DEF SceneInv
  <1>1. ASSUME Numbered(v), record'[v] = record[v]
        PROVE  Logged(record[v])'
    <2>1. Logged(record[v])
      BY <1>1 DEF CarriedIsLogged
    <2> QED
      BY <1>1, <2>1, LoggedStable DEF Logged
  <1>2. ASSUME NEW w \in Writers, AdvanceSeq(w), v = w
        PROVE  Logged(record[v])'
    <2>1. /\ seq' = seq + 1
          /\ log'[seq + 1].paths = record[w].paths
          /\ log'[seq + 1].id = record[w].id
          /\ record'[w] = [seq |-> seq + 1, paths |-> record[w].paths,
                           id |-> record[w].id]
      BY <1>2, AdvanceSeqLogs
    <2>2. seq \in Nat
      BY DEF SceneTypeOK
    <2> QED
      BY <1>2, <2>1, <2>2 DEF Logged
  <1>3. ASSUME NEW w \in Writers, v # w,
               Apply(w) \/ AdvanceSeq(w) \/ PushReplay(w) \/ Send(w)
        PROVE  Logged(record[v])'
    <2>1. pc'[v] = pc[v] /\ record'[v] = record[v]
      BY <1>3 DEF Apply, AdvanceSeq, PushReplay, Send, SceneTypeOK
    <2> QED
      BY <1>1, <2>1 DEF Numbered
  <1>4. ASSUME NEW w \in Writers, v = w, PushReplay(w)
        PROVE  Logged(record[v])'
    BY <1>1, <1>4 DEF PushReplay, Numbered
  <1>5. ASSUME NEW w \in Writers, v = w, Apply(w) \/ Send(w)
        PROVE  FALSE
    BY <1>5 DEF Apply, Send, Numbered, SceneTypeOK
  <1>6. CASE AdvanceSeqForChange \/ UNCHANGED sceneVars
    BY <1>1, <1>6 DEF AdvanceSeqForChange, sceneVars, Numbered
  <1> QED
    BY <1>2, <1>3, <1>4, <1>5, <1>6 DEF SceneNext, Continue

LEMMA SentIsLoggedStep ==
  ASSUME SceneInv, [SceneNext]_sceneVars
  PROVE  SentIsLogged'
  <1> DEFINE StillLogged(r) ==
        /\ r.seq \in 1 .. seq'
        /\ log'[r.seq].paths = r.paths
        /\ log'[r.seq].id = r.id
  <1> SUFFICES /\ \A i \in 1 .. Len(replay') : StillLogged(replay'[i])
               /\ \A i \in 1 .. Len(tx') : StillLogged(tx'[i])
    BY DEF SentIsLogged, Logged
  <1> USE DEF SceneInv
  <1>1. \A i \in 1 .. Len(replay) : StillLogged(replay[i])
    BY LoggedStable DEF SentIsLogged
  <1>2. \A i \in 1 .. Len(tx) : StillLogged(tx[i])
    BY LoggedStable DEF SentIsLogged
  <1>3. \A w \in Writers : Numbered(w) => StillLogged(record[w])
    BY LoggedStable DEF CarriedIsLogged
  <1> HIDE DEF StillLogged
  <1>4. CASE UNCHANGED <<replay, tx>>
    BY <1>1, <1>2, <1>4
  <1>5. ASSUME NEW w \in Writers, PushReplay(w)
        PROVE  /\ \A i \in 1 .. Len(replay') : StillLogged(replay'[i])
               /\ \A i \in 1 .. Len(tx') : StillLogged(tx'[i])
    <2>1. record[w] \in Payloads /\ replay \in Seq(Payloads)
          /\ Len(replay) <= ReplayCap
      BY DEF SceneTypeOK
    <2>2. replay' = Push(replay, record[w], ReplayCap) /\ tx' = tx
      BY <1>5 DEF PushReplay
    <2>3. \A i \in 1 .. Len(replay') :
            \/ replay'[i] = record[w]
            \/ \E j \in 1 .. Len(replay) : replay'[i] = replay[j]
      BY <2>1, <2>2, PushFacts
    <2>4. StillLogged(record[w])
      BY <1>3, <1>5 DEF PushReplay, Numbered
    <2> QED
      BY <1>1, <1>2, <2>2, <2>3, <2>4
  <1>6. ASSUME NEW w \in Writers, Send(w)
        PROVE  /\ \A i \in 1 .. Len(replay') : StillLogged(replay'[i])
               /\ \A i \in 1 .. Len(tx') : StillLogged(tx'[i])
    <2>1. record[w] \in Payloads /\ tx \in Seq(Payloads)
      BY DEF SceneTypeOK
    <2>2. tx' = Append(tx, record[w]) /\ replay' = replay
      BY <1>6 DEF Send
    <2>3. /\ Len(tx') = Len(tx) + 1
          /\ \A i \in 1 .. Len(tx) : tx'[i] = tx[i]
          /\ tx'[Len(tx) + 1] = record[w]
          /\ Len(tx) \in Nat
      BY <2>1, <2>2, AppendProperties, LenProperties
    <2>4. StillLogged(record[w])
      BY <1>3, <1>6 DEF Send, Numbered
    <2>5. \A i \in 1 .. Len(tx') : i \in 1 .. Len(tx) \/ i = Len(tx) + 1
      BY <2>3
    <2> QED
      BY <1>1, <1>2, <2>2, <2>3, <2>4, <2>5
  <1> QED
    BY <1>4, <1>5, <1>6
       DEF SceneNext, Continue, Apply, AdvanceSeq, AdvanceSeqForChange,
           sceneVars

LEMMA StoreHasSourceStep ==
  ASSUME SceneInv, [SceneNext]_sceneVars
  PROVE  StoreHasSource'
  <1> SUFFICES ASSUME NEW p \in Paths
               PROVE  \/ store'[p] = 0
                      \/ \E n \in 1 .. seq' :
                           p \in log'[n].paths /\ log'[n].id = store'[p]
                      \/ \E w \in Writers :
                           /\ pc'[w] = "stored"
                           /\ p \in record'[w].paths
                           /\ record'[w].id = store'[p]
    BY DEF StoreHasSource
  <1> DEFINE Source ==
        \/ store'[p] = 0
        \/ \E n \in 1 .. seq' : p \in log'[n].paths /\ log'[n].id = store'[p]
        \/ \E w \in Writers :
             /\ pc'[w] = "stored"
             /\ p \in record'[w].paths
             /\ record'[w].id = store'[p]
  <1> USE DEF SceneInv
  <1>1. \/ store[p] = 0
        \/ \E n \in 1 .. seq : p \in log[n].paths /\ log[n].id = store[p]
        \/ \E w \in Writers :
             /\ pc[w] = "stored"
             /\ p \in record[w].paths
             /\ record[w].id = store[p]
    BY DEF StoreHasSource
  <1>2. ASSUME store'[p] = store[p],
               NEW n \in 1 .. seq, p \in log[n].paths, log[n].id = store[p]
        PROVE  Source
    <2>1. seq' \in Nat /\ seq' >= seq /\ log'[n] = log[n]
      BY SceneGrows
    <2>2. n \in 1 .. seq'
      BY <2>1 DEF SceneTypeOK
    <2> QED
      BY <1>2, <2>1, <2>2
  <1>3. ASSUME NEW w \in Writers, Apply(w) PROVE Source
    <2>1. CASE store'[p] = store[p]
      <3>1. ASSUME NEW v \in Writers, pc[v] = "stored"
            PROVE  pc'[v] = "stored" /\ record'[v] = record[v]
        BY <1>3, <3>1 DEF Apply, SceneTypeOK
      <3> QED
        BY <1>1, <1>2, <2>1, <3>1
    <2>2. CASE store'[p] # store[p]
      BY <1>3, <2>2 DEF Apply, Overwrite, SceneTypeOK
    <2> QED
      BY <2>1, <2>2
  <1>4. ASSUME NEW w \in Writers, AdvanceSeq(w) PROVE Source
    <2>1. store'[p] = store[p] /\ pc[w] = "stored"
      BY <1>4 DEF AdvanceSeq
    <2>2. CASE p \in record[w].paths /\ record[w].id = store[p]
      <3>1. /\ seq' = seq + 1
            /\ log'[seq + 1].paths = record[w].paths
            /\ log'[seq + 1].id = record[w].id
        BY <1>4, AdvanceSeqLogs
      <3>2. seq + 1 \in 1 .. seq'
        BY <3>1 DEF SceneTypeOK
      <3> QED
        BY <2>1, <2>2, <3>1, <3>2
    <2>3. ASSUME NEW v \in Writers, v # w, pc[v] = "stored"
          PROVE  pc'[v] = "stored" /\ record'[v] = record[v]
      BY <1>4, <2>3 DEF AdvanceSeq, SceneTypeOK
    <2> QED
      BY <1>1, <1>2, <2>1, <2>2, <2>3
  <1>5. ASSUME NEW w \in Writers, PushReplay(w) \/ Send(w) PROVE Source
    <2>1. UNCHANGED <<store, seq, log>>
      BY <1>5 DEF PushReplay, Send
    <2>2. ASSUME NEW v \in Writers, pc[v] = "stored"
          PROVE  pc'[v] = "stored" /\ record'[v] = record[v]
      BY <1>5, <2>2 DEF PushReplay, Send, SceneTypeOK
    <2> QED
      BY <1>1, <2>1, <2>2
  <1>6. CASE AdvanceSeqForChange \/ UNCHANGED sceneVars
    <2>1. UNCHANGED <<store, pc, record>>
      BY <1>6 DEF AdvanceSeqForChange, sceneVars
    <2> QED
      BY <1>1, <1>2, <2>1
  <1> QED
    BY <1>3, <1>4, <1>5, <1>6 DEF SceneNext, Continue

LEMMA SceneInvStep == SceneInv /\ [SceneNext]_sceneVars => SceneInv'
  BY SceneTypeStep, StoreReflectsLogStep, CarriedIsStoredStep,
     CarriedIsLoggedStep, SentIsLoggedStep, IdsBoundedStep,
     StoreHasSourceStep DEF SceneInv

(***************************************************************************)
(* The scene's inductive invariant holds in every reachable state, for any *)
(* set of writers that may race on the same leaves.                        *)
(***************************************************************************)
THEOREM SceneCorrect == SceneSpec => []SceneInv
  BY SceneInvInit, SceneInvStep, PTL DEF SceneSpec

(***************************************************************************)
(* With one writer per leaf, no step disturbs the agreement between the    *)
(* order of the numbers and the order of the values in a leaf.             *)
(***************************************************************************)
LEMMA OrderInit == SceneInit => NumbersInStoreOrder
  BY DEF SceneInit, NumbersInStoreOrder

LEMMA OrderStep ==
  ASSUME DisjointWriters, SceneInv, NumbersInStoreOrder,
         [SceneNext]_sceneVars
  PROVE  NumbersInStoreOrder'
  <1>a. /\ SceneTypeOK /\ IdsBounded /\ CarriedIsStored
        /\ seq \in Nat /\ applied \in Nat
        /\ pc \in [Writers -> Steps] /\ record \in [Writers -> Payloads]
    BY DEF SceneInv, SceneTypeOK
  <1>b. \A n \in 1 .. seq : log[n].id \in Nat /\ log[n].paths \subseteq Paths
    BY <1>a, LogTyped
  <1>1. ASSUME NEW w \in Writers, Apply(w) PROVE NumbersInStoreOrder'
    <2>1. UNCHANGED <<seq, log>>
      BY <1>1 DEF Apply
    <2>2. ASSUME NEW v \in Writers, pc'[v] = "stored",
                 NEW n \in 1 .. seq, NEW p \in log[n].paths \cap record'[v].paths
          PROVE  log[n].id <= record'[v].id
      <3>1. CASE v = w
        <4>1. record'[v].id = applied + 1
          BY <1>1, <1>a, <3>1 DEF Apply
        <4>2. log[n].id <= applied
          BY <1>a DEF IdsBounded
        <4> QED
          BY <1>a, <1>b, <4>1, <4>2
      <3>2. CASE v # w
        <4>1. record'[v] = record[v] /\ pc[v] = "stored"
          BY <1>1, <1>a, <2>2, <3>2 DEF Apply
        <4> QED
          BY <2>2, <4>1 DEF NumbersInStoreOrder
      <3> QED
        BY <3>1, <3>2
    <2> QED
      BY <2>1, <2>2 DEF NumbersInStoreOrder
  <1>2. ASSUME NEW w \in Writers, AdvanceSeq(w) PROVE NumbersInStoreOrder'
    <2>1. /\ seq' = seq + 1
          /\ log'[seq + 1].paths = record[w].paths
          /\ log'[seq + 1].id = record[w].id
          /\ \A n \in 1 .. seq : log'[n] = log[n]
          /\ \A v \in Writers \ {w} : record'[v] = record[v]
      BY <1>2, <1>a, AdvanceSeqLogs
    <2>2. /\ pc[w] = "stored" /\ pc'[w] # "stored"
          /\ \A v \in Writers \ {w} : pc'[v] = pc[v]
      BY <1>2, <1>a DEF AdvanceSeq
    <2>3. ASSUME NEW m \in 1 .. seq', NEW n \in 1 .. seq', m < n,
                 NEW p \in log'[m].paths \cap log'[n].paths
          PROVE  log'[m].id <= log'[n].id
      <3>1. m \in 1 .. seq
        BY <1>a, <2>1, <2>3
      <3>2. CASE n \in 1 .. seq
        BY <2>1, <2>3, <3>1, <3>2 DEF NumbersInStoreOrder
      <3>3. CASE n = seq + 1
        <4>1. p \in log[m].paths \cap record[w].paths
          BY <2>1, <2>3, <3>1, <3>3
        <4>2. log[m].id <= record[w].id
          BY <2>2, <3>1, <4>1 DEF NumbersInStoreOrder
        <4> QED
          BY <2>1, <3>1, <3>3, <4>2
      <3> QED
        BY <1>a, <2>1, <3>2, <3>3
    <2>4. ASSUME NEW v \in Writers, pc'[v] = "stored", NEW n \in 1 .. seq',
                 NEW p \in log'[n].paths \cap record'[v].paths
          PROVE  log'[n].id <= record'[v].id
      <3>1. v # w /\ pc[v] = "stored" /\ record'[v] = record[v]
        BY <2>1, <2>2, <2>4
      <3>2. CASE n \in 1 .. seq
        BY <2>1, <2>4, <3>1, <3>2 DEF NumbersInStoreOrder
      <3>3. CASE n = seq + 1
        <4>1. p \in record[w].paths /\ p \in record[v].paths
          BY <2>1, <2>4, <3>1, <3>3
        <4>2. /\ record[w].paths \subseteq WritesOf[w]
              /\ record[v].paths \subseteq WritesOf[v]
          BY <1>a, <2>2, <3>1 DEF CarriedIsStored
        <4> QED
          BY <3>1, <4>1, <4>2 DEF DisjointWriters
      <3> QED
        BY <1>a, <2>1, <3>2, <3>3
    <2> QED
      BY <2>3, <2>4 DEF NumbersInStoreOrder
  <1>3. ASSUME NEW w \in Writers, PushReplay(w) \/ Send(w)
        PROVE NumbersInStoreOrder'
    <2>1. UNCHANGED <<seq, log>>
      BY <1>3 DEF PushReplay, Send
    <2>2. \A v \in Writers : pc'[v] = "stored" =>
            pc[v] = "stored" /\ record'[v] = record[v]
      BY <1>3, <1>a DEF PushReplay, Send
    <2> QED
      BY <2>1, <2>2 DEF NumbersInStoreOrder
  <1>4. ASSUME AdvanceSeqForChange PROVE NumbersInStoreOrder'
    <2>1. /\ seq' = seq + 1
          /\ log'[seq + 1].paths = {}
          /\ \A n \in 1 .. seq : log'[n] = log[n]
          /\ UNCHANGED <<pc, record>>
      BY <1>4, <1>a, ChangeLogs DEF Nothing
    <2>2. \A n \in 1 .. seq' : n \in 1 .. seq \/ log'[n].paths = {}
      BY <1>a, <2>1
    <2> QED
      BY <1>a, <2>1, <2>2 DEF NumbersInStoreOrder
  <1>5. CASE UNCHANGED sceneVars
    BY <1>5 DEF sceneVars, NumbersInStoreOrder
  <1> QED
    BY <1>1, <1>2, <1>3, <1>4, <1>5 DEF SceneNext, Continue

(***************************************************************************)
(* If every leaf has one writer then numbers and values agree in order, in *)
(* every reachable state of the scene.                                     *)
(***************************************************************************)
THEOREM SceneOrder ==
  ASSUME DisjointWriters
  PROVE  SceneSpec => []NumbersInStoreOrder
  <1>1. SceneInit => SceneInv /\ NumbersInStoreOrder
    BY SceneInvInit, OrderInit
  <1>2. (SceneInv /\ NumbersInStoreOrder) /\ [SceneNext]_sceneVars
        => (SceneInv /\ NumbersInStoreOrder)'
    BY SceneInvStep, OrderStep
  <1> QED
    BY <1>1, <1>2, PTL DEF SceneSpec
=============================================================================
