-------------------------- MODULE InputGateProofs ---------------------------
(***************************************************************************)
(* Proofs about module InputGate, for any number of connections, tokens,   *)
(* inputs and declarations and every limit: a refused frame leaves no      *)
(* trace, no role writes outside its namespace, declared inputs hold, and  *)
(* the rate limit is kept and is not applied without cause.                *)
(***************************************************************************)
EXTENDS InputGate, SequenceTheorems, FiniteSetTheorems, WellFoundedInduction,
        TLAPS

LEMMA Bounds ==
  /\ Limit \in Nat
  /\ Window \in Nat \ {0}
  /\ MaxTime \in Nat
  /\ MaxFrames \in Nat
  /\ MaxDeclares \in Nat
  BY GateAssumption

USE Bounds

-----------------------------------------------------------------------------
(* The inductive invariant                                                 *)

(***************************************************************************)
(* What Write leaves in the store.                                         *)
(***************************************************************************)
WriteRecords ==
    [by : Connections, as : Identities, frame : Nat, seen : Nat, value : Values]

StoreTyped ==
    /\ store \in [Paths -> WriteRecords \cup {NoWrite}]
    /\ \A p \in Paths : store[p] # NoWrite => store[p].seen <= declares

Handling(h) == phase[h] \in {"checking", "writing"}

(***************************************************************************)
(* The number of patches of the current frame that have passed the checks. *)
(***************************************************************************)
Passed(h) == IF phase[h] = "writing" THEN Len(frame[h]) ELSE pos[h] - 1

FramesInHand ==
    \A h \in Connections : Handling(h) =>
        /\ frame[h] \in Inputs
        /\ pos[h] \in 1 .. Len(frame[h])
        /\ answered[h] < MaxFrames

PassedIsAllowed ==
    \A h \in Connections : Handling(h) =>
        \A i \in 1 .. Passed(h) : CanWrite(who[h], frame[h][i].path)

PassedIsDeclared ==
    \A h \in Connections : Handling(h) /\ strict /\ arrived[h] = declares =>
        \A i \in 1 .. Passed(h) :
            /\ frame[h][i].path \in DOMAIN specs
            /\ CheckConstraint(specs[frame[h][i].path], frame[h][i].value)

(***************************************************************************)
(* The last used[h] inputs of a connection were admitted in the current    *)
(* window, all others no later than its start.  The window before it held  *)
(* at most Limit inputs; what was admitted before that window is a whole   *)
(* Window older than the start of the current one.                         *)
(***************************************************************************)
Kept(times, count, first, t) ==
    LET n == Len(times) IN
    /\ count <= n
    /\ \A i \in 1 .. n : times[i] <= t
    /\ \A i \in n - count + 1 .. n : first <= times[i]
    /\ \A i \in 1 .. n - count : times[i] <= first
    /\ \A i \in 1 .. n - count - Limit : times[i] + Window <= first
    /\ \A i \in 1 .. n - 2 * Limit : times[i + 2 * Limit] - times[i] >= Window

Windows == Limit > 0 => \A h \in Connections : Kept(admitted[h], used[h], start[h], now)

GateInv ==
    /\ TypeOK
    /\ StoreTyped
    /\ FramesInHand
    /\ PassedIsAllowed
    /\ PassedIsDeclared
    /\ RefusedLeavesNoTrace
    /\ NamespacesHold
    /\ DeclarationsHold
    /\ Windows

-----------------------------------------------------------------------------
(* Types                                                                   *)

(***************************************************************************)
(* TypeOK by component.                                                    *)
(***************************************************************************)
SceneTypes ==
    /\ now \in 0 .. MaxTime
    /\ strict \in BOOLEAN
    /\ specs \in Declarations \cup {<<>>}
    /\ declares \in 0 .. MaxDeclares
    /\ \A p \in Paths : store[p] = NoWrite \/ store[p].by \in Connections

FrameTypes ==
    /\ phase \in [Connections -> {"closed", "ready", "checking", "writing"}]
    /\ who \in [Connections -> Identities]
    /\ frame \in [Connections -> Inputs \cup {<<>>}]
    /\ pos \in [Connections -> Nat \ {0}]
    /\ arrived \in [Connections -> 0 .. declares]

BucketTypes ==
    /\ used \in [Connections -> 0 .. Limit]
    /\ start \in [Connections -> 0 .. now]
    /\ admitted \in [Connections -> Seq(0 .. now)]

AnswerTypes ==
    /\ refused \in [Connections -> SUBSET Nat]
    /\ \A h \in Connections : refused[h] \subseteq 1 .. answered[h]
    /\ answer \in [Connections -> Codes \cup {"delta", "none"}]
    /\ answered \in [Connections -> 0 .. MaxFrames]

LEMMA TypeParts ==
  TypeOK <=> SceneTypes /\ FrameTypes /\ BucketTypes /\ AnswerTypes
  BY Zenon DEF TypeOK, SceneTypes, FrameTypes, BucketTypes, AnswerTypes

LEMMA SeqGrows ==
  ASSUME NEW m \in Nat, NEW n \in Nat, m <= n, NEW s \in Seq(0 .. m)
  PROVE  s \in Seq(0 .. n)
  BY SeqDef

LEMMA TypeInit == Init => TypeOK /\ StoreTyped /\ FramesInHand
  <1> SUFFICES ASSUME Init PROVE TypeOK /\ StoreTyped /\ FramesInHand
    OBVIOUS
  <1>0. SceneTypes
    <2>1. strict \in BOOLEAN
      BY Zenon DEF Init
    <2>2. /\ now = 0 /\ declares = 0 /\ specs = <<>>
          /\ store = [p \in Paths |-> NoWrite]
      BY DEF Init
    <2> QED
      BY <2>1, <2>2 DEF SceneTypes
  <1>1. FrameTypes
    BY DEF Init, FrameTypes
  <1>2. BucketTypes
    BY EmptySeq DEF Init, BucketTypes
  <1>3. AnswerTypes
    BY DEF Init, AnswerTypes
  <1>4. StoreTyped /\ FramesInHand
    BY DEF Init, StoreTyped, FramesInHand, Handling
  <1> QED
    BY <1>0, <1>1, <1>2, <1>3, <1>4, TypeParts

LEMMA VerdictType ==
  ASSUME NEW h \in Connections
  PROVE  Verdict(h) \in (Codes \ {"RATE_LIMIT"}) \cup {"ok"}
  BY DEF Verdict, Codes

(***************************************************************************)
(* An answer counts as one more frame; the answered frame is refused       *)
(* unless the answer is the delta.                                         *)
(***************************************************************************)
LEMMA AnswerType ==
  ASSUME AnswerTypes, NEW h \in Connections, answered[h] < MaxFrames,
         NEW code \in Codes \cup {"delta"}, Answer(h, code)
  PROVE  AnswerTypes'
  <1>1. /\ answer' \in [Connections -> Codes \cup {"delta", "none"}]
        /\ answered' \in [Connections -> 0 .. MaxFrames]
        /\ refused' \in [Connections -> SUBSET Nat]
    BY DEF AnswerTypes, Answer
  <1>2. ASSUME NEW g \in Connections PROVE refused'[g] \subseteq 1 .. answered'[g]
    BY DEF AnswerTypes, Answer
  <1> QED
    BY <1>1, <1>2 DEF AnswerTypes

LEMMA SceneTypesStep ==
  ASSUME TypeOK, [Next]_vars
  PROVE  SceneTypes'
  <1> USE TypeParts DEF SceneTypes
  <1>1. ASSUME NEW h \in Connections, Write(h) PROVE SceneTypes'
    BY <1>1 DEF Write, Written
  <1>2. ASSUME NEW d \in Declarations, Declare(d) PROVE SceneTypes'
    BY <1>2 DEF Declare
  <1>3. CASE Tick
    BY <1>3 DEF Tick, sceneVars
  <1>4. CASE UNCHANGED <<now, sceneVars>>
    BY <1>4 DEF sceneVars
  <1> QED
    BY <1>1, <1>2, <1>3, <1>4
       DEF Next, Handle, Open, Stop, RefuseShape, RefuseRole, RefuseRate,
           Admit, RefusePatch, PassPatch, vars

LEMMA FrameTypesStep ==
  ASSUME TypeOK, [Next]_vars
  PROVE  FrameTypes'
  <1>0. FrameTypes /\ declares \in Nat
    BY TypeParts DEF SceneTypes
  <1> USE <1>0 DEF FrameTypes
  <1>1. ASSUME NEW h \in Connections, Open(h) PROVE FrameTypes'
    BY <1>1 DEF Open, sceneVars, frameVars
  <1>2. ASSUME NEW h \in Connections, Stop(h) PROVE FrameTypes'
    BY <1>2 DEF Stop, sceneVars, frameVars
  <1>3. ASSUME NEW h \in Connections, NEW patches \in Inputs, Admit(h, patches)
        PROVE  FrameTypes'
    BY <1>3 DEF Admit, sceneVars
  <1>4. ASSUME NEW h \in Connections, RefusePatch(h) \/ Write(h)
        PROVE  FrameTypes'
    <2>1. Ready(h) /\ UNCHANGED <<declares, who>>
      BY <1>4 DEF RefusePatch, Write, sceneVars
    <2> QED
      BY <2>1 DEF Ready
  <1>5. ASSUME NEW h \in Connections, PassPatch(h) PROVE FrameTypes'
    <2>1. UNCHANGED <<declares, who, frame, arrived>>
      BY <1>5 DEF PassPatch, sceneVars
    <2>2. /\ phase' \in [Connections -> {"closed", "ready", "checking", "writing"}]
          /\ pos' \in [Connections -> Nat \ {0}]
      <3>1. \/ pos' = [pos EXCEPT ![h] = pos[h] + 1] /\ phase' = phase
            \/ pos' = pos /\ phase' = [phase EXCEPT ![h] = "writing"]
        BY <1>5 DEF PassPatch
      <3>2. pos[h] + 1 \in Nat \ {0}
        OBVIOUS
      <3>3. phase' \in [Connections -> {"closed", "ready", "checking", "writing"}]
        BY <3>1
      <3>4. pos' \in [Connections -> Nat \ {0}]
        BY <3>1, <3>2
      <3> QED
        BY <3>3, <3>4
    <2> QED
      BY <2>1, <2>2
  <1>6. ASSUME NEW d \in Declarations, Declare(d) PROVE FrameTypes'
    BY <1>6 DEF Declare, frameVars
  <1>7. CASE UNCHANGED <<declares, phase, who, frameVars>>
    BY <1>7 DEF frameVars
  <1> QED
    BY <1>1, <1>2, <1>3, <1>4, <1>5, <1>6, <1>7
       DEF Next, Handle, RefuseShape, RefuseRole, RefuseRate, Tick, vars,
           sceneVars

LEMMA BucketTypesStep ==
  ASSUME TypeOK, [Next]_vars
  PROVE  BucketTypes'
  <1>0. BucketTypes /\ now \in 0 .. MaxTime
    BY TypeParts DEF SceneTypes
  <1> USE <1>0 DEF BucketTypes
  <1>1. ASSUME NEW h \in Connections, Open(h) \/ Stop(h) PROVE BucketTypes'
    <2>1. /\ now' = now
          /\ used' = [used EXCEPT ![h] = 0]
          /\ \E t \in 0 .. now : start' = [start EXCEPT ![h] = t]
          /\ admitted' = [admitted EXCEPT ![h] = <<>>]
      BY <1>1 DEF Open, Stop
    <2>2. admitted' \in [Connections -> Seq(0 .. now)]
      BY <2>1, EmptySeq
    <2> QED
      BY <2>1, <2>2
  <1>2. ASSUME NEW h \in Connections, NEW patches \in Inputs, Admit(h, patches)
        PROVE  BucketTypes'
    <2>1. /\ Take(h) /\ Allowed(h) /\ now' = now
          /\ used[h] \in 0 .. Limit /\ now \in 0 .. now
      BY <1>2 DEF Admit
    <2>2. used' \in [Connections -> 0 .. Limit]
      <3>1. CASE Limit = 0
        BY <2>1, <3>1 DEF Take
      <3>2. CASE Limit # 0
        <4>1. used' = [used EXCEPT ![h] = IF Expired(h) THEN 1 ELSE used[h] + 1]
          BY <2>1, <3>2 DEF Take
        <4>2. (IF Expired(h) THEN 1 ELSE used[h] + 1) \in 0 .. Limit
          BY <2>1, <3>2 DEF Allowed
        <4> QED
          BY <4>1, <4>2
      <3> QED
        BY <3>1, <3>2
    <2>3. start' \in [Connections -> 0 .. now]
      BY <2>1 DEF Take, Expired
    <2>4. Append(admitted[h], now) \in Seq(0 .. now)
      BY <2>1, AppendProperties
    <2>5. admitted' \in [Connections -> Seq(0 .. now)]
      BY <2>1, <2>4 DEF Take
    <2> QED
      BY <2>1, <2>2, <2>3, <2>5
  <1>3. CASE Tick
    <2>1. now' = now + 1 /\ UNCHANGED <<used, start, admitted>>
      BY <1>3 DEF Tick, bucketVars
    <2>2. \A h \in Connections : admitted[h] \in Seq(0 .. now')
      BY <2>1, SeqGrows
    <2>3. admitted \in [Connections -> Seq(0 .. now')]
      BY <2>2
    <2> QED
      BY <2>1, <2>3
  <1>4. CASE UNCHANGED <<now, bucketVars>>
    BY <1>4 DEF bucketVars
  <1> QED
    BY <1>1, <1>2, <1>3, <1>4
       DEF Next, Handle, RefuseShape, RefuseRole, RefuseRate, RefusePatch,
           PassPatch, Write, Declare, vars

LEMMA AnswerTypesStep ==
  ASSUME TypeOK, FramesInHand, [Next]_vars
  PROVE  AnswerTypes'
  <1>0. AnswerTypes
    BY TypeParts
  <1>1. ASSUME NEW h \in Connections, Stop(h) PROVE AnswerTypes'
    BY <1>0, <1>1 DEF Stop, AnswerTypes
  <1>2. ASSUME NEW h \in Connections,
               RefuseShape(h) \/ RefuseRole(h) \/ RefuseRate(h)
        PROVE  AnswerTypes'
    <2>1. PICK code \in Codes : Answer(h, code)
      BY <1>2 DEF RefuseShape, RefuseRole, RefuseRate, Codes
    <2>2. answered[h] < MaxFrames
      BY <1>2 DEF RefuseShape, RefuseRole, RefuseRate, Arrives
    <2> QED
      BY <1>0, <2>1, <2>2, AnswerType
  <1>3. ASSUME NEW h \in Connections, RefusePatch(h) \/ Write(h)
        PROVE  AnswerTypes'
    <2>1. PICK code \in Codes \cup {"delta"} : Answer(h, code)
      BY <1>3, VerdictType DEF RefusePatch, Write
    <2>2. answered[h] < MaxFrames
      BY <1>3 DEF RefusePatch, Write, FramesInHand, Handling
    <2> QED
      BY <1>0, <2>1, <2>2, AnswerType
  <1>4. CASE UNCHANGED answerVars
    BY <1>0, <1>4 DEF AnswerTypes, answerVars
  <1> QED
    BY <1>1, <1>2, <1>3, <1>4
       DEF Next, Handle, Open, Admit, PassPatch, Declare, Tick, vars

LEMMA TypeStep ==
  ASSUME TypeOK, FramesInHand, [Next]_vars
  PROVE  TypeOK'
  <1>1. /\ SceneTypes' /\ FrameTypes' /\ BucketTypes' /\ AnswerTypes'
    BY SceneTypesStep, FrameTypesStep, BucketTypesStep, AnswerTypesStep
  <1> QED
    BY <1>1, TypeParts, PTL

-----------------------------------------------------------------------------
(* Frames in hand                                                          *)

LEMMA InputFacts ==
  ASSUME NEW f \in Inputs
  PROVE  /\ Len(f) \in Nat \ {0}
         /\ \A i \in 1 .. Len(f) : f[i].path \in Paths /\ f[i].value \in Values
  <1>1. f \in Seq([path : Paths, value : Values]) /\ f # <<>>
    BY GateAssumption
  <1>2. Len(f) \in Nat /\ Len(f) # 0
    BY <1>1, LenProperties, EmptySeq
  <1>3. \A i \in 1 .. Len(f) : f[i] \in [path : Paths, value : Values]
    BY <1>1, ElementOfSeq
  <1> QED
    BY <1>2, <1>3

(***************************************************************************)
(* A connection that handles a frame after a step did so before, and only  *)
(* PassPatch moved it, or has just admitted it.                            *)
(***************************************************************************)
LEMMA HandlingSteps ==
  ASSUME TypeOK, [Next]_vars, NEW h \in Connections, Handling(h)'
  PROVE  \/ /\ Handling(h)
            /\ phase'[h] = phase[h] /\ who'[h] = who[h]
            /\ frame'[h] = frame[h] /\ pos'[h] = pos[h]
            /\ arrived'[h] = arrived[h] /\ answered'[h] = answered[h]
         \/ \E patches \in Inputs : Admit(h, patches)
         \/ PassPatch(h)
  <1>0. FrameTypes /\ AnswerTypes
    BY TypeParts
  <1> DEFINE Same == /\ phase'[h] = phase[h] /\ who'[h] = who[h]
                     /\ frame'[h] = frame[h] /\ pos'[h] = pos[h]
                     /\ arrived'[h] = arrived[h] /\ answered'[h] = answered[h]
  <1>1. ASSUME NEW g \in Connections, Open(g) \/ Stop(g) PROVE g # h /\ Same
    BY <1>0, <1>1 DEF Open, Stop, Handling, FrameTypes, frameVars, answerVars
  <1>2. ASSUME NEW g \in Connections,
               RefuseShape(g) \/ RefuseRole(g) \/ RefuseRate(g)
        PROVE  g # h /\ Same
    <2>1. /\ UNCHANGED <<phase, who, frame, pos, arrived>>
          /\ phase[g] = "ready"
          /\ answered' = [answered EXCEPT ![g] = answered[g] + 1]
      BY <1>2 DEF RefuseShape, RefuseRole, RefuseRate, Arrives, Answer, frameVars
    <2> QED
      BY <1>0, <2>1 DEF Handling, AnswerTypes
  <1>3. ASSUME NEW g \in Connections, NEW patches \in Inputs,
               Admit(g, patches), g # h
        PROVE  Same
    BY <1>0, <1>3 DEF Admit, FrameTypes, answerVars
  <1>4. ASSUME NEW g \in Connections, RefusePatch(g) \/ Write(g)
        PROVE  g # h /\ Same
    <2>1. /\ Ready(g) /\ who' = who
          /\ answered' = [answered EXCEPT ![g] = answered[g] + 1]
      BY <1>4 DEF RefusePatch, Write, Answer
    <2> QED
      BY <1>0, <2>1 DEF Handling, Ready, FrameTypes, AnswerTypes
  <1>5. ASSUME NEW g \in Connections, PassPatch(g), g # h PROVE Same
    <2>1. /\ UNCHANGED <<who, frame, arrived, answered>>
          /\ pos'[h] = pos[h] /\ phase'[h] = phase[h]
      BY <1>0, <1>5 DEF PassPatch, FrameTypes, answerVars
    <2> QED
      BY <2>1
  <1>6. ASSUME UNCHANGED <<phase, who, frameVars, answerVars>> PROVE Same
    BY <1>6 DEF frameVars, answerVars
  <1>7. \/ Same
        \/ \E patches \in Inputs : Admit(h, patches)
        \/ PassPatch(h)
    BY <1>1, <1>2, <1>3, <1>4, <1>5, <1>6
       DEF Next, Handle, Declare, Tick, vars
  <1> QED
    BY <1>7 DEF Handling

(***************************************************************************)
(* A patch that passes is the next one of its frame.                       *)
(***************************************************************************)
LEMMA PassPatchFacts ==
  ASSUME TypeOK, FramesInHand, NEW h \in Connections, PassPatch(h)
  PROVE  /\ phase[h] = "checking" /\ Handling(h) /\ Verdict(h) = "ok"
         /\ frame'[h] = frame[h] /\ who'[h] = who[h]
         /\ arrived'[h] = arrived[h] /\ answered'[h] = answered[h]
         /\ pos'[h] \in 1 .. Len(frame[h])
         /\ Passed(h) = pos[h] - 1
         /\ Passed(h)' = pos[h] /\ pos[h] \in 1 .. Len(frame[h])
  <1>1. /\ phase[h] = "checking" /\ Verdict(h) = "ok"
        /\ UNCHANGED <<frame, who, arrived, answered>>
    BY DEF PassPatch, answerVars
  <1>2. /\ pos[h] \in 1 .. Len(frame[h]) /\ Len(frame[h]) \in Nat
        /\ Handling(h)
    BY <1>1, InputFacts DEF FramesInHand, Handling
  <1>3. \/ /\ pos[h] < Len(frame[h])
           /\ pos'[h] = pos[h] + 1 /\ phase'[h] = "checking"
        \/ /\ pos[h] = Len(frame[h])
           /\ pos'[h] = pos[h] /\ phase'[h] = "writing"
    <2>1. phase \in [Connections -> {"closed", "ready", "checking", "writing"}]
          /\ pos \in [Connections -> Nat \ {0}]
      BY TypeParts DEF FrameTypes
    <2> QED
      BY <1>1, <1>2, <2>1 DEF PassPatch
  <1>4. Passed(h) = pos[h] - 1
    BY <1>1 DEF Passed
  <1>5. Passed(h)' = pos[h]
    <2>1. frame'[h] = frame[h] /\ pos[h] \in Int
      BY <1>1, <1>2
    <2> QED
      BY <1>3, <2>1 DEF Passed
  <1>6. pos'[h] \in 1 .. Len(frame[h])
    BY <1>2, <1>3
  <1> QED
    BY <1>1, <1>2, <1>4, <1>5, <1>6

LEMMA FramesInHandStep ==
  ASSUME TypeOK, FramesInHand, [Next]_vars
  PROVE  FramesInHand'
  <1> SUFFICES ASSUME NEW h \in Connections, Handling(h)'
               PROVE  /\ frame'[h] \in Inputs
                      /\ pos'[h] \in 1 .. Len(frame'[h])
                      /\ answered'[h] < MaxFrames
    BY DEF FramesInHand
  <1>1. ASSUME NEW patches \in Inputs, Admit(h, patches)
        PROVE  /\ frame'[h] = patches /\ pos'[h] = 1
               /\ answered'[h] < MaxFrames
    BY <1>1, TypeParts DEF Admit, FrameTypes, Arrives, answerVars
  <1>2. CASE PassPatch(h)
    BY <1>2, PassPatchFacts DEF FramesInHand
  <1>3. CASE /\ Handling(h)
             /\ frame'[h] = frame[h] /\ pos'[h] = pos[h]
             /\ answered'[h] = answered[h]
    BY <1>3 DEF FramesInHand
  <1>4. CASE \E patches \in Inputs : Admit(h, patches)
    BY <1>1, <1>4, InputFacts
  <1> QED
    BY <1>2, <1>3, <1>4, HandlingSteps

-----------------------------------------------------------------------------
(* Patches that have passed                                                *)

LEMMA VerdictOk ==
  ASSUME NEW h \in Connections, Verdict(h) = "ok"
  PROVE  /\ CanWrite(who[h], Patch(h).path)
         /\ Declared(Patch(h))
         /\ Fits(Patch(h))
  BY DEF Verdict

LEMMA PassedIsAllowedStep ==
  ASSUME TypeOK, FramesInHand, PassedIsAllowed, [Next]_vars
  PROVE  PassedIsAllowed'
  <1> SUFFICES ASSUME NEW h \in Connections, Handling(h)',
                      NEW i \in 1 .. Passed(h)'
               PROVE  CanWrite(who'[h], frame'[h][i].path)
    BY DEF PassedIsAllowed, CanWrite, InScope
  <1>1. CASE \E patches \in Inputs : Admit(h, patches)
    <2>1. phase'[h] = "checking" /\ pos'[h] = 1
      BY <1>1, TypeParts DEF Admit, FrameTypes
    <2> QED
      BY <2>1 DEF Passed
  <1>2. CASE PassPatch(h)
    <2>1. /\ Handling(h) /\ Verdict(h) = "ok"
          /\ frame'[h] = frame[h] /\ who'[h] = who[h]
          /\ Passed(h) = pos[h] - 1 /\ Passed(h)' = pos[h]
          /\ pos[h] \in Nat
      BY <1>2, PassPatchFacts
    <2>2. CanWrite(who[h], frame[h][pos[h]].path)
      BY <2>1, VerdictOk DEF Patch
    <2>3. i = pos[h] \/ i \in 1 .. Passed(h)
      BY <2>1
    <2> QED
      BY <2>1, <2>2, <2>3 DEF PassedIsAllowed
  <1>3. CASE /\ Handling(h)
             /\ phase'[h] = phase[h] /\ who'[h] = who[h]
             /\ frame'[h] = frame[h] /\ pos'[h] = pos[h]
    <2>1. Passed(h)' = Passed(h)
      BY <1>3 DEF Passed
    <2> QED
      BY <1>3, <2>1 DEF PassedIsAllowed
  <1> QED
    BY <1>1, <1>2, <1>3, HandlingSteps

(***************************************************************************)
(* The declarations change only as a whole, and every change is counted.   *)
(***************************************************************************)
LEMMA DeclarationSteps ==
  ASSUME TypeOK, [Next]_vars
  PROVE  \/ UNCHANGED <<strict, specs, declares>>
         \/ /\ declares' = declares + 1
            /\ \A h \in Connections : arrived'[h] = arrived[h] /\ arrived[h] < declares'
            /\ store' = store
            /\ UNCHANGED phase
  <1>1. ASSUME NEW d \in Declarations, Declare(d)
        PROVE  /\ declares' = declares + 1
               /\ \A h \in Connections :
                     arrived'[h] = arrived[h] /\ arrived[h] < declares'
               /\ store' = store
               /\ UNCHANGED phase
    BY <1>1, TypeParts DEF Declare, FrameTypes, SceneTypes, frameVars
  <1> QED
    BY <1>1 DEF Next, Handle, Open, Stop, RefuseShape, RefuseRole, RefuseRate,
                Admit, RefusePatch, PassPatch, Write, Tick, vars, sceneVars

LEMMA PassedIsDeclaredStep ==
  ASSUME TypeOK, FramesInHand, PassedIsDeclared, [Next]_vars
  PROVE  PassedIsDeclared'
  <1> SUFFICES ASSUME NEW h \in Connections, Handling(h)', strict',
                      arrived'[h] = declares', NEW i \in 1 .. Passed(h)'
               PROVE  /\ frame'[h][i].path \in DOMAIN specs'
                      /\ CheckConstraint(specs'[frame'[h][i].path],
                                         frame'[h][i].value)
    BY DEF PassedIsDeclared, CheckConstraint, CheckType
  <1>0. UNCHANGED <<strict, specs, declares>>
    <2>1. declares \in Nat
      BY TypeParts DEF SceneTypes
    <2>2. ~ (declares' = declares + 1 /\ arrived'[h] = arrived[h]
               /\ arrived[h] < declares')
      <3>1. arrived'[h] = declares'
        OBVIOUS
      <3> QED
        BY <2>1, <3>1
    <2> QED
      BY <2>2, DeclarationSteps, Zenon
  <1>1. CASE \E patches \in Inputs : Admit(h, patches)
    <2>1. phase'[h] = "checking" /\ pos'[h] = 1
      BY <1>1, TypeParts DEF Admit, FrameTypes
    <2> QED
      BY <2>1 DEF Passed
  <1>2. CASE PassPatch(h)
    <2>1. /\ Handling(h) /\ Verdict(h) = "ok"
          /\ frame'[h] = frame[h] /\ arrived'[h] = arrived[h]
          /\ Passed(h) = pos[h] - 1 /\ Passed(h)' = pos[h]
          /\ pos[h] \in Nat
      BY <1>2, PassPatchFacts
    <2>2. /\ frame[h][pos[h]].path \in DOMAIN specs
          /\ CheckConstraint(specs[frame[h][pos[h]].path],
                             frame[h][pos[h]].value)
      BY <1>0, <2>1, VerdictOk DEF Patch, Declared, Fits
    <2>3. i = pos[h] \/ i \in 1 .. Passed(h)
      BY <2>1
    <2> QED
      BY <1>0, <2>1, <2>2, <2>3 DEF PassedIsDeclared
  <1>3. CASE /\ Handling(h)
             /\ phase'[h] = phase[h] /\ arrived'[h] = arrived[h]
             /\ frame'[h] = frame[h] /\ pos'[h] = pos[h]
    <2>1. Passed(h)' = Passed(h)
      BY <1>3 DEF Passed
    <2>2. strict /\ arrived[h] = declares /\ i \in 1 .. Passed(h)
      BY <1>0, <1>3, <2>1
    <2> QED
      BY <1>0, <1>3, <2>2 DEF PassedIsDeclared
  <1> QED
    BY <1>1, <1>2, <1>3, HandlingSteps

-----------------------------------------------------------------------------
(* The store                                                               *)

(***************************************************************************)
(* Every set of numbers has a least one.                                   *)
(***************************************************************************)
LEMMA LeastNumber ==
  ASSUME NEW T \in SUBSET Nat, T # {}
  PROVE  \E k \in T : \A j \in T : k <= j
  <1>1. PICK k \in T : \A j \in T : <<j, k>> \notin OpToRel(<, Nat)
    BY NatLessThanWellFounded, WFMin, Zenon
  <1>2. \A j \in T : ~ (j < k)
    BY <1>1, Zenon DEF OpToRel
  <1> QED
    BY <1>2

(***************************************************************************)
(* A frame that has a patch for a path has a last one.                     *)
(***************************************************************************)
LEMMA LastForFacts ==
  ASSUME NEW h \in Connections, frame[h] \in Inputs, NEW p,
         \E i \in 1 .. Len(frame[h]) : frame[h][i].path = p
  PROVE  /\ LastFor(h, p) \in 1 .. Len(frame[h])
         /\ frame[h][LastFor(h, p)].path = p
  <1> DEFINE n == Len(frame[h])
             T == {k \in Nat : k < n /\ frame[h][n - k].path = p}
  <1>1. n \in Nat
    BY InputFacts
  <1>2. PICK i \in 1 .. n : frame[h][i].path = p
    OBVIOUS
  <1>3. n - i \in T /\ T \subseteq Nat
    BY <1>1, <1>2
  <1>4. PICK k \in T : \A j \in T : k <= j
    <2> HIDE DEF T
    <2> QED
      BY <1>3, LeastNumber
  <1>6. /\ n - k \in 1 .. n
        /\ frame[h][n - k].path = p
        /\ \A j \in (n - k) + 1 .. n : frame[h][j].path # p
    <2>1. k \in Nat /\ k < n /\ frame[h][n - k].path = p
      BY <1>4
    <2>2. ASSUME NEW j \in (n - k) + 1 .. n, frame[h][j].path = p PROVE FALSE
      <3>1. n - j \in Nat /\ n - j < k /\ n - (n - j) = j
        BY <1>1, <2>1
      <3>2. n - j \in T
        BY <1>1, <2>1, <2>2, <3>1
      <3> QED
        BY <1>4, <2>1, <3>1, <3>2
    <2>3. n - k \in 1 .. n
      BY <1>1, <2>1
    <2> QED
      BY <2>1, <2>2, <2>3
  <1> QED
    BY <1>6 DEF LastFor

(***************************************************************************)
(* A leaf changes only by the write of a frame all of whose patches have   *)
(* passed, to what one of them says.                                       *)
(***************************************************************************)
LEMMA StoreSteps ==
  ASSUME TypeOK, FramesInHand, [Next]_vars, NEW p \in Paths
  PROVE  \/ store'[p] = store[p]
         \/ \E h \in Connections : \E i \in 1 .. Len(frame[h]) :
              /\ Write(h) /\ phase[h] = "writing" /\ Passed(h) = Len(frame[h])
              /\ frame[h] \in Inputs
              /\ frame[h][i].path = p
              /\ store'[p] = Written(h, i)
  <1>1. ASSUME NEW h \in Connections, Write(h), store'[p] # store[p]
        PROVE  \E i \in 1 .. Len(frame[h]) :
                 /\ Write(h) /\ phase[h] = "writing" /\ Passed(h) = Len(frame[h])
                 /\ frame[h] \in Inputs
                 /\ frame[h][i].path = p
                 /\ store'[p] = Written(h, i)
    <2>1. phase[h] = "writing" /\ Passed(h) = Len(frame[h]) /\ frame[h] \in Inputs
      BY <1>1 DEF Write, Passed, FramesInHand, Handling
    <2>2. \E i \in 1 .. Len(frame[h]) : frame[h][i].path = p
      BY <1>1 DEF Write
    <2>3. store'[p] = Written(h, LastFor(h, p))
      BY <1>1, <2>2 DEF Write
    <2> QED
      BY <1>1, <2>1, <2>2, <2>3, LastForFacts
  <1> QED
    BY <1>1 DEF Next, Handle, Open, Stop, RefuseShape, RefuseRole, RefuseRate,
                Admit, RefusePatch, PassPatch, Declare, Tick, vars, sceneVars

(***************************************************************************)
(* What a write leaves is never taken for the empty store.                 *)
(***************************************************************************)
LEMMA WrittenFacts ==
  ASSUME TypeOK, NEW h \in Connections, frame[h] \in Inputs,
         NEW i \in 1 .. Len(frame[h])
  PROVE  /\ Written(h, i) \in WriteRecords
         /\ Written(h, i) # NoWrite
         /\ Written(h, i).by = h /\ Written(h, i).as = who[h]
         /\ Written(h, i).frame = answered[h] + 1
         /\ Written(h, i).seen = arrived[h]
         /\ Written(h, i).value = frame[h][i].value
  <1>1. /\ who[h] \in Identities /\ answered[h] + 1 \in Nat
        /\ arrived[h] \in Nat /\ frame[h][i].value \in Values
    BY InputFacts, TypeParts DEF FrameTypes, AnswerTypes, SceneTypes
  <1>2. /\ Written(h, i) \in WriteRecords
        /\ Written(h, i).by = h /\ Written(h, i).as = who[h]
        /\ Written(h, i).frame = answered[h] + 1
        /\ Written(h, i).seen = arrived[h]
        /\ Written(h, i).value = frame[h][i].value
    BY <1>1 DEF Written, WriteRecords
  <1>3. NoWrite \notin WriteRecords
    BY DEF NoWrite, WriteRecords
  <1> QED
    BY <1>2, <1>3

LEMMA StoreTypedStep ==
  ASSUME TypeOK, FramesInHand, StoreTyped, [Next]_vars
  PROVE  StoreTyped'
  <1>1. declares \in Nat /\ declares' \in Nat /\ declares <= declares'
    <2>1. declares \in Nat
      BY TypeParts DEF SceneTypes
    <2> QED
      BY <2>1, DeclarationSteps
  <1>2. \A p \in Paths : /\ store'[p] \in WriteRecords \cup {NoWrite}
                         /\ store'[p] # NoWrite => store'[p].seen <= declares'
    <2> TAKE p \in Paths
    <2>1. CASE store'[p] = store[p]
      <3>1. store[p] # NoWrite => store[p].seen \in Nat
        BY DEF StoreTyped, WriteRecords
      <3> QED
        BY <1>1, <2>1, <3>1 DEF StoreTyped
    <2>2. CASE store'[p] # store[p]
      <3>0. PICK h \in Connections :
              \E i \in 1 .. Len(frame[h]) :
                  frame[h] \in Inputs /\ store'[p] = Written(h, i)
        BY <2>2, StoreSteps
      <3>1. PICK i \in 1 .. Len(frame[h]) :
              frame[h] \in Inputs /\ store'[p] = Written(h, i)
        BY <3>0
      <3>2. arrived[h] \in Nat /\ arrived[h] <= declares
        BY TypeParts DEF FrameTypes, SceneTypes
      <3> QED
        BY <1>1, <3>1, <3>2, WrittenFacts
    <2> QED
      BY <2>1, <2>2
  <1>3. \/ store' = store
        \/ \E f : store' = [p \in Paths |-> f[p]]
    <2>1. ASSUME NEW h \in Connections, Write(h)
          PROVE  \E f : store' = [p \in Paths |-> f[p]]
      BY <2>1 DEF Write
    <2> QED
      BY <2>1
         DEF Next, Handle, Open, Stop, RefuseShape, RefuseRole, RefuseRate,
             Admit, RefusePatch, PassPatch, Declare, Tick, vars, sceneVars
  <1> QED
    BY <1>2, <1>3 DEF StoreTyped

-----------------------------------------------------------------------------
(* No trace of refused frames                                              *)

(***************************************************************************)
(* Answers are counted one by one, and only the newest can be refused.     *)
(***************************************************************************)
LEMMA AnswerSteps ==
  ASSUME TypeOK, [Next]_vars, NEW h \in Connections
  PROVE  \/ answered'[h] = answered[h] /\ refused'[h] = refused[h]
         \/ /\ answered'[h] = answered[h] + 1
            /\ refused'[h] \subseteq refused[h] \cup {answered[h] + 1}
  <1>0. AnswerTypes
    BY TypeParts
  <1>1. ASSUME NEW g \in Connections, NEW code, Answer(g, code)
        PROVE  \/ answered'[h] = answered[h] /\ refused'[h] = refused[h]
               \/ /\ answered'[h] = answered[h] + 1
                  /\ refused'[h] \subseteq refused[h] \cup {answered[h] + 1}
    BY <1>0, <1>1 DEF Answer, AnswerTypes
  <1>2. \/ UNCHANGED <<answered, refused>>
        \/ \E g \in Connections : \E code : Answer(g, code)
    BY DEF Next, Handle, Open, Stop, RefuseShape, RefuseRole, RefuseRate, Admit,
           RefusePatch, PassPatch, Write, Declare, Tick, vars, answerVars
  <1> QED
    BY <1>1, <1>2

LEMMA NoTraceByPath ==
  ASSUME StoreTyped
  PROVE  RefusedLeavesNoTrace <=>
           \A p \in Paths : store[p] # NoWrite =>
               /\ store[p].frame <= answered[store[p].by]
               /\ store[p].frame \notin refused[store[p].by]
  BY DEF RefusedLeavesNoTrace, Writes

LEMMA NoTraceStep ==
  ASSUME TypeOK, FramesInHand, StoreTyped, RefusedLeavesNoTrace, [Next]_vars
  PROVE  RefusedLeavesNoTrace'
  <1>1. StoreTyped'
    BY StoreTypedStep
  <1>2. ASSUME NEW p \in Paths, store'[p] # NoWrite
        PROVE  /\ store'[p].frame <= answered'[store'[p].by]
               /\ store'[p].frame \notin refused'[store'[p].by]
    <2>1. CASE store'[p] = store[p]
      <3> DEFINE w == store[p]
      <3>1. w \in WriteRecords /\ w.by \in Connections /\ w.frame \in Nat
        BY <1>2, <2>1 DEF StoreTyped, WriteRecords
      <3>2. w.frame <= answered[w.by] /\ w.frame \notin refused[w.by]
        BY <1>2, <2>1, NoTraceByPath
      <3>3. answered[w.by] \in Nat
        BY <3>1, TypeParts DEF AnswerTypes
      <3>4. PICK h \in Connections : h = w.by
        BY <3>1
      <3>5. \/ answered'[h] = answered[h] /\ refused'[h] = refused[h]
            \/ /\ answered'[h] = answered[h] + 1
               /\ refused'[h] \subseteq refused[h] \cup {answered[h] + 1}
        BY AnswerSteps
      <3>6. w.frame <= answered'[h] /\ w.frame \notin refused'[h]
        <4> HIDE DEF w
        <4> QED
          BY <3>1, <3>2, <3>3, <3>4, <3>5
      <3> QED
        BY <2>1, <3>4, <3>6
    <2>2. CASE store'[p] # store[p]
      <3>1. PICK h \in Connections :
              \E i \in 1 .. Len(frame[h]) :
                  Write(h) /\ frame[h] \in Inputs /\ store'[p] = Written(h, i)
        BY <2>2, StoreSteps
      <3>2. store'[p].by = h /\ store'[p].frame = answered[h] + 1
        BY <3>1, WrittenFacts
      <3>3. /\ answered[h] \in Nat /\ refused[h] \subseteq 1 .. answered[h]
            /\ answered'[h] = answered[h] + 1 /\ refused'[h] = refused[h]
        BY <3>1, TypeParts DEF Write, Answer, AnswerTypes
      <3> QED
        BY <3>2, <3>3
    <2> QED
      BY <2>1, <2>2
  <1>3. StoreTyped' => (RefusedLeavesNoTrace <=>
           \A p \in Paths : store[p] # NoWrite =>
               /\ store[p].frame <= answered[store[p].by]
               /\ store[p].frame \notin refused[store[p].by])'
    BY NoTraceByPath, PTL
  <1> QED
    BY <1>1, <1>2, <1>3

-----------------------------------------------------------------------------
(* Namespaces                                                              *)

(***************************************************************************)
(* starts_with_prefix compares whole segments from the front.              *)
(***************************************************************************)
LEMMA PrefixFacts ==
  ASSUME NEW path \in Seq(STRING), NEW prefix, Len(prefix) \in Nat,
         StartsWithPrefix(path, prefix)
  PROVE  /\ Len(prefix) <= Len(path)
         /\ \A i \in 1 .. Len(prefix) : path[i] = prefix[i]
  <1>1. Len(prefix) \in Nat /\ Len(path) \in Nat
    BY LenProperties
  <1>2. Len(prefix) <= Len(path) /\ SubSeq(path, 1, Len(prefix)) = prefix
    BY DEF StartsWithPrefix
  <1>3. ASSUME NEW i \in 1 .. Len(prefix) PROVE path[i] = prefix[i]
    <2>1. SubSeq(path, 1, Len(prefix))[i] = path[1 + i - 1]
      BY <1>1, <1>2, SubSeqProperties
    <2> QED
      BY <1>1, <1>2, <2>1
  <1> QED
    BY <1>2, <1>3

(***************************************************************************)
(* can_write: no viewer, and the first segment is the role's namespace.    *)
(***************************************************************************)
Rightful(id, p) ==
    /\ id.role # "viewer"
    /\ p[1] = Namespace(id.role)
    /\ id.role = "service" /\ id.paths # {} =>
         \E q \in id.paths : Len(q) <= Len(p) /\ \A i \in 1 .. Len(q) : p[i] = q[i]

LEMMA NamespacesByPath ==
  NamespacesHold <=>
      \A p \in Paths : store[p] # NoWrite => Rightful(store[p].as, p)
  BY Zenon DEF NamespacesHold, Rightful

LEMMA CanWriteFacts ==
  ASSUME NEW id \in Identities, NEW p \in Paths, CanWrite(id, p)
  PROVE  Rightful(id, p)
  <1>1. /\ id.role \in {"viewer", "operator", "service", "test"}
        /\ id.paths \in SUBSET Seq(STRING)
        /\ p \in Seq(STRING)
    BY GateAssumption DEF Roles
  <1>2. id.role # "viewer"
    BY DEF CanWrite
  <1>3. StartsWithPrefix(p, <<Namespace(id.role)>>)
    BY <1>1, <1>2 DEF CanWrite, Namespace
  <1>4. p[1] = Namespace(id.role)
    <2>1. PICK ns : ns = Namespace(id.role)
      BY Zenon
    <2>2. Len(<<ns>>) = 1 /\ <<ns>>[1] = ns
      OBVIOUS
    <2>3. StartsWithPrefix(p, <<ns>>)
      BY <1>3, <2>1, Zenon
    <2>4. \A i \in 1 .. Len(<<ns>>) : p[i] = <<ns>>[i]
      BY <1>1, <2>2, <2>3, PrefixFacts
    <2>5. p[1] = ns
      BY <2>2, <2>4
    <2> QED
      BY <2>1, <2>5
  <1>5. ASSUME id.role = "service", id.paths # {}
        PROVE  \E q \in id.paths :
                  Len(q) <= Len(p) /\ \A i \in 1 .. Len(q) : p[i] = q[i]
    <2>1. PICK q \in id.paths : StartsWithPrefix(p, q)
      BY <1>5 DEF CanWrite, InScope
    <2>2. Len(q) \in Nat
      BY <1>1, LenProperties
    <2> QED
      BY <1>1, <2>1, <2>2, PrefixFacts
  <1> QED
    BY <1>2, <1>4, <1>5 DEF Rightful

LEMMA NamespacesStep ==
  ASSUME TypeOK, FramesInHand, StoreTyped, PassedIsAllowed, NamespacesHold,
         [Next]_vars
  PROVE  NamespacesHold'
  <1>0. NamespacesHold' <=>
          \A p \in Paths : store'[p] # NoWrite => Rightful(store'[p].as, p)
    BY Zenon DEF NamespacesHold, Rightful, Namespace
  <1> SUFFICES ASSUME NEW p \in Paths, store'[p] # NoWrite
               PROVE  Rightful(store'[p].as, p)
    BY <1>0
  <1>1. CASE store'[p] = store[p]
    BY <1>1, NamespacesByPath
  <1>2. CASE store'[p] # store[p]
    <2>1. PICK h \in Connections :
            \E i \in 1 .. Len(frame[h]) :
              /\ phase[h] = "writing" /\ Passed(h) = Len(frame[h])
              /\ frame[h] \in Inputs
              /\ frame[h][i].path = p
              /\ store'[p] = Written(h, i)
      BY <1>2, StoreSteps
    <2>2. PICK i \in 1 .. Len(frame[h]) :
            /\ phase[h] = "writing" /\ Passed(h) = Len(frame[h])
            /\ frame[h] \in Inputs
            /\ frame[h][i].path = p
            /\ store'[p] = Written(h, i)
      BY <2>1
    <2>3. CanWrite(who[h], p)
      BY <2>2 DEF PassedIsAllowed, Handling
    <2>4. who[h] \in Identities
      BY TypeParts DEF FrameTypes
    <2>5. store'[p].as = who[h]
      BY <2>2 DEF Written
    <2>6. Rightful(who[h], p)
      BY <2>3, <2>4, CanWriteFacts
    <2> QED
      BY <2>5, <2>6
  <1> QED
    BY <1>1, <1>2

-----------------------------------------------------------------------------
(* Declarations                                                            *)

LEMMA DeclarationsStep ==
  ASSUME TypeOK, FramesInHand, StoreTyped, PassedIsDeclared, DeclarationsHold,
         [Next]_vars
  PROVE  DeclarationsHold'
  <1> SUFFICES ASSUME NEW p \in Paths, strict', store'[p] # NoWrite,
                      store'[p].seen = declares'
               PROVE  /\ p \in DOMAIN specs'
                      /\ CheckConstraint(specs'[p], store'[p].value)
    BY DEF DeclarationsHold, CheckConstraint, CheckType
  <1>0. declares \in Nat
    BY TypeParts DEF SceneTypes
  <1>1. UNCHANGED <<strict, specs, declares>>
    <2>1. CASE store'[p] = store[p]
      <3>1. store[p].seen \in Nat /\ store[p].seen <= declares
        BY <2>1 DEF StoreTyped, WriteRecords
      <3>2. declares' # declares + 1
        BY <1>0, <2>1, <3>1
      <3> QED
        BY <3>2, DeclarationSteps, Zenon
    <2>2. CASE store'[p] # store[p]
      BY <2>2, DeclarationSteps, Zenon
    <2> QED
      BY <2>1, <2>2
  <1>2. strict
    BY <1>1
  <1>3. CASE store'[p] = store[p]
    <2>0. store[p] # NoWrite /\ store[p].seen = declares
      BY <1>1, <1>3
    <2>1. p \in DOMAIN specs /\ CheckConstraint(specs[p], store[p].value)
      BY <1>2, <2>0 DEF DeclarationsHold
    <2> QED
      BY <1>1, <1>3, <2>1
  <1>4. CASE store'[p] # store[p]
    <2>1. PICK h \in Connections :
            \E i \in 1 .. Len(frame[h]) :
              /\ phase[h] = "writing" /\ Passed(h) = Len(frame[h])
              /\ frame[h] \in Inputs
              /\ frame[h][i].path = p
              /\ store'[p] = Written(h, i)
      BY <1>4, StoreSteps
    <2>2. PICK i \in 1 .. Len(frame[h]) :
            /\ phase[h] = "writing" /\ Passed(h) = Len(frame[h])
            /\ frame[h] \in Inputs
            /\ frame[h][i].path = p
            /\ store'[p] = Written(h, i)
      BY <2>1
    <2>3. store'[p].value = frame[h][i].value /\ store'[p].seen = arrived[h]
      BY <2>2, WrittenFacts
    <2>4. Handling(h) /\ arrived[h] = declares
      BY <1>1, <2>2, <2>3 DEF Handling
    <2>5. p \in DOMAIN specs /\ CheckConstraint(specs[p], frame[h][i].value)
      BY <1>2, <2>2, <2>4 DEF PassedIsDeclared
    <2> QED
      BY <1>1, <2>3, <2>5
  <1> QED
    BY <1>3, <1>4

-----------------------------------------------------------------------------
(* The rate limit                                                          *)

LEMMA NewBucket ==
  ASSUME NEW first \in Nat, NEW t \in Nat
  PROVE  Kept(<<>>, 0, first, t)
  BY EmptySeq DEF Kept

LEMMA BucketAges ==
  ASSUME NEW t \in Nat, NEW u \in Nat, t <= u,
         NEW times \in Seq(0 .. t), NEW count \in Nat, NEW first \in Nat,
         Kept(times, count, first, t)
  PROVE  Kept(times, count, first, u)
  <1>1. Len(times) \in Nat /\ \A i \in 1 .. Len(times) : times[i] \in 0 .. t
    BY LenProperties, ElementOfSeq
  <1> QED
    BY <1>1 DEF Kept

(***************************************************************************)
(* RateBucket::allow takes an input at time t.  Within the window there is *)
(* room for one more, so that the input 2 * Limit before this one lies     *)
(* before the previous window; when the window has passed, that input lies *)
(* before the one that has passed.                                         *)
(***************************************************************************)
LEMMA BucketTakes ==
  ASSUME NEW t \in Nat, NEW times \in Seq(0 .. t), NEW count \in 0 .. Limit,
         NEW first \in 0 .. t, Limit > 0, Kept(times, count, first, t),
         t - first >= Window \/ count < Limit
  PROVE  IF t - first >= Window
           THEN Kept(Append(times, t), 1, t, t)
           ELSE Kept(Append(times, t), count + 1, first, t)
  <1> DEFINE n == Len(times)
             later == Append(times, t)
  <1>1. /\ n \in Nat
        /\ \A i \in 1 .. n : times[i] \in 0 .. t
    BY LenProperties, ElementOfSeq
  <1>2. /\ Len(later) = n + 1
        /\ later[n + 1] = t
        /\ \A i \in 1 .. n : later[i] = times[i]
    BY AppendProperties
  <1>3. /\ count <= n
        /\ \A i \in 1 .. n : times[i] <= t
        /\ \A i \in n - count + 1 .. n : first <= times[i]
        /\ \A i \in 1 .. n - count : times[i] <= first
        /\ \A i \in 1 .. n - count - Limit : times[i] + Window <= first
        /\ \A i \in 1 .. n - 2 * Limit :
              times[i + 2 * Limit] - times[i] >= Window
    BY DEF Kept
  <1> HIDE DEF n, later
  <1>4. ASSUME NEW i \in 1 .. Len(later) PROVE later[i] <= t
    BY <1>1, <1>2, <1>3, <1>4
  <1>5. ASSUME NEW i \in 1 .. Len(later) - 2 * Limit
        PROVE  later[i + 2 * Limit] - later[i] >= Window
    <2>0. i \in 1 .. n /\ later[i] = times[i]
      BY <1>1, <1>2
    <2>1. CASE i \in 1 .. n - 2 * Limit
      <3>1. i + 2 * Limit \in 1 .. n
        BY <1>1, <2>1
      <3>2. later[i + 2 * Limit] = times[i + 2 * Limit]
        BY <1>2, <3>1
      <3> QED
        BY <1>3, <2>0, <2>1, <3>2
    <2>2. CASE i = n + 1 - 2 * Limit
      <3>1. i + 2 * Limit = n + 1
        BY <1>1, <2>2
      <3>2. times[i] + Window <= t
        <4>1. CASE t - first >= Window
          <5>1. i \in 1 .. n - count
            BY <1>1, <2>2
          <5>2. times[i] <= first /\ times[i] \in Nat
            BY <1>1, <1>3, <2>0, <5>1
          <5> QED
            BY <4>1, <5>2
        <4>2. CASE count < Limit
          <5>1. i \in 1 .. n - count - Limit
            BY <1>1, <2>2, <4>2
          <5>2. times[i] + Window <= first /\ times[i] \in Nat
            BY <1>1, <1>3, <2>0, <5>1
          <5> QED
            BY <5>2
        <4> QED
          BY <4>1, <4>2
      <3>3. times[i] \in Nat
        BY <1>1, <2>0
      <3>4. later[i + 2 * Limit] = t /\ later[i] = times[i]
        BY <1>2, <2>0, <3>1
      <3>5. PICK x, y : x = later[i + 2 * Limit] /\ y = later[i]
        OBVIOUS
      <3>6. x = t /\ y \in Nat /\ y + Window <= t
        BY <3>2, <3>3, <3>4, <3>5
      <3>7. x - y >= Window
        BY <3>6
      <3> QED
        BY <3>5, <3>7
    <2> QED
      BY <1>1, <1>2, <2>1, <2>2
  <1>6. CASE t - first >= Window
    <2>1. 1 <= Len(later)
      BY <1>1, <1>2
    <2>2. ASSUME NEW i \in Len(later) - 1 + 1 .. Len(later) PROVE t <= later[i]
      BY <1>1, <1>2
    <2>3. ASSUME NEW i \in 1 .. Len(later) - 1 PROVE later[i] <= t
      BY <1>1, <1>2, <1>4
    <2>4. ASSUME NEW i \in 1 .. Len(later) - 1 - Limit
          PROVE  later[i] + Window <= t
      <3>1. i \in 1 .. n - count /\ i \in 1 .. n
        BY <1>1, <1>2
      <3>2. times[i] <= first /\ times[i] \in Nat /\ later[i] = times[i]
        BY <1>1, <1>2, <1>3, <3>1
      <3> QED
        BY <1>6, <3>2
    <2>5. Kept(later, 1, t, t)
      BY <1>4, <1>5, <2>1, <2>2, <2>3, <2>4, Zenon DEF Kept
    <2> QED
      BY <1>6, <2>5 DEF later
  <1>7. CASE ~ (t - first >= Window)
    <2>0. count + 1 <= Len(later) /\ Len(later) - (count + 1) = n - count
      BY <1>1, <1>2, <1>3
    <2>1. ASSUME NEW i \in Len(later) - (count + 1) + 1 .. Len(later)
          PROVE  first <= later[i]
      BY <1>1, <1>2, <1>3, <2>0
    <2>2. ASSUME NEW i \in 1 .. Len(later) - (count + 1)
          PROVE  later[i] <= first
      BY <1>1, <1>2, <1>3, <2>0
    <2>3. ASSUME NEW i \in 1 .. Len(later) - (count + 1) - Limit
          PROVE  later[i] + Window <= first
      <3>1. i \in 1 .. n /\ i \in 1 .. n - count - Limit
        BY <1>1, <2>0
      <3> QED
        BY <1>2, <1>3, <3>1
    <2>4. Kept(later, count + 1, first, t)
      BY <1>4, <1>5, <2>0, <2>1, <2>2, <2>3, Zenon DEF Kept
    <2> QED
      BY <1>7, <2>4 DEF later
  <1> QED
    BY <1>6, <1>7

(***************************************************************************)
(* A bucket stays as it is, is made anew or takes one input.               *)
(***************************************************************************)
LEMMA BucketSteps ==
  ASSUME TypeOK, [Next]_vars, NEW h \in Connections, Limit > 0
  PROVE  /\ now' \in Nat /\ now <= now'
         /\ \/ /\ admitted'[h] = admitted[h] /\ used'[h] = used[h]
               /\ start'[h] = start[h]
            \/ /\ admitted'[h] = <<>> /\ used'[h] = 0 /\ start'[h] \in Nat
               /\ now' = now
            \/ /\ Allowed(h) /\ now' = now
               /\ admitted'[h] = Append(admitted[h], now)
               /\ used'[h] = IF Expired(h) THEN 1 ELSE used[h] + 1
               /\ start'[h] = IF Expired(h) THEN now ELSE start[h]
  <1>0. now \in Nat /\ BucketTypes
    BY TypeParts DEF SceneTypes
  <1>1. ASSUME NEW g \in Connections,
               Open(g) \/ Stop(g) \/ \E patches \in Inputs : Admit(g, patches)
        PROVE  now' = now
    BY <1>1 DEF Open, Stop, Admit
  <1>2. ASSUME NEW g \in Connections, g # h,
               Open(g) \/ Stop(g) \/ \E patches \in Inputs : Admit(g, patches)
        PROVE  /\ admitted'[h] = admitted[h] /\ used'[h] = used[h]
               /\ start'[h] = start[h]
    BY <1>0, <1>2 DEF Open, Stop, Admit, Take, BucketTypes
  <1>3. ASSUME Open(h) \/ Stop(h)
        PROVE  admitted'[h] = <<>> /\ used'[h] = 0 /\ start'[h] \in Nat
    BY <1>0, <1>3 DEF Open, Stop, BucketTypes
  <1>4. ASSUME NEW patches \in Inputs, Admit(h, patches)
        PROVE  /\ Allowed(h)
               /\ admitted'[h] = Append(admitted[h], now)
               /\ used'[h] = IF Expired(h) THEN 1 ELSE used[h] + 1
               /\ start'[h] = IF Expired(h) THEN now ELSE start[h]
    BY <1>0, <1>4 DEF Admit, Take, BucketTypes
  <1>5. ASSUME \/ \E g \in Connections :
                    \/ RefuseShape(g) \/ RefuseRole(g) \/ RefuseRate(g)
                    \/ Handle(g)
               \/ \E d \in Declarations : Declare(d)
               \/ UNCHANGED vars
        PROVE  UNCHANGED <<now, admitted, used, start>>
    BY <1>5 DEF RefuseShape, RefuseRole, RefuseRate, Handle, RefusePatch,
                PassPatch, Write, Declare, vars, bucketVars
  <1>6. ASSUME Tick
        PROVE  now' = now + 1 /\ UNCHANGED <<admitted, used, start>>
    BY <1>6 DEF Tick, bucketVars
  <1> QED
    BY <1>0, <1>1, <1>2, <1>3, <1>4, <1>5, <1>6 DEF Next

LEMMA WindowsStep ==
  ASSUME TypeOK, Windows, [Next]_vars
  PROVE  Windows'
  <1> SUFFICES ASSUME Limit > 0, NEW h \in Connections
               PROVE  Kept(admitted'[h], used'[h], start'[h], now')
    BY DEF Windows, Kept
  <1>1. /\ now \in Nat /\ admitted[h] \in Seq(0 .. now)
        /\ used[h] \in 0 .. Limit /\ start[h] \in 0 .. now
    BY TypeParts DEF SceneTypes, BucketTypes
  <1>2. Kept(admitted[h], used[h], start[h], now)
    BY DEF Windows
  <1>3. /\ now' \in Nat /\ now <= now'
        /\ \/ /\ admitted'[h] = admitted[h] /\ used'[h] = used[h]
              /\ start'[h] = start[h]
           \/ /\ admitted'[h] = <<>> /\ used'[h] = 0 /\ start'[h] \in Nat
              /\ now' = now
           \/ /\ Allowed(h) /\ now' = now
              /\ admitted'[h] = Append(admitted[h], now)
              /\ used'[h] = IF Expired(h) THEN 1 ELSE used[h] + 1
              /\ start'[h] = IF Expired(h) THEN now ELSE start[h]
    BY BucketSteps
  <1>4. CASE /\ admitted'[h] = admitted[h] /\ used'[h] = used[h]
             /\ start'[h] = start[h]
    <2>1. Kept(admitted[h], used[h], start[h], now')
      BY <1>1, <1>2, <1>3, BucketAges
    <2> QED
      BY <1>4, <2>1
  <1>5. CASE /\ admitted'[h] = <<>> /\ used'[h] = 0 /\ start'[h] \in Nat
    BY <1>3, <1>5, NewBucket
  <1>6. CASE /\ Allowed(h) /\ now' = now
             /\ admitted'[h] = Append(admitted[h], now)
             /\ used'[h] = IF Expired(h) THEN 1 ELSE used[h] + 1
             /\ start'[h] = IF Expired(h) THEN now ELSE start[h]
    <2>1. now - start[h] >= Window \/ used[h] < Limit
      BY <1>6 DEF Allowed, Expired
    <2>2. IF now - start[h] >= Window
            THEN Kept(Append(admitted[h], now), 1, now, now)
            ELSE Kept(Append(admitted[h], now), used[h] + 1, start[h], now)
      BY <1>1, <1>2, <2>1, BucketTakes
    <2> QED
      BY <1>6, <2>2 DEF Expired
  <1> QED
    BY <1>3, <1>4, <1>5, <1>6

(***************************************************************************)
(* When allow says no, the inputs of the current window are recent.        *)
(***************************************************************************)
LEMMA FullWindowIsRecent ==
  ASSUME TypeOK, Windows, NEW h \in Connections, ~ Allowed(h)
  PROVE  Cardinality(Recent(h)) >= Limit
  <1>1. /\ now \in Nat /\ admitted[h] \in Seq(0 .. now)
        /\ used[h] \in 0 .. Limit /\ start[h] \in 0 .. now
    BY TypeParts DEF SceneTypes, BucketTypes
  <1>2. Limit > 0 /\ ~ (now - start[h] >= Window) /\ used[h] = Limit
    BY <1>1 DEF Allowed, Expired
  <1> DEFINE n == Len(admitted[h])
             window == n - used[h] + 1 .. n
  <1>3. n \in Nat /\ \A i \in 1 .. n : admitted[h][i] \in 0 .. now
    BY <1>1, LenProperties, ElementOfSeq
  <1>4. used[h] <= n /\ \A i \in window : start[h] <= admitted[h][i]
    BY <1>2 DEF Windows, Kept
  <1>5. window \subseteq Recent(h)
    <2> SUFFICES ASSUME NEW i \in window PROVE i \in Recent(h)
      OBVIOUS
    <2>1. i \in 1 .. n
      BY <1>1, <1>3, <1>4
    <2>2. start[h] <= admitted[h][i] /\ admitted[h][i] \in Nat
      <3>1. start[h] <= admitted[h][i]
        BY <1>4, Zenon
      <3>2. admitted[h][i] \in 0 .. now
        BY <1>3, <2>1, Zenon
      <3> QED
        BY <1>1, <3>1, <3>2
    <2>3. now - admitted[h][i] < Window
      <3>1. PICK x, y : x = admitted[h][i] /\ y = start[h]
        OBVIOUS
      <3>2. /\ x \in Nat /\ y \in Nat /\ now \in Nat /\ y <= x
            /\ ~ (now - y >= Window)
        BY <1>1, <1>2, <2>2, <3>1
      <3>3. now - x < Window
        BY <3>2, Bounds
      <3> QED
        BY <3>1, <3>3
    <2> QED
      BY <2>1, <2>3 DEF Recent
  <1>6. Cardinality(window) = Limit
    <2>1. PICK a \in Int : a = n - used[h] + 1
      BY <1>1, <1>3
    <2>2. Cardinality(a .. n) = IF a > n THEN 0 ELSE n - a + 1
      <3>1. PICK b \in Int : b = n
        BY <1>3
      <3>2. Cardinality(a .. b) = IF a > b THEN 0 ELSE b - a + 1
        BY FS_Interval
      <3> QED
        BY <3>1, <3>2
    <2>3. ~ (a > n) /\ n - a + 1 = Limit
      BY <1>1, <1>2, <1>3, <2>1
    <2> QED
      BY <2>1, <2>2, <2>3
  <1>7. IsFiniteSet(Recent(h))
    <2>1. IsFiniteSet(1 .. n)
      BY <1>3, FS_Interval
    <2>2. Recent(h) \subseteq 1 .. n
      BY DEF Recent
    <2> QED
      BY <2>1, <2>2, FS_Subset
  <1>8. Cardinality(window) <= Cardinality(Recent(h))
    BY <1>5, <1>7, FS_Subset
  <1>9. Cardinality(Recent(h)) \in Nat
    BY <1>7, FS_CardinalityType
  <1> QED
    BY <1>6, <1>8, <1>9

-----------------------------------------------------------------------------
(* The theorems                                                            *)

LEMMA GateInit == Init => GateInv
  <1> SUFFICES ASSUME Init PROVE GateInv
    OBVIOUS
  <1>1. TypeOK /\ StoreTyped /\ FramesInHand
    BY TypeInit
  <1>2. /\ \A p \in Paths : store[p] = NoWrite
        /\ \A h \in Connections : ~ Handling(h)
    BY DEF Init, Handling
  <1>3. /\ PassedIsAllowed /\ PassedIsDeclared
        /\ NamespacesHold /\ DeclarationsHold
    BY <1>2, Zenon DEF PassedIsAllowed, PassedIsDeclared, NamespacesHold,
                       DeclarationsHold
  <1>4. RefusedLeavesNoTrace
    BY <1>2 DEF RefusedLeavesNoTrace, Writes
  <1>5. Windows
    <2> SUFFICES ASSUME NEW h \in Connections
                 PROVE  Kept(admitted[h], used[h], start[h], now)
      BY DEF Windows
    <2>1. admitted[h] = <<>> /\ used[h] = 0 /\ start[h] = 0 /\ now = 0
      BY DEF Init
    <2>2. Kept(<<>>, 0, 0, 0)
      BY NewBucket
    <2> QED
      BY <2>1, <2>2
  <1> QED
    BY <1>1, <1>3, <1>4, <1>5 DEF GateInv

LEMMA GateStep == GateInv /\ [Next]_vars => GateInv'
  <1> SUFFICES ASSUME GateInv, [Next]_vars PROVE GateInv'
    OBVIOUS
  <1>0. /\ TypeOK /\ StoreTyped /\ FramesInHand /\ PassedIsAllowed
        /\ PassedIsDeclared /\ RefusedLeavesNoTrace /\ NamespacesHold
        /\ DeclarationsHold /\ Windows
    BY DEF GateInv
  <1>1. TypeOK'
    BY <1>0, TypeStep
  <1>2. StoreTyped'
    BY <1>0, StoreTypedStep
  <1>3. FramesInHand'
    BY <1>0, FramesInHandStep
  <1>4. PassedIsAllowed'
    BY <1>0, PassedIsAllowedStep
  <1>5. PassedIsDeclared'
    BY <1>0, PassedIsDeclaredStep
  <1>6. RefusedLeavesNoTrace'
    BY <1>0, NoTraceStep
  <1>7. NamespacesHold'
    BY <1>0, NamespacesStep
  <1>8. DeclarationsHold'
    BY <1>0, DeclarationsStep
  <1>9. Windows'
    BY <1>0, WindowsStep
  <1> QED
    BY <1>1, <1>2, <1>3, <1>4, <1>5, <1>6, <1>7, <1>8, <1>9 DEF GateInv

(***************************************************************************)
(* The inductive invariant holds in every state of handle_text_frame and   *)
(* handle_input, whatever connections, clock and declarations do between   *)
(* the checks of two patches.                                              *)
(***************************************************************************)
THEOREM GateCorrect == Spec => []GateInv
  BY GateInit, GateStep, PTL DEF Spec

(***************************************************************************)
(* Every variable keeps its type: the count of a RateBucket stays within   *)
(* the limit, and its window never starts in the future.                   *)
(***************************************************************************)
THEOREM GateTypes == Spec => []TypeOK
  <1>1. GateInv => TypeOK
    BY DEF GateInv
  <1> QED
    BY GateCorrect, <1>1, PTL

(***************************************************************************)
(* Atomic validation: no leaf of the scene stems from an input frame that  *)
(* handle_input refused or has not finished with.                          *)
(***************************************************************************)
THEOREM AtomicValidation == Spec => []RefusedLeavesNoTrace
  <1>1. GateInv => RefusedLeavesNoTrace
    BY DEF GateInv
  <1> QED
    BY GateCorrect, <1>1, PTL

(***************************************************************************)
(* No leaf was written by a role outside its namespace and scope           *)
(* (Role::can_write), whatever a frame mixes.                              *)
(***************************************************************************)
THEOREM RolesKeepToNamespaces == Spec => []NamespacesHold
  <1>1. GateInv => NamespacesHold
    BY DEF GateInv
  <1> QED
    BY GateCorrect, <1>1, PTL

(***************************************************************************)
(* What a frame that came after the current with_operator_inputs has       *)
(* written is declared and satisfies its spec (check_input_patch).         *)
(***************************************************************************)
THEOREM DeclaredInputs == Spec => []DeclarationsHold
  <1>1. GateInv => DeclarationsHold
    BY DEF GateInv
  <1> QED
    BY GateCorrect, <1>1, PTL

(***************************************************************************)
(* RateBucket::allow admits at most twice the limit in any window of a     *)
(* second, wherever that window begins.                                    *)
(***************************************************************************)
THEOREM RateIsBounded == Spec => []TwiceTheLimit
  <1>1. GateInv => TwiceTheLimit
    BY Zenon DEF GateInv, Windows, Kept, TwiceTheLimit
  <1> QED
    BY GateCorrect, <1>1, PTL

(***************************************************************************)
(* RateBucket::allow refuses an input only when it has admitted Limit      *)
(* inputs of this connection within the last second.                       *)
(***************************************************************************)
THEOREM RefusalsAreEarned == Spec => RefusalIsEarned
  <1> DEFINE Earned ==
               \A h \in Connections :
                 answered'[h] # answered[h] /\ answer'[h] = "RATE_LIMIT" =>
                     Cardinality(Recent(h)) >= Limit
  <1>1. ASSUME GateInv, Next PROVE Earned
    <2> SUFFICES ASSUME NEW h \in Connections,
                        answered'[h] # answered[h], answer'[h] = "RATE_LIMIT"
                 PROVE  ~ Allowed(h)
      BY <1>1, FullWindowIsRecent DEF GateInv
    <2>0. AnswerTypes
      BY <1>1, TypeParts DEF GateInv
    <2>1. ASSUME NEW g \in Connections, NEW code, Answer(g, code)
          PROVE  g = h /\ code = "RATE_LIMIT"
      BY <2>0, <2>1 DEF Answer, AnswerTypes
    <2>2. \/ UNCHANGED answered
          \/ \E g \in Connections :
               \/ Answer(g, "INVALID_VALUE")
               \/ Answer(g, "WRITE_FORBIDDEN")
               \/ Answer(g, "delta")
               \/ Answer(g, Verdict(g)) /\ Verdict(g) # "ok"
               \/ Answer(g, "RATE_LIMIT") /\ ~ Allowed(g)
      BY <1>1
         DEF Next, Handle, Open, Stop, RefuseShape, RefuseRole, RefuseRate,
             Admit, RefusePatch, PassPatch, Write, Declare, Tick, answerVars
    <2>3. \A g \in Connections : Verdict(g) # "RATE_LIMIT"
      BY DEF Verdict
    <2> QED
      BY <2>1, <2>2, <2>3
  <1>2. GateInv /\ [Next]_vars => [Earned]_vars
    BY <1>1
  <1> HIDE DEF Earned
  <1>3. Spec => [][Earned]_vars
    BY GateCorrect, <1>2, PTL DEF Spec
  <1> QED
    BY <1>3 DEF Earned, RefusalIsEarned
=============================================================================
