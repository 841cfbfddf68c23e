------------------------ MODULE ClientManagerProofs -------------------------
(***************************************************************************)
(* Proofs about module ClientManager, for any number of users, tokens and  *)
(* calls and every limit: types, honest status events, lasting rotations   *)
(* and exactly one answer for every call of set_token.                     *)
(***************************************************************************)
EXTENDS ClientManager, SequenceTheorems, TLAPS

USE ManagerAssumption

(***************************************************************************)
(* The command at a place in the channel is a SetToken of user u.          *)
(***************************************************************************)
CommandOf(u, i) ==
    /\ i \in 1 .. Len(commands)
    /\ commands[i].kind = "set_token"
    /\ commands[i].user = u

Held(u) == rotation # NoCommand /\ rotation.user = u

(***************************************************************************)
(* What makes the invariants inductive: drive holds a command exactly      *)
(* while it rotates, and a manager that sleeps has an attempt left.        *)
(***************************************************************************)
HeldWhileRotating == mode = "rotating" <=> rotation # NoCommand

SleepsBeforeLast == mode = "backoff" /\ MaxAttempts # 0 => attempt < MaxAttempts

(***************************************************************************)
(* OneAnswerEach over single places of the channel instead of sets of them.*)
(***************************************************************************)
WaitsForOne ==
    \A u \in Users :
        /\ Held(u) => call[u] = "waiting"
        /\ \A i \in Nat : CommandOf(u, i) => call[u] = "waiting" /\ ~ Held(u)
        /\ \A i, j \in Nat : CommandOf(u, i) /\ CommandOf(u, j) => i = j
        /\ call[u] = "waiting" => Held(u) \/ \E i \in Nat : CommandOf(u, i)

ManagerInv ==
    /\ TypeOK
    /\ StatusIsTrue
    /\ RotationLasts
    /\ HeldWhileRotating
    /\ SleepsBeforeLast
    /\ WaitsForOne

-----------------------------------------------------------------------------
(* Commands and the channel                                                *)

(***************************************************************************)
(* A command that is read as a SetToken has a user and a token.            *)
(***************************************************************************)
LEMMA SetTokenFields ==
  ASSUME NEW command \in SetTokens \cup Disconnects, command.kind = "set_token"
  PROVE  /\ command \in SetTokens
         /\ command.user \in Users
         /\ command.token \in Tokens
  BY DEF SetTokens, Disconnects

LEMMA NoCommandIsNone == NoCommand \notin SetTokens
  BY DEF NoCommand, SetTokens

(***************************************************************************)
(* Taking the first command moves every other one a place forward.         *)
(***************************************************************************)
LEMMA TakeFirst ==
  ASSUME commands \in Seq(SetTokens \cup Disconnects), commands # <<>>,
         commands' = Tail(commands)
  PROVE  /\ commands' \in Seq(SetTokens \cup Disconnects)
         /\ Len(commands') = Len(commands) - 1
         /\ Head(commands) = commands[1]
         /\ Head(commands) \in SetTokens \cup Disconnects
         /\ Len(commands) \in Nat \ {0}
         /\ \A u, i : i \in Nat => (CommandOf(u, i)' <=> CommandOf(u, i + 1) /\ i # 0)
  <1>1. /\ commands' \in Seq(SetTokens \cup Disconnects)
        /\ Len(commands') = Len(commands) - 1
        /\ Len(commands) \in Nat \ {0}
        /\ Head(commands) = commands[1]
        /\ Head(commands) \in SetTokens \cup Disconnects
        /\ \A i \in 1 .. Len(commands') : commands'[i] = commands[i + 1]
    BY HeadTailProperties, LenProperties, EmptySeq
  <1> QED
    BY <1>1 DEF CommandOf

(***************************************************************************)
(* A new command goes behind the others.                                   *)
(***************************************************************************)
LEMMA PutLast ==
  ASSUME commands \in Seq(SetTokens \cup Disconnects),
         NEW command \in SetTokens \cup Disconnects,
         commands' = Append(commands, command)
  PROVE  /\ commands' \in Seq(SetTokens \cup Disconnects)
         /\ Len(commands) \in Nat
         /\ Len(commands') = Len(commands) + 1
         /\ \A u, i : i \in Nat =>
              (CommandOf(u, i)' <=>
                 \/ CommandOf(u, i)
                 \/ /\ i = Len(commands) + 1
                    /\ command.kind = "set_token"
                    /\ command.user = u)
  <1>1. /\ commands' \in Seq(SetTokens \cup Disconnects)
        /\ Len(commands) \in Nat
        /\ Len(commands') = Len(commands) + 1
        /\ \A i \in 1 .. Len(commands) : commands'[i] = commands[i]
        /\ commands'[Len(commands) + 1] = command
    BY AppendProperties, LenProperties
  <1> QED
    BY <1>1 DEF CommandOf

LEMMA SameChannel ==
  ASSUME commands' = commands
  PROVE  \A u, i : CommandOf(u, i)' <=> CommandOf(u, i)
  BY DEF CommandOf

LEMMA EmptyChannel ==
  ASSUME commands = <<>>
  PROVE  \A u, i : ~ CommandOf(u, i)
  BY EmptySeq DEF CommandOf

-----------------------------------------------------------------------------
(* The initial state                                                       *)

LEMMA ManagerInvInit == Init => ManagerInv
  <1> SUFFICES ASSUME Init PROVE ManagerInv
    OBVIOUS
  <1>1. TypeOK
    BY EmptySeq DEF Init, TypeOK, Modes, CallStates
  <1>2. StatusIsTrue /\ RotationLasts /\ HeldWhileRotating /\ SleepsBeforeLast
    BY DEF Init, StatusIsTrue, RotationLasts, HeldWhileRotating, SleepsBeforeLast
  <1>3. WaitsForOne
    BY EmptyChannel DEF Init, WaitsForOne, Held
  <1> QED
    BY <1>1, <1>2, <1>3 DEF ManagerInv

-----------------------------------------------------------------------------
(* The steps                                                               *)

(***************************************************************************)
(* The end of the task: nobody is left waiting, because what waited had    *)
(* its command in the channel (the manager was not rotating).              *)
(***************************************************************************)
LEMMA StopStep ==
  ASSUME ManagerInv, mode \in {"connecting", "backoff", "live"}, Stop,
         attempt' = attempt, failures' \in 0 .. MaxFailures
  PROVE  ManagerInv'
  <1> USE DEF ManagerInv
  <1>1. TypeOK'
    BY EmptySeq DEF TypeOK, Stop, Modes, CallStates, Answers
  <1>2. StatusIsTrue' /\ RotationLasts' /\ HeldWhileRotating' /\ SleepsBeforeLast'
    BY DEF Stop, StatusIsTrue, RotationLasts, HeldWhileRotating, SleepsBeforeLast
  <1>3. WaitsForOne'
    <2>1. rotation = NoCommand /\ rotation' = rotation
      BY DEF Stop, HeldWhileRotating
    <2>2. \A u, i : ~ CommandOf(u, i)'
      BY EmptySeq DEF Stop, CommandOf
    <2>3. \A u \in Users : call'[u] # "waiting"
      BY DEF Stop
    <2> QED
      BY <2>1, <2>2, <2>3 DEF WaitsForOne, Held
  <1> QED
    BY <1>1, <1>2, <1>3

LEMMA CallSetTokenStep ==
  ASSUME ManagerInv, NEW u \in Users, CallSetToken(u)
  PROVE  ManagerInv'
  <1> USE DEF ManagerInv, CallSetToken, managerVars
  <1>1. TypeOK'
    BY DEF TypeOK, CallStates
  <1>2. StatusIsTrue' /\ RotationLasts' /\ HeldWhileRotating' /\ SleepsBeforeLast'
    BY DEF StatusIsTrue, RotationLasts, HeldWhileRotating, SleepsBeforeLast
  <1>3. WaitsForOne'
    BY SameChannel DEF WaitsForOne, Held, TypeOK
  <1> QED
    BY <1>1, <1>2, <1>3

LEMMA PutSetTokenStep ==
  ASSUME ManagerInv, NEW u \in Users, PutSetToken(u)
  PROVE  ManagerInv'
  <1> USE DEF ManagerInv
  <1>1. PICK t \in Tokens : commands' = Append(commands, SetToken(u, t))
    BY DEF PutSetToken
  <1>2. /\ SetToken(u, t) \in SetTokens
        /\ SetToken(u, t).kind = "set_token"
        /\ SetToken(u, t).user = u
    BY DEF SetToken, SetTokens
  <1>3. /\ commands' \in Seq(SetTokens \cup Disconnects)
        /\ Len(commands) \in Nat
        /\ Len(commands') = Len(commands) + 1
        /\ \A v, i : i \in Nat =>
             (CommandOf(v, i)' <=>
                CommandOf(v, i) \/ (i = Len(commands) + 1 /\ v = u))
    BY <1>1, <1>2, PutLast DEF TypeOK
  <1>4. TypeOK'
    BY <1>3 DEF TypeOK, PutSetToken, managerVars, CallStates
  <1>5. StatusIsTrue' /\ RotationLasts' /\ HeldWhileRotating' /\ SleepsBeforeLast'
    BY DEF PutSetToken, managerVars, StatusIsTrue, RotationLasts,
           HeldWhileRotating, SleepsBeforeLast
  <1>6. WaitsForOne'
    <2>1. /\ call \in [Users -> CallStates]
          /\ call' = [call EXCEPT ![u] = "waiting"]
          /\ rotation' = rotation
          /\ call[u] = "sending"
      BY DEF PutSetToken, managerVars, TypeOK
    <2>2. ~ Held(u) /\ \A i \in Nat : ~ CommandOf(u, i)
      BY <2>1 DEF WaitsForOne
    <2>3. \A v : Held(v)' <=> Held(v)
      BY <2>1 DEF Held
    <2> QED
      BY <1>3, <2>1, <2>2, <2>3 DEF WaitsForOne
  <1> QED
    BY <1>4, <1>5, <1>6

LEMMA PutRefusedStep ==
  ASSUME ManagerInv, NEW u \in Users, PutRefused(u)
  PROVE  ManagerInv'
  <1> USE DEF ManagerInv, PutRefused, managerVars
  <1>1. TypeOK'
    BY DEF TypeOK, CallStates, Answers
  <1>2. StatusIsTrue' /\ RotationLasts' /\ HeldWhileRotating' /\ SleepsBeforeLast'
    BY DEF StatusIsTrue, RotationLasts, HeldWhileRotating, SleepsBeforeLast
  <1>3. WaitsForOne'
    BY SameChannel DEF WaitsForOne, Held, TypeOK
  <1> QED
    BY <1>1, <1>2, <1>3

LEMMA DisconnectStep ==
  ASSUME ManagerInv, Disconnect
  PROVE  ManagerInv'
  <1> USE DEF ManagerInv
  <1>1. /\ [kind |-> "disconnect"] \in SetTokens \cup Disconnects
        /\ [kind |-> "disconnect"].kind # "set_token"
    BY DEF Disconnects
  <1>2. /\ commands' \in Seq(SetTokens \cup Disconnects)
        /\ Len(commands) \in Nat
        /\ Len(commands') = Len(commands) + 1
        /\ \A v, i : i \in Nat => (CommandOf(v, i)' <=> CommandOf(v, i))
    BY <1>1, PutLast DEF TypeOK, Disconnect
  <1>3. TypeOK'
    BY <1>2 DEF TypeOK, Disconnect, managerVars
  <1>4. StatusIsTrue' /\ RotationLasts' /\ HeldWhileRotating' /\ SleepsBeforeLast'
    BY DEF Disconnect, managerVars, StatusIsTrue, RotationLasts,
           HeldWhileRotating, SleepsBeforeLast
  <1>5. WaitsForOne'
    BY <1>2 DEF Disconnect, managerVars, WaitsForOne, Held
  <1> QED
    BY <1>3, <1>4, <1>5

(***************************************************************************)
(* A step of the manager that touches neither the channel nor the callers  *)
(* nor the command in drive's hands leaves everybody waiting as before.    *)
(***************************************************************************)
LEMMA SameWaiting ==
  ASSUME WaitsForOne, UNCHANGED <<commands, call, rotation>>
  PROVE  WaitsForOne'
  BY SameChannel DEF WaitsForOne, Held

LEMMA OpenSucceedsStep ==
  ASSUME ManagerInv, OpenSucceeds
  PROVE  ManagerInv'
  <1> USE DEF ManagerInv, OpenSucceeds
  <1>1. TypeOK'
    BY DEF TypeOK, Modes
  <1>2. StatusIsTrue' /\ RotationLasts' /\ HeldWhileRotating' /\ SleepsBeforeLast'
    BY DEF StatusIsTrue, RotationLasts, HeldWhileRotating, SleepsBeforeLast
  <1> QED
    BY <1>1, <1>2, SameWaiting

LEMMA OpenFailsStep ==
  ASSUME ManagerInv, OpenFails
  PROVE  ManagerInv'
  <1>1. CASE Stop /\ UNCHANGED attempt
    <2>1. failures' \in 0 .. MaxFailures /\ mode = "connecting"
      BY DEF OpenFails, ManagerInv, TypeOK
    <2> QED
      BY <1>1, <2>1, StopStep
  <1>2. CASE /\ MaxAttempts = 0 \/ attempt < MaxAttempts
             /\ mode' = "backoff"
             /\ UNCHANGED <<attempt, token, connToken, rotation, status,
                            commands, call, granted, made>>
    <2> USE <1>2 DEF ManagerInv
    <2>1. mode = "connecting" /\ failures' \in 0 .. MaxFailures
      BY DEF OpenFails, TypeOK
    <2>2. TypeOK'
      BY <2>1 DEF TypeOK, Modes
    <2>3. /\ StatusIsTrue' /\ RotationLasts'
          /\ HeldWhileRotating' /\ SleepsBeforeLast'
      BY <2>1 DEF StatusIsTrue, RotationLasts, HeldWhileRotating,
                  SleepsBeforeLast
    <2> QED
      BY <2>2, <2>3, SameWaiting
  <1> QED
    BY <1>1, <1>2 DEF OpenFails

LEMMA SleepEndsStep ==
  ASSUME ManagerInv, SleepEnds
  PROVE  ManagerInv'
  <1> USE DEF ManagerInv, SleepEnds, Retry
  <1>1. TypeOK'
    BY DEF TypeOK, Modes, SleepsBeforeLast
  <1>2. StatusIsTrue' /\ RotationLasts' /\ HeldWhileRotating' /\ SleepsBeforeLast'
    BY DEF StatusIsTrue, RotationLasts, HeldWhileRotating, SleepsBeforeLast
  <1> QED
    BY <1>1, <1>2, SameWaiting

(***************************************************************************)
(* The command dropped during a sleep is the only one of its caller, who   *)
(* stops waiting.                                                          *)
(***************************************************************************)
LEMMA DropCommandStep ==
  ASSUME ManagerInv, DropCommand
  PROVE  ManagerInv'
  <1> USE DEF ManagerInv
  <1>1. /\ commands' \in Seq(SetTokens \cup Disconnects)
        /\ Len(commands') = Len(commands) - 1
        /\ Len(commands) \in Nat \ {0}
        /\ Head(commands) = commands[1]
        /\ Head(commands) \in SetTokens \cup Disconnects
        /\ Head(commands).kind = "set_token"
        /\ \A u, i : i \in Nat => (CommandOf(u, i)' <=> CommandOf(u, i + 1) /\ i # 0)
    BY TakeFirst DEF DropCommand, Waiting, TypeOK
  <1>2. PICK v \in Users : v = Head(commands).user
    BY <1>1, SetTokenFields
  <1>3. TypeOK'
    BY <1>1, <1>2 DEF TypeOK, DropCommand, Retry, Modes, CallStates, Answers,
                      SleepsBeforeLast
  <1>4. StatusIsTrue' /\ RotationLasts' /\ HeldWhileRotating' /\ SleepsBeforeLast'
    BY DEF DropCommand, Retry, StatusIsTrue, RotationLasts, HeldWhileRotating,
           SleepsBeforeLast
  <1>5. WaitsForOne'
    <2>1. CommandOf(v, 1)
      BY <1>1, <1>2 DEF CommandOf
    <2>2. \A u, i : CommandOf(u, i) /\ u # v => i # 1
      BY <1>1, <1>2 DEF CommandOf
    <2>3. /\ call \in [Users -> CallStates]
          /\ call' = [call EXCEPT ![v] = "gone"]
          /\ rotation' = rotation
      BY <1>2 DEF DropCommand, Retry, TypeOK
    <2>4. \A u : Held(u)' <=> Held(u)
      BY <2>3 DEF Held
    <2>5. call[v] = "waiting" /\ ~ Held(v)
      BY <1>2, <2>1 DEF WaitsForOne
    <2>6. \A i \in Nat : CommandOf(v, i) => i = 1
      BY <1>2, <2>1 DEF WaitsForOne
    <2>7. \A i \in Nat : ~ CommandOf(v, i)'
      BY <1>1, <2>6
    <2>8. ASSUME NEW u \in Users, u # v
          PROVE  /\ Held(u)' => call'[u] = "waiting"
                 /\ \A i \in Nat : CommandOf(u, i)' => call'[u] = "waiting" /\ ~ Held(u)'
                 /\ \A i, j \in Nat : CommandOf(u, i)' /\ CommandOf(u, j)' => i = j
                 /\ call'[u] = "waiting" => Held(u)' \/ \E i \in Nat : CommandOf(u, i)'
      <3>1. call'[u] = call[u]
        BY <2>3, <2>8
      <3>2. \A i, j \in Nat : CommandOf(u, i)' /\ CommandOf(u, j)' => i = j
        BY <1>1 DEF WaitsForOne
      <3>3. (\E i \in Nat : CommandOf(u, i)) => \E i \in Nat : CommandOf(u, i)'
        <4> SUFFICES ASSUME NEW i \in Nat, CommandOf(u, i)
                     PROVE  \E k \in Nat : CommandOf(u, k)'
          OBVIOUS
        <4>1. i # 1 /\ i \in 1 .. Len(commands)
          BY <2>2, <2>8 DEF CommandOf
        <4>2. i - 1 \in Nat /\ i - 1 # 0 /\ (i - 1) + 1 = i
          BY <4>1, <1>1
        <4> QED
          BY <1>1, <4>2
      <3> QED
        BY <1>1, <2>4, <3>1, <3>2, <3>3 DEF WaitsForOne
    <2> QED
      BY <1>2, <2>3, <2>4, <2>5, <2>7, <2>8 DEF WaitsForOne
  <1> QED
    BY <1>3, <1>4, <1>5

LEMMA ObeyDisconnectStep ==
  ASSUME ManagerInv, ObeyDisconnect
  PROVE  ManagerInv'
  <1>1. /\ Stop /\ attempt' = attempt /\ failures' \in 0 .. MaxFailures
        /\ mode \in {"connecting", "backoff", "live"}
    BY DEF ObeyDisconnect, ManagerInv, TypeOK
  <1> QED
    BY <1>1, StopStep

(***************************************************************************)
(* The command moves from the channel into drive's hands; its caller goes  *)
(* on waiting, now for that.                                               *)
(***************************************************************************)
LEMMA TakeSetTokenStep ==
  ASSUME ManagerInv, TakeSetToken
  PROVE  ManagerInv'
  <1> USE DEF ManagerInv
  <1>1. /\ commands' \in Seq(SetTokens \cup Disconnects)
        /\ Len(commands') = Len(commands) - 1
        /\ Len(commands) \in Nat \ {0}
        /\ Head(commands) = commands[1]
        /\ Head(commands) \in SetTokens \cup Disconnects
        /\ Head(commands).kind = "set_token"
        /\ \A u, i : i \in Nat => (CommandOf(u, i)' <=> CommandOf(u, i + 1) /\ i # 0)
    BY TakeFirst DEF TakeSetToken, Waiting, TypeOK
  <1>2. rotation' = Head(commands) /\ rotation' \in SetTokens
    BY <1>1, SetTokenFields DEF TakeSetToken
  <1>3. TypeOK'
    BY <1>1, <1>2 DEF TypeOK, TakeSetToken, Modes
  <1>4. StatusIsTrue' /\ RotationLasts' /\ HeldWhileRotating' /\ SleepsBeforeLast'
    BY <1>2, NoCommandIsNone
       DEF TakeSetToken, StatusIsTrue, RotationLasts, HeldWhileRotating,
           SleepsBeforeLast
  <1>5. WaitsForOne'
    <2>1. rotation = NoCommand /\ call' = call
      BY DEF TakeSetToken, HeldWhileRotating
    <2>2. \A u : ~ Held(u)
      BY <2>1 DEF Held
    <2>3. \A u : Held(u)' <=> CommandOf(u, 1)
      BY <1>1, <1>2, NoCommandIsNone DEF Held, CommandOf
    <2>4. \A u \in Users, i \in Nat : CommandOf(u, i) =>
            \/ i = 1
            \/ i - 1 \in Nat /\ CommandOf(u, i - 1)'
      <3> SUFFICES ASSUME NEW u \in Users, NEW i \in Nat, CommandOf(u, i), i # 1
                   PROVE  i - 1 \in Nat /\ CommandOf(u, i - 1)'
        OBVIOUS
      <3>1. i - 1 \in Nat /\ i - 1 # 0 /\ (i - 1) + 1 = i
        BY <1>1 DEF CommandOf
      <3> QED
        BY <1>1, <3>1
    <2>5. \A u \in Users, i, j \in Nat : CommandOf(u, i) /\ CommandOf(u, j) => i = j
      BY DEF WaitsForOne
    <2>6. \A u \in Users, i \in Nat : CommandOf(u, i)' => ~ CommandOf(u, 1)
      BY <1>1, <2>5
    <2>7. \A u \in Users, i, j \in Nat : CommandOf(u, i)' /\ CommandOf(u, j)' => i = j
      BY <1>1, <2>5
    <2>8. \A u \in Users, i \in Nat : CommandOf(u, i)' => call[u] = "waiting"
      BY <1>1 DEF WaitsForOne
    <2>9. \A u \in Users : call[u] = "waiting" => \E i \in Nat : CommandOf(u, i)
      BY <2>2 DEF WaitsForOne
    <2>10. \A u \in Users : call[u] = "waiting" =>
             Held(u)' \/ \E i \in Nat : CommandOf(u, i)'
      BY <2>3, <2>4, <2>9
    <2>11. \A u \in Users : Held(u)' => call[u] = "waiting"
      BY <2>3 DEF WaitsForOne
    <2> QED
      BY <2>1, <2>3, <2>6, <2>7, <2>8, <2>10, <2>11 DEF WaitsForOne
  <1> QED
    BY <1>3, <1>4, <1>5

(***************************************************************************)
(* The reply of a rotation reaches the caller of the command that drive    *)
(* holds, and nobody else.                                                 *)
(***************************************************************************)
LEMMA AnswerStep ==
  ASSUME ManagerInv, NEW result \in {"ok", "failed"}, Answer(result)
  PROVE  /\ rotation \in SetTokens /\ rotation.token \in Tokens
         /\ call' \in [Users -> CallStates]
         /\ mode = "rotating" /\ mode' = "live" /\ rotation' = NoCommand
         /\ WaitsForOne'
  <1> USE DEF ManagerInv
  <1>1. mode = "rotating" /\ mode' = "live" /\ rotation' = NoCommand
    BY DEF Answer
  <1>2. /\ rotation \in SetTokens
        /\ rotation.token \in Tokens /\ rotation.user \in Users
    BY <1>1 DEF HeldWhileRotating, TypeOK, SetTokens
  <1>3. /\ call \in [Users -> CallStates]
        /\ call' = [call EXCEPT ![rotation.user] = result]
        /\ commands' = commands
    BY DEF Answer, TypeOK
  <1>4. call' \in [Users -> CallStates]
    BY <1>2, <1>3 DEF CallStates, Answers
  <1>5. Held(rotation.user)
    BY <1>1 DEF Held, HeldWhileRotating
  <1>6. \A i \in Nat : ~ CommandOf(rotation.user, i)
    BY <1>2, <1>5 DEF WaitsForOne
  <1>7. \A u : ~ Held(u)'
    BY <1>1 DEF Held
  <1>8. \A u : Held(u) => u = rotation.user
    BY DEF Held
  <1>9. WaitsForOne'
    BY <1>2, <1>3, <1>5, <1>6, <1>7, <1>8, SameChannel DEF WaitsForOne
  <1> QED
    BY <1>1, <1>2, <1>4, <1>9

LEMMA RotationSucceedsStep ==
  ASSUME ManagerInv, RotationSucceeds
  PROVE  ManagerInv'
  <1>1. Answer("ok")
    BY DEF RotationSucceeds
  <1>2. /\ rotation.token \in Tokens
        /\ call' \in [Users -> CallStates]
        /\ mode = "rotating" /\ mode' = "live" /\ rotation' = NoCommand
        /\ WaitsForOne'
    BY <1>1, AnswerStep
  <1>3. TypeOK'
    BY <1>2 DEF ManagerInv, TypeOK, RotationSucceeds, Answer, Modes
  <1>4. StatusIsTrue' /\ RotationLasts' /\ HeldWhileRotating' /\ SleepsBeforeLast'
    BY <1>2 DEF ManagerInv, RotationSucceeds, Answer, StatusIsTrue,
                RotationLasts, HeldWhileRotating, SleepsBeforeLast
  <1> QED
    BY <1>2, <1>3, <1>4 DEF ManagerInv

LEMMA RotationFailsStep ==
  ASSUME ManagerInv, RotationFails
  PROVE  ManagerInv'
  <1>1. Answer("failed")
    BY DEF RotationFails
  <1>2. /\ call' \in [Users -> CallStates]
        /\ mode = "rotating" /\ mode' = "live" /\ rotation' = NoCommand
        /\ WaitsForOne'
    BY <1>1, AnswerStep
  <1>3. TypeOK'
    BY <1>2 DEF ManagerInv, TypeOK, RotationFails, Answer, Modes
  <1>4. StatusIsTrue' /\ RotationLasts' /\ HeldWhileRotating' /\ SleepsBeforeLast'
    BY <1>2 DEF ManagerInv, RotationFails, Answer, StatusIsTrue,
                RotationLasts, HeldWhileRotating, SleepsBeforeLast
  <1> QED
    BY <1>2, <1>3, <1>4 DEF ManagerInv

LEMMA ConnectionEndsStep ==
  ASSUME ManagerInv, ConnectionEnds
  PROVE  ManagerInv'
  <1> USE DEF ManagerInv, ConnectionEnds
  <1>1. TypeOK'
    BY DEF TypeOK, Modes
  <1>2. StatusIsTrue' /\ RotationLasts' /\ HeldWhileRotating' /\ SleepsBeforeLast'
    BY DEF StatusIsTrue, RotationLasts, HeldWhileRotating, SleepsBeforeLast
  <1> QED
    BY <1>1, <1>2, SameWaiting

LEMMA ManagerInvStep == ManagerInv /\ [Next]_vars => ManagerInv'
  <1> SUFFICES ASSUME ManagerInv, [Next]_vars PROVE ManagerInv'
    OBVIOUS
  <1>1. CASE \E u \in Users : CallSetToken(u) \/ PutSetToken(u) \/ PutRefused(u)
    BY <1>1, CallSetTokenStep, PutSetTokenStep, PutRefusedStep
  <1>2. CASE Disconnect
    BY <1>2, DisconnectStep
  <1>3. CASE Manage
    BY <1>3, OpenSucceedsStep, OpenFailsStep, SleepEndsStep, DropCommandStep,
       ObeyDisconnectStep, TakeSetTokenStep, RotationSucceedsStep,
       RotationFailsStep, ConnectionEndsStep DEF Manage
  <1>4. CASE UNCHANGED vars
    <2> USE <1>4 DEF ManagerInv, vars, managerVars
    <2>1. TypeOK'
      BY DEF TypeOK
    <2>2. /\ StatusIsTrue' /\ RotationLasts'
          /\ HeldWhileRotating' /\ SleepsBeforeLast'
      BY DEF StatusIsTrue, RotationLasts, HeldWhileRotating, SleepsBeforeLast
    <2> QED
      BY <2>1, <2>2, SameWaiting
  <1> QED
    BY <1>1, <1>2, <1>3, <1>4 DEF Next

-----------------------------------------------------------------------------
(* The theorems                                                            *)

(***************************************************************************)
(* The inductive invariant of the manager, its channel and its callers.    *)
(***************************************************************************)
THEOREM ManagerCorrect == Spec => []ManagerInv
  BY ManagerInvInit, ManagerInvStep, PTL DEF Spec

(***************************************************************************)
(* Types; the channel never holds more than COMMAND_BUFFER commands and no *)
(* more attempts are made in a row than max_reconnect_attempts.            *)
(***************************************************************************)
THEOREM ManagerTypes == Spec => []TypeOK
  <1>1. ManagerInv => TypeOK
    BY DEF ManagerInv
  <1> QED
    BY <1>1, ManagerCorrect, PTL

(***************************************************************************)
(* The status events sent by run and connect_with_retry are true.          *)
(***************************************************************************)
THEOREM HonestStatus == Spec => []StatusIsTrue
  <1>1. ManagerInv => StatusIsTrue
    BY DEF ManagerInv
  <1> QED
    BY <1>1, ManagerCorrect, PTL

(***************************************************************************)
(* A rotation that swap_token reported successful lasts until the next one.*)
(***************************************************************************)
THEOREM LastingRotation == Spec => []RotationLasts
  <1>1. ManagerInv => RotationLasts
    BY DEF ManagerInv
  <1> QED
    BY <1>1, ManagerCorrect, PTL

LEMMA WaitsMeansOneAnswer == ManagerInv => OneAnswerEach
  <1> SUFFICES ASSUME ManagerInv, NEW u \in Users
               PROVE  LET queued == {i \in 1 .. Len(commands) :
                                /\ commands[i].kind = "set_token"
                                /\ commands[i].user = u}
                          held == rotation # NoCommand /\ rotation.user = u
                      IN IF call[u] = "waiting"
                           THEN \/ held /\ queued = {}
                                \/ ~ held /\ \E i \in queued : queued = {i}
                           ELSE ~ held /\ queued = {}
    BY DEF OneAnswerEach
  <1> DEFINE queued == {i \in 1 .. Len(commands) : CommandOf(u, i)}
  <1>1. Len(commands) \in Nat
    BY LenProperties DEF ManagerInv, TypeOK
  <1>2. \A i : i \in queued <=> i \in Nat /\ CommandOf(u, i)
    BY <1>1 DEF CommandOf
  <1>3. queued = {i \in 1 .. Len(commands) :
                    commands[i].kind = "set_token" /\ commands[i].user = u}
    BY DEF CommandOf
  <1>4. /\ Held(u) => call[u] = "waiting"
        /\ \A i \in queued : call[u] = "waiting" /\ ~ Held(u)
        /\ \A i, j \in queued : i = j
        /\ call[u] = "waiting" => Held(u) \/ \E i \in queued : TRUE
    BY <1>2 DEF ManagerInv, WaitsForOne
  <1>5. IF call[u] = "waiting"
          THEN \/ Held(u) /\ queued = {}
               \/ ~ Held(u) /\ \E i \in queued : queued = {i}
          ELSE ~ Held(u) /\ queued = {}
    <2> HIDE DEF queued
    <2> QED
      BY <1>4
  <1> QED
    BY <1>3, <1>5 DEF Held

(***************************************************************************)
(* No call of set_token is left without an answer and none is answered     *)
(* twice, through rotations, sleeps that drop commands and the end of the  *)
(* task.                                                                   *)
(***************************************************************************)
THEOREM AnswersCorrect == Spec => []OneAnswerEach
  BY WaitsMeansOneAnswer, ManagerCorrect, PTL
=============================================================================
