--------------------------- MODULE ClientManager ----------------------------
(***************************************************************************)
(* The client's background task (lumencast-client/src/manager.rs) and the  *)
(* handles that command it (client.rs): connecting with backoff, driving a *)
(* connection, rotating the token over a parallel connection, shutting     *)
(* down.  What a connection carries is the subject of Fanout and Swap; of  *)
(* it only the end matters here (a gap, a bad frame, a close).             *)
(***************************************************************************)
EXTENDS Integers, Sequences

CONSTANTS
    Users,        \* tasks that hold a clone of the Client
    Tokens,       \* tokens they may pass to set_token
    FirstToken,   \* the token the client was built with
    MaxAttempts,  \* max_reconnect_attempts, 0 for None
    CommandCap,   \* COMMAND_BUFFER, 8 in the code
    MaxCalls,     \* bound on the calls of set_token
    MaxFailures   \* bound on failed attempts and ended connections

ASSUME ManagerAssumption ==
    /\ FirstToken \in Tokens
    /\ MaxAttempts \in Nat
    /\ CommandCap \in Nat \ {0}
    /\ MaxCalls \in Nat
    /\ MaxFailures \in Nat

VARIABLES
    mode,      \* where the manager is
    attempt,   \* connect_with_retry's local attempt
    token,     \* State.token
    connToken, \* the token the open connection was subscribed with
    rotation,  \* the SetToken command in the hands of drive
    commands,  \* the mpsc channel
    call,      \* each user's call: what it waits for or was answered
    status,    \* the last Event::Status sent
    granted,   \* history: the token of the last call answered Ok
    made,      \* calls of set_token so far
    failures   \* failed attempts and ended connections so far

managerVars == <<mode, attempt, token, connToken, rotation, status, failures>>
vars == <<managerVars, commands, call, granted, made>>

Modes == {"connecting", "backoff", "live", "rotating", "stopped"}

SetToken(u, t) == [kind |-> "set_token", user |-> u, token |-> t]
SetTokens == [kind : {"set_token"}, user : Users, token : Tokens]
Disconnects == [kind : {"disconnect"}]
NoCommand == [kind |-> "none"]

Answers == {"ok", "failed", "gone"}
CallStates == {"none", "sending", "waiting"} \cup Answers

Init ==
    /\ mode = "connecting"
    /\ attempt = 1
    /\ token = FirstToken
    /\ connToken = FirstToken
    /\ rotation = NoCommand
    /\ commands = <<>>
    /\ call = [u \in Users |-> "none"]
    /\ status = "connecting"
    /\ granted = FirstToken
    /\ made = 0
    /\ failures = 0

-----------------------------------------------------------------------------
(* The handles                                                             *)

(***************************************************************************)
(* set_token: the command goes into the channel when there is room, then   *)
(* the caller waits for the reply.  A channel whose receiver is gone       *)
(* answers ManagerGone.                                                    *)
(***************************************************************************)
CallSetToken(u) ==
    /\ call[u] \notin {"sending", "waiting"}
    /\ made < MaxCalls
    /\ made' = made + 1
    /\ call' = [call EXCEPT ![u] = "sending"]
    /\ UNCHANGED <<managerVars, commands, granted>>

PutSetToken(u) ==
    /\ call[u] = "sending"
    /\ mode # "stopped"
    /\ Len(commands) < CommandCap
    /\ \E t \in Tokens : commands' = Append(commands, SetToken(u, t))
    /\ call' = [call EXCEPT ![u] = "waiting"]
    /\ UNCHANGED <<managerVars, granted, made>>

PutRefused(u) ==
    /\ call[u] = "sending"
    /\ mode = "stopped"
    /\ call' = [call EXCEPT ![u] = "gone"]
    /\ UNCHANGED <<managerVars, commands, granted, made>>

(***************************************************************************)
(* disconnect, and the drop of the last handle (recv returns None once the *)
(* channel is empty): the command after which none is read.                *)
(***************************************************************************)
Disconnect ==
    /\ mode # "stopped"
    /\ Len(commands) < CommandCap
    /\ \A i \in 1 .. Len(commands) : commands[i].kind # "disconnect"
    /\ commands' = Append(commands, [kind |-> "disconnect"])
    /\ UNCHANGED <<managerVars, call, granted, made>>

-----------------------------------------------------------------------------
(* The manager                                                             *)

Waiting(kind) == commands # <<>> /\ Head(commands).kind = kind

(***************************************************************************)
(* The task ends: the channel is closed, every reply still in it is        *)
(* dropped and its caller sees ManagerGone.                                *)
(***************************************************************************)
\* mutant: the callers of the commands left are not answered
StopSilently ==
    /\ mode' = "stopped"
    /\ status' = "disconnected"
    /\ commands' = <<>>
    /\ UNCHANGED <<token, connToken, rotation, call, granted, made>>

Stop ==
    /\ mode' = "stopped"
    /\ status' = "disconnected"
    /\ commands' = <<>>
    /\ call' = [u \in Users |-> IF call[u] = "waiting" THEN "gone" ELSE call[u]]
    /\ UNCHANGED <<token, connToken, rotation, granted, made>>

(***************************************************************************)
(* connect_with_retry, one attempt: Connection::open subscribes with the   *)
(* current token and waits for the snapshot.                               *)
(***************************************************************************)
OpenSucceeds ==
    /\ mode = "connecting"
    /\ mode' = "live"
    /\ status' = "live"
    /\ connToken' = token
    /\ UNCHANGED <<attempt, token, rotation, failures, commands, call, granted,
                   made>>

\* mutant: one attempt too many
OpenFailsOffByOne ==
    /\ mode = "connecting"
    /\ failures < MaxFailures
    /\ failures' = failures + 1
    /\ \/ /\ MaxAttempts # 0 /\ attempt > MaxAttempts
          /\ Stop
          /\ UNCHANGED attempt
       \/ /\ MaxAttempts = 0 \/ attempt <= MaxAttempts
          /\ mode' = "backoff"
          /\ UNCHANGED <<attempt, token, connToken, rotation, status, commands,
                         call, granted, made>>

OpenFails ==
    /\ mode = "connecting"
    /\ failures < MaxFailures
    /\ failures' = failures + 1
    /\ \/ /\ MaxAttempts # 0 /\ attempt >= MaxAttempts
          /\ Stop
          /\ UNCHANGED attempt
       \/ /\ MaxAttempts = 0 \/ attempt < MaxAttempts
          /\ mode' = "backoff"
          /\ UNCHANGED <<attempt, token, connToken, rotation, status, commands,
                         call, granted, made>>

(***************************************************************************)
(* The sleep between attempts (never zero: the first delay taken is that   *)
(* of attempt 2) ends by itself or at a command.  Whatever command is not  *)
(* Disconnect is dropped, with its reply.                                  *)
(***************************************************************************)
Retry ==
    /\ mode' = "connecting"
    /\ attempt' = attempt + 1
    /\ status' = "connecting"
    /\ UNCHANGED <<token, connToken, rotation, failures>>

SleepEnds ==
    /\ mode = "backoff"
    /\ Retry
    /\ UNCHANGED <<commands, call, granted, made>>

\* mutant: Disconnect is dropped too
DropAnyCommand ==
    /\ mode = "backoff"
    /\ commands # <<>>
    /\ Retry
    /\ commands' = Tail(commands)
    /\ call' = [u \in Users |->
           IF Head(commands).kind = "set_token" /\ Head(commands).user = u
             THEN "gone" ELSE call[u]]
    /\ UNCHANGED <<granted, made>>

DropCommand ==
    /\ mode = "backoff"
    /\ Waiting("set_token")
    /\ Retry
    /\ commands' = Tail(commands)
    /\ call' = [call EXCEPT ![Head(commands).user] = "gone"]
    /\ UNCHANGED <<granted, made>>

ObeyDisconnect ==
    /\ mode \in {"backoff", "live"}
    /\ Waiting("disconnect")
    /\ Stop
    /\ UNCHANGED <<attempt, failures>>

(***************************************************************************)
(* drive: commands before frames (the select is biased).  swap_token opens *)
(* a second connection with the new token; only a snapshot on it replaces  *)
(* the old connection and the old token.                                   *)
(***************************************************************************)
TakeSetToken ==
    /\ mode = "live"
    /\ Waiting("set_token")
    /\ mode' = "rotating"
    /\ rotation' = Head(commands)
    /\ commands' = Tail(commands)
    /\ UNCHANGED <<attempt, token, connToken, status, failures, call, granted,
                   made>>

Answer(result) ==
    /\ mode = "rotating"
    /\ mode' = "live"
    /\ call' = [call EXCEPT ![rotation.user] = result]
    /\ rotation' = NoCommand
    /\ UNCHANGED <<attempt, status, commands, made>>

\* mutant: the next reconnect uses the old token
RotationSucceedsOnce ==
    /\ Answer("ok")
    /\ connToken' = rotation.token
    /\ granted' = rotation.token
    /\ UNCHANGED <<token, failures>>

RotationSucceeds ==
    /\ Answer("ok")
    /\ token' = rotation.token
    /\ connToken' = rotation.token
    /\ granted' = rotation.token
    /\ UNCHANGED failures

RotationFails ==
    /\ Answer("failed")
    /\ failures < MaxFailures
    /\ failures' = failures + 1
    /\ UNCHANGED <<token, connToken, granted>>

(***************************************************************************)
(* The connection ends (closed, read error, bad frame, gap): a new round   *)
(* of attempts begins at once.                                             *)
(***************************************************************************)
\* mutant: the old connection's end is not reported
ConnectionEndsQuietly ==
    /\ mode = "live"
    /\ commands = <<>>
    /\ failures < MaxFailures
    /\ failures' = failures + 1
    /\ mode' = "connecting"
    /\ attempt' = 1
    /\ UNCHANGED <<token, connToken, rotation, status, commands, call, granted,
                   made>>

ConnectionEnds ==
    /\ mode = "live"
    /\ commands = <<>>
    /\ failures < MaxFailures
    /\ failures' = failures + 1
    /\ mode' = "connecting"
    /\ attempt' = 1
    /\ status' = "connecting"
    /\ UNCHANGED <<token, connToken, rotation, commands, call, granted, made>>

Manage ==
    \/ OpenSucceeds
    \/ OpenFails
    \/ SleepEnds
    \/ DropCommand
    \/ ObeyDisconnect
    \/ TakeSetToken
    \/ RotationSucceeds
    \/ RotationFails
    \/ ConnectionEnds

Next ==
    \/ \E u \in Users : CallSetToken(u) \/ PutSetToken(u) \/ PutRefused(u)
    \/ Disconnect
    \/ Manage

Spec == Init /\ [][Next]_vars

(***************************************************************************)
(* The manager's task is scheduled and every attempt to connect comes to   *)
(* an end.  A caller whose command fits into the channel, or is refused,   *)
(* is told; competing callers are served in turn.                          *)
(***************************************************************************)
FairSpec ==
    /\ Spec
    /\ WF_vars(Manage)
    /\ \A u \in Users : SF_vars(PutSetToken(u)) /\ WF_vars(PutRefused(u))

-----------------------------------------------------------------------------
(***************************************************************************)
(* Types of the manager's and the callers' variables; the channel and the  *)
(* attempts stay within their limits.                                      *)
(***************************************************************************)
TypeOK ==
    /\ mode \in Modes
    /\ attempt \in Nat \ {0}
    /\ MaxAttempts # 0 => attempt <= MaxAttempts
    /\ token \in Tokens
    /\ connToken \in Tokens
    /\ rotation \in SetTokens \cup {NoCommand}
    /\ commands \in Seq(SetTokens \cup Disconnects)
    /\ Len(commands) <= CommandCap
    /\ call \in [Users -> CallStates]
    /\ status \in {"disconnected", "connecting", "live"}
    /\ granted \in Tokens
    /\ made \in 0 .. MaxCalls
    /\ failures \in 0 .. MaxFailures

(***************************************************************************)
(* The status events tell the truth: Live while there is a connection that *)
(* delivered its snapshot, Disconnected only when the client has given up. *)
(***************************************************************************)
StatusIsTrue ==
    /\ status = "live" <=> mode \in {"live", "rotating"}
    /\ status = "disconnected" <=> mode = "stopped"

(***************************************************************************)
(* A rotation that was reported successful lasts: the connection, and      *)
(* every later reconnect, uses the token of the last call answered Ok, and *)
(* no failed or dropped call changes it.                                   *)
(***************************************************************************)
RotationLasts ==
    /\ token = granted
    /\ mode \in {"live", "rotating"} => connToken = granted

(***************************************************************************)
(* Exactly the commands in the channel and the one in drive's hands have a *)
(* caller waiting, each caller for one command: no call is left without an *)
(* answer and none is answered twice.                                      *)
(***************************************************************************)
OneAnswerEach ==
    \A u \in Users :
        LET queued == {i \in 1 .. Len(commands) :
                         commands[i].kind = "set_token" /\ commands[i].user = u}
            held == rotation # NoCommand /\ rotation.user = u
        IN IF call[u] = "waiting"
             THEN \/ held /\ queued = {}
                  \/ ~ held /\ \E i \in queued : queued = {i}
             ELSE ~ held /\ queued = {}

(***************************************************************************)
(* Every call of set_token returns, and a disconnect that was accepted     *)
(* stops the client, through failures and retries.                         *)
(***************************************************************************)
CallsReturn ==
    \A u \in Users :
        call[u] \in {"sending", "waiting"} ~> call[u] \in Answers

DisconnectStops ==
    (\E i \in 1 .. Len(commands) : commands[i].kind = "disconnect")
        ~> mode = "stopped"
=============================================================================
