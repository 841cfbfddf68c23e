------------------------------ MODULE Adapters ------------------------------
(***************************************************************************)
(* The adapter tasks of lumencast-server/src/adapters: the periodic task,  *)
(* the HTTP poll and the WebSocket subscription, which write a scene until *)
(* a watch channel cancels them.  One behaviour runs one task (kind).      *)
(*                                                                         *)
(* Time is a clock that may advance between any two steps, so a task may   *)
(* be scheduled late and a call may take any time.  A watch receiver is    *)
(* the version of the value that it has seen; a clone starts with the      *)
(* version of the receiver it was cloned from.                             *)
(***************************************************************************)
EXTENDS Values, FiniteSetsExt

CONSTANTS
    Payloads,   \* JSON documents a source produces
    WritesTo,   \* config.writes_to
    Flattened,  \* flatten_into_pairs(writes_to, document), for each of them
    Period,     \* period, config.interval
    Initial,    \* backoff_initial
    BackoffMax, \* backoff_max
    MaxTime,    \* bound on the clock
    MaxSends    \* bound on the values sent into the watch channel

ASSUME AdaptersAssumption ==
    /\ Period \in Nat \ {0}
    /\ Initial \in Nat \ {0}
    /\ BackoffMax \in Nat \ {0}
    /\ Initial <= BackoffMax
    /\ MaxTime \in Nat
    /\ MaxSends \in Nat
    /\ DOMAIN Flattened = Payloads
    /\ \A value \in Payloads :
          /\ Len(Flattened[value]) \in Nat
          /\ DOMAIN Flattened[value] = 1 .. Len(Flattened[value])

VARIABLES
    kind,     \* which task runs
    pc,       \* where it is
    clock,
    flag,     \* the value in the watch channel
    version,  \* its version
    alive,    \* the sender exists
    leaves,   \* the leaves of the scene
    next,     \* timers: when the next call is due
    seen,     \* version seen by the receiver in use
    starts,   \* history: when the last two calls started
    backoff,  \* subscription: the next delay
    wake,     \* when the current delay ends
    produced, \* produced_anything
    tries,    \* history: attempts since a frame was last produced, if Quiet
    since     \* history: when the first of them was made

vars == <<kind, pc, clock, flag, version, alive, leaves, next, seen,
          starts, backoff, wake, produced, tries, since>>
channel == <<flag, version, alive>>
timer == <<next, starts>>
link == <<backoff, wake, produced, tries, since>>

Timers == {"periodic", "poll"}

Init ==
    /\ kind \in Timers \cup {"subscribe"}
    /\ pc = IF kind \in Timers THEN "select" ELSE "top"
    /\ clock = 0
    /\ flag = FALSE /\ version = 0 /\ alive = TRUE
    /\ leaves = [p \in {} |-> 0]
    /\ next = Period
    /\ seen = 0
    /\ starts = <<>>
    /\ backoff = Initial
    /\ wake = 0
    /\ produced = FALSE
    /\ tries = 0 /\ since = 0

-----------------------------------------------------------------------------
(* The environment                                                         *)

Tick ==
    /\ clock < MaxTime
    /\ clock' = clock + 1
    /\ UNCHANGED <<kind, pc, channel, leaves, timer, seen, link>>

Send(value) ==
    /\ alive
    /\ version < MaxSends
    /\ flag' = value
    /\ version' = version + 1
    /\ tries' = 0 /\ since' = 0
    /\ UNCHANGED <<kind, pc, clock, alive, leaves, timer, seen, backoff, wake,
                   produced>>

DropSender ==
    /\ alive
    /\ alive' = FALSE
    /\ tries' = 0 /\ since' = 0
    /\ UNCHANGED <<kind, pc, clock, flag, version, leaves, timer, seen,
                   backoff, wake, produced>>

(***************************************************************************)
(* Nothing was ever sent into the channel and its sender lives.            *)
(***************************************************************************)
Quiet == version = 0 /\ alive

(***************************************************************************)
(* changed() is ready; it is an error only if there is no newer value.     *)
(***************************************************************************)
Changed(s) == version > s \/ ~ alive
Cancels(s) == IF version > s THEN flag ELSE ~ alive

-----------------------------------------------------------------------------
(* Writing the scene                                                       *)

(***************************************************************************)
(* scene.emit: all pairs are checked before any is stored.                 *)
(***************************************************************************)
Acceptable(pairs) ==
    /\ pairs # <<>>
    /\ \A i \in DOMAIN pairs : ValidPath(pairs[i][1]) /\ ~ IsObject(pairs[i][2])

LastPair(pairs, path) ==
    pairs[Max({i \in DOMAIN pairs : pairs[i][1] = path})][2]

Emit(pairs) ==
    IF Acceptable(pairs)
    THEN LET written == {pairs[i][1] : i \in DOMAIN pairs} IN
         leaves' = [p \in DOMAIN leaves \cup written |->
                IF p \in written THEN LastPair(pairs, p) ELSE leaves[p]]
    ELSE UNCHANGED leaves

-----------------------------------------------------------------------------
(* spawn_periodic and http_poll                                            *)

Fire ==
    /\ kind \in Timers
    /\ pc = "select"
    /\ clock >= next
    /\ pc' = "calling"
    /\ starts' = IF Len(starts) < 2 THEN Append(starts, clock)
                 ELSE <<starts[2], clock>>
    /\ UNCHANGED <<kind, clock, channel, leaves, next, seen, link>>

\* mutant: missed calls are made up for
RescheduleCatchUp == next' = next + Period

Reschedule == next' = Max({next + Period, clock})

(***************************************************************************)
(* f returns a value to write at a path, or nothing.                       *)
(***************************************************************************)
PeriodicReturns ==
    /\ kind = "periodic"
    /\ pc = "calling"
    /\ \/ \E value \in Payloads : Emit(<<<<WritesTo, value>>>>)
       \/ Emit(<<>>)
    /\ Reschedule
    /\ pc' = "select"
    /\ UNCHANGED <<kind, clock, channel, seen, starts, link>>

(***************************************************************************)
(* poll_once: nothing if the request fails or times out, the status is not *)
(* a success or the body is not JSON.                                      *)
(***************************************************************************)
PollOnce == {<<>>} \cup {Flattened[body] : body \in Payloads}

PollReturns ==
    /\ kind = "poll"
    /\ pc = "calling"
    /\ \E pairs \in PollOnce : Emit(pairs)
    /\ Reschedule
    /\ pc' = "select"
    /\ UNCHANGED <<kind, clock, channel, seen, starts, link>>

(***************************************************************************)
(* The cancel arm; select looks at its arms in random order.               *)
(***************************************************************************)
\* mutant: a closed channel is not looked at
TimerCancelOnValue ==
    /\ kind \in Timers
    /\ pc = "select"
    /\ version > seen
    /\ seen' = version
    /\ pc' = IF flag THEN "ended" ELSE pc
    /\ UNCHANGED <<kind, clock, channel, leaves, timer, link>>

TimerCancel ==
    /\ kind \in Timers
    /\ pc = "select"
    /\ Changed(seen)
    /\ seen' = version
    /\ pc' = IF Cancels(seen) THEN "ended" ELSE pc
    /\ UNCHANGED <<kind, clock, channel, leaves, timer, link>>

-----------------------------------------------------------------------------
(* websocket_subscribe                                                     *)

(***************************************************************************)
(* The head of the loop; run_once gets a clone that has seen nothing.      *)
(***************************************************************************)
Attempt ==
    /\ kind = "subscribe"
    /\ pc = "top"
    /\ IF flag
         THEN pc' = "ended" /\ UNCHANGED <<seen, tries, since>>
         ELSE /\ pc' = "connecting"
              /\ seen' = 0
              /\ tries' = IF Quiet THEN tries + 1 ELSE 0
              /\ since' = IF Quiet /\ tries = 0 THEN clock ELSE since
    /\ UNCHANGED <<kind, clock, channel, leaves, timer, backoff, wake,
                   produced>>

Disconnected ==
    /\ pc' = "backoff"
    /\ wake' = clock + backoff

ConnectFails ==
    /\ pc = "connecting"
    /\ Disconnected
    /\ UNCHANGED <<kind, clock, channel, leaves, timer, seen, backoff,
                   produced, tries, since>>

Connects ==
    /\ pc = "connecting"
    /\ pc' = "open"
    /\ produced' = FALSE
    /\ UNCHANGED <<kind, clock, channel, leaves, timer, seen, backoff, wake,
                   tries, since>>

(***************************************************************************)
(* The biased select looks at the cancel channel and then at the socket;   *)
(* a value can be sent between the two.                                    *)
(***************************************************************************)
PollCancel ==
    /\ pc = "open"
    /\ IF Changed(seen)
         THEN /\ seen' = version
              /\ pc' = IF Cancels(seen) THEN "ended" ELSE pc
         ELSE pc' = "reading" /\ UNCHANGED seen
    /\ UNCHANGED <<kind, clock, channel, leaves, timer, link>>

Wakes ==
    /\ pc = "reading"
    /\ Changed(seen)
    /\ pc' = "open"
    /\ UNCHANGED <<kind, clock, channel, leaves, timer, seen, link>>

(***************************************************************************)
(* A text frame; other frames and text that is not JSON have no effect.    *)
(***************************************************************************)
FrameArrives ==
    /\ pc = "reading"
    /\ pc' = "open"
    /\ \/ \E value \in Payloads :
             LET pairs == Flattened[value] IN
             Emit(pairs) /\ produced' = (produced \/ Acceptable(pairs))
       \/ UNCHANGED <<leaves, produced>>
    /\ UNCHANGED <<kind, clock, channel, timer, seen, backoff, wake, tries,
                   since>>

(***************************************************************************)
(* The stream ends: a connection that produced something resets the        *)
(* backoff and is replaced at once.                                        *)
(***************************************************************************)
StreamEnds ==
    /\ pc = "reading"
    /\ IF produced
         THEN /\ pc' = "top"
              /\ backoff' = Initial
              /\ tries' = 0 /\ since' = 0
              /\ UNCHANGED wake
         ELSE Disconnected /\ UNCHANGED <<backoff, tries, since>>
    /\ UNCHANGED <<kind, clock, channel, leaves, timer, seen, produced>>

\* mutant: the delay stays the same
LengthenNot == backoff' = backoff
\* mutant: the delay has no maximum
LengthenUnbounded == backoff' = 2 * backoff

Lengthen == backoff' = Min({2 * backoff, BackoffMax})

(***************************************************************************)
(* The wait: over when the delay is, or when a fresh clone of the receiver *)
(* finds any value newer than the one at spawn, or no sender.              *)
(***************************************************************************)
WaitEnds ==
    /\ pc = "backoff"
    /\ \/ clock >= wake /\ pc' = "top" /\ Lengthen
       \/ Changed(0) /\ flag /\ pc' = "ended" /\ UNCHANGED backoff
       \/ Changed(0) /\ ~ flag /\ pc' = "top" /\ Lengthen
    /\ UNCHANGED <<kind, clock, channel, leaves, timer, seen, wake, produced,
                   tries, since>>

TimerStep == Fire \/ PeriodicReturns \/ PollReturns \/ TimerCancel

LinkStep ==
    \/ Attempt
    \/ ConnectFails
    \/ Connects
    \/ PollCancel
    \/ Wakes
    \/ WaitEnds

Next ==
    \/ Tick
    \/ \E value \in BOOLEAN : Send(value)
    \/ DropSender
    \/ TimerStep
    \/ LinkStep
    \/ FrameArrives
    \/ StreamEnds

Spec == Init /\ [][Next]_vars

(***************************************************************************)
(* The runtime polls ready tasks; a poll times out; select takes the       *)
(* cancel arm sooner or later, however often the timer is due.  The source *)
(* need not send or end anything, an attempt to connect need not end (it   *)
(* has no timeout and does not look at the cancel channel), and neither    *)
(* need a call of a periodic task, whose function is the user's.           *)
(***************************************************************************)
FairSpec ==
    /\ Spec
    /\ WF_vars(Fire \/ PollReturns \/ TimerCancel)
    /\ SF_vars(TimerCancel)
    /\ WF_vars(Attempt \/ PollCancel \/ Wakes \/ WaitEnds)

-----------------------------------------------------------------------------
TypeOK ==
    /\ kind \in Timers \cup {"subscribe"}
    /\ pc \in {"select", "calling", "top", "connecting", "open", "reading",
               "backoff", "ended"}
    /\ version \in 0 .. MaxSends /\ seen \in 0 .. version
    /\ backoff \in Initial .. BackoffMax
    /\ clock \in 0 .. MaxTime
    /\ flag \in BOOLEAN /\ alive \in BOOLEAN /\ produced \in BOOLEAN
    /\ next \in Nat /\ wake \in Nat /\ tries \in Nat /\ since \in 0 .. clock
    /\ starts \in Seq(0 .. clock) /\ Len(starts) <= 2
    /\ \A p \in DOMAIN leaves : ValidPath(p) /\ ~ IsObject(leaves[p])

(***************************************************************************)
(* However late calls start or return, three calls of a timer take at      *)
(* least a period: a slow call is followed by one at once, never by a      *)
(* burst that makes up for what was missed.                                *)
(***************************************************************************)
NoBurst == [][Len(starts) = 2 /\ starts' # starts
                  => starts'[2] - starts[1] >= Period]_vars

(***************************************************************************)
(* The backoff after i attempts, and all of them together.                 *)
(***************************************************************************)
Doubled[i \in Nat] == IF i = 0 THEN Initial ELSE 2 * Doubled[i - 1]

Delay(i) == Min({Doubled[i - 1], BackoffMax})

TotalDelay[i \in Nat] == IF i = 0 THEN 0 ELSE TotalDelay[i - 1] + Delay(i)

(***************************************************************************)
(* While nothing was ever sent into the cancel channel and its sender      *)
(* lives, attempts that produce nothing are spaced by delays that double   *)
(* up to the maximum.                                                      *)
(***************************************************************************)
RetriesSlowDown ==
    Quiet /\ tries > 0 => clock - since >= TotalDelay[tries - 1]

(***************************************************************************)
(* A cancelled task ends (when the flag stays up, and for the timers when  *)
(* the sender is gone), unless it is held for ever by an attempt to        *)
(* connect or by the user's function.                                      *)
(***************************************************************************)
Held == pc = "connecting" \/ (kind = "periodic" /\ pc = "calling")

CancelStops ==
    (<>[](flag \/ (kind \in Timers /\ ~ alive)))
        => <>(pc = "ended") \/ <>[]Held

(***************************************************************************)
(* The task of the subscription terminates when cancel flips to true (the  *)
(* comment on websocket_subscribe::spawn).                                 *)
(***************************************************************************)
SubscriptionStops == (kind = "subscribe" /\ <>[]flag) => <>(pc = "ended")
=============================================================================
