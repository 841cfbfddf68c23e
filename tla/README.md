# TLA+ specification of lumencast-rs

Lumencast keeps *scenes* (flat maps from leaf paths to JSON values) on a
server and fans every change out to WebSocket subscribers as numbered deltas.
This directory models how the numbers, the leaves, the channels and the
connections stay consistent while many tasks write, connections break and
scenes are swapped, how adapters feed a scene, and how the conformance command
plays scenarios against the scenario server; it is checked with TLC and, in
large part, proved with TLAPS.

## 1. Inventory

| part | state | operations | meets |
|---|---|---|---|
| `lumencast-server` scene (`scene.rs`, `store.rs`, `replay_buffer.rs`) | leaf store, counter, replay ring, broadcast channel, rejection, declared inputs; one lock each | `set`, `emit`, `emit_with_cause`, `seed`, `reject`, `subscribe`, `replay_since`, `snapshot_state` | called by adapters, handlers, embedders, concurrently |
| connection handler (`ws_handler.rs`) | one task per socket: current scene, delta and event receivers, rate bucket | subscribe handshake, resume, snapshot, delta pump, input, error, scene swap | reads scene and registry; writes the scene for an input |
| registry (`server.rs`) | scene table, active pointer, event channel | `new_scene`, `register_bundle`, `set_active_scene`, `clear_scenes` | handlers look scenes up and listen to events |
| sequence tracker (`lumencast-protocol/sequence.rs`) | last number | `observe_seq`, `observe_snapshot`, `reset` | used by the client |
| client (`manager.rs`, `connection.rs`, `client.rs`, `backoff.rs`, `events.rs`) | connection, tracker, token, command channel, event channel | open, drive, handle_frame, retry, `set_token`, `disconnect` | the handler's socket; user tasks |
| input gate (`role.rs`, `input.rs`, the rate bucket) | bucket, declared inputs | checks of `handle_input` | in front of `emit_with_cause` |
| adapters (`adapters/`) | next call, backoff, receivers of the cancel channel | periodic, HTTP poll, WebSocket subscribe, flatten | write scenes |
| authentication (`auth.rs`) | token table | insert, clear, authenticate | handlers, control plane |
| test control plane (`test_control.rs`) | none of its own | setup, reset, state, emit | registry, scenes, token table |
| protocol data (`frames`, `codec`, `leaf_path`, `bundle`) | none | encode, decode, validate, hash | everywhere |
| conformance harness (`lumencast-conformance`) | outcomes, the player's shadow state | load, filter, play steps, match frames | control plane and a socket per scenario |
| command line (`lumencast-cli`) | none of its own | find a suite, run it, exit code; start a server | harness, server |

What is hard here: a write takes four locks one after the other; a snapshot
reads two pieces of state under two locks; numbers belong to a scene while
errors and swaps belong to a connection, yet they share one number line (an
error repeats a number, a swap takes one that nobody else is sent); the replay
buffer judges a resume point by one record; bounded channels lose
messages; a connection can end anywhere; registry operations are
check-then-act. `PROJECT.json` lists each hazard at its line.

What makes the parts correct:

* scene: every number of a write is sent exactly once; what is stored, buffered
  and sent agrees with it; a covered slice misses no write;
* handler and client: a snapshot reflects its number; no write falls between
  snapshot or slice and the deltas; what a client has counted it shows; it
  converges;
* registry and swap: the active scene is registered and is the one announced;
  deltas of two scenes never mix; every swap reaches the user;
* input gate: a frame is written as a whole or not at all; roles, scopes and
  declared inputs hold for what is written; the rate limit neither leaks nor
  refuses without cause;
* adapters: timers neither burst nor run on after a cancel; retries slow down;
  a document is written as a whole;
* control plane, harness, command line: a verdict depends on the scenario only;
  a rejected bundle is never served to a subscriber; success means that the
  named suite was played; every run ends;
* client manager: status events are true, a rotation lasts, every call is
  answered, a disconnect stops the client.

## 2. Modules

```
ReplayBuffer   SequenceTracker                    Values        pure operators
     |            |       \                      /   |   \
   Scene          |     Registry           Bundles   |   Adapters
     |            |      /    \               /   Documents  |
   Fanout --------+   Swap   TestControl ----+          \    |
     |                            |              AdapterDocuments
  Delivery (abstract)          Interop         InputGate   ClientManager

SceneProofs <- FanoutProofs <- ResumeProofs
SwapProofs  InputGateProofs  ClientManagerProofs  AdaptersProofs  InteropProofs
MC* modules with their .cfg files
```

**ReplayBuffer** – `Push`, `Covered`, `Wanted`: `push` and the two halves of
`since`.

**SequenceTracker** – `ObserveSeq`, `AfterSeq`, `AfterSnapshot`: the tracker
is its `last` number.

**Scene** – one scene and its writers. A write is four actions, one per lock:
`Apply`, `AdvanceSeq`, `PushReplay`, `Send`. `AdvanceSeqForChange` is the
number that a connection takes as a swap carries it away: it bears no write
(`Nothing` in the log; `Taken` are these numbers) and is neither buffered nor
sent. Any connection may take one at any time, up to `MaxChanges`, those that
are not clients of the model included. The channel `tx` is the sequence
of everything ever sent; a receiver is an index into it. A value is the ordinal
of the write that produced it, so a leaf tells which write won. `applied` and
`log` are history. A refused or empty write returns before its first effect
and is not a step.

**Fanout** – Scene plus, per subscriber, the handler (`phase`, `rx`,
`snapSeq`, `backlog`), the socket (`wire`) and the client (`last`, `view`).
The Rust client always starts with a snapshot and a fresh tracker; a
`Resuming` client stands for other runtimes that use the protocol crate's
tracker and `since_sequence`. Abstractions: a handler's own input writes are
made by an independent writer, and the bias of the select loop is dropped
(both only add interleavings); `Leave` is the `SceneSwap` arm up to the
`scene_changed` frame, after which the connection belongs to another scene and
to module Swap (`away`); the test `since <= current_seq` and the buffer
lookup are one step (the counter only grows, so the test cannot become false);
what makes an input refused is a free choice here (see InputGate). Frames in flight are lost when a
connection ends.

**Delivery** – the promise of a scene to its subscribers without locks,
channels and sockets: one numbered log; a subscriber counts one number after
the other and learns the write, or misses it, and a snapshot rebases it on a
prefix that is no shorter. One that keeps its count over a reconnect starts
again only where the next number bears no write, which is its own swap. `Fanout!Implements` instantiates it with the
tracker's `last` as the count and the numbers used up by error frames
(`stolen`) as the missed ones.

**Registry** – table, pointer and events; every operation of the server handle
is one action per lock. A scene is the ordinal of its creation, because it
outlives its id.

**Swap** – Registry plus scenes, handlers with the `SceneSwap` arm step by
step, sockets and Rust clients. A scene is its counter and its channel, and
each write goes to a leaf of its own, so that the numbers written stand for
the leaves; writes are atomic here, their interleavings belong to Scene. A
handler disappears with its connection; in the code it may notice the loss
only at its next send, after using up one more number of its scene.
`OtherLeaves` stands for that and for other connections that leave a scene:
a number is gone and nothing is sent.

**InputGate** – one scene's declared inputs and connections that send inputs:
the decoder's refusals, `handle_input`'s role check, the rate bucket with a
clock, and the loop over the patches, each of which reads the declarations
under a lock of its own while `with_operator_inputs` may run. Paths are
sequences of segments, so that a prefix is a prefix of whole segments as in
`starts_with_prefix`. `answered`, `refused`, `admitted` and `arrived` are
history.

**ClientManager** – the manager task, its command channel and the callers.
Connections are reduced to their success, failure and end. The backoff table
is a sleep that ends: the first delay ever taken is that of attempt 2, which is
not zero.

**Values**, **Documents** – JSON values as tagged records and leaf paths with
their validation; and what the code does with whole documents: the player's
`structural_match`, placeholder substitution, flattening with a reference
definition beside it. Strings are atoms. A key is the sequence of segments
between its dots, so that joining by a dot is concatenation and two keys can
collapse into one path. The operators of Documents are recursive, which is why
they have a module of their own: the prover takes no module that uses them.
Interop and Adapters take them as constants (`Matches`, `Substituted`,
`Flattened`), and the MC modules give these their definition.

**Adapters** – one task per behaviour (`kind`): `spawn_periodic`,
`http_poll::spawn` or `websocket_subscribe::spawn`, with a clock that may
advance between any two steps and the watch channel that cancels them. A
receiver is the version it has seen, because what a clone has seen decides
whether a wait ends. `tries`, `since` and `starts` are history. What
flattening makes of a document is a constant here (`Flattened`);
**AdapterDocuments** says that it is `Flatten` of Documents and states what is
then written. The run checks the two together.

**Bundles** – `Bundle::parse` (`Deserializes`: which fields must be there and
of which type), `Bundle::validate`, the per-kind checks, the capture checks and
the two walks over a layout, as the stack after n turns of the loop (`Turn`,
`Stacks`); `Nodes`, the root and its offspring of every generation, is the
reference they are compared with. `MaxNodes` bounds the turns; `WalkEnds` says
that the bound leaves nothing of a layout out, and Interop assumes it of its
bundles.

**TestControl** – the server of `serve-scenario`: Registry, token table, the
handlers of setup, reset, state and emit, one action per lock they take, and
one handler per connection from the subscribe handshake to the closing frame.
Frames are JSON objects. A write stores its leaves, takes a number and sends
in three steps (`StoreLeaves`, `AdvanceSeq`, `SendDelta`; the replay buffer is
left to Fanout), a snapshot reads number and leaves in two (`ReadSeq`,
`SendSnapshot`), and a swap sends `scene_changed` and the snapshot before it
moves the receiver (`HandleEvent`, `ReadSeq`, `SendSnapshot`, `Resubscribe`).
Resuming and the rate limit are left to Fanout and InputGate. `first`, `calm`, `seed` and
`ready` are history.

**Interop** – the conformance command and the server together: argument and
directory resolution, parsing and filtering, the harness's loop, every kind of
step of the player with its timeout, reset after success and after failure,
the exit code; and a visitor who subscribes at any time.

Operators whose comment calls them a mutant are plausible bugs. Each property
has one that must break it (`PROJECT.json`, "mutants"); nothing else uses them.

## 3. Runs

Bounds are small but past every limit: channels and buffers of capacity 1 to 3
with as many writes or more, so that eviction, lag and wrap-around happen; two
or three racing tasks where tasks race; a clock that runs past three periods
and past the longest delay. There is one client (or connection) in
each instance: clients share no state but the scene and the registry, and what
another client does to these are writes and, in a swap, numbers used up
(`AdvanceSeqForChange`, `OtherLeaves`).

| run | instance | shows |
|---|---|---|
| `fanout_own_leaves` | 2 writers with a leaf each, resuming client, 2 writes, 1 number taken by a swap, 1 error, 1 drop, capacities 1 | `ViewCovers`, `Converged`, `Implements` |
| `fanout_rust` | 2 writers with a leaf each, Rust client, 3 writes, 1 number taken by a swap, 1 drop, capacities 1 | `FanoutInv`, `SnapshotCovers`, `EachNumberOnce`, `EventuallyConverges` |
| `fanout_replay` | 1 writer, resuming client, 3 writes, 1 number taken by a swap, buffer 2, 2 drops, channel 4 (no lag) | `SliceComplete`, `NothingSkipped` |
| `swap` | 1 caller, 2 scenes, 2 swaps, clears or rejections, 2 writes or numbers taken by others, 1 drop, event channel 1 | `ActiveIsRegistered`, `NoMixing`, `ChangedThenSnapshot`, `CountedIsShown`, `EventuallySettles` |
| `gate` | 4 identities, 3 frames of up to 2 patches, limit 1 in a second of 2 ticks, 4 ticks, 2 declarations | `RefusedLeavesNoTrace`, `NamespacesHold`, `DeclarationsHold`, `TwiceTheLimit`, `RefusalIsEarned` |
| `manager` | 3 callers, 4 calls, channel 2, 2 attempts, 4 failures | `StatusIsTrue`, `RotationLasts`, `OneAnswerEach`, `CallsReturn`, `DisconnectStops` |
| `adapters` | each of the three tasks, period 2, delays 1 and 2, 7 ticks, 2 values sent, sender dropped; scalar, nested, dotted, colliding and malformed documents | `RetriesSlowDown`, `NoBurst`, `WholeDocuments`, `CancelStops` |
| `interop` | 14 command lines; 18 scenarios in suites of up to 4 that use every kind of step, every role but service, good, malformed and synthetic bundles, layouts of up to 3 nodes; a visitor in the runs of three command lines (`Visited`) | `VerdictIsFixed`, `RejectionIsRight`, `ShadowIsServer`, `ExitIsHonest`, `FirstFrameIsRight`, `RunEnds` |

`TypeOK` is checked in `fanout_own_leaves`, `swap`, `gate`, `manager`,
`adapters` and `interop`. The scenarios of `interop` are small ones written
after the steps the player knows, with their expected verdicts (`Verdicts`);
the suite of the protocol repository is not part of this one.

Runs that end in a violation, each showing that the code does not do what a
comment of it says (`PROJECT.json`, "findings"):

| run | property | what happens |
|---|---|---|
| `scene_slice` | `SliceComplete` | racing writers push out of order, eviction leaves a hole in a covered slice |
| `fanout_race` | `Converged` | two writers of a leaf are numbered against the order of their stores |
| `fanout_error_number` | `CountedIsSeen` | an error frame uses up the number of a delta that is then dropped |
| `swap_delta_dropped` | `NoDeltaDropped` | a swap ships the snapshot before it subscribes |

TLC finds four more violations, each under a configuration of its own that is
kept beside the runs:

| configuration | property | what happens |
|---|---|---|
| `MCFanout_resume_stuck.cfg` | `EventuallyConverges` | a client stays on a scene that others were swapped off (it was away and names its scene, or missed the event). Their numbers are neither in the replay buffer nor on the channel, yet the buffer "covers" the client's resume point (`replay_buffer.rs:3-5`, `ws_handler.rs:169`): it resumes, meets the gap, reconnects and resumes from the same number, for ever |
| `MCInterop_number.cfg` | `VerdictIsFixed` | a visitor subscribes between the creation of a scene and its announcement; the swap to the scene it is already on takes number 2, and a scenario that expects the `seq: 1` of `scene.rs:49-52` and of the test at `scenario.rs:281` fails |
| `MCInterop_rejected.cfg` | `RejectedNeverShips` | the same visitor, and a bundle that is then rejected: the `SceneSwap` arm ships its snapshot, against `ws_handler.rs:154` |
| `MCAdapters_hung.cfg` | `SubscriptionStops` | a subscription is cancelled while it connects, the answer never comes and the task never ends, against `websocket_subscribe.rs:44-45` |

Further disagreements between a comment and the code, visible in the models and
listed as hazards: `set_token` during a backoff is
dropped and answered `ManagerGone` by a client that goes on
(`manager.rs:121-126`); the subscribing adapter reconnects without a delay
after a connection that produced a frame, and after any `send(false)`
(`websocket_subscribe.rs:5-6`, `:65-76`); a suite of runtime scenarios only
exits 0 although none is executed (`main.rs:16-17`, `:197`).

The hypotheses of the passing runs are therefore real: `ViewCovers` and
`Converged` need one writer per leaf (`DisjointWriters`) and leave out the
numbers an error frame used up (`stolen`); `SliceComplete` needs one writer;
a resuming client converges only if its receiver does not lag, because the
lag error can use up a number that resuming then never asks for, and only if no
connection takes a number as it leaves (`MCFanout_resume_stuck.cfg`); the
numbers that swaps take (`Taken`) are left out of `EachNumberOnce`,
`SliceComplete` and `NothingSkipped`, which are about writes; the
properties of the registry need calls that do not overlap (one caller), since
each is a check and an act under different locks; `DeclarationsHold` leaves
out frames that were under way when a declaration came. `EventuallySettles`
says that a connection shows the scene it is on, not that this is the active
one: a swap between `resolve_scene` and the subscription to events is missed.
`RetriesSlowDown` is about a cancel channel nothing was sent into.
`CancelStops` does not promise that a subscription ends with its sender (while
its source is down it goes on), nor that a task ends that is held for ever by
an attempt to connect or by the user's periodic function (`Held`). `FirstFrameIsRight` leaves out subscribers that
a setup or reset overtakes: they may be given a scene that is being built.
`VerdictIsFixed` and `RunEnds` are about scenarios that expect no `seq`
(`MCInterop_number.cfg` has one), read the answer to their subscribe before
they write, expect silence only where nothing can come, and wait for a close
only where one must come; the code protects no other (`PROJECT.json`, hazards
at `ws_handler.rs:223`, `harness.rs:136`, `player.rs:187` and `:224`): with such
a scenario the verdict does depend on a visitor, on what was played before or
on how long the server takes. `ShadowIsServer` needs writes of one scene that do
not overlap, with each other or with the seeding (`WritersApart`): overlapping
ones can be numbered or sent against the order of their stores, which is
`fanout_race` again. In the run the player waits for every answer and the
visitor does not write; TLC confirms `WritersApart` as an invariant of it.
`TwiceTheLimit` is what the fixed window of the rate bucket gives: a burst on
both sides of a window's end passes twice `input_rate_per_sec` in one second.

Deadlock is not checked: the models stop when their bounds are used up, and a
client or server that is left alone may rest.

### Fairness

`Fanout!FairSpec`, `Swap!FairSpec`, `ClientManager!FairSpec`: weak fairness of
the remaining steps of an operation that has begun, of each handler, and of
each client's reading and reconnecting. Every lock in these steps is held for
one short section, the runtime polls ready tasks, and the client retries for
ever by default. Nothing is assumed of whether anyone writes, fails or
disconnects. `ClientManager` assumes in addition that an attempt to connect
ends, which the code does not bound by a timeout, and that a caller waiting
for room in the command channel gets it in turn (tokio's channel is fair).

`Adapters!FairSpec`: weak fairness of the task's own steps, polls included
(requests have a timeout), and strong fairness of the cancel arm of the timers,
because `select!` without `biased` picks among ready arms at random. Nothing is
assumed of an attempt to connect: `connect_async` has no timeout and is not
raced against the cancel channel, and the operating system bounds the TCP
connect only, not a TLS or upgrade request that is never answered. Nor is
anything assumed of the user's periodic function. The source need not send or close anything, and time need not pass.
`Interop!FairSpec`: weak fairness of harness, control handlers and connection
handlers; the visitor need not come. The player's timeout is a step that is
possible once the server has nothing left to send.

## 4. Proofs

`SceneProofs` and `FanoutProofs` hold for every set of paths, writers and
clients, every capacity and every bound, from the named assumptions of `Scene`
and `Fanout` (capacities are positive, every writer has a leaf).

* `SceneCorrect`: `SceneSpec => []SceneInv`. "The store reflects every number"
  is not inductive alone: `AdvanceSeq` gives a number to a write that must
  already be in the store, hence `CarriedIsStored`; what `Send` and
  `PushReplay` publish must be what was logged, hence `CarriedIsLogged`;
  values grow, hence `IdsBounded`.
* `SceneOrder`: with one writer per leaf numbers follow the order of stores.
* `FanoutCorrect`: `Spec => []FanoutInv`. Frames stay faithful because the log
  and the store only grow (`SceneGrows`, `FaithfulStable`); a snapshot is the
  first frame of its connection and not older than what the client has counted
  (`SnapshotComesFirst`); a fresh tracker meets a snapshot first
  (`BaselineIsSnapshot`), so its lenient first step is never taken by a delta.
* `TypeCorrect`, `SnapshotsCorrect` follow from it.
* `ViewsCorrect` (`ViewCovers`) adds `NumbersInStoreOrder`: an accepted number
  is the next one, so applying it keeps the leaf at or above all earlier
  numbers. `Convergence` (`Converged`) follows: the view is between the log and
  the store, and when no write is under way these agree.
* `ResumeMonotone`: `Spec => NeverBackwards`.
* `Refinement` (in `ResumeProofs`): `Spec => Implements`, Fanout implements
  Delivery. Initial states map to initial states; `AdvanceSeq` is `Publish`,
  and so is `AdvanceSeqForChange`, of no leaves;
  accepting a delta is `Learn`, because `FanoutInv` says that it is the log's
  entry of its number and `ObserveSeq` that the number is the next one;
  accepting an error is `Miss` or a stutter; accepting a snapshot is `Rebase`,
  because a snapshot on a socket reflects its number and is not older than
  what the client has counted; a lost connection is `StartAgain` for a client
  that does not resume, and `scene_changed` is for every client, because its
  number is the next one and bears no write; every other step is a stutter.

`ResumeProofs` continues `FanoutProofs`, from the same assumptions.
Besides the refinement:

* `NumbersSentOnce` (`EachNumberOnce`): a step of a writer moves its number
  from being carried to being sent and touches no other; that two writers
  never carry one number comes from `FanoutInv`. A number that a swap took is
  in nobody's hands.
* `SlicesComplete` (`SliceComplete`), for one writer. Added (`ReplayInv`): the
  buffer is in the order of its numbers, what is on its way there is newer, and
  a write that is neither there nor on its way is older than all of it, so that
  eviction takes the oldest. Numbers taken by swaps make holes in the numbering
  but none in the writes, which is why the buffer is said to be in order and
  not to be a run.
  With two writers the first is false, and `scene_slice` shows the hole.
* `NothingIsSkipped` (`NothingSkipped`), for one writer or clients that start
  with a snapshot. Added: what a client asked to resume from is not ahead of
  it (`SinceIsBehind`) and receivers stay within the channel
  (`ReceiversInBounds`). A snapshot needs no more than that its number was
  read after the receiver was placed; a slice needs `SlicesComplete`.

`InputGateProofs`: for every set of connections, tokens, inputs and
declarations, every limit and window. `GateInv` is inductive; besides the
properties it says what a half-judged frame knows: the patches passed so far
were allowed for the role and, if nobody declared anything meanwhile, declared
(the loop reads the declarations patch by patch); and that the inputs counted
in the bucket's window are the last ones admitted, while of those before at
most `Limit` are less than a window older than its start (`Windows`), from
which `TwiceTheLimit` follows for runs of any length. `RefusalsAreEarned` is an
action property from the same invariant: a full bucket holds `Limit` inputs of
the current window, and that window has not ended.

`ClientManagerProofs`: for every set of users and tokens and every capacity.
`ManagerInv` adds to the properties: drive holds a command exactly while it
rotates (`HeldWhileRotating`), a sleep means that attempts are left
(`SleepsBeforeLast`), and a waiting caller has one command (`WaitsForOne`),
the form of `OneAnswerEach` that survives shifting the channel.

`SwapProofs`: for every set of scenes, clients and callers and every capacity.

* `ActiveSceneIsRegistered`, for a single caller: the invariant `CallerInv`
  says for each place in a call what its next lock will find. With overlapping
  callers the property is false (check and act are under different locks).
* `SwapCorrect`: `SwapInv` holds with any number of callers. Per client it
  relates the handler's place, the frames on its socket and the client: frames
  are true of their scenes (`FramesTrue`) and in order (`Orderly`), a change has
  a number above everything since the snapshot before it, so that the tracker
  cannot take it for a duplicate (`ChangesAreNew`), the last frame fits the
  handler's place (`SocketEnd`), what is shown is true (`ShownIsTrue`). Steps
  of others leave a client's part alone because scenes only grow
  (`ConnectionStable`); the handler appends to the socket and the client takes
  from its head, and a lemma for each says what of the orderings survives.
  `NoMixing` holds because the first frame that can be accepted after a change
  is the snapshot of the new scene, although the numbers of scenes overlap.

`AdaptersProofs`: for every period, delay, document and bound.

* `AdapterTypes`; the part that is not a type is that only leaves at valid
  paths are ever stored, from the check of all pairs before the first store.
* `TimersNeverBurst` (`NoBurst`): while a timer waits, `next` is at least a
  period after the call before the last one, while it calls at least that
  call's start (`TimerInv`).
* `BackoffSpacesAttempts` (`RetriesSlowDown`): `LinkInv` ties the backoff, the
  clock and the end of the wait to the number of attempts. The delays are
  recursive functions; that such functions exist and are unique is proved from
  the least element of a set of numbers (`RecursionExists`,
  `RecursionUnique`).

`InteropProofs`: for every suite, set of command lines, matcher and
substitution. The assumptions are those of Registry, Bundles, TestControl and
Interop: one task sends control requests; there is a connection for every
scenario, and the visitor's is none of them; of a scenario that loads, the id
of its scene is in `Ids` and its layout can be walked within `MaxNodes`
(`ScenariosAssumption`: bounds of the model, as large as one likes).

* `WalkVisitsEveryNode`: the walk and the reference agree. The stack after n
  turns holds nodes only; conversely a node on the stack is popped at some
  turn, because the stack shrinks to nothing, and its children are pushed when
  it is. Where the loop stands is a recursive function; that it exists, is
  unique and is given by `Turn` is proved from the least element of a set of
  numbers, as in `AdaptersProofs`.
* `ExitHonesty` (`ExitIsHonest`), from `HarnessInv`: outcomes are in step with
  the suite, only scenarios for the runtime are skipped, and the suite is the
  filtered content of one directory, the named one if there is one. That
  "as many passed or skipped as there are" means that none failed is a lemma
  about cardinalities (`NoneFailed`).
* `InteropTypes` and `RejectionRight` (`RejectionIsRight`), from `ServerInv`:
  a request is there exactly while the harness waits for its answer and fits
  the phase of the handler (`ControlInv`); each scene has been judged right,
  or is the one whose layout is about to be judged (`ScenesOK`). Writes and
  swaps by connections keep what setup decided (`StoreKept`).
* `FirstFrames` (`FirstFrameFits`) adds three invariants. `ConnsOK`: a
  subscriber that no setup or reset has caught before its first frame is in a
  time without one, so its scene is complete. `WritesOK`: where each task is in
  its write. `SeedsOK`: a scene shows its seed until some task has begun to
  write it. A snapshot that bears the first number may therefore show more than
  the seed, when a write comes between its two locks; the theorem says no more.
* `ShadowTrue` (`ShadowIsServer`), for behaviours in which no two writes of a
  scene overlap (`[]WritersApart`, a hypothesis of the theorem). `ShadowInv` says
  where the player's state is going: what is on its socket, and after that the
  deltas its handler has not taken yet, lead from the shadow (`Leads`) to the
  leaves of its scene, or to what the write under way makes these when it is
  sent (`Follows`, `Catches`). Between the number and the leaves of its
  snapshot the player has nothing yet, and the deltas must lead from whatever
  the snapshot will show (`Listens`). `View` adds that no event is unheard: no
  scene is announced while the player plays, so that the hole between snapshot
  and receiver (`swap_delta_dropped`) does not open in its connection. One lemma for each of reading, replying, taking a delta, storing
  and sending says how the two queues keep that up. `LeavesInv`: the write under
  way is in the store. `PlayerInv`: the player has one connection, not the
  visitor's, and only between setup and the end of the scenario.

The hypotheses "one writer", "one caller" and `WritersApart` are those of the
runs, and real: section 3 says what fails without them. A deployment meets them
when one adapter feeds a scene and one task drives the server handle.

Only model-checked:

* liveness (fairness and `ENABLED` are outside the prover):
  `EventuallyConverges`, `EventuallySettles`, `CallsReturn`, `DisconnectStops`,
  `CancelStops`, `RunEnds`;
* `WholeDocuments`, which is about what the recursive operators of Documents
  compute for every document, an induction over data;
* `VerdictIsFixed`: it compares with the verdicts written down for the
  scenarios of the run, and does not hold of every suite (section 3);
* the part of `FirstFrameIsRight` beyond `FirstFrameFits`, that the player's
  snapshot is the seed and nothing else. It depends on
  the suite, and TLC refutes it for one whose first scenario subscribes, writes
  and then fails without having read anything: the connection is hung up in its
  handshake with the input still queued, finds its scene after the next setup
  and writes to it before the player has its snapshot. The scenarios of the run
  leave no such connection behind.

## 5. Not modelled

TLS, configuration, signals, ports and printing are I/O and wiring; the bundle
route is one read-only lookup. Content hashes and JSON text are out of reach
(a hash is an atom that stands for its bundle). `SequenceAllocator`,
`Store::remove` and `MapAuthenticator::remove` are called by nobody. The
client's event stream drops what a slow reader misses, as its comment says; it
has no state beyond tokio's channel. Transitions and causes ride along with a
patch and decide nothing. `PROJECT.json` gives the status of every part.

## 6. Plan

Done: all modules of section 2, model-checked; theorems for every safety
property of Scene, Fanout, Swap, InputGate and ClientManager, for those of
Adapters that do not depend on what flattening computes, and for those of
Interop that hold of every suite.

Next, in this order:

1. Several callers of the registry: which of its properties survive calls that
   overlap.
2. A resuming client over several scenes and incarnations of one id.
3. Overlapping writes of a connection and of the control plane in Interop: which
   part of `ShadowIsServer` survives without `WritersApart`.
4. A bound on what a connection left behind by one scenario can do to the
   next, and the strongest form of `FirstFrameIsRight` that follows from it.
