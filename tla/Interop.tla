------------------------------- MODULE Interop ------------------------------
(***************************************************************************)
(* `lumencast conformance` against `lumencast serve-scenario`: the command *)
(* line (lumencast-cli/main.rs) picks a suite of scenarios, the harness    *)
(* (lumencast-conformance/harness.rs) plays them one after the other, and  *)
(* the player (player.rs) drives the server of module TestControl through  *)
(* control requests (control.rs) and one connection per scenario.  Another *)
(* subscriber, the visitor, may come at any time.                          *)
(*                                                                         *)
(* A scenario is the record of its fields; its steps are JSON.  Optional   *)
(* arguments are sets of at most one element.  Requests of the harness     *)
(* arrive and are answered; the server answers a frame, if it does at all, *)
(* before the player stops waiting for it, but not always before an        *)
(* expect-no-frame-for is over.                                            *)
(***************************************************************************)
EXTENDS TestControl

CONSTANTS
    Matches(_, _),      \* structural_match (module Documents)
    Substituted(_, _),  \* Substitutions::apply (module Documents)
    Invocations,    \* command lines, with the environment they run in
    Dirs,           \* directory -> its scenario files, in order
    DefaultTokens,  \* placeholder -> token
    HashOf,         \* bundle id -> the hash of the bundle (hash_inline_bundle)
    HashKey,        \* bundle id -> the placeholder of that hash
    Zeros,          \* the hash of a synthetic bundle
    Visitor,        \* the connection of the visitor
    Sessions,       \* the connections of the player, a sequence
    Greeting,       \* the visitor's subscribe frame
    Visited,        \* the command lines in whose runs it may come (a bound)
    Verdicts        \* scenario name -> the outcome it must have

ASSUME InteropAssumption ==
    /\ Conns = {Visitor} \cup Range(Sessions)
    /\ \A inv \in Invocations : \A d, e \in inv.flag : d = e
    /\ \A dir \in DOMAIN Dirs :
          /\ Dirs[dir] \in Seq(Range(Dirs[dir]))
          /\ Len(Dirs[dir]) <= Len(Sessions)
    /\ Sessions \in Seq(Range(Sessions)) /\ Visitor \notin Range(Sessions)
    /\ \A i, j \in DOMAIN Sessions : Sessions[i] = Sessions[j] => i = j

VARIABLES
    call,      \* the command line
    pc,        \* where the harness is
    suite,     \* the scenarios it plays
    at,        \* the scenario being played
    ip,        \* its step
    ws,        \* the connection it uses, {} if none
    ended,     \* the player has read the end of the connection
    shadow,    \* shadow_state
    outcomes,  \* Report.outcomes
    exit       \* the exit code, -1 while it runs

playerVars == <<ip, ws, ended, shadow>>
vars == <<serverVars, call, pc, suite, at, playerVars, outcomes, exit>>

-----------------------------------------------------------------------------
(* Command line                                                            *)

ScenariosRel == <<"conformance", "v1", "scenarios">>

(***************************************************************************)
(* The first n of a path and the directories above it; "/" is <<>>.        *)
(***************************************************************************)
Ancestors(path, n) ==
    [i \in 1 .. Min({n, Len(path) + 1}) |->
        SubSeq(path, 1, Len(path) + 1 - i)]

Bases(inv) ==
    LET Of(set, n) == IF set = {} THEN <<>>
                      ELSE Ancestors(CHOOSE p \in set : TRUE, n)
    IN  Of(inv.cwd, 4) \o Of(inv.exe, 6)

ScenarioDirCandidates(inv) ==
    FlattenSeq([i \in DOMAIN Bases(inv) |->
        <<Bases(inv)[i] \o ScenariosRel,
          Append(Bases(inv)[i], "lumencast-protocol") \o ScenariosRel>>])

IsDir(path) == path \in DOMAIN Dirs

FirstDir(candidates) ==
    {candidates[i] : i \in {i \in DOMAIN candidates :
                               /\ IsDir(candidates[i])
                               /\ \A j \in 1 .. i - 1 : ~ IsDir(candidates[j])}}

\* mutant: a wrong flag or variable falls back to the conventional places
ResolveWithFallback(inv) ==
    LET named == inv.flag \cup {repo \o ScenariosRel : repo \in inv.env}
    IN  IF \E d \in named : IsDir(d) THEN {d \in named : IsDir(d)}
        ELSE FirstDir(ScenarioDirCandidates(inv))

(***************************************************************************)
(* The flag, else the variable, else the first conventional place there    *)
(* is.                                                                     *)
(***************************************************************************)
ResolveScenariosDir(inv) ==
    CASE inv.flag # {} -> {d \in inv.flag : IsDir(d)}
      [] inv.flag = {} /\ inv.env # {} ->
            {d \in {repo \o ScenariosRel : repo \in inv.env} : IsDir(d)}
      [] inv.flag = {} /\ inv.env = {} ->
            FirstDir(ScenarioDirCandidates(inv))

(***************************************************************************)
(* step_from_kind: the fields a step must have; any other kind is kept, to *)
(* fail when it is played.                                                 *)
(***************************************************************************)
StepParses(raw) ==
    /\ HasString(raw, "kind")
    /\ LET kind == StringAt(raw, "kind") IN
       /\ kind \in {"client-sends", "server-sends", "server-emits"} =>
             Has(raw, "frame")
       /\ kind \in {"expect-runtime-state", "expect-server-state"} =>
             HasObject(raw, "state")
       /\ kind = "expect-no-frame-for" =>
             Has(raw, "duration_ms") /\ IsNumber(raw.f["duration_ms"])
       /\ kind = "expect-client-action" => HasString(raw, "action")

(***************************************************************************)
(* load_scenarios: one file that does not parse spoils the suite.          *)
(***************************************************************************)
Loads(dir) ==
    \A i \in DOMAIN Dirs[dir] : \A j \in DOMAIN Dirs[dir][i].steps :
        StepParses(Dirs[dir][i].steps[j])

Wanted(inv, s) ==
    /\ s.tag \in (IF inv.tags = {} THEN {"required"} ELSE inv.tags)
    /\ inv.scenario = {} \/ s.name \in inv.scenario

FilterScenarios(inv, scenarios) ==
    LET kept[n \in Nat] ==
            IF n = 0 THEN <<>>
            ELSE IF Wanted(inv, scenarios[n])
                 THEN Append(kept[n - 1], scenarios[n]) ELSE kept[n - 1]
    IN  kept[Len(scenarios)]

Init ==
    /\ ServerInit
    /\ call \in Invocations
    /\ pc = "begin"
    /\ suite = <<>> /\ at = 1 /\ outcomes = <<>> /\ exit = -1
    /\ ip = 1 /\ ws = {} /\ ended = FALSE /\ shadow = NoFields

(***************************************************************************)
(* run_conformance up to the first scenario.                               *)
(***************************************************************************)
RunConformance ==
    /\ pc = "begin"
    /\ LET dir == ResolveScenariosDir(call) IN
       IF /\ call.control /\ call.tokens = "default"
          /\ dir # {} /\ \A d \in dir : Loads(d)
       THEN /\ suite' = FilterScenarios(call, Dirs[CHOOSE d \in dir : TRUE])
            /\ pc' = "next"
            /\ UNCHANGED exit
       ELSE pc' = "done" /\ exit' = 2 /\ UNCHANGED suite
    /\ UNCHANGED <<serverVars, call, at, playerVars, outcomes>>

-----------------------------------------------------------------------------
(* Setting up a scenario                                                   *)

Scenario == suite[at]

FrameOf(raw) == raw.f["frame"]

Kind(raw) == StringAt(raw, "kind")

\* the frames of the server-sends steps
Sent(scenario) ==
    LET sends == SelectSeq(scenario.steps, LAMBDA raw : Kind(raw) = "server-sends")
    IN  [i \in DOMAIN sends |-> FrameOf(sends[i])]

(***************************************************************************)
(* first_scene_id_and_hash: the first literal of each, "" if there is none.*)
(***************************************************************************)
FirstLiteral(scenario, key, sentinel) ==
    LET literals == SelectSeq(Sent(scenario), LAMBDA f :
                        HasString(f, key) /\ StringAt(f, key) \notin {sentinel, ""})
    IN  IF literals = <<>> THEN "" ELSE StringAt(literals[1], key)

Sentinels == {"$ANY", "$ANY_HASH"}

(***************************************************************************)
(* extract_initial_state: the state of the first snapshot, without the     *)
(* sentinels.                                                              *)
(***************************************************************************)
ExtractInitialState(scenario) ==
    LET snapshots == SelectSeq(Sent(scenario), LAMBDA f :
                         HasType(f, "snapshot") /\ HasObject(f, "state"))
    IN  IF snapshots = <<>> THEN NoFields
        ELSE LET state == snapshots[1].f["state"].f IN
             [p \in {p \in DOMAIN state :
                        ~ (IsString(state[p]) /\ state[p].s \in Sentinels)} |->
                 state[p]]

(***************************************************************************)
(* build_setup_bundles: the declared bundles under the id of their scene,  *)
(* or a synthetic one that declares the inputs found in the first snapshot.*)
(***************************************************************************)
Declared(bundle) ==
    [id |-> IF HasString(bundle.inline, "scene_id")
            THEN StringAt(bundle.inline, "scene_id") ELSE bundle.id,
     hash |-> HashOf[bundle.id],
     inline |-> {bundle.inline}]

Synthetic(scenario) ==
    LET id == FirstLiteral(scenario, "scene_id", "$ANY")
        hash == FirstLiteral(scenario, "scene_version", "$ANY_HASH")
        inputs == SetToSeq({p \in DOMAIN ExtractInitialState(scenario) :
                               /\ PathSegments[p][1] = "__inputs"
                               /\ Len(PathSegments[p]) > 1})
        entries == [i \in DOMAIN inputs |-> Obj([path |-> Str(inputs[i])])]
    IN  [id |-> IF id = "" THEN scenario.name ELSE id,
         hash |-> IF hash = "" THEN Zeros ELSE hash,
         inline |-> {IF inputs = <<>> THEN NoObject
                     ELSE Obj([operator_inputs |-> Arr(entries)])}]

BuildSetupBundles(scenario) ==
    IF scenario.bundles = <<>> THEN <<Synthetic(scenario)>>
    ELSE [i \in DOMAIN scenario.bundles |-> Declared(scenario.bundles[i])]

\* Ids and MaxNodes leave nothing out
ASSUME ScenariosAssumption ==
    \A dir \in DOMAIN Dirs : \A i \in DOMAIN Dirs[dir] :
        LET bundle == BuildSetupBundles(Dirs[dir][i])[1] IN
        Loads(dir) =>
            /\ IdOf(bundle) \in Ids
            /\ Has(Inline(bundle), "layout") =>
                  WalkEnds(Inline(bundle).f["layout"])

InitialState(scenario) ==
    IF DOMAIN scenario.initial = {} THEN ExtractInitialState(scenario)
    ELSE scenario.initial

BundleIds == {Scenario.bundles[i].id : i \in DOMAIN Scenario.bundles}

Substitutions ==
    DefaultTokens @@
    [k \in {HashKey[b] : b \in BundleIds} |->
        HashOf[CHOOSE b \in BundleIds : HashKey[b] = k]]

Apply(value) == Substituted(Substitutions, value)

Post(body) ==
    /\ request' = body
    /\ UNCHANGED <<registryVars, phase, response, store, tokens, write, conn>>

Return ==
    /\ request' = NoRequest /\ response' = NoResponse
    /\ UNCHANGED <<registryVars, phase, store, tokens, write>>

Answered == response # NoResponse

Outcome(verdict) == Append(outcomes, [name |-> Scenario.name, verdict |-> verdict])

\* mutant: a skipped scenario is not reported
SkipScenarioUnreported ==
    /\ pc = "next" /\ at <= Len(suite)
    /\ Scenario.target = "runtime"
    /\ at' = at + 1
    /\ UNCHANGED <<serverVars, call, pc, suite, playerVars, outcomes, exit>>

(***************************************************************************)
(* The harness's loop: scenarios for the runtime are skipped.              *)
(***************************************************************************)
SkipScenario ==
    /\ pc = "next" /\ at <= Len(suite)
    /\ Scenario.target = "runtime"
    /\ outcomes' = Outcome("skipped")
    /\ at' = at + 1
    /\ UNCHANGED <<serverVars, call, pc, suite, playerVars, exit>>

StartScenario ==
    /\ pc = "next" /\ at <= Len(suite)
    /\ Scenario.target # "runtime"
    /\ Post([op |-> "setup", tokens |-> DefaultTokens,
             bundles |-> BuildSetupBundles(Scenario),
             initial |-> InitialState(Scenario)])
    /\ pc' = "setup"
    /\ UNCHANGED <<call, suite, at, playerVars, outcomes, exit>>

(***************************************************************************)
(* The answer to setup; then a new connection is opened.                   *)
(***************************************************************************)
OpenWs ==
    /\ pc = "setup"
    /\ Answered
    /\ Return
    /\ IF response.status = 200
         THEN /\ pc' = "step"
              /\ ws' = {Sessions[at]}
              /\ conn[Sessions[at]].pc = "none"
              /\ conn' = [conn EXCEPT ![Sessions[at]] = Accepted(<<>>)]
         ELSE pc' = "failed" /\ UNCHANGED <<ws, conn>>
    /\ ip' = 1 /\ ended' = FALSE /\ shadow' = NoFields
    /\ UNCHANGED <<call, suite, at, outcomes, exit>>

-----------------------------------------------------------------------------
(* Playing a step                                                          *)

W == CHOOSE c \in ws : TRUE

Step == Scenario.steps[ip]

Playing(kinds) ==
    pc = "step" /\ ip <= Len(Scenario.steps) /\ Kind(Step) \in kinds

\* the step succeeds or fails the scenario
Passes(ok) ==
    IF ok THEN pc' = "step" /\ ip' = ip + 1 ELSE pc' = "failed" /\ UNCHANGED ip

HarnessRest == <<call, suite, at, outcomes, exit>>

ClientSends ==
    /\ Playing({"client-sends"})
    /\ Passes(~ ended)
    /\ conn' = IF ended THEN conn
               ELSE [conn EXCEPT ![W].in = Append(@, Apply(FrameOf(Step)))]
    /\ UNCHANGED <<Rest, ws, ended, shadow, HarnessRest>>

\* mutant: only the first patch of a delta counts
UpdateShadowFirst(frame) ==
    CASE HasType(frame, "snapshot") -> frame.f["state"].f
      [] HasType(frame, "delta") ->
            LET p == frame.f["patches"].e[1] IN
            (PatchPath(p) :> PatchValue(p)) @@ shadow
      [] OTHER -> shadow

UpdateShadow(frame) ==
    CASE HasType(frame, "snapshot") -> frame.f["state"].f
      [] HasType(frame, "delta") ->
            LET patches == frame.f["patches"].e IN
            Written(shadow, [i \in DOMAIN patches |->
                <<PatchPath(patches[i]), PatchValue(patches[i])>>])
      [] OTHER -> shadow

Reading == Playing({"server-sends"}) \/ pc = "reading"

(***************************************************************************)
(* read_text_frame and the match that follows it, after a server-sends or  *)
(* the emit of a server-emits.                                             *)
(***************************************************************************)
ReadFrame ==
    /\ Reading
    /\ conn[W].out # <<>>
    /\ LET message == Head(conn[W].out) IN
       IF message.msg = "text"
       THEN /\ shadow' = UpdateShadow(message.frame)
            /\ Passes(Matches(Apply(FrameOf(Step)), message.frame))
            /\ UNCHANGED ended
       ELSE pc' = "failed" /\ ended' = TRUE /\ UNCHANGED <<ip, shadow>>
    /\ conn' = [conn EXCEPT ![W].out = Tail(@)]
    /\ UNCHANGED <<Rest, ws, HarnessRest>>

Exhausted == conn[W].out = <<>> /\ conn[W].pc = "closed"

\* mutant: only the end of the connection ends the wait
ReadWaits ==
    /\ Reading
    /\ Exhausted
    /\ Passes(FALSE)
    /\ UNCHANGED <<serverVars, ws, ended, shadow, HarnessRest>>

\* the connection has ended, or nothing came in time
ReadTimesOut ==
    /\ Reading
    /\ conn[W].out = <<>>
    /\ Waiting(W)
    /\ Passes(FALSE)
    /\ UNCHANGED <<serverVars, ws, ended, shadow, HarnessRest>>

Shows(expected, state) ==
    \A p \in DOMAIN expected :
        p \in DOMAIN state /\ state[p] = Apply(expected[p])

ExpectRuntimeState ==
    /\ Playing({"expect-runtime-state"})
    /\ Passes(Shows(Step.f["state"].f, shadow))
    /\ UNCHANGED <<serverVars, ws, ended, shadow, HarnessRest>>

ExpectServerState ==
    \/ /\ Playing({"expect-server-state"})
       /\ Post([op |-> "state"])
       /\ pc' = "asking"
       /\ UNCHANGED <<playerVars, HarnessRest>>
    \/ /\ pc = "asking" /\ Answered
       /\ Passes(response.status = 200 /\ Shows(Step.f["state"].f, response.state))
       /\ Return
       /\ UNCHANGED <<conn, ws, ended, shadow, HarnessRest>>

(***************************************************************************)
(* expect-no-frame-for: the end of the connection is no frame.  The time   *)
(* is over whenever nothing has arrived, however busy the server is.       *)
(***************************************************************************)
ExpectNoFrameFor ==
    /\ Playing({"expect-no-frame-for"})
    /\ IF conn[W].out # <<>>
         THEN LET message == Head(conn[W].out) IN
              /\ Passes(message.msg = "close" /\ message.code \in {1000, 1001, 1005})
              /\ ended' = (message.msg = "close")
              /\ conn' = [conn EXCEPT ![W].out = Tail(@)]
         ELSE Passes(TRUE) /\ UNCHANGED <<ended, conn>>
    /\ UNCHANGED <<Rest, ws, shadow, HarnessRest>>

(***************************************************************************)
(* expect-client-action: only the two actions the harness can judge; the   *)
(* wait for a close has no timeout.                                        *)
(***************************************************************************)
Action == StringAt(Step, "action")

ExpectClose ==
    /\ Playing({"expect-client-action"}) /\ Action = "close-with-reason"
    /\ IF conn[W].out # <<>>
         THEN LET message == Head(conn[W].out) IN
              /\ Passes(/\ message.msg = "close"
                        /\ HasString(Step, "reason") =>
                              Apply(Step.f["reason"]).s
                                  \in {"$ANY", "", message.reason})
              /\ ended' = (message.msg = "close")
              /\ conn' = [conn EXCEPT ![W].out = Tail(@)]
         ELSE Exhausted /\ Passes(FALSE) /\ UNCHANGED <<ended, conn>>
    /\ UNCHANGED <<Rest, ws, shadow, HarnessRest>>

(***************************************************************************)
(* Steps that are decided without waiting: reconnect, other actions, other *)
(* kinds, and a server-emits without a delta.                              *)
(***************************************************************************)
KnownKinds ==
    {"client-sends", "server-sends", "expect-runtime-state",
     "expect-server-state", "expect-no-frame-for", "expect-client-action",
     "server-emits"}

Emittable(frame) ==
    /\ HasType(frame, "delta") /\ HasArray(frame, "patches")
    /\ \A p \in Range(frame.f["patches"].e) :
          HasString(p, "path") /\ Has(p, "value")

JudgeStep ==
    /\ pc = "step" /\ ip <= Len(Scenario.steps)
    /\ \/ Kind(Step) \notin KnownKinds /\ Passes(FALSE)
       \/ /\ Playing({"expect-client-action"}) /\ Action # "close-with-reason"
          /\ Passes(Action = "reconnect")
       \/ /\ Playing({"server-emits"}) /\ ~ Emittable(FrameOf(Step))
          /\ Passes(FALSE)
    /\ UNCHANGED <<serverVars, ws, ended, shadow, HarnessRest>>

ServerEmits ==
    \/ /\ Playing({"server-emits"}) /\ Emittable(FrameOf(Step))
       /\ LET patches == FrameOf(Step).f["patches"].e IN
          Post([op |-> "emit", pairs |-> [i \in DOMAIN patches |->
                  <<PatchPath(patches[i]), Apply(PatchValue(patches[i]))>>]])
       /\ pc' = "emitting"
       /\ UNCHANGED <<playerVars, HarnessRest>>
    \/ /\ pc = "emitting" /\ Answered
       /\ pc' = IF response.status = 200 THEN "reading" ELSE "failed"
       /\ Return
       /\ UNCHANGED <<conn, playerVars, HarnessRest>>

-----------------------------------------------------------------------------
(* Ending a scenario and the run                                           *)

Hangup == conn' = [c \in Conns |->
    IF c \in ws THEN [conn[c] EXCEPT !.up = FALSE] ELSE conn[c]]

\* every step is done: the server is reset while the connection is open
ResetAfterPass ==
    /\ pc = "step" /\ ip > Len(Scenario.steps)
    /\ Post([op |-> "reset"])
    /\ pc' = "resetting"
    /\ UNCHANGED <<playerVars, HarnessRest>>

\* a step failed: the connection goes first
ResetAfterFail ==
    /\ pc = "failed"
    /\ Hangup
    /\ request' = [op |-> "reset"]
    /\ pc' = "cleaning"
    /\ ws' = {}
    /\ UNCHANGED <<registryVars, phase, response, store, tokens, write,
                   ip, ended, shadow, HarnessRest>>

FinishScenario ==
    /\ pc \in {"resetting", "cleaning"}
    /\ Answered
    /\ outcomes' = Outcome(IF pc = "resetting" THEN "passed" ELSE "failed")
    /\ at' = at + 1
    /\ pc' = "next"
    /\ Hangup /\ ws' = {}
    /\ Return
    /\ shadow' = NoFields
    /\ UNCHANGED <<call, suite, ip, ended, exit>>

Count(verdict) == Cardinality({i \in DOMAIN outcomes : outcomes[i].verdict = verdict})

AllPassed == Count("passed") + Count("skipped") = Len(suite)

ExitCode ==
    /\ pc = "next" /\ at > Len(suite)
    /\ pc' = "done"
    /\ exit' = IF Len(suite) = 0 THEN 2 ELSE IF AllPassed THEN 0 ELSE 1
    /\ UNCHANGED <<serverVars, call, suite, at, playerVars, outcomes>>

-----------------------------------------------------------------------------
(* The visitor                                                             *)

VisitorComes ==
    /\ pc # "done" /\ call \in Visited
    /\ conn[Visitor].pc = "none"
    /\ conn' = [conn EXCEPT ![Visitor] = Accepted(<<Greeting>>)]
    /\ UNCHANGED <<Rest, call, pc, suite, at, playerVars, outcomes, exit>>

VisitorReads ==
    /\ conn[Visitor].out # <<>>
    /\ conn' = [conn EXCEPT ![Visitor].out = <<>>]
    /\ UNCHANGED <<Rest, call, pc, suite, at, playerVars, outcomes, exit>>

-----------------------------------------------------------------------------
PlayerStep ==
    \/ ClientSends \/ ReadFrame \/ ReadTimesOut
    \/ ExpectRuntimeState \/ ExpectServerState
    \/ ExpectNoFrameFor \/ ExpectClose \/ JudgeStep \/ ServerEmits

HarnessStep ==
    \/ RunConformance \/ SkipScenario \/ StartScenario \/ OpenWs
    \/ PlayerStep
    \/ ResetAfterPass \/ ResetAfterFail \/ FinishScenario \/ ExitCode

\* the player waits as long as the handler waits for its subscribe
Silence ==
    /\ Reading \/ Playing({"expect-no-frame-for", "expect-client-action"})
    /\ \E c \in ws : SubscribeTimeout(c)

Server(c) == HandlerStep(c) \/ PeerGone(c)

Alone == <<call, pc, suite, at, playerVars, outcomes, exit>>

Next ==
    \/ HarnessStep
    \/ VisitorComes
    \/ VisitorReads
    \/ ControlStep /\ UNCHANGED Alone
    \/ Silence /\ UNCHANGED Alone
    \/ \E c \in Conns : Server(c) /\ UNCHANGED Alone

Spec == Init /\ [][Next]_vars

(***************************************************************************)
(* Tasks that can run do run; the visitor need not come.                   *)
(***************************************************************************)
FairSpec ==
    /\ Spec
    /\ WF_vars(HarnessStep)
    /\ WF_vars(ControlStep /\ UNCHANGED Alone)
    /\ \A c \in Conns : WF_vars(HandlerStep(c) /\ UNCHANGED Alone)

-----------------------------------------------------------------------------
TypeOK ==
    /\ RegistryTypeOK
    /\ Len(store) = made
    /\ Range(tokens) \subseteq Range(Roles)
    /\ at = Len(outcomes) + 1
    /\ exit \in {-1, 0, 1, 2} /\ (pc = "done" <=> exit # -1)

Malformed(inline) ==
    /\ Has(inline, "layout")
    /\ \E node \in Nodes(inline.f["layout"]) :
          IsCapture(node) /\ ~ CheckZabCapture(node)

(***************************************************************************)
(* The verdict of a scenario that Verdicts names depends on nothing but    *)
(* the scenario: not on what was played before it on the same server, the  *)
(* visitor, or how long the server takes.  Three kinds of scenario have no *)
(* such verdict: those that expect a number (a visitor's swap may take it, *)
(* which run interop_number shows), those that write before they have read *)
(* the answer to their subscribe (their handler may serve the next one),   *)
(* and those that use expect-no-frame-for where a frame may still come.    *)
(***************************************************************************)
VerdictIsFixed ==
    \A i \in DOMAIN outcomes :
        outcomes[i].name \in DOMAIN Verdicts =>
            outcomes[i].verdict = Verdicts[outcomes[i].name]

SameFields(f, g) == DOMAIN f = DOMAIN g /\ \A k \in DOMAIN f : f[k] = g[k]

\* some task has stored leaves of the scene since it was made
WriteBegun(o) ==
    store[o].seq > 1 \/ \E w \in Writers : write[w].scene = o

FirstFits(c) ==
    LET frame == conn[c].first[1].frame
        o == conn[c].scene
    IN  /\ HasType(frame, "snapshot") =>
              /\ ~ Malformed(store[o].inline)
              /\ DOMAIN store[o].seed \subseteq DOMAIN frame.f["state"].f
              /\ SameFields(frame.f["state"].f, store[o].seed) \/ WriteBegun(o)
        /\ HasType(frame, "error") /\ o # 0 => Malformed(store[o].inline)

GetsFirst(c) ==
    conn[c].first = <<>> /\ conn[c].calm /\ conn'[c].first # <<>>

(***************************************************************************)
(* A subscriber that comes when no setup is under way, and is not          *)
(* overtaken by one, gets a rejection for a bundle that was rejected and   *)
(* otherwise a snapshot that holds every leaf of the seed; if it shows     *)
(* anything but the seed, somebody has begun to write the scene (its       *)
(* number may still be 1: it is read before the leaves).                   *)
(***************************************************************************)
FirstFrameFits == [][\A c \in Conns : GetsFirst(c) => FirstFits(c)']_vars

(***************************************************************************)
(* The same, and the player's snapshot is the seed and nothing else: no    *)
(* earlier scenario has left anything in the scene, or still writes to it. *)
(* This is checked for suites of which no scenario writes before it has    *)
(* read the answer to its subscribe.                                       *)
(***************************************************************************)
RightFirst(c) ==
    /\ FirstFits(c)
    /\ c \in ws /\ HasType(conn[c].first[1].frame, "snapshot") =>
          conn[c].first[1].frame.f["state"].f = store[conn[c].scene].seed

FirstFrameIsRight == [][\A c \in Conns : GetsFirst(c) => RightFirst(c)']_vars

(***************************************************************************)
(* A scene whose bundle failed validation never ships a snapshot (the      *)
(* comment of ws_handler.rs on step 3 bis).                                *)
(***************************************************************************)
RejectedNeverShips ==
    [][\A c \in Conns :
          conn[c].pc = "leaves" /\ conn'[c].pc \in {"loop", "receive"} =>
              conn[c].scene \notin rejected]_vars

(***************************************************************************)
(* Setup marks a scene unservable exactly when some node of its layout, at *)
(* any depth, is a capture against the rules; a bundle that Bundle::parse  *)
(* accepts is never marked.                                                *)
(***************************************************************************)
RejectionIsRight ==
    \A o \in DOMAIN store : store[o].ready =>
        /\ (o \in rejected) = Malformed(store[o].inline)
        /\ Validate(store[o].inline) => o \notin rejected

(***************************************************************************)
(* No two tasks are between the store and the send of one scene, and none  *)
(* is while setup seeds that scene, which stores and sends nothing.        *)
(***************************************************************************)
WritersApart ==
    /\ \A v, w \in Writers :
          write[v].scene # 0 /\ write[v].scene = write[w].scene => v = w
    /\ phase = "seed" => \A w \in Writers : write[w].scene # made

(***************************************************************************)
(* When nothing is on its way to the player and no write of its scene is   *)
(* under way, what it has put together from snapshot and deltas is the     *)
(* state of the scene.  This needs WritersApart: deltas that are numbered  *)
(* or sent against the order of their stores leave another state behind.   *)
(***************************************************************************)
ShadowIsServer ==
    \A c \in ws :
        /\ pc \in {"step", "asking", "emitting"}
        /\ conn[c].pc = "loop" /\ Waiting(c) /\ conn[c].out = <<>>
        /\ \A w \in Writers : write[w].scene # conn[c].scene
        => shadow = store[conn[c].scene].leaves

(***************************************************************************)
(* Success means that there was a suite, the one that was named if one     *)
(* was, and that every scenario of it for servers was played and passed.   *)
(***************************************************************************)
ExitIsHonest ==
    exit = 0 =>
        /\ suite # <<>>
        /\ \A i \in DOMAIN suite :
              suite[i].target # "runtime" => outcomes[i].verdict = "passed"
        /\ \A d \in call.flag :
              IsDir(d) /\ suite = FilterScenarios(call, Dirs[d])

(***************************************************************************)
(* Every run comes to an end.                                              *)
(***************************************************************************)
RunEnds == <>(pc = "done")
=============================================================================
