------------------------------ MODULE MCInterop -----------------------------
(* Instances of Interop for TLC: a handful of scenarios, the directories    *)
(* they lie in, and the command lines that find them.                       *)
EXTENDS Interop, Documents

SegmentKinds ==
    ("__inputs" :> "reserved") @@ ("__test" :> "reserved")
    @@ ("x" :> "identifier") @@ ("y" :> "identifier")
    @@ ("title" :> "identifier") @@ ("a b" :> "other")

Paths ==
    ("title" :> <<"title">>) @@ ("__inputs.x" :> <<"__inputs", "x">>)
    @@ ("__inputs.y" :> <<"__inputs", "y">>)
    @@ ("__test.x" :> <<"__test", "x">>) @@ ("a b" :> <<"a b">>)

DeviceRefs ==
    ("cam-1" :> <<"lower", "lower", "lower", "dash", "digit">>)
    @@ ("0cam" :> <<"digit", "lower", "lower", "lower">>)

Versions == "1.1" :> 1

HashB1 == "sha256:b1"
HashB2 == "sha256:b2"
Zero == "sha256:0"
BundleHash == [b1 |-> HashB1, b2 |-> HashB2]
BundleKey == [b1 |-> "$BUNDLE_b1", b2 |-> "$BUNDLE_b2"]
HashSet == {HashB1, HashB2, Zero}

RoleOf ==
    ("$TOKEN_OPERATOR" :> "operator") @@ ("$TOKEN_VIEWER" :> "viewer")
    @@ ("$TOKEN_SERVICE" :> "service") @@ ("$TOKEN_TEST" :> "test")

TokenOf ==
    ("$TOKEN_OPERATOR" :> "tok-operator") @@ ("$TOKEN_VIEWER" :> "tok-viewer")
    @@ ("$TOKEN_TEST" :> "tok-test") @@ ("$TOKEN_INVALID" :> "tok-invalid")

-----------------------------------------------------------------------------
(* Bundles                                                                  *)

Capture(ref) ==
    Obj([kind |-> Str(CaptureKind), size |-> Num(1)]
        @@ ("x-zab.sourceKind" :> Str("media.webcam"))
        @@ ("x-zab.deviceRef" :> Str(ref)))

Stack(children) ==
    Obj([kind |-> Str("stack"), direction |-> Str("vertical"),
         children |-> Arr(children)])

Repeat(template) ==
    Obj([kind |-> Str("repeat"), scope |-> Str("s"), template |-> template])

GoodBundle ==
    Obj([lsml |-> Str("1.1"), scene_id |-> Str("main"),
         scene_version |-> Str(HashB1),
         layout |-> Stack(<<Repeat(Capture("cam-1"))>>),
         operator_inputs |-> Arr(<<
             Obj([path |-> Str("__inputs.x"), label |-> Str("x"),
                  type |-> Str("number"),
                  constraints |-> Obj([max |-> Num(5)])])>>),
         defaults |-> Obj(("title" :> Str("t")) @@ ("__inputs.x" :> Num(1)))])

BadBundle == Obj([layout |-> Stack(<<Repeat(Capture("0cam"))>>)])

-----------------------------------------------------------------------------
(* Steps                                                                    *)

Client(type, fields) ==
    Obj([kind |-> Str("client-sends"), frame |-> Frame(type, fields)])

Expect(type, fields) ==
    Obj([kind |-> Str("server-sends"),
         frame |-> Obj([type |-> Str(type)] @@ fields)])

Emits(frame) == Obj([kind |-> Str("server-emits"), frame |-> frame])

Subscribe(token) == Client("subscribe", [token |-> Str(token)])

Patch(path, value) == Obj([path |-> Str(path), value |-> value])

Input(path, value) ==
    Client("input", [patches |-> Arr(<<Patch(path, value)>>)])

Delta(patches) == Obj([type |-> Str("delta"), patches |-> Arr(patches)])

Error(code) == Expect("error", [code |-> Str(code)])
ErrorAt(code, path) ==
    Expect("error", [code |-> Str(code), path |-> Str(path)])

State(kind, state) == Obj([kind |-> Str(kind), state |-> Obj(state)])

NoFrame ==
    Obj([kind |-> Str("expect-no-frame-for"), duration_ms |-> Num(1)])

Acts(action) ==
    Obj([kind |-> Str("expect-client-action"), action |-> Str(action)])
CloseAny == Obj([kind |-> Str("expect-client-action"),
                 action |-> Str("close-with-reason"), reason |-> Str("$ANY")])

Snapshot(state) == Expect("snapshot", [state |-> Obj(state)])

Play(name, bundles, steps) ==
    [name |-> name, tag |-> "required", target |-> "server",
     bundles |-> bundles, initial |-> NoFields, steps |-> steps]

-----------------------------------------------------------------------------
(* Scenarios                                                                *)

Happy == Play("happy", <<[id |-> "b1", inline |-> GoodBundle]>>, <<
    Subscribe("$TOKEN_OPERATOR"),
    Expect("snapshot", [scene_id |-> Str("main"),
                        scene_version |-> Str("$BUNDLE_b1")]),
    Input("__inputs.x", Num(3)),
    Obj([kind |-> Str("server-sends"),
         frame |-> Delta(<<Patch("__inputs.x", Num(3))>>)]),
    State("expect-server-state", "__inputs.x" :> Num(3)),
    Emits(Delta(<<Patch("title", Str("u")), Patch("__inputs.x", Num(4))>>)),
    State("expect-runtime-state", ("title" :> Str("u"))
                                  @@ ("__inputs.x" :> Num(4))),
    Input("__inputs.x", Num(9)),
    ErrorAt("INVALID_VALUE", "__inputs.x"),
    Client("unsubscribe", NoFields),
    CloseAny>>)

Captured == Play("captured", <<[id |-> "b2", inline |-> BadBundle]>>, <<
    Subscribe("$TOKEN_OPERATOR"), Error("INVALID_VALUE"), CloseAny>>)

Viewer == Play("viewer", <<>>, <<
    Subscribe("$TOKEN_VIEWER"),
    Expect("snapshot", [scene_id |-> Str("main"),
                        scene_version |-> Str("$ANY_HASH"),
                        state |-> Obj("__inputs.x" :> Num(0))]),
    Input("__inputs.x", Num(1)),
    ErrorAt("WRITE_FORBIDDEN", "__inputs.x"),
    Client("ping", NoFields), Expect("pong", NoFields),
    Acts("reconnect"), NoFrame>>)

Tester == Play("tester", <<>>, <<
    Subscribe("$TOKEN_TEST"),
    Snapshot("__test.x" :> Num(0)),
    Input("__inputs.x", Num(1)), ErrorAt("WRITE_FORBIDDEN", "__inputs.x"),
    Input("__test.x", Num(1)), Expect("delta", [patches |-> Str("$ANY")]),
    Input("a b", Num(1)), Error("INVALID_VALUE"), CloseAny>>)

Denied == Play("denied", <<>>, <<
    Subscribe("$TOKEN_INVALID"), Error("AUTH_DENIED"), NoFrame>>)

Object == Play("object", <<>>, <<
    Subscribe("$TOKEN_OPERATOR"),
    Snapshot("__inputs.x" :> Num(0)),
    Input("__inputs.x", NoObject), ErrorAt("INVALID_VALUE", "__inputs.x"),
    Input("__inputs.y", Num(1)), ErrorAt("UNKNOWN_PATH", "__inputs.y"),
    Subscribe("$TOKEN_OPERATOR"), Error("INTERNAL"), CloseAny>>)

Early == Play("early", <<>>, <<Client("ping", NoFields), CloseAny>>)

Elsewhere == Play("elsewhere", <<>>, <<
    Client("subscribe", [token |-> Str("$TOKEN_VIEWER"), scene |-> Str("none")]),
    Error("SCENE_NOT_FOUND"), CloseAny>>)

Silent == Play("silent", <<>>, <<Snapshot(NoFields)>>)

AnyState == Play("any state", <<>>, <<
    Subscribe("$TOKEN_VIEWER"), Snapshot("title" :> Str("$ANY"))>>)

BadHash == Play("bad hash", <<>>, <<
    Expect("snapshot", [scene_version |-> Str("v1")])>>)

EmitObject == Play("emit object", <<>>, <<
    Emits(Delta(<<Patch("title", NoObject)>>))>>)

EmitOther == Play("emit other", <<>>, <<Emits(Obj([type |-> Str("error")]))>>)

Missed == Play("missed", <<>>, <<
    Emits(Delta(<<Patch("title", Num(1))>>))>>)

Unknown == Play("unknown", <<>>, <<Obj([kind |-> Str("wait")])>>)

Runtime == [Play("runtime", <<>>, <<Acts("fetch-bundle")>>)
               EXCEPT !.target = "runtime"]

Extended == [Play("extended", <<>>, <<NoFrame>>) EXCEPT !.tag = "extended"]

Numbered == Play("numbered", <<[id |-> "b1", inline |-> GoodBundle]>>, <<
    Subscribe("$TOKEN_OPERATOR"), Expect("snapshot", [seq |-> Num(1)])>>)

Broken == Play("broken", <<>>, <<Obj([frame |-> NoObject])>>)

VerdictOf ==
    [n \in {"happy", "captured", "viewer", "tester", "denied", "object",
            "early", "elsewhere", "extended", "numbered"} |-> "passed"]
    @@ [n \in {"silent", "any state", "bad hash", "emit object",
               "emit other", "missed", "unknown"} |-> "failed"]
    @@ ("runtime" :> "skipped")

-----------------------------------------------------------------------------
(* Directories and command lines                                            *)

Suites ==
    (<<"home", "first">> :> <<Happy, Captured>>)
    @@ (<<"repo">> \o ScenariosRel :> <<Runtime, Viewer, Extended, Captured>>)
    @@ (<<"work", "lumencast-protocol">> \o ScenariosRel :>
           <<Captured, Denied>>)
    @@ (<<"home", "second">> :> <<AnyState, Tester, BadHash, Silent>>)
    @@ (<<"home", "third">> :> <<EmitObject, Object, EmitOther>>)
    @@ (<<"home", "fourth">> :> <<Missed, Early, Unknown, Elsewhere>>)
    @@ (<<"home", "numbered">> :> <<Numbered>>)
    @@ (<<"home", "broken">> :> <<Happy, Broken>>)

Plain ==
    [control |-> TRUE, tokens |-> "default", flag |-> {}, env |-> {},
     cwd |-> {}, exe |-> {}, scenario |-> {}, tags |-> {}]

With(name) == [Plain EXCEPT !.flag = {<<"home", name>>}]

Calls ==
    {With(n) : n \in {"first", "second", "third", "fourth", "broken"}}
    \cup
    { [Plain EXCEPT !.env = {<<"repo">>}],
      [Plain EXCEPT !.env = {<<"repo">>}, !.tags = {"extended"}],
      [Plain EXCEPT !.env = {<<"gone">>}, !.cwd = {<<"work">>}],
      [Plain EXCEPT !.cwd = {<<"work", "sdk">>}, !.exe = {<<"bin">>}],
      [Plain EXCEPT !.exe = {<<"work", "sdk", "target", "release">>},
                    !.scenario = {"happy"}],
      [Plain EXCEPT !.cwd = {<<"elsewhere">>}],
      [With("missing") EXCEPT !.cwd = {<<"work">>}],
      [With("first") EXCEPT !.control = FALSE],
      [With("first") EXCEPT !.tokens = "unreadable"] }

NumberedCalls == {With("numbered")}
RejectedCalls == {With("first")}

\* suites with answers, rejections, swaps and failures between them
VisitedCalls ==
    {With("first"), With("third"), [Plain EXCEPT !.env = {<<"repo">>}]}
    \cup NumberedCalls

SessionsOf == <<"p1", "p2", "p3", "p4">>
ConnsOf == {"p1", "p2", "p3", "p4", "v"}
SceneIds ==
    {"main", "b2", "denied", "silent", "emit object", "emit other", "missed",
     "unknown", "early", "elsewhere", "any state", "tester", "object",
     "extended", "bad hash", "runtime"}
Hello == Frame("subscribe", [token |-> Str("tok-operator")])
Task == {"control"}
=============================================================================
