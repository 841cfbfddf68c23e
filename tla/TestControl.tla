----------------------------- MODULE TestControl ----------------------------
(***************************************************************************)
(* The server of `lumencast serve-scenario`: the table of scenes of module *)
(* Registry, the token table (auth.rs), the handlers of the test control   *)
(* plane (test_control.rs) and one handler per connection (ws_handler.rs). *)
(*                                                                         *)
(* One control request is handled at a time, as the player sends them.     *)
(* Every handler takes a lock per step, so the others see the server in    *)
(* between two steps: a write stores its leaves, takes a number and sends; *)
(* a snapshot reads the number and then the leaves; a swap sends the       *)
(* snapshot before it moves the receiver.  Resuming and the replay buffer  *)
(* (Fanout), lag (Fanout, Swap) and the rate limit (InputGate) are left    *)
(* out.                                                                    *)
(***************************************************************************)
EXTENDS Registry, Bundles

CONSTANTS
    Control,  \* the task that handles control requests
    Conns,    \* connections
    HashLike, \* strings that begin as a hash does
    Roles     \* placeholder -> role

ASSUME ControlAssumption ==
    Callers = {Control} /\ Offered = Operations /\ Control \notin Conns

VARIABLES
    phase,     \* where the handler of the control request is
    request,   \* the request it handles
    response,  \* its answer
    store,     \* the scenes, in the order of their creation
    tokens,    \* MapAuthenticator: token -> role
    write,     \* the write each task has under way
    conn       \* the connections and their handlers

serverVars ==
    <<registryVars, phase, request, response, store, tokens, write, conn>>

Writers == Conns \cup {Control}

NoRequest == [op |-> "none"]
NoResponse == [status |-> 0]
Ok == [status |-> 200]
Refused(status) == [status |-> status]

NoWrite == [scene |-> 0, pairs |-> <<>>, seq |-> 0]

NoConn ==
    [pc |-> "none", up |-> FALSE, in |-> <<>>, out |-> <<>>, scene |-> 0,
     seq |-> 0, role |-> "none", want |-> {}, feed |-> FALSE,
     deltas |-> <<>>, heard |-> 0, calm |-> FALSE, first |-> <<>>]

ServerInit ==
    /\ RegistryInit
    /\ phase = "idle"
    /\ request = NoRequest
    /\ response = NoResponse
    /\ store = <<>>
    /\ tokens = NoFields
    /\ write = [w \in Writers |-> NoWrite]
    /\ conn = [c \in Conns |-> NoConn]

-----------------------------------------------------------------------------
(* Frames                                                                  *)

Frame(type, fields) ==
    Obj(Over([v |-> Num(1), type |-> Str(type)], fields))

Text(frame) == [msg |-> "text", frame |-> frame]
CloseNormal == [msg |-> "close", code |-> 1000, reason |-> ""]

SnapshotFrame(seq, scene) ==
    Frame("snapshot",
        [seq |-> Num(seq), scene_id |-> Str(scene.id),
         scene_version |-> Str(scene.version), state |-> Obj(scene.leaves)])

SceneChangedFrame(seq, scene) ==
    Frame("scene_changed",
        [seq |-> Num(seq), scene_id |-> Str(scene.id),
         scene_version |-> Str(scene.version)])

DeltaFrame(seq, patches) ==
    Frame("delta", [seq |-> Num(seq), patches |-> Arr(patches)])

\* before a scene is found an error has the number 0
ErrorSeq(c) == IF conn[c].scene = 0 THEN 0 ELSE store[conn[c].scene].seq

ErrorFrame(c, code, path) ==
    Frame("error",
        Over([seq |-> Num(ErrorSeq(c)), code |-> Str(code)],
             [k \in {"path" : p \in path} |-> Str(CHOOSE p \in path : TRUE)]))

PatchPath(patch) == StringAt(patch, "path")
PatchValue(patch) == patch.f["value"]

PatchOK(patch) ==
    /\ HasString(patch, "path") /\ Has(patch, "value")
    /\ ValidPath(PathSegments[PatchPath(patch)])

(***************************************************************************)
(* codec::decode_client_str: the envelope, then the frame (a path that is  *)
(* not one is an error of the JSON), then the patches of an input.         *)
(***************************************************************************)
DecodeClient(frame) ==
    CASE ~ (Has(frame, "v") /\ frame.f["v"] = Num(1) /\ Has(frame, "type")) ->
            "envelope"
      [] HasType(frame, "subscribe") /\ HasString(frame, "token") ->
            "subscribe"
      [] HasType(frame, "input") /\ HasArray(frame, "patches") ->
            LET patches == Range(frame.f["patches"].e) IN
            IF \E p \in patches : ~ PatchOK(p) THEN "json"
            ELSE IF patches = {} \/ \E p \in patches : IsObject(PatchValue(p))
                 THEN "invalid" ELSE "input"
      [] HasType(frame, "ping") -> "ping"
      [] HasType(frame, "unsubscribe") -> "unsubscribe"
      [] OTHER -> "json"

-----------------------------------------------------------------------------
(* Writing a scene                                                         *)

Writable(pairs) ==
    \A i \in DOMAIN pairs :
        ValidPath(PathSegments[pairs[i][1]]) /\ ~ IsObject(pairs[i][2])

\* applied in order: the last value of a path stays
Written(leaves, pairs) ==
    LET paths == {pairs[i][1] : i \in DOMAIN pairs} IN
    [p \in DOMAIN leaves \cup paths |->
        IF p \in paths
        THEN pairs[Max({i \in DOMAIN pairs : pairs[i][1] = p})][2]
        ELSE leaves[p]]

PatchesOf(pairs) ==
    [i \in DOMAIN pairs |->
        Obj([path |-> Str(pairs[i][1]), value |-> pairs[i][2]])]

(***************************************************************************)
(* scene.emit by the task w, a step per lock: the leaves, ...              *)
(***************************************************************************)
StoreLeaves(w, o, pairs) ==
    /\ store' = [store EXCEPT ![o].leaves = Written(@, pairs)]
    /\ write' = [write EXCEPT ![w] = [scene |-> o, pairs |-> pairs, seq |-> 0]]

\* ... the number, ...
AdvanceSeq(w) ==
    /\ write[w].scene # 0 /\ write[w].seq = 0
    /\ LET o == write[w].scene IN
       /\ store' = [store EXCEPT ![o].seq = @ + 1]
       /\ write' = [write EXCEPT ![w].seq = store[o].seq + 1]

(***************************************************************************)
(* ... and the delta for every receiver of the scene; cs are the           *)
(* connections as the task leaves them.                                    *)
(***************************************************************************)
SendDelta(w, cs) ==
    /\ write[w].seq # 0
    /\ write' = [write EXCEPT ![w] = NoWrite]
    /\ LET delta == Text(DeltaFrame(write[w].seq, PatchesOf(write[w].pairs))) IN
       conn' = [c \in Conns |->
           IF cs[c].feed /\ cs[c].scene = write[w].scene
           THEN [cs[c] EXCEPT !.deltas = Append(@, delta)] ELSE cs[c]]

-----------------------------------------------------------------------------
(* POST /test/setup and /test/reset                                        *)

Inline(bundle) == IF bundle.inline = {} THEN NoObject
                  ELSE CHOOSE i \in bundle.inline : TRUE

Bundle == request.bundles[1]

IdOf(bundle) ==
    IF HasString(Inline(bundle), "scene_id")
    THEN StringAt(Inline(bundle), "scene_id") ELSE bundle.id

SceneId == IdOf(Bundle)

(***************************************************************************)
(* install_tokens: one entry per placeholder that names a role.            *)
(***************************************************************************)
Installed ==
    LET known == DOMAIN request.tokens \cap DOMAIN Roles IN
    [t \in {request.tokens[p] : p \in known} |->
        Roles[CHOOSE p \in known : request.tokens[p] = t]]

RefusesSetup ==
    \/ request.bundles = <<>>
    \/ Bundle.id = ""
    \/ Bundle.hash \notin HashLike

(***************************************************************************)
(* extract_input_specs: entries without a path are skipped; a type that is *)
(* not known is no type.  No entry at all leaves the scene permissive.     *)
(***************************************************************************)
InputTypes ==
    {"string", "number", "boolean", "enum", "color", "date", "time",
     "path-ref", "image-ref"}

Optional(v, key, Kind(_)) ==
    IF Has(v, key) /\ Kind(v.f[key]) THEN {v.f[key]} ELSE {}

IsNumber(v) == v.tag = "number"

SpecOf(entry) ==
    LET limits == IF HasObject(entry, "constraints")
                  THEN entry.f["constraints"] ELSE NoObject
    IN  [type |-> {t.s : t \in Optional(entry, "type", IsString)} \cap InputTypes,
         min |-> Optional(limits, "min", IsNumber),
         max |-> Optional(limits, "max", IsNumber),
         maxLength |-> Optional(limits, "maxLength", IsNumber),
         values |-> {v \in Range(Elements(limits, "values")) : IsString(v)}]

ExtractInputSpecs(inline) ==
    LET entries == SelectSeq(Elements(inline, "operator_inputs"),
                             LAMBDA e : HasString(e, "path"))
    IN  [p \in {StringAt(e, "path") : e \in Range(entries)} |->
            SpecOf(entries[Max({i \in DOMAIN entries :
                                   StringAt(entries[i], "path") = p})])]

(***************************************************************************)
(* The seed: the requested state, or else the defaults of the bundle.      *)
(***************************************************************************)
Seed ==
    IF DOMAIN request.initial # {} THEN request.initial
    ELSE IF HasObject(Inline(Bundle), "defaults")
         THEN Inline(Bundle).f["defaults"].f ELSE NoFields

Goes(from, to) == phase = from /\ phase' = to

Answers(from, answer) == Goes(from, "idle") /\ response' = answer

ControlRest == <<request, response, store, tokens, write, conn>>

\* connections that have no scene yet are caught by this request
StartClear ==
    /\ request.op \in {"setup", "reset"}
    /\ response = NoResponse
    /\ Goes("idle", "clearing")
    /\ ClearTable(Control)
    /\ conn' = [c \in Conns |->
           [conn[c] EXCEPT !.calm = @ /\ conn[c].first # <<>>]]
    /\ UNCHANGED <<request, response, store, tokens, write>>

ClearPointer ==
    /\ Goes("clearing", "auth")
    /\ ClearActive(Control)
    /\ UNCHANGED ControlRest

ClearTokens ==
    /\ tokens' = NoFields
    /\ IF request.op = "reset" THEN Answers("auth", Ok)
       ELSE Goes("auth", "install") /\ UNCHANGED response
    /\ UNCHANGED <<registryVars, request, store, write, conn>>

InstallTokens ==
    /\ phase = "install"
    /\ tokens' = Installed
    /\ IF RefusesSetup THEN Answers("install", Refused(400))
       ELSE Goes("install", "register") /\ UNCHANGED response
    /\ UNCHANGED <<registryVars, request, store, write, conn>>

\* the table is empty: no other task adds scenes
Register ==
    /\ Goes("register", "create")
    /\ CheckFree(Control, SceneId)
    /\ UNCHANGED ControlRest

CreateScene ==
    /\ Goes("create", "first")
    /\ Insert(Control)
    /\ store' = Append(store,
           [id |-> SceneId, version |-> Bundle.hash, seq |-> 1,
            leaves |-> NoFields, specs |-> NoFields, inline |-> Inline(Bundle),
            seed |-> NoFields, ready |-> FALSE])
    /\ UNCHANGED <<request, response, tokens, write, conn>>

FirstScene ==
    /\ Goes("first", "judge")
    /\ ActivateFirst(Control)
    /\ UNCHANGED ControlRest

JudgeLayout ==
    /\ Goes("judge", "declare")
    /\ IF /\ Has(Inline(Bundle), "layout")
          /\ ~ CheckZabCaptureNodes(Inline(Bundle).f["layout"])
       THEN Reject(Control) /\ rejected' = rejected \cup {made}
       ELSE UNCHANGED registryVars
    /\ UNCHANGED ControlRest

DeclareInputs ==
    /\ Goes("declare", "seed")
    /\ store' = [store EXCEPT ![made].specs = ExtractInputSpecs(Inline(Bundle))]
    /\ UNCHANGED <<registryVars, request, response, tokens, write, conn>>

\* mutant: the defaults are left out
SeedSceneRequestOnly ==
    /\ Goes("seed", "activate")
    /\ store' = [store EXCEPT ![made].leaves = Over(request.initial, @),
                              ![made].seed = Seed]
    /\ UNCHANGED <<registryVars, request, response, tokens, write, conn>>

SeedScene ==
    /\ Goes("seed", "activate")
    /\ store' = [store EXCEPT ![made].leaves = Over(Seed, @),
                              ![made].seed = Seed]
    /\ UNCHANGED <<registryVars, request, response, tokens, write, conn>>

Activate ==
    /\ \/ Goes("activate", "point") /\ CheckKnown(Control, SceneId)
       \/ Goes("point", "announce") /\ WriteActive(Control)
    /\ UNCHANGED ControlRest

AnnounceScene ==
    /\ Answers("announce", Ok)
    /\ Announce(Control)
    /\ store' = [store EXCEPT ![made].ready = TRUE]
    /\ UNCHANGED <<request, tokens, write, conn>>

-----------------------------------------------------------------------------
(* GET /test/state and POST /test/emit                                     *)

ActiveScene == IF active = NoId THEN 0 ELSE scenes[active]

HandleState ==
    /\ request.op = "state"
    /\ response = NoResponse
    /\ response' = IF ActiveScene = 0 THEN Refused(409)
                   ELSE [status |-> 200, state |-> store[ActiveScene].leaves]
    /\ UNCHANGED <<registryVars, phase, request, store, tokens, write, conn>>

HandleEmit ==
    /\ request.op = "emit"
    /\ response = NoResponse /\ phase = "idle"
    /\ LET accepted == ActiveScene # 0 /\ Writable(request.pairs) IN
       IF accepted /\ request.pairs # <<>>
       THEN /\ phase' = "writing"
            /\ StoreLeaves(Control, ActiveScene, request.pairs)
            /\ UNCHANGED response
       ELSE /\ response' = IF accepted THEN Ok
                           ELSE Refused(IF ActiveScene = 0 THEN 409 ELSE 400)
            /\ UNCHANGED <<phase, store, write>>
    /\ UNCHANGED <<registryVars, request, tokens, conn>>

FinishEmit ==
    /\ phase = "writing"
    /\ \/ AdvanceSeq(Control) /\ UNCHANGED <<phase, response, conn>>
       \/ /\ SendDelta(Control, conn)
          /\ Answers("writing", Ok)
          /\ UNCHANGED store
    /\ UNCHANGED <<registryVars, request, tokens>>

ControlStep ==
    \/ StartClear \/ ClearPointer \/ ClearTokens \/ InstallTokens
    \/ Register \/ CreateScene \/ FirstScene \/ JudgeLayout
    \/ DeclareInputs \/ SeedScene \/ Activate \/ AnnounceScene
    \/ HandleState \/ HandleEmit \/ FinishEmit

-----------------------------------------------------------------------------
(* Connections: the handshake                                              *)

Accepted(frames) ==
    [NoConn EXCEPT !.pc = "subscribe", !.up = TRUE, !.in = frames]

Rest == <<registryVars, phase, request, response, store, tokens, write>>

Set(c, record) == conn' = [conn EXCEPT ![c] = record]

\* an error frame, or none, and the closing handshake; the receiver goes
Closing(c, frames) ==
    [conn[c] EXCEPT !.pc = "closed", !.out = @ \o frames \o <<CloseNormal>>,
                    !.feed = FALSE, !.deltas = <<>>,
                    !.first = IF @ = <<>> THEN frames ELSE @]

Failing(c, code) == Closing(c, <<Text(ErrorFrame(c, code, {}))>>)

Received(c) == [conn[c] EXCEPT !.in = Tail(@)]

(***************************************************************************)
(* recv_subscribe: anything but a subscribe ends the connection without an *)
(* error frame.                                                            *)
(***************************************************************************)
RecvSubscribe(c) ==
    /\ conn[c].pc = "subscribe"
    /\ conn[c].in # <<>>
    /\ LET frame == Head(conn[c].in) IN
       Set(c, IF DecodeClient(frame) = "subscribe"
              THEN [Received(c) EXCEPT !.pc = "auth", !.want = {frame},
                                       !.calm = phase \in {"idle", "writing"}]
              ELSE [Closing(c, <<>>) EXCEPT !.in = Tail(@)])
    /\ UNCHANGED Rest

SubscribeTimeout(c) ==
    /\ conn[c].pc = "subscribe"
    /\ conn[c].in = <<>>
    /\ Set(c, Closing(c, <<>>))
    /\ UNCHANGED Rest

Subscription(c) == CHOOSE frame \in conn[c].want : TRUE

Authenticate(c) ==
    /\ conn[c].pc = "auth"
    /\ LET token == StringAt(Subscription(c), "token") IN
       Set(c, IF token \in DOMAIN tokens
              THEN [conn[c] EXCEPT !.pc = "resolve", !.role = tokens[token]]
              ELSE Failing(c, "AUTH_DENIED"))
    /\ UNCHANGED Rest

(***************************************************************************)
(* resolve_scene: the id, named or active, and then its scene; the two     *)
(* reads are separate.                                                     *)
(***************************************************************************)
ResolveId(c) ==
    /\ conn[c].pc = "resolve"
    /\ LET id == IF HasString(Subscription(c), "scene")
                 THEN StringAt(Subscription(c), "scene") ELSE active
       IN  Set(c, IF id = NoId THEN Failing(c, "SCENE_NOT_FOUND")
                  ELSE [conn[c] EXCEPT !.pc = "find", !.want = {id}])
    /\ UNCHANGED Rest

FindScene(c) ==
    /\ conn[c].pc = "find"
    /\ LET id == CHOOSE id \in conn[c].want : TRUE
           o == IF id \in Ids THEN scenes[id] ELSE 0
       IN  Set(c, IF o = 0 THEN Failing(c, "SCENE_NOT_FOUND")
                  ELSE [conn[c] EXCEPT !.pc = "judge", !.want = {},
                                       !.scene = o])
    /\ UNCHANGED Rest

CheckRejection(c) ==
    /\ conn[c].pc = "judge"
    /\ Set(c, IF conn[c].scene \in rejected THEN Failing(c, "INVALID_VALUE")
              ELSE [conn[c] EXCEPT !.pc = "initial"])
    /\ UNCHANGED Rest

\* scene.subscribe() and events.subscribe(), before the first snapshot
Attach(c) ==
    /\ conn[c].pc = "initial"
    /\ Set(c, [conn[c] EXCEPT !.pc = "number", !.feed = TRUE,
                              !.heard = Len(events)])
    /\ UNCHANGED Rest

(***************************************************************************)
(* send_snapshot: the number under one lock, the leaves under another.     *)
(***************************************************************************)
ReadSeq(c) ==
    /\ conn[c].pc = "number"
    /\ Set(c, [conn[c] EXCEPT !.pc = "leaves",
                              !.seq = store[conn[c].scene].seq])
    /\ UNCHANGED Rest

SendSnapshot(c) ==
    /\ conn[c].pc = "leaves"
    /\ LET frame == Text(SnapshotFrame(conn[c].seq, store[conn[c].scene])) IN
       Set(c, [conn[c] EXCEPT !.pc = IF conn[c].feed THEN "loop" ELSE "receive",
                              !.seq = 0, !.out = Append(@, frame),
                              !.first = IF @ = <<>> THEN <<frame>> ELSE @])
    /\ UNCHANGED Rest

-----------------------------------------------------------------------------
(* Connections: the loop                                                   *)

CanWrite(role, path) ==
    LET top == PathSegments[path][1] IN
    CASE role = "viewer" -> FALSE
      [] role \in {"operator", "service"} -> top = "__inputs"
      [] role = "test" -> top = "__test"

CheckType(type, value) ==
    CASE type = "number" -> IsNumber(value)
      [] type = "boolean" -> value.tag = "boolean"
      [] OTHER -> IsString(value)

CheckConstraint(spec, value) ==
    \A type \in spec.type :
        /\ CheckType(type, value)
        /\ type = "string" => \A m \in spec.maxLength : Len(value.s) <= m.n
        /\ type = "number" => /\ \A m \in spec.min : value.n >= m.n
                              /\ \A m \in spec.max : value.n <= m.n
        /\ type = "enum" => spec.values = {} \/ value \in spec.values

PatchError(role, specs, patch) ==
    LET path == PatchPath(patch)
        strict == DOMAIN specs # {}
    IN  CASE ~ CanWrite(role, path) -> "WRITE_FORBIDDEN"
          [] strict /\ path \notin DOMAIN specs -> "UNKNOWN_PATH"
          [] /\ strict /\ path \in DOMAIN specs
             /\ ~ CheckConstraint(specs[path], PatchValue(patch)) ->
                "INVALID_VALUE"
          [] OTHER -> "none"

(***************************************************************************)
(* handle_input: the first patch that is refused refuses the frame.  A     *)
(* role that may not write at all is refused for the first patch.          *)
(***************************************************************************)
HandleInput(c, patches) ==
    LET o == conn[c].scene
        bad == {i \in DOMAIN patches :
                   PatchError(conn[c].role, store[o].specs, patches[i]) # "none"}
        pairs == [i \in DOMAIN patches |->
                     <<PatchPath(patches[i]), PatchValue(patches[i])>>]
    IN  IF bad = {}
        THEN /\ StoreLeaves(c, o, pairs)
             /\ Set(c, [Received(c) EXCEPT !.pc = "writing"])
        ELSE LET p == patches[Min(bad)]
                 error == ErrorFrame(c, PatchError(conn[c].role,
                              store[o].specs, p), {PatchPath(p)})
             IN  /\ Set(c, [Received(c) EXCEPT !.out = Append(@, Text(error))])
                 /\ UNCHANGED <<store, write>>

FinishInput(c) ==
    /\ conn[c].pc = "writing"
    /\ \/ AdvanceSeq(c) /\ UNCHANGED conn
       \/ SendDelta(c, [conn EXCEPT ![c].pc = "loop"]) /\ UNCHANGED store
    /\ UNCHANGED <<registryVars, phase, request, response, tokens>>

Reply(c, frame) == Set(c, [Received(c) EXCEPT !.out = Append(@, Text(frame))])

Ends(c, frames) == Set(c, [Closing(c, frames) EXCEPT !.in = Tail(@)])

HandleText(c) ==
    /\ conn[c].pc = "loop"
    /\ conn[c].in # <<>>
    /\ LET frame == Head(conn[c].in)
           kind == DecodeClient(frame)
           Error(code) == ErrorFrame(c, code, {})
       IN  IF kind = "input"
           THEN HandleInput(c, frame.f["patches"].e)
           ELSE /\ CASE kind = "invalid" ->
                          \* the first object-valued patch, if any, is named
                          LET objects == SelectSeq(frame.f["patches"].e,
                                            LAMBDA p : IsObject(PatchValue(p)))
                              first == {PatchPath(objects[i]) :
                                           i \in {1} \cap DOMAIN objects}
                          IN  Reply(c, ErrorFrame(c, "INVALID_VALUE", first))
                     [] kind = "json" ->
                          Ends(c, <<Text(Error("INVALID_VALUE"))>>)
                     [] kind \in {"envelope", "subscribe"} ->
                          Ends(c, <<Text(Error("INTERNAL"))>>)
                     [] kind = "ping" -> Reply(c, Frame("pong", NoFields))
                     [] kind = "unsubscribe" -> Ends(c, <<>>)
                /\ UNCHANGED <<store, write>>
    /\ UNCHANGED <<registryVars, phase, request, response, tokens>>

(***************************************************************************)
(* A swap takes a number of the old scene for scene_changed, and goes on   *)
(* to the snapshot of the new one; what the old receiver still gets is of  *)
(* no use.  An id that is gone by now is skipped.                          *)
(***************************************************************************)
HandleEvent(c) ==
    /\ conn[c].pc = "loop"
    /\ conn[c].in = <<>>
    /\ conn[c].heard < Len(events)
    /\ LET heard == [conn[c] EXCEPT !.heard = @ + 1]
           new == scenes[events[heard.heard]]
           old == conn[c].scene
           seq == store[old].seq + 1
       IN  IF new = 0
           THEN Set(c, heard) /\ UNCHANGED store
           ELSE /\ store' = [store EXCEPT ![old].seq = seq]
                /\ Set(c, [heard EXCEPT !.pc = "number", !.scene = new,
                       !.feed = FALSE, !.deltas = <<>>,
                       !.out = Append(@,
                           Text(SceneChangedFrame(seq, store[new])))])
    /\ UNCHANGED <<registryVars, phase, request, response, tokens, write>>

\* new_scene.subscribe(), after the snapshot of a swap
Resubscribe(c) ==
    /\ conn[c].pc = "receive"
    /\ Set(c, [conn[c] EXCEPT !.pc = "loop", !.feed = TRUE])
    /\ UNCHANGED Rest

HandleDelta(c) ==
    /\ conn[c].pc = "loop"
    /\ conn[c].in = <<>> /\ conn[c].heard = Len(events)
    /\ conn[c].deltas # <<>>
    /\ Set(c, [conn[c] EXCEPT !.deltas = Tail(@),
                              !.out = Append(@, Head(conn[c].deltas))])
    /\ UNCHANGED Rest

(***************************************************************************)
(* The peer is gone: the handler notices when it reads or sends, which it  *)
(* does not between the steps of a write.                                  *)
(***************************************************************************)
PeerGone(c) ==
    /\ conn[c].pc \notin {"none", "closed", "writing"}
    /\ ~ conn[c].up
    /\ Set(c, NoConn)
    /\ UNCHANGED Rest

HandlerStep(c) ==
    \/ RecvSubscribe(c) \/ Authenticate(c) \/ ResolveId(c) \/ FindScene(c)
    \/ CheckRejection(c) \/ Attach(c) \/ ReadSeq(c) \/ SendSnapshot(c)
    \/ HandleText(c) \/ FinishInput(c)
    \/ HandleEvent(c) \/ Resubscribe(c) \/ HandleDelta(c)

\* the handler has nothing to do but wait for its peer
Waiting(c) ==
    \/ conn[c].pc \in {"none", "closed"}
    \/ conn[c].pc = "subscribe" /\ conn[c].in = <<>>
    \/ /\ conn[c].pc = "loop" /\ conn[c].in = <<>>
       /\ conn[c].heard = Len(events) /\ conn[c].deltas = <<>>
=============================================================================
