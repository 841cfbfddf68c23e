----------------------------- MODULE InputGate ------------------------------
(***************************************************************************)
(* The way an operator's input takes from the socket to the leaves of a    *)
(* scene (ws_handler.rs, handle_text_frame and handle_input; role.rs;      *)
(* input.rs; scene.rs, check_input_patch): role, rate limit, then patch by *)
(* patch the role's paths and the scene's declared inputs.  Each patch     *)
(* takes the lock of the declarations anew, so these may change between    *)
(* two patches of a frame and between the checks and the write.            *)
(*                                                                         *)
(* A path is the sequence of its segments.  A JSON value is its kind and a *)
(* number, which is the value of a number and the length of a string (one  *)
(* string of each length is enough).  Optional constraints are sets of at  *)
(* most one element.  Frames are decoded before they are handled: empty    *)
(* frames and object values do not get past the decoder, so that the same  *)
(* checks of handle_input never fail.  A ping is answered and changes      *)
(* nothing.  How a write is numbered and sent is the subject of Scene.     *)
(***************************************************************************)
EXTENDS Integers, Sequences, FiniteSets

CONSTANTS
    Connections,
    Identities,    \* what tokens stand for: a role and a set of path prefixes
    Paths,
    Values,
    Inputs,        \* the patch sequences of well-formed input frames
    Declarations,  \* the sets of operator inputs a scene may declare
    Limit,         \* input_rate_per_sec, 60 in the code, 0 for no limit
    Window,        \* clock ticks in a second
    MaxTime,       \* bound on the clock
    MaxFrames,     \* bound on the input frames
    MaxDeclares    \* bound on the declarations

Roles == {"viewer", "operator", "service", "test"}

Kinds == {"null", "boolean", "number", "string", "array"}

ASSUME GateAssumption ==
    /\ Identities \subseteq [role : Roles, paths : SUBSET Seq(STRING)]
    /\ Paths \subseteq Seq(STRING)
    /\ Values \subseteq [kind : Kinds, n : Int]
    /\ Inputs \subseteq Seq([path : Paths, value : Values]) \ {<<>>}
    /\ Limit \in Nat
    /\ Window \in Nat \ {0}
    /\ MaxTime \in Nat
    /\ MaxFrames \in Nat
    /\ MaxDeclares \in Nat

VARIABLES
    now,       \* Instant::now()
    strict,    \* declared_inputs is Some
    specs,     \* and its map from paths to specs
    declares,  \* declarations made so far
    store,     \* per path the last write: what, by whom, as which frame
    phase,     \* where each connection is
    who,       \* its identity
    used,      \* RateBucket.used
    start,     \* RateBucket.window_start
    frame,     \* the patches of the frame being handled
    pos,       \* the patch to be checked next
    arrived,   \* history: declarations made when the frame came
    admitted,  \* history: when this connection's inputs passed the limit
    answer,    \* the last answer to an input frame
    answered,  \* history: number of input frames answered
    refused    \* history: the ones answered with an error

sceneVars == <<strict, specs, declares, store>>
bucketVars == <<used, start, admitted>>
frameVars == <<frame, pos, arrived>>
answerVars == <<answer, answered, refused>>
vars == <<now, sceneVars, phase, who, bucketVars, frameVars, answerVars>>

NoWrite == [by |-> "none"]

Codes ==
    {"RATE_LIMIT", "WRITE_FORBIDDEN", "UNKNOWN_PATH", "INVALID_VALUE"}

Init ==
    /\ now = 0
    /\ strict = FALSE
    /\ specs = <<>>
    /\ declares = 0
    /\ store = [p \in Paths |-> NoWrite]
    /\ phase = [h \in Connections |-> "closed"]
    /\ who \in [Connections -> Identities]
    /\ used = [h \in Connections |-> 0]
    /\ start = [h \in Connections |-> 0]
    /\ frame = [h \in Connections |-> <<>>]
    /\ pos = [h \in Connections |-> 1]
    /\ arrived = [h \in Connections |-> 0]
    /\ admitted = [h \in Connections |-> <<>>]
    /\ answer = [h \in Connections |-> "none"]
    /\ answered = [h \in Connections |-> 0]
    /\ refused = [h \in Connections |-> {}]

-----------------------------------------------------------------------------
(* Checks without state                                                    *)

(***************************************************************************)
(* LeafPath::starts_with_prefix: whole segments count.                     *)
(***************************************************************************)
StartsWithPrefix(path, prefix) ==
    Len(prefix) <= Len(path) /\ SubSeq(path, 1, Len(prefix)) = prefix

(***************************************************************************)
(* Role::can_input and Role::can_write.  An empty scope is no scope.       *)
(***************************************************************************)
CanInput(id) == id.role # "viewer"

InScope(id, path) ==
    id.paths = {} \/ \E prefix \in id.paths : StartsWithPrefix(path, prefix)

\* mutant: a service's scope replaces the namespace instead of narrowing it
CanWriteScopeOnly(id, path) ==
    CASE id.role = "viewer"   -> FALSE
      [] id.role = "operator" -> StartsWithPrefix(path, <<"__inputs">>)
      [] id.role = "service"  -> InScope(id, path)
      [] id.role = "test"     -> StartsWithPrefix(path, <<"__test">>)

CanWrite(id, path) ==
    CASE id.role = "viewer"   -> FALSE
      [] id.role = "operator" -> StartsWithPrefix(path, <<"__inputs">>)
      [] id.role = "service"  -> /\ StartsWithPrefix(path, <<"__inputs">>)
                                 /\ InScope(id, path)
      [] id.role = "test"     -> StartsWithPrefix(path, <<"__test">>)

(***************************************************************************)
(* check_type and check_constraint.  An untyped input takes any value;     *)
(* colours, dates, times and references only have to be strings.           *)
(***************************************************************************)
CheckType(type, value) ==
    value.kind = IF type \in {"number", "boolean"} THEN type ELSE "string"

CheckConstraint(spec, value) ==
    \A type \in spec.type :
        /\ CheckType(type, value)
        /\ type = "string" => \A m \in spec.max_length : value.n <= m
        /\ type = "number" => /\ \A m \in spec.min : value.n >= m
                              /\ \A m \in spec.max : value.n <= m
        /\ type = "enum" => spec.values = {} \/ value \in spec.values

(***************************************************************************)
(* RateBucket::allow: a window of one second that starts with the first    *)
(* input after the last one has passed.                                    *)
(***************************************************************************)
Expired(h) == now - start[h] >= Window

\* mutant: one input too many
AllowedOneMore(h) == Limit = 0 \/ Expired(h) \/ used[h] <= Limit

Allowed(h) == Limit = 0 \/ Expired(h) \/ used[h] < Limit

\* mutant: the count starts anew but the window does not
TakeOld(h) ==
    /\ used' = [used EXCEPT ![h] = IF Expired(h) THEN 1 ELSE @ + 1]
    /\ start' = start
    /\ admitted' = [admitted EXCEPT ![h] = Append(@, now)]

Take(h) ==
    /\ IF Limit = 0
         THEN UNCHANGED <<used, start>>
         ELSE /\ used' = [used EXCEPT ![h] = IF Expired(h) THEN 1 ELSE @ + 1]
              /\ start' = [start EXCEPT ![h] = IF Expired(h) THEN now ELSE @]
    /\ admitted' = [admitted EXCEPT ![h] = Append(@, now)]

-----------------------------------------------------------------------------
(* The connection                                                          *)

(***************************************************************************)
(* A connection that has authenticated; its bucket is new.                 *)
(***************************************************************************)
Open(h) ==
    /\ phase[h] = "closed"
    /\ phase' = [phase EXCEPT ![h] = "ready"]
    /\ \E id \in Identities : who' = [who EXCEPT ![h] = id]
    /\ used' = [used EXCEPT ![h] = 0]
    /\ start' = [start EXCEPT ![h] = now]
    /\ admitted' = [admitted EXCEPT ![h] = <<>>]
    /\ UNCHANGED <<now, sceneVars, frameVars, answerVars>>

(***************************************************************************)
(* Malformed text (a path that does not parse included), a second          *)
(* subscribe, an unsubscribe, a binary message or the peer's close.        *)
(***************************************************************************)
Stop(h) ==
    /\ phase[h] = "ready"
    /\ phase' = [phase EXCEPT ![h] = "closed"]
    /\ used' = [used EXCEPT ![h] = 0]
    /\ start' = [start EXCEPT ![h] = 0]
    /\ admitted' = [admitted EXCEPT ![h] = <<>>]
    /\ answer' = [answer EXCEPT ![h] = "none"]
    /\ UNCHANGED <<now, sceneVars, who, frameVars, answered, refused>>

Arrives(h) ==
    /\ phase[h] = "ready"
    /\ answered[h] < MaxFrames

Answer(h, code) ==
    /\ answer' = [answer EXCEPT ![h] = code]
    /\ answered' = [answered EXCEPT ![h] = @ + 1]
    /\ refused' = [refused EXCEPT ![h] =
           IF code = "delta" THEN @ ELSE @ \cup {answered[h] + 1}]

(***************************************************************************)
(* handle_text_frame: an empty frame or an object value is answered by     *)
(* the decoder; the bucket is not asked.                                   *)
(***************************************************************************)
RefuseShape(h) ==
    /\ Arrives(h)
    /\ Answer(h, "INVALID_VALUE")
    /\ UNCHANGED <<now, sceneVars, phase, who, bucketVars, frameVars>>

RefuseRole(h) ==
    /\ Arrives(h)
    /\ ~ CanInput(who[h])
    /\ Answer(h, "WRITE_FORBIDDEN")
    /\ UNCHANGED <<now, sceneVars, phase, who, bucketVars, frameVars>>

\* mutant: a refused input starts the window anew
RefuseRateExtends(h) ==
    /\ Arrives(h)
    /\ CanInput(who[h])
    /\ ~ Allowed(h)
    /\ start' = [start EXCEPT ![h] = now]
    /\ Answer(h, "RATE_LIMIT")
    /\ UNCHANGED <<now, sceneVars, phase, who, used, admitted, frameVars>>

RefuseRate(h) ==
    /\ Arrives(h)
    /\ CanInput(who[h])
    /\ ~ Allowed(h)
    /\ Answer(h, "RATE_LIMIT")
    /\ UNCHANGED <<now, sceneVars, phase, who, bucketVars, frameVars>>

Admit(h, patches) ==
    /\ Arrives(h)
    /\ CanInput(who[h])
    /\ Allowed(h)
    /\ Take(h)
    /\ phase' = [phase EXCEPT ![h] = "checking"]
    /\ frame' = [frame EXCEPT ![h] = patches]
    /\ pos' = [pos EXCEPT ![h] = 1]
    /\ arrived' = [arrived EXCEPT ![h] = declares]
    /\ UNCHANGED <<now, sceneVars, who, answerVars>>

(***************************************************************************)
(* The loop over the patches: can_write, then check_input_patch.           *)
(***************************************************************************)
Patch(h) == frame[h][pos[h]]

Declared(patch) == strict => patch.path \in DOMAIN specs

Fits(patch) == strict => CheckConstraint(specs[patch.path], patch.value)

Verdict(h) ==
    CASE ~ CanWrite(who[h], Patch(h).path) -> "WRITE_FORBIDDEN"
      [] CanWrite(who[h], Patch(h).path) /\ ~ Declared(Patch(h)) ->
            "UNKNOWN_PATH"
      [] OTHER -> IF Fits(Patch(h)) THEN "ok" ELSE "INVALID_VALUE"

Ready(h) ==
    /\ phase' = [phase EXCEPT ![h] = "ready"]
    /\ frame' = [frame EXCEPT ![h] = <<>>]
    /\ pos' = [pos EXCEPT ![h] = 1]
    /\ arrived' = [arrived EXCEPT ![h] = 0]

RefusePatch(h) ==
    /\ phase[h] = "checking"
    /\ Verdict(h) # "ok"
    /\ Answer(h, Verdict(h))
    /\ Ready(h)
    /\ UNCHANGED <<now, sceneVars, who, bucketVars>>

Written(h, i) ==
    [by |-> h, as |-> who[h], frame |-> answered[h] + 1,
     seen |-> arrived[h], value |-> frame[h][i].value]

\* mutants: a patch is written as soon as it has passed; the patches after
\* the first are not checked
PassPatchAtOnce(h) ==
    /\ phase[h] = "checking"
    /\ Verdict(h) = "ok"
    /\ store' = [store EXCEPT ![Patch(h).path] = Written(h, pos[h])]
    /\ IF pos[h] < Len(frame[h])
         THEN pos' = [pos EXCEPT ![h] = @ + 1] /\ phase' = phase
         ELSE phase' = [phase EXCEPT ![h] = "writing"] /\ pos' = pos
    /\ UNCHANGED <<now, strict, specs, declares, who, bucketVars, frame,
                   arrived, answerVars>>

PassPatchFirst(h) ==
    /\ phase[h] = "checking"
    /\ Verdict(h) = "ok"
    /\ phase' = [phase EXCEPT ![h] = "writing"]
    /\ UNCHANGED <<now, sceneVars, who, bucketVars, frameVars, answerVars>>

PassPatch(h) ==
    /\ phase[h] = "checking"
    /\ Verdict(h) = "ok"
    /\ IF pos[h] < Len(frame[h])
         THEN pos' = [pos EXCEPT ![h] = @ + 1] /\ phase' = phase
         ELSE phase' = [phase EXCEPT ![h] = "writing"] /\ pos' = pos
    /\ UNCHANGED <<now, sceneVars, who, bucketVars, frame, arrived, answerVars>>

(***************************************************************************)
(* emit_with_cause: one write of all patches, the last one wins a path.    *)
(***************************************************************************)
LastFor(h, p) ==
    CHOOSE i \in 1 .. Len(frame[h]) :
        /\ frame[h][i].path = p
        /\ \A j \in i + 1 .. Len(frame[h]) : frame[h][j].path # p

Write(h) ==
    /\ phase[h] = "writing"
    /\ store' = [p \in Paths |->
           IF \E i \in 1 .. Len(frame[h]) : frame[h][i].path = p
             THEN Written(h, LastFor(h, p))
             ELSE store[p]]
    /\ Answer(h, "delta")
    /\ Ready(h)
    /\ UNCHANGED <<now, strict, specs, declares, who, bucketVars>>

-----------------------------------------------------------------------------
(* Around it                                                               *)

(***************************************************************************)
(* with_operator_inputs, through any handle to the scene.                  *)
(***************************************************************************)
Declare(d) ==
    /\ declares < MaxDeclares
    /\ declares' = declares + 1
    /\ strict' = TRUE
    /\ specs' = d
    /\ UNCHANGED <<now, store, phase, who, bucketVars, frameVars, answerVars>>

Tick ==
    /\ now < MaxTime
    /\ now' = now + 1
    /\ UNCHANGED <<sceneVars, phase, who, bucketVars, frameVars, answerVars>>

Handle(h) == RefusePatch(h) \/ PassPatch(h) \/ Write(h)

Next ==
    \/ \E h \in Connections :
         \/ Open(h)
         \/ Stop(h)
         \/ RefuseShape(h)
         \/ RefuseRole(h)
         \/ RefuseRate(h)
         \/ \E patches \in Inputs : Admit(h, patches)
         \/ Handle(h)
    \/ \E d \in Declarations : Declare(d)
    \/ Tick

Spec == Init /\ [][Next]_vars

-----------------------------------------------------------------------------
(***************************************************************************)
(* Types.                                                                  *)
(***************************************************************************)
TypeOK ==
    /\ now \in 0 .. MaxTime
    /\ strict \in BOOLEAN
    /\ specs \in Declarations \cup {<<>>}
    /\ declares \in 0 .. MaxDeclares
    /\ \A p \in Paths : store[p] = NoWrite \/ store[p].by \in Connections
    /\ phase \in [Connections -> {"closed", "ready", "checking", "writing"}]
    /\ who \in [Connections -> Identities]
    /\ used \in [Connections -> 0 .. Limit]
    /\ start \in [Connections -> 0 .. now]
    /\ frame \in [Connections -> Inputs \cup {<<>>}]
    /\ pos \in [Connections -> Nat \ {0}]
    /\ arrived \in [Connections -> 0 .. declares]
    /\ admitted \in [Connections -> Seq(0 .. now)]
    /\ refused \in [Connections -> SUBSET Nat]
    /\ \A h \in Connections : refused[h] \subseteq 1 .. answered[h]
    /\ answer \in [Connections -> Codes \cup {"delta", "none"}]
    /\ answered \in [Connections -> 0 .. MaxFrames]

Writes == {store[p] : p \in Paths} \ {NoWrite}

(***************************************************************************)
(* "Atomic validation: if any patch is illegal, reject the whole frame":   *)
(* an input frame that was answered with an error, or is not answered yet, *)
(* has left nothing in the store, wherever in it the illegal patch was.    *)
(***************************************************************************)
RefusedLeavesNoTrace ==
    \A w \in Writes :
        w.frame <= answered[w.by] /\ w.frame \notin refused[w.by]

(***************************************************************************)
(* "Can write __inputs.*, optionally scoped": whatever a connection's      *)
(* frames mix, no leaf was written by a role it is not meant for, and      *)
(* never by a viewer.  Said of namespaces, not of the order of the checks. *)
(***************************************************************************)
Namespace(role) == IF role = "test" THEN "__test" ELSE "__inputs"

NamespacesHold ==
    \A p \in Paths : store[p] # NoWrite =>
        LET id == store[p].as IN
        /\ id.role # "viewer"
        /\ p[1] = Namespace(id.role)
        /\ id.role = "service" /\ id.paths # {} =>
             \E q \in id.paths : Len(q) <= Len(p) /\ \A i \in 1 .. Len(q) : p[i] = q[i]

(***************************************************************************)
(* "Subsequent input frames whose patch path isn't in specs yield an       *)
(* UNKNOWN_PATH": a leaf written by a frame that came after the current    *)
(* declaration is declared and satisfies its spec, although every patch is *)
(* judged at another moment.                                               *)
(***************************************************************************)
DeclarationsHold ==
    \A p \in Paths :
        strict /\ store[p] # NoWrite /\ store[p].seen = declares =>
            p \in DOMAIN specs /\ CheckConstraint(specs[p], store[p].value)

(***************************************************************************)
(* The limit of inputs per second.  A window starts with an input, so that *)
(* two windows can meet within a second: no second sees more than twice    *)
(* the limit.                                                              *)
(***************************************************************************)
TwiceTheLimit ==
    Limit > 0 =>
        \A h \in Connections : \A i \in 1 .. Len(admitted[h]) - 2 * Limit :
            admitted[h][i + 2 * Limit] - admitted[h][i] >= Window

(***************************************************************************)
(* An input is refused for its rate only if the limit was used up within   *)
(* the last second.                                                        *)
(***************************************************************************)
Recent(h) == {i \in 1 .. Len(admitted[h]) : now - admitted[h][i] < Window}

RefusalIsEarned ==
    [][\A h \in Connections :
         answered'[h] # answered[h] /\ answer'[h] = "RATE_LIMIT" =>
             Cardinality(Recent(h)) >= Limit]_vars
=============================================================================
