------------------------------ MODULE Bundles -------------------------------
(***************************************************************************)
(* The checks of LSML bundles (lumencast-protocol/bundle.rs).  A layout is *)
(* a JSON value whose nodes have children and templates.  The text of an   *)
(* error is left out: a check holds or it does not.                        *)
(***************************************************************************)
EXTENDS Values, SequencesExt, FiniteSetsExt

CONSTANTS
    PathSegments,  \* leaf path -> its segments
    Spelling,      \* device reference -> the classes of its characters
    Majors,        \* lsml version -> its major number, if it has one
    MaxNodes       \* bound on the nodes of a layout

ASSUME BundlesAssumption == MaxNodes \in Nat

PrimitiveKinds ==
    {"stack", "grid", "frame", "text", "image", "shape", "media", "repeat"}

CaptureKind == "x-zab.capture"

VisualKinds ==
    {"media.webcam", "media.screen", "media.window", "media.file",
     "media.game"}

AudioKinds == {"media.app_audio", "media.system_audio", "media.mic"}

Animatable == {"transition", "transform", "opacity", "filter"}

StringIn(node, key, set) == HasString(node, key) /\ StringAt(node, key) \in set

(***************************************************************************)
(* ^[a-z][a-z0-9-]{0,63}$                                                  *)
(***************************************************************************)
IsLogicalDeviceRef(s) ==
    LET chars == Spelling[s] IN
    /\ Len(chars) \in 1 .. 64
    /\ chars[1] = "lower"
    /\ \A i \in DOMAIN chars : chars[i] \in {"lower", "digit", "dash"}

CheckZabCapture(node) ==
    /\ StringIn(node, "x-zab.sourceKind", VisualKinds \cup AudioKinds)
    /\ HasString(node, "x-zab.deviceRef")
    /\ IsLogicalDeviceRef(StringAt(node, "x-zab.deviceRef"))
    /\ StringIn(node, "x-zab.sourceKind", VisualKinds) => Has(node, "size")

CheckPerKind(node) ==
    LET kind == StringAt(node, "kind") IN
    /\ kind = "image" => Has(node, "alt")
    /\ kind = "stack" =>
          StringIn(node, "direction", {"horizontal", "vertical"})
    /\ kind = "grid" => Has(node, "columns")
    /\ kind = "shape" =>
          \/ StringIn(node, "geometry", {"rect", "circle"})
          \/ StringIn(node, "geometry", {"path"}) /\ Has(node, "pathData")
    /\ kind = "media" => StringIn(node, "kind_hint", {"video", "audio"})
    /\ kind = "repeat" => Has(node, "scope") /\ Has(node, "template")

IsCapture(node) == StringIn(node, "kind", {CaptureKind})

CheckNode(node) ==
    /\ StringIn(node, "kind", PrimitiveKinds \cup {CaptureKind})
    /\ IsCapture(node) => CheckZabCapture(node)
    /\ HasObject(node, "animate") =>
          DOMAIN node.f["animate"].f \subseteq Animatable
    /\ CheckPerKind(node)

-----------------------------------------------------------------------------
(* The two walks over a layout differ in what they check at a node         *)

Elements(v, key) == IF HasArray(v, key) THEN v.f[key].e ELSE <<>>

\* mutant: the templates of repeat nodes are not looked at
BelowNoTemplate(node) == Elements(node, "children")

Below(node) ==
    Elements(node, "children")
    \o (IF Has(node, "template") THEN <<node.f["template"]>> ELSE <<>>)

(***************************************************************************)
(* One turn of the loop: the last node is popped, what is below it pushed. *)
(* Nothing is below a value that is no object.                             *)
(***************************************************************************)
Turn(stack) ==
    IF stack = <<>> THEN <<>> ELSE Front(stack) \o Below(Last(stack))

\* the stack after n turns
Stacks(root) ==
    LET stack[n \in Nat] == IF n = 0 THEN <<root>> ELSE Turn(stack[n - 1])
    IN  stack

Popped(root) ==
    {Last(Stacks(root)[n]) : n \in {n \in 0 .. MaxNodes : Stacks(root)[n] # <<>>}}

CheckLayoutInvariants(root) ==
    \A node \in Popped(root) : IsObject(node) => CheckNode(node)

CheckZabCaptureNodes(root) ==
    \A node \in Popped(root) : IsCapture(node) => CheckZabCapture(node)

\* children are arrays, and the loop ends within the bound
WalkEnds(root) ==
    /\ \A node \in Popped(root) :
          LET children == Elements(node, "children") IN
          children \in Seq(Range(children))
    /\ Stacks(root)[MaxNodes] = <<>>

(***************************************************************************)
(* Bundle::parse: the fields without a default are there, those that are   *)
(* there have their type (assets, i18n and metadata have any; of an input  *)
(* only the fields without a default are looked at), and validate holds.   *)
(***************************************************************************)
Strings(v, keys) == \A key \in keys : HasString(v, key)

Deserializes(bundle) ==
    /\ Strings(bundle, {"lsml", "scene_id", "scene_version"})
    /\ Has(bundle, "layout")
    /\ Has(bundle, "defaults") => HasObject(bundle, "defaults")
    /\ \A key \in {"operator_inputs", "external_adapters"} :
          Has(bundle, key) => HasArray(bundle, key)
    /\ LET inputs == Elements(bundle, "operator_inputs") IN
       \A i \in DOMAIN inputs : Strings(inputs[i], {"path", "label", "type"})

Validate(bundle) ==
    LET inputs == Elements(bundle, "operator_inputs")
        version == StringAt(bundle, "lsml")
    IN  /\ Deserializes(bundle)
        /\ version \in DOMAIN Majors /\ Majors[version] = 1
        /\ StringAt(bundle, "scene_id") # ""
        /\ \A i \in DOMAIN inputs :
              PathSegments[StringAt(inputs[i], "path")][1] = "__inputs"
        /\ CheckLayoutInvariants(bundle.f["layout"])

-----------------------------------------------------------------------------
(***************************************************************************)
(* The reference: the nodes of a layout, generation by generation.         *)
(***************************************************************************)
Offspring(node) ==
    Range(Elements(node, "children"))
    \cup {node.f[k] : k \in {k \in {"template"} : Has(node, k)}}

Generations(root) ==
    LET generation[n \in Nat] ==
            IF n = 0 THEN {root}
            ELSE UNION {Offspring(node) : node \in generation[n - 1]}
    IN  generation

Nodes(root) == UNION {Generations(root)[n] : n \in 0 .. MaxNodes}
=============================================================================
