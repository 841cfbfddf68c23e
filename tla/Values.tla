------------------------------- MODULE Values -------------------------------
(***************************************************************************)
(* JSON values as the adapters, the test control plane and the conformance *)
(* player handle them, and leaf paths (lumencast-protocol/leaf_path.rs).   *)
(*                                                                         *)
(* A string is an atom: placeholders are whole strings, never parts of     *)
(* one.  What goes through a value recursively is in module Documents.     *)
(***************************************************************************)
EXTENDS Integers, Sequences

CONSTANT SegmentKind  \* segment -> its form, as validate tells them apart

Str(s) == [tag |-> "string", s |-> s]
Num(n) == [tag |-> "number", n |-> n]
Arr(e) == [tag |-> "array", e |-> e]
Obj(f) == [tag |-> "object", f |-> f]

IsString(v) == v.tag = "string"
IsObject(v) == v.tag = "object"
Has(v, key) == IsObject(v) /\ key \in DOMAIN v.f
HasString(v, key) == Has(v, key) /\ IsString(v.f[key])
HasObject(v, key) == Has(v, key) /\ IsObject(v.f[key])
HasArray(v, key) == Has(v, key) /\ v.f[key].tag = "array"
StringAt(v, key) == v.f[key].s
HasType(v, type) == HasString(v, "type") /\ StringAt(v, "type") = type

NoFields == [k \in {} |-> 0]
NoObject == Obj(NoFields)

(***************************************************************************)
(* The fields of f, and those of g that f does not have (f @@ g, which is  *)
(* built into TLC and opaque to the proofs).                               *)
(***************************************************************************)
Over(f, g) ==
    [k \in DOMAIN f \cup DOMAIN g |-> IF k \in DOMAIN f THEN f[k] ELSE g[k]]

-----------------------------------------------------------------------------
(* Leaf paths                                                              *)

Identifiers == {"identifier", "reserved", "reserved_odd"}

(***************************************************************************)
(* The first segment may be a reserved name, "__" before an identifier;    *)
(* elsewhere the underscores are letters like any other, and what follows  *)
(* them does not matter.                                                   *)
(***************************************************************************)
ValidSegment(i, segment) ==
    LET kind == SegmentKind[segment] IN
    \/ kind = "scope"
    \/ kind \in {"identifier", "index", "reserved"}
    \/ i > 1 /\ kind \in Identifiers

ValidPath(path) ==
    /\ path # <<>>
    /\ \A i \in DOMAIN path : ValidSegment(i, path[i])
=============================================================================
