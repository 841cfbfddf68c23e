----------------------------- MODULE Documents -----------------------------
(***************************************************************************)
(* What goes through a JSON value recursively: the player's comparison,    *)
(* its placeholders, and the adapters' flattening.                         *)
(*                                                                         *)
(* The key of an object that is about to be flattened is the sequence of   *)
(* segments it has between its dots, the empty key is <<>>; joining keys   *)
(* by a dot is then concatenation.                                         *)
(***************************************************************************)
EXTENDS Values, SequencesExt, FiniteSetsExt

-----------------------------------------------------------------------------
(* The player's comparison of an expected and a received frame             *)

(***************************************************************************)
(* Every key of an expected object must match; the actual one may have     *)
(* more.  Hashes are the strings of Hashes.                                *)
(***************************************************************************)
CONSTANT Hashes

\* mutant: the frames must be the same
StructuralMatchEqual(expected, actual) ==
    expected = Str("$ANY") \/ expected = actual

RECURSIVE StructuralMatch(_, _)
StructuralMatch(expected, actual) ==
    CASE expected = Str("$ANY") -> TRUE
      [] expected = Str("$ANY_HASH") -> IsString(actual) /\ actual.s \in Hashes
      [] IsObject(expected) /\ IsObject(actual) ->
            \A k \in DOMAIN expected.f :
                /\ k \in DOMAIN actual.f
                /\ StructuralMatch(expected.f[k], actual.f[k])
      [] expected.tag = "array" /\ actual.tag = "array" ->
            /\ Len(expected.e) = Len(actual.e)
            /\ \A i \in DOMAIN expected.e :
                  StructuralMatch(expected.e[i], actual.e[i])
      [] OTHER -> expected = actual

(***************************************************************************)
(* Substitutions::apply: placeholders in values, never in keys.            *)
(***************************************************************************)
RECURSIVE ApplyPlaceholders(_, _)
ApplyPlaceholders(subs, v) ==
    CASE IsString(v) ->
            IF v.s \in DOMAIN subs THEN Str(subs[v.s]) ELSE v
      [] v.tag = "array" ->
            Arr([i \in DOMAIN v.e |-> ApplyPlaceholders(subs, v.e[i])])
      [] IsObject(v) ->
            Obj([k \in DOMAIN v.f |-> ApplyPlaceholders(subs, v.f[k])])
      [] OTHER -> v

-----------------------------------------------------------------------------
(* Flattening (adapters/flatten.rs)                                        *)

EmptySegment == ""

Join(path, key) ==
    IF path = <<>> THEN key
    ELSE path \o (IF key = <<>> THEN <<EmptySegment>> ELSE key)

(***************************************************************************)
(* The order of the keys of an object is left open: SetToSeq picks one.    *)
(***************************************************************************)
\* mutant: objects below the first level are dropped
FlattenShallow(prefix, value) ==
    LET keys == IF IsObject(value) THEN SetToSeq(DOMAIN value.f) ELSE <<>>
        leaves == SelectSeq(keys, LAMBDA k : ~ IsObject(value.f[k]))
    IN  [i \in DOMAIN leaves |->
            <<Join(prefix, leaves[i]), value.f[leaves[i]]>>]

RECURSIVE Flatten(_, _)
Flatten(prefix, value) ==
    IF IsObject(value)
    THEN LET keys == SetToSeq(DOMAIN value.f) IN
         FlattenSeq([i \in DOMAIN keys |->
             Flatten(Join(prefix, keys[i]), value.f[keys[i]])])
    ELSE IF prefix = <<>> THEN <<>> ELSE <<<<prefix, value>>>>

(***************************************************************************)
(* The reference: the branches of a document, each a sequence of keys.     *)
(***************************************************************************)
RECURSIVE Branches(_)
Branches(value) ==
    IF IsObject(value)
    THEN UNION {{<<<<k>> \o b[1], b[2]>> : b \in Branches(value.f[k])} :
                k \in DOMAIN value.f}
    ELSE {<<<<>>, value>>}

RECURSIVE JoinAll(_, _)
JoinAll(path, keys) ==
    IF keys = <<>> THEN path
    ELSE JoinAll(Join(path, Head(keys)), Tail(keys))
=============================================================================
