----------------------------- MODULE MCAdapters -----------------------------
(* Instances of Adapters for TLC.                                          *)
EXTENDS AdapterDocuments, TLC

Segments ==
    ("feed" :> "identifier") @@ ("a" :> "identifier") @@ ("b" :> "identifier")
    @@ ("0" :> "index") @@ ("a b" :> "other") @@ ("" :> "empty")

(* A scalar; a nested object; a key with a dot that collides with it; one   *)
(* good and one bad key; an object without leaves.                         *)
Documents1 ==
    { Num(1),
      Obj(<<"a">> :> Obj(<<"b">> :> Num(1)) @@ <<"0">> :> Arr(<<NoObject>>)),
      Obj(<<"a">> :> Obj(<<"b">> :> Num(1)) @@ <<"a", "b">> :> Num(2)),
      Obj(<<"a">> :> Num(1) @@ <<"a b">> :> Num(1)),
      Obj(<<"a">> :> NoObject) }

HashSet == {}
Prefix == <<"feed">>
Flattening == [document \in Documents1 |-> Flatten(Prefix, document)]
=============================================================================
