---------------------------- MODULE MCInputGate -----------------------------
(***************************************************************************)
(* A small instance of InputGate for TLC: an operator, a service scoped to *)
(* one input and to a path outside the inputs, a test session and a viewer *)
(* write inputs that mix allowed and forbidden paths and values.           *)
(***************************************************************************)
EXTENDS InputGate, TLC

CONSTANT h1

A == <<"__inputs", "a">>
B == <<"__inputs", "b">>
Show == <<"show">>
Mock == <<"__test", "mock">>

Number(n) == [kind |-> "number", n |-> n]
Text(n) == [kind |-> "string", n |-> n]

MCIdentities ==
    {[role |-> "operator", paths |-> {}],
     [role |-> "service", paths |-> {B, Show}],
     [role |-> "test", paths |-> {}],
     [role |-> "viewer", paths |-> {}]}

MCPaths == {A, B, Show, Mock}

MCValues == {Number(1), Number(3), Text(2)}

To(path, value) == [path |-> path, value |-> value]

MCInputs ==
    {<<To(A, Number(1)), To(B, Number(3))>>,
     <<To(B, Number(1)), To(Show, Number(1))>>,
     <<To(B, Text(2))>>,
     <<To(Mock, Number(1)), To(A, Text(2))>>,
     <<To(Mock, Number(1))>>}

NoSpec == [type |-> {}, max_length |-> {}, min |-> {}, max |-> {}, values |-> {}]

MCDeclarations ==
    {A :> [NoSpec EXCEPT !.type = {"number"}, !.min = {1}]
       @@ B :> [NoSpec EXCEPT !.type = {"number"}, !.max = {2}],
     A :> NoSpec
       @@ B :> [NoSpec EXCEPT !.type = {"string"}, !.max_length = {2}],
     B :> [NoSpec EXCEPT !.type = {"enum"}, !.values = {Text(1)}]}
=============================================================================
