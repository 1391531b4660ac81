---------------------------- MODULE MCFxImporter ----------------------------
(* Graphs of two inputs and two calls, or of a method call and a function    *)
(* call, over matrices that multiply one way or both, and a vector; with     *)
(* calls that are not imported, constants as operands, a parameter named as  *)
(* the key of the result, and none, one or two values returned.              *)
EXTENDS FxImporter

Call(name, target, args) == [op |-> "call_function", name |-> name, target |-> target, args |-> args]
Input(name) == [op |-> "placeholder", name |-> name, args |-> <<>>]
Transposed(name, of) == [op |-> "call_method", name |-> name, target |-> "t", args |-> <<of>>]
Results(args) == [op |-> "output", name |-> "results", args |-> args]

Targets == {"add", "matmul", "mul"}
First == {Call("p", target, <<a, b>>) :
            target \in Targets, a \in {"x", "output", "1.0"}, b \in {"x", "output", "1.0"}}
           \cup {Transposed("p", "x")}
Second == {Call("q", target, <<a, b>>) :
             target \in Targets, a \in {"x", "p"}, b \in {"x", "output", "p"}}
Returned == {<<"q">>, <<"p", "q">>, <<"x", "p">>, <<>>}
Shapes == {<<2, 3>>, <<3, 2>>, <<2, 2>>, <<2>>}

MCGraphs ==
  {[nodes |-> <<Input("x"), Input("output"), first, second, Results(returned)>>,
    inputs |-> <<a, b>>] :
     first \in First, second \in Second, returned \in Returned, a \in Shapes, b \in Shapes}
=============================================================================
