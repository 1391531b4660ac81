----------------------------- MODULE FxImporter -----------------------------
(****************************************************************************)
(* The TorchDynamo backend: Importer makes one function out of the graph of *)
(* an FX module, node by node, and Lowering runs the passes over it.  FX,   *)
(* its graphs and the MLIR bindings are external: a graph is what Dynamo    *)
(* hands over, and an operation given None for an operand raises.           *)
(****************************************************************************)
EXTENDS Integers, FiniteSets, SequencesExt

CONSTANTS
  Graphs,   \* the graphs considered: [nodes, inputs]
  None      \* Python's

(* A node has an op, a name, a target (of a call) and args, the names of    *)
(* other nodes or the text of constants; those of an output are the values  *)
(* the graph returns.  An input is known by its shape.                      *)
PlaceholdersUpTo(nodes, last) == {i \in 1 .. last : nodes[i].op = "placeholder"}

(* The nodes there is code for.                                             *)
Supported(node) ==
  node.op = "placeholder" \/ (node.op = "call_function" /\ node.target \in {"add", "matmul"})

(* Names are distinct, a node uses the nodes before it and constants, the   *)
(* inputs are those of the placeholders, and the output comes last.  A sum  *)
(* and a product have two operands, and what comes first of the values      *)
(* returned is a node's.                                                    *)
ASSUME GraphAssumption ==
  \A g \in Graphs :
    /\ g.nodes \in Seq(ToSet(g.nodes)) /\ g.nodes # <<>> /\ g.inputs \in Seq(Seq(Nat))
    /\ Len(g.inputs) = Cardinality(PlaceholdersUpTo(g.nodes, Len(g.nodes)))
    /\ \A i, j \in DOMAIN g.nodes :
         /\ g.nodes[i].name = g.nodes[j].name => i = j
         /\ g.nodes[j].name \in ToSet(g.nodes[i].args) => j < i
         /\ g.nodes[i].op = "output" <=> i = Len(g.nodes)
    /\ \A node \in ToSet(g.nodes) :
         /\ node.args \in Seq(ToSet(node.args))
         /\ node.op = "call_function" /\ Supported(node) => Len(node.args) = 2
         /\ node.op = "output" /\ node.args # <<>> =>
              \E other \in ToSet(g.nodes) : other.name = node.args[1]
(* None is no value of the function being built.                            *)
ASSUME NoneAssumption == None \notin [kind : {"argument", "result"}, at : Nat]

VARIABLES
  graph,
  pc,           \* importing, bufferizing, lowering, returned, raised
  visited,      \* nodes that CodeGen has been called on
  argsList,     \* arguments of generated_func not bound yet
  symbolTable,
  ops,          \* the body of generated_func: [kind, operands, shape]
  ret           \* what generated_func returns

codeVars == <<argsList, symbolTable, ops>>
vars == <<graph, pc, visited, codeVars, ret>>

(* A value is an argument of the function or the result of an operation.    *)
Argument(i) == [kind |-> "argument", at |-> i]
Result(i) == [kind |-> "result", at |-> i]
ShapeOf(value) ==
  IF value.kind = "argument" THEN graph.inputs[value.at] ELSE ops[value.at].shape

Init ==
  /\ graph \in Graphs
  /\ pc = "importing" /\ visited = 0
  /\ argsList = [i \in DOMAIN graph.inputs |-> Argument(i)]
  /\ symbolTable = <<>> /\ ops = <<>> /\ ret = None

Node == graph.nodes[visited + 1]
CodeGen(op) == pc = "importing" /\ visited < Len(graph.nodes) /\ Node.op = op
Calls(target) == CodeGen("call_function") /\ Node.target = target
Lookup(name) == IF name \in DOMAIN symbolTable THEN symbolTable[name] ELSE None
Operands == <<Lookup(Node.args[1]), Lookup(Node.args[2])>>
Bind(name, value) ==
  symbolTable' = [key \in DOMAIN symbolTable \cup {name} |->
                    IF key = name THEN value ELSE symbolTable[key]]
NextNode == visited' = visited + 1 /\ UNCHANGED <<graph, pc>>
Raise == pc' = "raised" /\ UNCHANGED <<graph, visited, codeVars, ret>>

(* The operation made for the node, which is known by its name from then on.*)
Generate(kind, shape) ==
  /\ ops' = Append(ops, [kind |-> kind, operands |-> Operands, shape |-> shape])
  /\ Bind(Node.name, Result(Len(ops) + 1))
  /\ NextNode /\ UNCHANGED <<argsList, ret>>

(* Variant: the arguments are taken from the other end.                     *)
PlaceholderPopsLast ==
  /\ CodeGen("placeholder")
  /\ Bind(Node.name, Last(argsList))
  /\ argsList' = Front(argsList)
  /\ NextNode /\ UNCHANGED <<ops, ret>>

Placeholder ==
  /\ CodeGen("placeholder")
  /\ Bind(Node.name, Head(argsList))
  /\ argsList' = Tail(argsList)
  /\ NextNode /\ UNCHANGED <<ops, ret>>

Add ==
  /\ Calls("add") /\ None \notin ToSet(Operands)
  /\ Generate("add", ShapeOf(Operands[1]))

(* Variant: the second size is the one that is summed over.                 *)
MatmulShapeInner(a, b) == <<a[1], b[1]>>

MatmulShape(a, b) == <<a[1], b[2]>>

Matmul ==
  /\ Calls("matmul") /\ None \notin ToSet(Operands)
  /\ Len(ShapeOf(Operands[1])) >= 1 /\ Len(ShapeOf(Operands[2])) >= 2
  /\ Generate("matmul", MatmulShape(ShapeOf(Operands[1]), ShapeOf(Operands[2])))

(* The bindings refuse None; a matmul asks its operands for their types and *)
(* sizes, which a vector has not, nor perhaps the operation made by an add. *)
CallRaises ==
  /\ \/ (Calls("add") \/ Calls("matmul")) /\ None \in ToSet(Operands)
     \/ /\ Calls("matmul") /\ None \notin ToSet(Operands)
        /\ \/ Len(ShapeOf(Operands[1])) < 1 \/ Len(ShapeOf(Operands[2])) < 2
           \/ \E value \in ToSet(Operands) :
                value.kind = "result" /\ ops[value.at].kind = "add"
  /\ Raise

(* Variant: a node that has no code stands for its first operand.           *)
SkipForwards ==
  /\ pc = "importing" /\ visited < Len(graph.nodes)
  /\ Node.op \notin {"placeholder", "output"}
  /\ Node.op = "call_function" => Node.target \notin {"add", "matmul"}
  /\ Bind(Node.name, Lookup(Node.args[1]))
  /\ NextNode /\ UNCHANGED <<argsList, ops, ret>>

(* Nodes of other kinds and calls of other functions leave no trace.        *)
Skip ==
  /\ pc = "importing" /\ visited < Len(graph.nodes)
  /\ Node.op \notin {"placeholder", "output"}
  /\ Node.op = "call_function" => Node.target \notin {"add", "matmul"}
  /\ NextNode /\ UNCHANGED <<codeVars, ret>>

(* Variant: the last of the values is returned, not the first.              *)
OutputLast ==
  /\ CodeGen("output") /\ Node.args # <<>>
  /\ Bind("output", Lookup(Last(Node.args)))
  /\ NextNode /\ UNCHANGED <<argsList, ops, ret>>

Output ==
  /\ CodeGen("output") /\ Node.args # <<>>
  /\ Bind("output", Lookup(Node.args[1]))
  /\ NextNode /\ UNCHANGED <<argsList, ops, ret>>

OutputRaises == CodeGen("output") /\ Node.args = <<>> /\ Raise

(* generated_func returns, and with None it is a function of no results.    *)
ReturnGenerated ==
  /\ pc = "importing" /\ visited = Len(graph.nodes)
  /\ ret' = Lookup("output")
  /\ pc' = "bufferizing"
  /\ UNCHANGED <<graph, visited, codeVars>>

-----------------------------------------------------------------------------
(* The verifier: elementwise operations have operands of one shape, and a   *)
(* matmul's sizes agree.                                                    *)
WellTyped(op) ==
  LET a == ShapeOf(op.operands[1])
      b == ShapeOf(op.operands[2])
  IN  IF op.kind = "add" THEN a = b /\ op.shape = a
      ELSE Len(a) = 2 /\ Len(b) = 2 /\ a[2] = b[1] /\ op.shape = <<a[1], b[2]>>
Verified == \A op \in ToSet(ops) : WellTyped(op)

(* Lowering runs one manager twice, the second time with the conversions    *)
(* added to the bufferizations; either run may fail, and the first does on  *)
(* a module that the verifier refuses.                                      *)
Lowering ==
  /\ \/ pc = "bufferizing" /\ Verified /\ pc' = "lowering"
     \/ pc = "lowering" /\ pc' = "returned"
  /\ UNCHANGED <<graph, visited, codeVars, ret>>

LoweringFails == pc \in {"bufferizing", "lowering"} /\ Raise

Finished == pc \in {"returned", "raised"} /\ UNCHANGED vars

Next ==
  \/ Placeholder \/ Add \/ Matmul \/ CallRaises \/ Skip \/ Output \/ OutputRaises
  \/ ReturnGenerated \/ Lowering \/ LoweringFails \/ Finished
Spec == Init /\ [][Next]_vars
-----------------------------------------------------------------------------
Values == {Argument(i) : i \in DOMAIN graph.inputs} \cup {Result(i) : i \in DOMAIN ops}

TypeOK ==
  /\ pc \in {"importing", "bufferizing", "lowering", "returned", "raised"}
  /\ visited \in 0 .. Len(graph.nodes) /\ ret \in Values \cup {None}
  /\ ToSet(argsList) \subseteq Values
  /\ \A name \in DOMAIN symbolTable :
       symbolTable[name] \in Values \/ (name = "output" /\ symbolTable[name] = None)
  /\ \A i \in DOMAIN ops : \A value \in ToSet(ops[i].operands) :
       value \in Values /\ (value.kind = "result" => value.at < i)

(* Among the placeholders, the i-th node is the Number(i)-th.               *)
Number(i) == Cardinality(PlaceholdersUpTo(graph.nodes, i))

(* While the graph is visited, a name in the table stands for what its node *)
(* does in the graph, whatever has been skipped on the way: the argument    *)
(* that is the placeholder's, or a call of the node's function on the       *)
(* values that the names of its arguments stand for.  The key of the result *)
(* shares the table with the names.                                         *)
NodeMeans(i) ==
  LET node == graph.nodes[i]
      value == symbolTable[node.name]
  IN  IF node.op = "placeholder" THEN value = Argument(Number(i))
      ELSE /\ value.kind = "result" /\ ops[value.at].kind = node.target
           /\ \A k \in 1 .. 2 : /\ node.args[k] \in DOMAIN symbolTable
                               /\ ops[value.at].operands[k] = symbolTable[node.args[k]]
NamesMeanNodes ==
  visited < Len(graph.nodes) =>
    \A i \in 1 .. visited : graph.nodes[i].name \in DOMAIN symbolTable => NodeMeans(i)

(* What a node of the graph stands for, and what the function makes of a    *)
(* value: an input, or a call of an operation on such.                      *)
NodeNamed(name) == {i \in DOMAIN graph.nodes : graph.nodes[i].name = name}
Meaning[i \in DOMAIN graph.nodes] ==
  LET node == graph.nodes[i] IN
  IF node.op = "placeholder"
  THEN <<"input", Number(i)>>
  ELSE <<node.target>> \o [k \in DOMAIN node.args |->
         IF NodeNamed(node.args[k]) = {} THEN <<"constant", node.args[k]>>
         ELSE Meaning[CHOOSE j \in NodeNamed(node.args[k]) : TRUE]]
Computed[i \in DOMAIN ops] ==
  <<ops[i].kind>> \o [k \in 1 .. 2 |->
    LET value == ops[i].operands[k]
    IN  IF value.kind = "argument" THEN <<"input", value.at>> ELSE Computed[value.at]]
Means(value, node) ==
  Meaning[node] = IF value.kind = "argument" THEN <<"input", value.at>> ELSE Computed[value.at]

(* The function returns the first of the values the graph returns, or       *)
(* nothing at all, which it does just when that value comes from a node     *)
(* CodeGen passed over: other nodes passed over either are not needed for   *)
(* the result or have made the import raise.                                *)
ReturnsFirstOutput ==
  pc \in {"bufferizing", "lowering", "returned"} =>
    LET first == CHOOSE i \in NodeNamed(Last(graph.nodes).args[1]) : TRUE
    IN  IF Supported(graph.nodes[first]) THEN ret # None /\ Means(ret, first)
        ELSE ret = None

(* The shapes in the graph, where an add has the shape of its operands, a   *)
(* matmul is of two matrices, and a constant has no sizes.                  *)
Shape[i \in DOMAIN graph.nodes] ==
  LET node == graph.nodes[i]
      Of(k) == IF k \in DOMAIN node.args /\ NodeNamed(node.args[k]) # {}
               THEN Shape[CHOOSE j \in NodeNamed(node.args[k]) : TRUE] ELSE <<>>
  IN  IF node.op = "placeholder" THEN graph.inputs[Number(i)]
      ELSE IF node.target = "matmul" THEN <<Of(1)[1], Of(2)[2]>>
      ELSE Of(1)
Fits(i) ==
  LET node == graph.nodes[i]
      Of(k) == Shape[CHOOSE j \in NodeNamed(node.args[k]) : TRUE]
  IN  node.op = "call_function" =>
        /\ \A k \in DOMAIN node.args : NodeNamed(node.args[k]) # {}
        /\ IF node.target = "matmul"
           THEN Len(Of(1)) = 2 /\ Len(Of(2)) = 2 /\ Of(1)[2] = Of(2)[1]
           ELSE Of(1) = Of(2)

(* A graph whose shapes fit gives a module that the verifier takes: the     *)
(* sizes worked out for a matmul carry over to the operations after it.     *)
ShapesCarryOver ==
  visited > 0 /\ (\A i \in 1 .. visited : Fits(i)) => Verified
=============================================================================
