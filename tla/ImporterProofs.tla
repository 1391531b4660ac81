--------------------------- MODULE ImporterProofs ---------------------------
(***************************************************************************)
(* What the importer makes of every graph: types, and the correspondence of *)
(* the names in the table with the nodes of the graph.                      *)
(***************************************************************************)
EXTENDS FxImporter, DataLemmas

AllValues == [kind : {"argument", "result"}, at : Nat]
Ops == [kind : {"add", "matmul"}, operands : AllValues \X AllValues, shape : Seq(Nat)]

(* The arguments not bound yet are those of the placeholders not met yet.   *)
Unbound(n) == [k \in 1 .. Len(graph.inputs) - Number(n) |-> Argument(Number(n) + k)]
ArgsInv == argsList = Unbound(visited)

OpsInv ==
  /\ ops \in Seq(Ops)
  /\ \A i \in DOMAIN ops : \A value \in ToSet(ops[i].operands) :
       value \in Values /\ (value.kind = "result" => value.at < i)

(* None gets into the table with the output node only, the last of all.     *)
TableInv ==
  /\ \A name \in DOMAIN symbolTable :
       \/ symbolTable[name] \in Values
       \/ name = "output" /\ visited = Len(graph.nodes) /\ symbolTable[name] = None
  /\ visited < Len(graph.nodes) =>
       \A name \in DOMAIN symbolTable : \E i \in 1 .. visited : graph.nodes[i].name = name

ControlInv ==
  /\ graph \in Graphs
  /\ pc \in {"importing", "bufferizing", "lowering", "returned", "raised"}
  /\ visited \in 0 .. Len(graph.nodes)
  /\ ret \in Values \cup {None}

ImportInv == ControlInv /\ ArgsInv /\ OpsInv /\ TableInv /\ NamesMeanNodes

-----------------------------------------------------------------------------
(* Counting the placeholders.                                               *)
LEMMA NumberTyped ==
  ASSUME graph \in Graphs, NEW n \in 0 .. Len(graph.nodes)
  PROVE  /\ IsFiniteSet(PlaceholdersUpTo(graph.nodes, n))
         /\ Number(n) \in 0 .. Len(graph.inputs) /\ Len(graph.inputs) \in Nat
<1> DEFINE all == PlaceholdersUpTo(graph.nodes, Len(graph.nodes))
<1>1. /\ Len(graph.nodes) \in Nat /\ Len(graph.inputs) \in Nat
      /\ Len(graph.inputs) = Cardinality(all)
  BY GraphAssumption, LenProperties
<1>2. IsFiniteSet(1 .. Len(graph.nodes)) BY <1>1, FS_Interval
<1>3. all \subseteq 1 .. Len(graph.nodes) BY DEF PlaceholdersUpTo
<1>4. IsFiniteSet(all) BY <1>2, <1>3, FS_Subset
<1>5. PlaceholdersUpTo(graph.nodes, n) \subseteq all BY <1>1 DEF PlaceholdersUpTo
<1> HIDE DEF all
<1>6. /\ IsFiniteSet(PlaceholdersUpTo(graph.nodes, n))
      /\ Cardinality(PlaceholdersUpTo(graph.nodes, n)) <= Cardinality(all)
  BY <1>4, <1>5, FS_Subset
<1>7. Cardinality(PlaceholdersUpTo(graph.nodes, n)) \in Nat BY <1>6, FS_CardinalityType
<1> QED BY <1>1, <1>6, <1>7 DEF Number

LEMMA NumberNext ==
  ASSUME graph \in Graphs, NEW n \in 0 .. Len(graph.nodes), n < Len(graph.nodes)
  PROVE  Number(n + 1) = IF graph.nodes[n + 1].op = "placeholder" THEN Number(n) + 1
                         ELSE Number(n)
<1> DEFINE before == PlaceholdersUpTo(graph.nodes, n)
           after == PlaceholdersUpTo(graph.nodes, n + 1)
<1>1. Len(graph.nodes) \in Nat BY GraphAssumption, LenProperties
<1>2. CASE graph.nodes[n + 1].op = "placeholder"
  <2>1. after = before \cup {n + 1} /\ n + 1 \notin before BY <1>1, <1>2 DEF PlaceholdersUpTo
  <2>2. IsFiniteSet(before) BY NumberTyped
  <2> HIDE DEF after, before
  <2>3. Cardinality(after) = Cardinality(before) + 1 BY <2>1, <2>2, FS_AddElement
  <2> QED BY <1>2, <2>3 DEF after, before, Number
<1>3. CASE graph.nodes[n + 1].op # "placeholder"
  <2>1. after = before BY <1>1, <1>3 DEF PlaceholdersUpTo
  <2> QED BY <1>3, <2>1 DEF Number
<1> QED BY <1>2, <1>3

LEMMA InitImport == Init => ImportInv
<1> SUFFICES ASSUME Init PROVE ImportInv OBVIOUS
<1>1. ControlInv
  <2>1. Len(graph.nodes) \in Nat BY GraphAssumption, LenProperties DEF Init
  <2> QED BY <2>1 DEF Init, ControlInv
<1>2. ArgsInv
  <2>1. graph \in Graphs /\ visited = 0 /\ argsList = [i \in DOMAIN graph.inputs |-> Argument(i)]
    BY DEF Init
  <2>2. PlaceholdersUpTo(graph.nodes, 0) = {} BY DEF PlaceholdersUpTo
  <2>3. Number(0) = 0 BY <2>2, FS_EmptySet DEF Number
  <2>4. Len(graph.inputs) \in Nat /\ DOMAIN graph.inputs = 1 .. Len(graph.inputs)
    BY <2>1, GraphAssumption, LenProperties
  <2> QED BY <2>1, <2>3, <2>4 DEF ArgsInv, Unbound
<1>3. OpsInv BY DEF Init, OpsInv
<1>4. TableInv BY DEF Init, TableInv
<1>5. NamesMeanNodes BY DEF Init, NamesMeanNodes
<1> QED BY <1>1, <1>2, <1>3, <1>4, <1>5 DEF ImportInv

-----------------------------------------------------------------------------
(* The table.                                                               *)
LEMMA ValueTyped ==
  ASSUME ControlInv, OpsInv, NEW value \in Values
  PROVE  value \in AllValues /\ ShapeOf(value) \in Seq(Nat)
<1>1. graph.inputs \in Seq(Seq(Nat)) BY GraphAssumption DEF ControlInv
<1>2. CASE value \in {Argument(i) : i \in DOMAIN graph.inputs}
  <2>1. PICK i \in DOMAIN graph.inputs : value = Argument(i) BY <1>2
  <2>2. i \in Nat /\ graph.inputs[i] \in Seq(Nat) BY <1>1, <2>1, ElementOfSeq, LenProperties
  <2> QED BY <2>1, <2>2 DEF Argument, ShapeOf, AllValues
<1>3. CASE value \in {Result(i) : i \in DOMAIN ops}
  <2>1. PICK i \in DOMAIN ops : value = Result(i) BY <1>3
  <2>2. i \in Nat /\ ops[i] \in Ops BY <2>1, ElementOfSeq, LenProperties DEF OpsInv
  <2> QED BY <2>1, <2>2 DEF Result, ShapeOf, AllValues, Ops
<1> QED BY <1>2, <1>3 DEF Values

(* A name that is looked up and found has a value of the function built.    *)
LEMMA LookupTyped ==
  ASSUME ImportInv, visited < Len(graph.nodes), NEW name
  PROVE  /\ Lookup(name) \in Values \cup {None}
         /\ name \in DOMAIN symbolTable => Lookup(name) = symbolTable[name]
                                         /\ symbolTable[name] \in Values
         /\ Lookup(name) # None => name \in DOMAIN symbolTable
<1>1. Len(graph.nodes) \in Nat BY GraphAssumption, LenProperties DEF ImportInv, ControlInv
<1>2. name \in DOMAIN symbolTable => symbolTable[name] \in Values
  BY <1>1 DEF ImportInv, TableInv
<1> QED BY <1>2 DEF Lookup

(* The node to come has a name that no node before it had, so that binding  *)
(* it leaves the names in the table alone.                                  *)
LEMMA NewName ==
  ASSUME ImportInv, visited < Len(graph.nodes)
  PROVE  /\ Node.name \notin DOMAIN symbolTable
         /\ \A i \in 1 .. visited : graph.nodes[i].name # Node.name
         /\ visited + 1 \in DOMAIN graph.nodes
<1>1. /\ Len(graph.nodes) \in Nat /\ DOMAIN graph.nodes = 1 .. Len(graph.nodes)
      /\ visited \in 0 .. Len(graph.nodes)
  BY GraphAssumption, LenProperties DEF ImportInv, ControlInv
<1>2. \A i \in 1 .. visited : i \in DOMAIN graph.nodes /\ i # visited + 1 BY <1>1
<1>3. visited + 1 \in DOMAIN graph.nodes BY <1>1
<1>4. \A i, j \in DOMAIN graph.nodes : graph.nodes[i].name = graph.nodes[j].name => i = j
  BY GraphAssumption DEF ImportInv, ControlInv
<1>5. \A i \in 1 .. visited : graph.nodes[i].name # Node.name BY <1>2, <1>3, <1>4 DEF Node
<1>6. \A name \in DOMAIN symbolTable : \E i \in 1 .. visited : graph.nodes[i].name = name
  BY DEF ImportInv, TableInv
<1> QED BY <1>3, <1>5, <1>6

(* What an operation known by a name is does not change.                    *)
Extends ==
  /\ graph' = graph
  /\ \A i \in DOMAIN ops : i \in DOMAIN ops' /\ ops'[i] = ops[i]

LEMMA ExtendsValues == ASSUME Extends PROVE Values \subseteq Values'
BY DEF Extends, Values

(* A value that is a result is the result of an operation made.             *)
LEMMA ResultsMade ==
  \A value \in Values : value.kind = "result" => value.at \in DOMAIN ops
<1>1. \A i : /\ Argument(i).kind # "result"
             /\ Result(i).at = i
  BY DEF Argument, Result
<1> QED BY <1>1, Zenon DEF Values

LEMMA MeaningKept ==
  ASSUME ImportInv, visited < Len(graph.nodes), Extends,
         \A name \in DOMAIN symbolTable :
           name \in DOMAIN symbolTable' /\ symbolTable'[name] = symbolTable[name],
         NEW i \in 1 .. visited, graph.nodes[i].name \in DOMAIN symbolTable
  PROVE  NodeMeans(i)'
<1> DEFINE node == graph.nodes[i]
           value == symbolTable[node.name]
<1>1. NodeMeans(i) BY DEF ImportInv, NamesMeanNodes
<1>2. value \in Values BY LookupTyped
<1>3. symbolTable'[node.name] = value /\ graph'.nodes[i] = node BY DEF Extends
<1>4. CASE node.op = "placeholder"
  <2>1. value = Argument(Number(i)) BY <1>1, <1>4 DEF NodeMeans
  <2>2. Argument(Number(i))' = Argument(Number(i)) BY DEF Argument, Number, Extends
  <2>3. symbolTable'[graph'.nodes[i].name] = Argument(Number(i))' BY <1>3, <2>1, <2>2
  <2>4. graph'.nodes[i].op = "placeholder" BY <1>3, <1>4
  <2> QED BY <2>3, <2>4 DEF NodeMeans
<1>5. CASE node.op # "placeholder"
  <2>1. /\ value.kind = "result" /\ ops[value.at].kind = node.target
        /\ \A k \in 1 .. 2 : /\ node.args[k] \in DOMAIN symbolTable
                            /\ ops[value.at].operands[k] = symbolTable[node.args[k]]
    BY <1>1, <1>5 DEF NodeMeans
  <2>2. value.at \in DOMAIN ops BY <1>2, <2>1, ResultsMade, Zenon
  <2>3. ops'[value.at] = ops[value.at] BY <2>2 DEF Extends
  <2>4. \A k \in 1 .. 2 : /\ node.args[k] \in DOMAIN symbolTable'
                         /\ ops'[value.at].operands[k] = symbolTable'[node.args[k]]
    BY <2>1, <2>3
  <2> DEFINE nodeAfter == graph'.nodes[i]
             valueAfter == symbolTable'[nodeAfter.name]
  <2>5. nodeAfter = node /\ valueAfter = value BY <1>3
  <2>6. /\ nodeAfter.op # "placeholder"
        /\ valueAfter.kind = "result" /\ ops'[valueAfter.at].kind = nodeAfter.target
        /\ \A k \in 1 .. 2 :
             /\ nodeAfter.args[k] \in DOMAIN symbolTable'
             /\ ops'[valueAfter.at].operands[k] = symbolTable'[nodeAfter.args[k]]
    BY <1>5, <2>1, <2>3, <2>4, <2>5
  <2> QED BY <2>6 DEF NodeMeans
<1> QED BY <1>4, <1>5

(* A node that binds its name to a value that is what the node means leaves *)
(* the table in order.                                                      *)
LEMMA BindKeeps ==
  ASSUME ImportInv, visited < Len(graph.nodes), visited' = visited + 1, Extends,
         DOMAIN symbolTable' = DOMAIN symbolTable \cup {Node.name},
         \A name \in DOMAIN symbolTable : symbolTable'[name] = symbolTable[name],
         symbolTable'[Node.name] \in Values',
         \A n \in Nat : n = visited + 1 => NodeMeans(n)'
  PROVE  TableInv' /\ NamesMeanNodes'
<1>1. \A name \in DOMAIN symbolTable : symbolTable[name] \in Values BY LookupTyped
<1>2. \A name \in DOMAIN symbolTable' : symbolTable'[name] \in Values'
  BY <1>1, ExtendsValues
<1>3. visited \in Nat BY GraphAssumption, LenProperties DEF ImportInv, ControlInv
<1>4. \A name \in DOMAIN symbolTable' :
        \E i \in 1 .. visited' : graph'.nodes[i].name = name
  <2> SUFFICES ASSUME NEW name \in DOMAIN symbolTable'
               PROVE  \E i \in 1 .. visited' : graph'.nodes[i].name = name
    OBVIOUS
  <2>1. CASE name = Node.name
    <3>1. visited + 1 \in 1 .. visited' /\ graph'.nodes[visited + 1].name = name
      BY <1>3, <2>1 DEF Node, Extends
    <3> QED BY <3>1
  <2>2. CASE name \in DOMAIN symbolTable
    <3>1. PICK i \in 1 .. visited : graph.nodes[i].name = name
      BY <2>2 DEF ImportInv, TableInv
    <3>2. i \in 1 .. visited' /\ graph'.nodes[i].name = name BY <1>3, <3>1 DEF Extends
    <3> QED BY <3>2
  <2> QED BY <2>1, <2>2
<1>5. ASSUME NEW i \in 1 .. visited', graph'.nodes[i].name \in DOMAIN symbolTable'
      PROVE  NodeMeans(i)'
  <2>1. CASE i = visited + 1 BY <1>3, <2>1
  <2>2. CASE i \in 1 .. visited
    <3>1. graph.nodes[i].name # Node.name BY <2>2, NewName
    <3>2. graph.nodes[i].name \in DOMAIN symbolTable BY <1>5, <3>1 DEF Extends
    <3> QED BY <2>2, <3>2, MeaningKept
  <2> QED BY <1>3, <1>5, <2>1, <2>2
<1>6. TableInv' BY <1>2, <1>4 DEF TableInv
<1>7. NamesMeanNodes' BY <1>5 DEF NamesMeanNodes
<1> QED BY <1>6, <1>7

(* So does a node that binds nothing.                                       *)
LEMMA SkipKeeps ==
  ASSUME ImportInv, visited < Len(graph.nodes), visited' = visited + 1, Extends,
         symbolTable' = symbolTable
  PROVE  TableInv' /\ NamesMeanNodes'
<1>1. \A name \in DOMAIN symbolTable' : symbolTable'[name] \in Values'
  BY LookupTyped, ExtendsValues
<1>2. visited \in Nat BY GraphAssumption, LenProperties DEF ImportInv, ControlInv
<1>3. \A name \in DOMAIN symbolTable' :
        \E i \in 1 .. visited' : graph'.nodes[i].name = name
  <2>1. \A name \in DOMAIN symbolTable : \E i \in 1 .. visited : graph.nodes[i].name = name
    BY DEF ImportInv, TableInv
  <2> QED BY <1>2, <2>1 DEF Extends
<1>4. ASSUME NEW i \in 1 .. visited', graph'.nodes[i].name \in DOMAIN symbolTable'
      PROVE  NodeMeans(i)'
  <2>1. graph.nodes[i].name \in DOMAIN symbolTable BY <1>4 DEF Extends
  <2>2. i # visited + 1 BY <2>1, NewName DEF Node
  <2>3. i \in 1 .. visited BY <1>2, <1>4, <2>2
  <2> QED BY <2>1, <2>3, MeaningKept
<1>5. TableInv' BY <1>1, <1>3 DEF TableInv
<1>6. NamesMeanNodes' BY <1>4 DEF NamesMeanNodes
<1> QED BY <1>5, <1>6
-----------------------------------------------------------------------------
(* The actions.                                                             *)
LEMMA Lengths ==
  ASSUME ImportInv
  PROVE  /\ Len(graph.nodes) \in Nat /\ visited \in 0 .. Len(graph.nodes)
         /\ Len(ops) \in Nat /\ DOMAIN ops = 1 .. Len(ops)
BY GraphAssumption, LenProperties DEF ImportInv, ControlInv, OpsInv

LEMMA ControlNext ==
  ASSUME ImportInv, visited < Len(graph.nodes), NextNode, ret' = ret,
         Values \subseteq Values'
  PROVE  ControlInv'
BY Lengths DEF ImportInv, ControlInv, NextNode

LEMMA ArgsNext ==
  ASSUME ImportInv, visited < Len(graph.nodes), NextNode, argsList' = argsList,
         Node.op # "placeholder"
  PROVE  ArgsInv'
<1>1. Number(visited + 1) = Number(visited)
  BY NumberNext, Lengths DEF ImportInv, ControlInv, Node
<1>2. visited' = visited + 1 /\ graph' = graph BY DEF NextNode
<1>3. ArgsInv BY DEF ImportInv
<1> QED BY <1>1, <1>2, <1>3 DEF ArgsInv, Unbound, Number

(* What the visit of a call makes.                                          *)
LEMMA Made ==
  ASSUME ImportInv, NEW kind \in {"add", "matmul"}, Calls(kind),
         None \notin ToSet(Operands), NEW shape \in Seq(Nat), Generate(kind, shape)
  PROVE  /\ visited < Len(graph.nodes) /\ pc = "importing"
         /\ Node.op = "call_function" /\ Node.target = kind
         /\ NextNode /\ argsList' = argsList /\ ret' = ret /\ Extends
         /\ \A k \in 1 .. 2 : /\ Operands[k] \in Values
                             /\ Node.args[k] \in DOMAIN symbolTable
                             /\ Operands[k] = symbolTable[Node.args[k]]
         /\ ops' \in Seq(Ops) /\ DOMAIN ops' = 1 .. Len(ops) + 1
         /\ ops'[Len(ops) + 1].kind = kind /\ ops'[Len(ops) + 1].operands = Operands
         /\ ops'[Len(ops) + 1].shape = shape
         /\ \A i \in 1 .. Len(ops) : ops'[i] = ops[i]
         /\ DOMAIN symbolTable' = DOMAIN symbolTable \cup {Node.name}
         /\ symbolTable'[Node.name] = Result(Len(ops) + 1)
         /\ \A name \in DOMAIN symbolTable : symbolTable'[name] = symbolTable[name]
<1> DEFINE a == Lookup(Node.args[1])
           b == Lookup(Node.args[2])
           new == [kind |-> kind, operands |-> Operands, shape |-> shape]
<1>1. /\ visited < Len(graph.nodes) /\ pc = "importing"
      /\ Node.op = "call_function" /\ Node.target = kind
  BY DEF Calls, CodeGen
<1>2. a # None /\ b # None
  <2>1. {a, b} \subseteq ToSet(Operands) BY DEF Operands, ToSet
  <2> QED BY <2>1
<1>3. a \in Values /\ b \in Values BY <1>1, <1>2, LookupTyped
<1>4. a \in AllValues /\ b \in AllValues BY <1>3, ValueTyped DEF ImportInv
<1>5. new \in Ops BY <1>4 DEF Ops, Operands
<1>6. ops' = Append(ops, new) BY DEF Generate
<1>7. ops \in Seq(Ops) BY DEF ImportInv, OpsInv
<1> HIDE DEF new
<1>8. /\ ops' \in Seq(Ops) /\ Len(ops') = Len(ops) + 1 /\ ops'[Len(ops) + 1] = new
      /\ \A i \in 1 .. Len(ops) : ops'[i] = ops[i]
      /\ DOMAIN ops' = 1 .. Len(ops) + 1
  BY <1>5, <1>6, <1>7, AppendProperties, LenProperties
<1>9. NextNode /\ argsList' = argsList /\ ret' = ret BY DEF Generate
<1>10. Extends BY <1>8, <1>9, Lengths DEF Extends, NextNode
<1>11. /\ Node.args[1] \in DOMAIN symbolTable /\ a = symbolTable[Node.args[1]]
       /\ Node.args[2] \in DOMAIN symbolTable /\ b = symbolTable[Node.args[2]]
  BY <1>1, <1>2, LookupTyped
<1>12. \A k \in 1 .. 2 : /\ Operands[k] \in Values
                        /\ Node.args[k] \in DOMAIN symbolTable
                        /\ Operands[k] = symbolTable[Node.args[k]]
  <2> TAKE k \in 1 .. 2
  <2>1. k = 1 \/ k = 2 OBVIOUS
  <2> QED BY <1>3, <1>11, <2>1 DEF Operands
<1>13. /\ DOMAIN symbolTable' = DOMAIN symbolTable \cup {Node.name}
       /\ symbolTable'[Node.name] = Result(Len(ops) + 1)
       /\ \A name \in DOMAIN symbolTable : symbolTable'[name] = symbolTable[name]
  BY <1>1, NewName DEF Generate, Bind
<1>14. new.kind = kind /\ new.operands = Operands /\ new.shape = shape BY DEF new
<1> QED BY <1>1, <1>8, <1>9, <1>10, <1>12, <1>13, <1>14

LEMMA GenerateKeeps ==
  ASSUME ImportInv, NEW kind \in {"add", "matmul"}, Calls(kind),
         None \notin ToSet(Operands), NEW shape \in Seq(Nat), Generate(kind, shape)
  PROVE  ImportInv'
<1>1. /\ visited < Len(graph.nodes) /\ NextNode /\ argsList' = argsList /\ ret' = ret
      /\ Node.op = "call_function" /\ Node.target = kind /\ Extends
  BY Made
<1>2. \A k \in 1 .. 2 : /\ Operands[k] \in Values
                       /\ Node.args[k] \in DOMAIN symbolTable
                       /\ Operands[k] = symbolTable[Node.args[k]]
  BY Made
<1>3. /\ ops' \in Seq(Ops) /\ DOMAIN ops' = 1 .. Len(ops) + 1
      /\ ops'[Len(ops) + 1].kind = kind /\ ops'[Len(ops) + 1].operands = Operands
      /\ \A i \in 1 .. Len(ops) : ops'[i] = ops[i]
  BY Made
<1>4. /\ DOMAIN symbolTable' = DOMAIN symbolTable \cup {Node.name}
      /\ symbolTable'[Node.name] = Result(Len(ops) + 1)
      /\ \A name \in DOMAIN symbolTable : symbolTable'[name] = symbolTable[name]
  BY Made
<1>5. Values \subseteq Values' BY <1>1, ExtendsValues
<1>6. Result(Len(ops) + 1) \in Values' BY <1>3, Lengths DEF Values, Result
<1>7. OpsInv'
  <2> SUFFICES ASSUME NEW i \in DOMAIN ops', NEW value \in ToSet(ops'[i].operands)
               PROVE  value \in Values' /\ (value.kind = "result" => value.at < i)
    BY <1>3 DEF OpsInv
  <2>1. CASE i \in DOMAIN ops
    <3>1. value \in ToSet(ops[i].operands) BY <1>3, <2>1, Lengths
    <3> QED BY <1>5, <2>1, <3>1 DEF ImportInv, OpsInv
  <2>2. CASE i = Len(ops) + 1
    <3>1. value \in Values
      <4>1. value \in ToSet(Operands) BY <1>3, <2>2
      <4>2. DOMAIN Operands = 1 .. 2 BY DEF Operands
      <4> QED BY <1>2, <4>1, <4>2 DEF ToSet
    <3>2. value.kind = "result" => value.at \in DOMAIN ops
      BY <3>1, ResultsMade, Zenon
    <3> QED BY <1>5, <2>2, <3>1, <3>2, Lengths
  <2> QED BY <1>3, <2>1, <2>2, Lengths
<1>8. ASSUME NEW n \in Nat, n = visited + 1 PROVE NodeMeans(n)'
  <2> DEFINE node == graph'.nodes[n]
             value == symbolTable'[node.name]
  <2>1. node = Node BY <1>1, <1>8 DEF Node, NextNode
  <2>2. value = Result(Len(ops) + 1) BY <1>4, <2>1
  <2>3. value.kind = "result" /\ value.at = Len(ops) + 1 BY <2>2 DEF Result
  <2>4. ops'[value.at].kind = kind /\ ops'[value.at].operands = Operands
    BY <1>3, <2>3
  <2>5. \A k \in 1 .. 2 : /\ Node.args[k] \in DOMAIN symbolTable'
                         /\ Operands[k] = symbolTable'[Node.args[k]]
    BY <1>2, <1>4
  <2>6. /\ node.op # "placeholder" /\ value.kind = "result"
        /\ ops'[value.at].kind = node.target
        /\ \A k \in 1 .. 2 : /\ node.args[k] \in DOMAIN symbolTable'
                            /\ ops'[value.at].operands[k] = symbolTable'[node.args[k]]
    BY <1>1, <2>1, <2>3, <2>4, <2>5
  <2> QED BY <2>6 DEF NodeMeans
<1>9. TableInv' /\ NamesMeanNodes'
  BY <1>1, <1>4, <1>6, <1>8, BindKeeps DEF NextNode
<1>10. ControlInv' BY <1>1, <1>5, ControlNext
<1>11. ArgsInv' BY <1>1, ArgsNext
<1> QED BY <1>7, <1>9, <1>10, <1>11 DEF ImportInv

(* The shape that is worked out for a call.                                 *)
ShapeFor(kind, operands) ==
  IF kind = "add" THEN ShapeOf(operands[1])
  ELSE MatmulShape(ShapeOf(operands[1]), ShapeOf(operands[2]))

LEMMA CallsGenerate ==
  ASSUME ImportInv, Add \/ Matmul
  PROVE  \E kind \in {"add", "matmul"} : \E shape \in Seq(Nat) :
           /\ Calls(kind) /\ None \notin ToSet(Operands) /\ Generate(kind, shape)
           /\ shape = ShapeFor(kind, Operands)
<1> DEFINE a == ShapeOf(Operands[1])
           b == ShapeOf(Operands[2])
<1>1. None \notin ToSet(Operands) /\ visited < Len(graph.nodes)
  BY DEF Add, Matmul, Calls, CodeGen
<1>2. Operands[1] \in Values /\ Operands[2] \in Values
  <2>1. Operands[1] \in ToSet(Operands) /\ Operands[2] \in ToSet(Operands)
    BY DEF Operands, ToSet
  <2> QED BY <1>1, <2>1, LookupTyped DEF Operands
<1>3. a \in Seq(Nat) /\ b \in Seq(Nat) BY <1>2, ValueTyped DEF ImportInv
<1>4. CASE Add
  <2>1. Calls("add") /\ Generate("add", a) BY <1>4 DEF Add
  <2>2. a = ShapeFor("add", Operands) BY DEF ShapeFor
  <2> HIDE DEF a
  <2> QED BY <1>1, <1>3, <2>1, <2>2
<1>5. CASE Matmul
  <2>1. /\ Calls("matmul") /\ Generate("matmul", MatmulShape(a, b))
        /\ Len(a) >= 1 /\ Len(b) >= 2
    BY <1>5 DEF Matmul
  <2>2. MatmulShape(a, b) = ShapeFor("matmul", Operands) BY DEF ShapeFor
  <2> HIDE DEF a, b
  <2>3. a[1] \in Nat /\ b[2] \in Nat BY <1>3, <2>1, ElementOfSeq, LenProperties
  <2>4. MatmulShape(a, b) \in Seq(Nat) BY <2>3 DEF MatmulShape
  <2> QED BY <1>1, <2>1, <2>2, <2>4
<1> QED BY <1>4, <1>5

LEMMA CallKeeps == ASSUME ImportInv, Add \/ Matmul PROVE ImportInv'
<1>1. PICK kind \in {"add", "matmul"}, shape \in Seq(Nat) :
        Calls(kind) /\ None \notin ToSet(Operands) /\ Generate(kind, shape)
  BY CallsGenerate
<1> QED BY <1>1, GenerateKeeps

LEMMA PlaceholderKeeps == ASSUME ImportInv, Placeholder PROVE ImportInv'
<1> DEFINE taken == Number(visited)
           first == Head(argsList)
<1>1. /\ visited < Len(graph.nodes) /\ Node.op = "placeholder"
      /\ Bind(Node.name, first) /\ argsList' = Tail(argsList)
      /\ NextNode /\ ops' = ops /\ ret' = ret
  BY DEF Placeholder, CodeGen
<1>2. /\ Number(visited + 1) = taken + 1
      /\ visited + 1 \in 0 .. Len(graph.nodes)
  BY <1>1, NumberNext, Lengths DEF ImportInv, ControlInv, Node
<1>3. /\ taken \in Nat /\ Len(graph.inputs) \in Nat /\ taken + 1 <= Len(graph.inputs)
  <2>1. Number(visited) \in 0 .. Len(graph.inputs) /\ Len(graph.inputs) \in Nat
    BY Lengths, NumberTyped DEF ImportInv, ControlInv
  <2>2. \A n \in 0 .. Len(graph.nodes) : Number(n) \in 0 .. Len(graph.inputs)
    BY NumberTyped DEF ImportInv, ControlInv
  <2>3. Number(visited + 1) \in 0 .. Len(graph.inputs) BY <1>2, <2>2
  <2> QED BY <1>2, <2>1, <2>3
<1> HIDE DEF taken
<1>4. argsList = [k \in 1 .. Len(graph.inputs) - taken |-> Argument(taken + k)]
  BY DEF ImportInv, ArgsInv, Unbound, taken
<1>5. /\ first = Argument(taken + 1)
      /\ Tail(argsList) = [k \in 1 .. Len(graph.inputs) - (taken + 1) |->
                             Argument((taken + 1) + k)]
  <2>1. \A k \in Nat : Argument(k) \in AllValues BY DEF Argument, AllValues
  <2>2. argsList \in Seq(AllValues) /\ Len(argsList) = Len(graph.inputs) - taken
    <3>1. \A k \in 1 .. Len(graph.inputs) - taken : Argument(taken + k) \in AllValues
      BY <1>3, <2>1
    <3> QED BY <1>3, <1>4, <3>1, IsASeq, LenProperties
  <2>3. argsList # <<>> BY <1>3, <2>2
  <2>4. first = Argument(taken + 1) BY <1>3, <1>4, <2>2, <2>3, HeadTailProperties
  <2>5. /\ Tail(argsList) \in Seq(AllValues) /\ Len(Tail(argsList)) = Len(argsList) - 1
        /\ \A k \in 1 .. Len(Tail(argsList)) : Tail(argsList)[k] = argsList[k + 1]
    BY <2>2, <2>3, HeadTailProperties
  <2>6. \A k \in 1 .. Len(argsList) - 1 :
          /\ k + 1 \in 1 .. Len(graph.inputs) - taken
          /\ taken + (k + 1) = (taken + 1) + k
    BY <1>3, <2>2
  <2>7. \A k \in 1 .. Len(argsList) - 1 : Tail(argsList)[k] = Argument((taken + 1) + k)
    BY <1>4, <2>5, <2>6
  <2>8. Len(argsList) - 1 = Len(graph.inputs) - (taken + 1) BY <1>3, <2>2
  <2>9. Tail(argsList) = [k \in 1 .. Len(Tail(argsList)) |-> Tail(argsList)[k]]
    BY <2>5, LenProperties
  <2> QED BY <2>4, <2>5, <2>7, <2>8, <2>9
<1>6. ArgsInv'
  <2>1. Number(visited)' = taken + 1 BY <1>1, <1>2 DEF Number, NextNode
  <2> QED BY <1>1, <1>5, <2>1 DEF ArgsInv, Unbound, NextNode
<1>7. Extends BY <1>1 DEF Extends, NextNode
<1>8. Values \subseteq Values' BY <1>7, ExtendsValues
<1>9. first \in Values'
  <2>1. taken + 1 \in DOMAIN graph.inputs
    BY <1>3, GraphAssumption, LenProperties DEF ImportInv, ControlInv
  <2>2. first \in Values BY <1>5, <2>1 DEF Values
  <2> QED BY <1>8, <2>2
<1>10. /\ DOMAIN symbolTable' = DOMAIN symbolTable \cup {Node.name}
       /\ symbolTable'[Node.name] = first
       /\ \A name \in DOMAIN symbolTable : symbolTable'[name] = symbolTable[name]
  BY <1>1, NewName DEF Bind
<1>11. ASSUME NEW n \in Nat, n = visited + 1 PROVE NodeMeans(n)'
  <2>1. graph'.nodes[n] = Node BY <1>1, <1>11 DEF Node, NextNode
  <2>2. symbolTable'[graph'.nodes[n].name] = Argument(taken + 1) BY <1>5, <1>10, <2>1
  <2>3. Number(n) = taken + 1 BY <1>2, <1>11
  <2>4. Number(n)' = Number(n) BY <1>1 DEF Number, NextNode
  <2>5. symbolTable'[graph'.nodes[n].name] = Argument(Number(n)')
    BY <2>2, <2>3, <2>4
  <2> QED BY <1>1, <2>1, <2>5 DEF NodeMeans
<1>12. TableInv' /\ NamesMeanNodes'
  BY <1>1, <1>7, <1>9, <1>10, <1>11, BindKeeps DEF NextNode
<1>13. ControlInv' BY <1>1, <1>8, ControlNext
<1>14. OpsInv' BY <1>1, <1>8 DEF ImportInv, OpsInv
<1> QED BY <1>6, <1>12, <1>13, <1>14 DEF ImportInv

LEMMA SkipNodeKeeps == ASSUME ImportInv, Skip PROVE ImportInv'
<1>1. /\ visited < Len(graph.nodes) /\ Node.op # "placeholder" /\ NextNode
      /\ argsList' = argsList /\ symbolTable' = symbolTable /\ ops' = ops /\ ret' = ret
  BY DEF Skip, codeVars
<1>2. Extends BY <1>1 DEF Extends, NextNode
<1>3. Values \subseteq Values' BY <1>2, ExtendsValues
<1>4. TableInv' /\ NamesMeanNodes' BY <1>1, <1>2, SkipKeeps DEF NextNode
<1>5. ControlInv' BY <1>1, <1>3, ControlNext
<1>6. ArgsInv' BY <1>1, ArgsNext
<1>7. OpsInv' BY <1>1, <1>3 DEF ImportInv, OpsInv
<1> QED BY <1>4, <1>5, <1>6, <1>7 DEF ImportInv

(* The output node is the last one, and nothing is looked up after it but   *)
(* the key of the result.                                                   *)
LEMMA OutputKeeps == ASSUME ImportInv, Output PROVE ImportInv'
<1> DEFINE result == Lookup(Node.args[1])
<1>1. /\ visited < Len(graph.nodes) /\ Node.op = "output" /\ NextNode
      /\ Bind("output", result) /\ argsList' = argsList /\ ops' = ops /\ ret' = ret
  BY DEF Output, CodeGen
<1>2. visited + 1 = Len(graph.nodes)
  <2>1. visited + 1 \in DOMAIN graph.nodes BY <1>1, NewName
  <2> QED BY <1>1, <2>1, GraphAssumption DEF ImportInv, ControlInv, Node
<1>3. Extends BY <1>1 DEF Extends, NextNode
<1>4. Values \subseteq Values' BY <1>3, ExtendsValues
<1>5. visited' = Len(graph.nodes)' BY <1>1, <1>2 DEF NextNode
<1>6. TableInv'
  <2>1. result \in Values' \cup {None} BY <1>1, <1>4, LookupTyped
  <2>2. \A name \in DOMAIN symbolTable : symbolTable[name] \in Values'
    BY <1>1, <1>4, LookupTyped
  <2> HIDE DEF result
  <2>3. \A name \in DOMAIN symbolTable' :
          symbolTable'[name] \in Values' \/ (name = "output" /\ symbolTable'[name] = None)
    BY <1>1, <2>1, <2>2 DEF Bind
  <2>4. ~(visited' < Len(graph.nodes)')
    BY <1>1, <1>2, Lengths DEF NextNode
  <2> QED BY <1>5, <2>3, <2>4 DEF TableInv
<1>7. NamesMeanNodes' BY <1>1, <1>2, Lengths DEF NamesMeanNodes, NextNode
<1>8. ControlInv' BY <1>1, <1>4, ControlNext
<1>9. ArgsInv' BY <1>1, ArgsNext
<1>10. OpsInv' BY <1>1, <1>4 DEF ImportInv, OpsInv
<1> QED BY <1>6, <1>7, <1>8, <1>9, <1>10 DEF ImportInv

(* The steps that are not the visit of a node.                              *)
LEMMA OutsideKeeps ==
  ASSUME ImportInv, UNCHANGED <<graph, visited, codeVars>>,
         pc' \in {"importing", "bufferizing", "lowering", "returned", "raised"},
         ret' \in Values \cup {None}
  PROVE  ImportInv'
<1> USE DEF codeVars
<1>1. Values' = Values BY DEF Values
<1>2. ControlInv' BY <1>1 DEF ImportInv, ControlInv
<1>3. ArgsInv' BY DEF ImportInv, ArgsInv, Unbound, Number
<1>4. OpsInv' BY <1>1 DEF ImportInv, OpsInv
<1>5. TableInv' BY <1>1 DEF ImportInv, TableInv
<1>6. NamesMeanNodes' BY DEF ImportInv, NamesMeanNodes, NodeMeans, Number
<1> QED BY <1>2, <1>3, <1>4, <1>5, <1>6 DEF ImportInv

LEMMA StepImport == ImportInv /\ [Next]_vars => ImportInv'
<1> SUFFICES ASSUME ImportInv, [Next]_vars PROVE ImportInv' OBVIOUS
<1>1. /\ ret \in Values \cup {None}
      /\ pc \in {"importing", "bufferizing", "lowering", "returned", "raised"}
  BY DEF ImportInv, ControlInv
<1>2. CASE Placeholder BY <1>2, PlaceholderKeeps
<1>3. CASE Add BY <1>3, CallKeeps
<1>4. CASE Matmul BY <1>4, CallKeeps
<1>5. CASE Skip BY <1>5, SkipNodeKeeps
<1>6. CASE Output BY <1>6, OutputKeeps
<1>7. CASE CallRaises \/ OutputRaises \/ LoweringFails
  BY <1>1, <1>7, OutsideKeeps DEF CallRaises, OutputRaises, LoweringFails, Raise
<1>8. CASE ReturnGenerated
  <2>1. Lookup("output") \in Values \cup {None}
    BY DEF ImportInv, TableInv, Lookup
  <2> QED BY <1>8, <2>1, OutsideKeeps DEF ReturnGenerated
<1>9. CASE Lowering BY <1>1, <1>9, OutsideKeeps DEF Lowering
<1>10. CASE Finished \/ UNCHANGED vars BY <1>1, <1>10, OutsideKeeps DEF Finished, vars
<1> QED BY <1>2, <1>3, <1>4, <1>5, <1>6, <1>7, <1>8, <1>9, <1>10 DEF Next

LEMMA ImportTyped == ImportInv => TypeOK
<1> SUFFICES ASSUME ImportInv PROVE TypeOK OBVIOUS
<1>1. ToSet(argsList) \subseteq Values
  <2>1. /\ Number(visited) \in Nat /\ Len(graph.inputs) \in Nat
        /\ DOMAIN graph.inputs = 1 .. Len(graph.inputs)
    BY Lengths, NumberTyped, GraphAssumption, LenProperties DEF ImportInv, ControlInv
  <2> SUFFICES ASSUME NEW k \in 1 .. Len(graph.inputs) - Number(visited)
               PROVE  Argument(Number(visited) + k) \in Values
    BY DEF ImportInv, ArgsInv, Unbound, ToSet
  <2>2. Number(visited) + k \in DOMAIN graph.inputs BY <2>1
  <2> QED BY <2>2 DEF Values
<1> QED BY <1>1 DEF ImportInv, ControlInv, OpsInv, TableInv, TypeOK

-----------------------------------------------------------------------------
(* For every graph, the importer keeps its table, its argument list and the *)
(* operations made in order: an operation uses arguments and results of     *)
(* operations before it, and never None.                                    *)
THEOREM ImporterTyped == Spec => []TypeOK
<1> QED BY InitImport, StepImport, ImportTyped, PTL DEF Spec

(* For every graph Dynamo may hand over, however many of its nodes are      *)
(* passed over: a placeholder has its own argument, and an imported call is *)
(* an operation of its kind on what its arguments are bound to.             *)
THEOREM NamesFollowGraph == Spec => []NamesMeanNodes
<1>1. ImportInv => NamesMeanNodes BY DEF ImportInv
<1> QED BY <1>1, InitImport, StepImport, PTL DEF Spec

-----------------------------------------------------------------------------
(* What the nodes mean and what the function computes are recursive, on the  *)
(* nodes before a node and on the operations before an operation.           *)
MeaningOf(m, i) ==
  LET node == graph.nodes[i] IN
  IF node.op = "placeholder"
  THEN <<"input", Number(i)>>
  ELSE <<node.target>> \o [k \in DOMAIN node.args |->
         IF NodeNamed(node.args[k]) = {} THEN <<"constant", node.args[k]>>
         ELSE m[CHOOSE j \in NodeNamed(node.args[k]) : TRUE]]

LEMMA ArgumentsBefore ==
  ASSUME graph \in Graphs, NEW i \in DOMAIN graph.nodes,
         NEW k \in DOMAIN graph.nodes[i].args, NodeNamed(graph.nodes[i].args[k]) # {}
  PROVE  LET j == CHOOSE j \in NodeNamed(graph.nodes[i].args[k]) : TRUE
         IN  /\ j \in 1 .. i - 1 /\ j \in DOMAIN graph.nodes
             /\ graph.nodes[j].name = graph.nodes[i].args[k]
<1> DEFINE args == graph.nodes[i].args
           j == CHOOSE j \in NodeNamed(args[k]) : TRUE
<1>1. \E x \in NodeNamed(args[k]) : TRUE OBVIOUS
<1>2. j \in NodeNamed(args[k]) BY <1>1, Zenon
<1> HIDE DEF j
<1>3. j \in DOMAIN graph.nodes /\ graph.nodes[j].name = args[k] BY <1>2 DEF NodeNamed
<1>4. args[k] \in ToSet(args) BY DEF ToSet
<1>5. j < i BY <1>3, <1>4, GraphAssumption
<1>6. Len(graph.nodes) \in Nat /\ DOMAIN graph.nodes = 1 .. Len(graph.nodes)
  BY GraphAssumption, LenProperties
<1>7. j \in 1 .. i - 1 BY <1>3, <1>5, <1>6
<1> QED BY <1>3, <1>7 DEF j

LEMMA MeaningLocal ==
  ASSUME graph \in Graphs, NEW i \in DOMAIN graph.nodes, NEW g, NEW h,
         \A j \in 1 .. i - 1 : g[j] = h[j]
  PROVE  MeaningOf(g, i) = MeaningOf(h, i)
<1> DEFINE args == graph.nodes[i].args
           j(k) == CHOOSE j \in NodeNamed(args[k]) : TRUE
           a == [k \in DOMAIN args |-> IF NodeNamed(args[k]) = {} THEN <<"constant", args[k]>>
                                      ELSE g[j(k)]]
           b == [k \in DOMAIN args |-> IF NodeNamed(args[k]) = {} THEN <<"constant", args[k]>>
                                      ELSE h[j(k)]]
<1>1. ASSUME NEW k \in DOMAIN args, NodeNamed(args[k]) # {} PROVE g[j(k)] = h[j(k)]
  <2>1. j(k) \in 1 .. i - 1 BY <1>1, ArgumentsBefore
  <2> QED BY <2>1
<1> HIDE DEF j, args
<1>2. a = b BY <1>1, Zenon
<1> QED BY <1>2, Zenon DEF MeaningOf, args, j

LEMMA MeaningIs ==
  ASSUME graph \in Graphs
  PROVE  \A i \in DOMAIN graph.nodes : Meaning[i] = MeaningOf(Meaning, i)
<1> DEFINE n == Len(graph.nodes)
           Good == {k \in 0 .. n : \E g : g = [i \in 1 .. k |-> MeaningOf(g, i)]}
<1>1. n \in Nat /\ DOMAIN graph.nodes = 1 .. n BY GraphAssumption, LenProperties
<1> HIDE DEF n
<1>2. 0 \in Good
  <2> DEFINE g == [i \in 1 .. 0 |-> 0]
  <2>1. g = [i \in 1 .. 0 |-> MeaningOf(g, i)] OBVIOUS
  <2>2. 0 \in 0 .. n BY <1>1
  <2> QED BY <2>1, <2>2, Zenon
<1>3. ASSUME NEW k \in 1 .. n, k - 1 \in Good PROVE k \in Good
  <2>1. PICK g : g = [i \in 1 .. k - 1 |-> MeaningOf(g, i)] BY <1>3
  <2> DEFINE h == [i \in 1 .. k |-> MeaningOf(g, i)]
  <2>2. ASSUME NEW i \in 1 .. k PROVE h[i] = MeaningOf(h, i)
    <3>1. h[i] = MeaningOf(g, i) BY Zenon
    <3>2. ASSUME NEW j \in 1 .. i - 1 PROVE g[j] = h[j]
      <4>1. j \in 1 .. k /\ j \in 1 .. k - 1 BY <1>1
      <4>2. g[j] = MeaningOf(g, j) BY <2>1, <4>1, Zenon
      <4> QED BY <4>1, <4>2, Zenon
    <3>3. i \in DOMAIN graph.nodes BY <1>1
    <3> HIDE DEF h
    <3> QED BY <3>1, <3>2, <3>3, MeaningLocal
  <2>3. h = [i \in 1 .. k |-> MeaningOf(h, i)]
    <3> DEFINE e == [i \in 1 .. k |-> MeaningOf(h, i)]
    <3>1. \A i \in 1 .. k : h[i] = e[i] BY <2>2, Zenon
    <3> QED BY <3>1, Zenon
  <2>4. k \in 0 .. n BY <1>1
  <2> HIDE DEF h
  <2> QED BY <2>3, <2>4, Zenon
<1>4. n \in Good
  <2> HIDE DEF Good
  <2> QED BY <1>1, <1>2, <1>3, CountUp
<1>5. \E g : g = [i \in DOMAIN graph.nodes |-> MeaningOf(g, i)] BY <1>1, <1>4, Zenon
<1>6. Meaning = [i \in DOMAIN graph.nodes |-> MeaningOf(Meaning, i)]
  <2> DEFINE m == CHOOSE g : g = [i \in DOMAIN graph.nodes |-> MeaningOf(g, i)]
  <2>1. m = [i \in DOMAIN graph.nodes |-> MeaningOf(m, i)] BY <1>5, Zenon
  <2>2. Meaning = m BY Zenon DEF Meaning, MeaningOf
  <2> HIDE DEF m
  <2> QED BY <2>1, <2>2, Zenon
<1> QED BY <1>6, Zenon

ComputedOf(c, i) ==
  <<ops[i].kind>> \o [k \in 1 .. 2 |->
    LET value == ops[i].operands[k]
    IN  IF value.kind = "argument" THEN <<"input", value.at>> ELSE c[value.at]]

LEMMA OperandsBefore ==
  ASSUME ControlInv, OpsInv, NEW i \in DOMAIN ops, NEW k \in 1 .. 2
  PROVE  LET value == ops[i].operands[k]
         IN  /\ value \in Values
             /\ value.kind # "argument" => value.kind = "result" /\ value.at \in 1 .. i - 1
<1> DEFINE value == ops[i].operands[k]
<1>1. /\ Len(ops) \in Nat /\ DOMAIN ops = 1 .. Len(ops) /\ ops[i] \in Ops
  BY LenProperties, ElementOfSeq DEF OpsInv
<1>2. value \in ToSet(ops[i].operands)
  <2>1. ops[i].operands \in AllValues \X AllValues BY <1>1 DEF Ops
  <2>2. DOMAIN ops[i].operands = 1 .. 2 BY <2>1
  <2> QED BY <2>2 DEF ToSet
<1> HIDE DEF value
<1>3. value \in Values /\ (value.kind = "result" => value.at < i) BY <1>2 DEF OpsInv
<1>4. value \in AllValues BY <1>3, ValueTyped
<1>5. value.kind # "argument" => value.kind = "result" BY <1>4 DEF AllValues
<1>6. value.kind = "result" => value.at \in DOMAIN ops BY <1>3, ResultsMade, Zenon
<1>7. value.kind = "result" => value.at \in 1 .. i - 1 BY <1>1, <1>3, <1>6
<1> QED BY <1>3, <1>5, <1>7 DEF value

LEMMA ComputedLocal ==
  ASSUME ControlInv, OpsInv, NEW i \in DOMAIN ops, NEW g, NEW h,
         \A j \in 1 .. i - 1 : g[j] = h[j]
  PROVE  ComputedOf(g, i) = ComputedOf(h, i)
<1> DEFINE value(k) == ops[i].operands[k]
           a == [k \in 1 .. 2 |-> IF value(k).kind = "argument" THEN <<"input", value(k).at>>
                                 ELSE g[value(k).at]]
           b == [k \in 1 .. 2 |-> IF value(k).kind = "argument" THEN <<"input", value(k).at>>
                                 ELSE h[value(k).at]]
<1>1. ASSUME NEW k \in 1 .. 2, value(k).kind # "argument"
      PROVE  g[value(k).at] = h[value(k).at]
  <2>1. value(k).at \in 1 .. i - 1 BY <1>1, OperandsBefore
  <2> QED BY <2>1
<1> HIDE DEF value
<1>2. a = b BY <1>1, Zenon
<1> QED BY <1>2, Zenon DEF ComputedOf, value

LEMMA ComputedIs ==
  ASSUME ControlInv, OpsInv
  PROVE  \A i \in DOMAIN ops : Computed[i] = ComputedOf(Computed, i)
<1> DEFINE n == Len(ops)
           Good == {k \in 0 .. n : \E g : g = [i \in 1 .. k |-> ComputedOf(g, i)]}
<1>1. n \in Nat /\ DOMAIN ops = 1 .. n BY LenProperties DEF OpsInv
<1> HIDE DEF n
<1>2. 0 \in Good
  <2> DEFINE g == [i \in 1 .. 0 |-> 0]
  <2>1. g = [i \in 1 .. 0 |-> ComputedOf(g, i)] OBVIOUS
  <2>2. 0 \in 0 .. n BY <1>1
  <2> QED BY <2>1, <2>2, Zenon
<1>3. ASSUME NEW k \in 1 .. n, k - 1 \in Good PROVE k \in Good
  <2>1. PICK g : g = [i \in 1 .. k - 1 |-> ComputedOf(g, i)] BY <1>3
  <2> DEFINE h == [i \in 1 .. k |-> ComputedOf(g, i)]
  <2>2. ASSUME NEW i \in 1 .. k PROVE h[i] = ComputedOf(h, i)
    <3>1. h[i] = ComputedOf(g, i) BY Zenon
    <3>2. ASSUME NEW j \in 1 .. i - 1 PROVE g[j] = h[j]
      <4>1. j \in 1 .. k /\ j \in 1 .. k - 1 BY <1>1
      <4>2. g[j] = ComputedOf(g, j) BY <2>1, <4>1, Zenon
      <4> QED BY <4>1, <4>2, Zenon
    <3>3. i \in DOMAIN ops BY <1>1
    <3> HIDE DEF h
    <3> QED BY <3>1, <3>2, <3>3, ComputedLocal
  <2>3. h = [i \in 1 .. k |-> ComputedOf(h, i)]
    <3> DEFINE e == [i \in 1 .. k |-> ComputedOf(h, i)]
    <3>1. \A i \in 1 .. k : h[i] = e[i] BY <2>2, Zenon
    <3> QED BY <3>1, Zenon
  <2>4. k \in 0 .. n BY <1>1
  <2> HIDE DEF h
  <2> QED BY <2>3, <2>4, Zenon
<1>4. n \in Good
  <2> HIDE DEF Good
  <2> QED BY <1>1, <1>2, <1>3, CountUp
<1>5. \E g : g = [i \in DOMAIN ops |-> ComputedOf(g, i)] BY <1>1, <1>4, Zenon
<1>6. Computed = [i \in DOMAIN ops |-> ComputedOf(Computed, i)]
  <2> DEFINE c == CHOOSE g : g = [i \in DOMAIN ops |-> ComputedOf(g, i)]
  <2>1. c = [i \in DOMAIN ops |-> ComputedOf(c, i)] BY <1>5, Zenon
  <2>2. Computed = c BY Zenon DEF Computed, ComputedOf
  <2> HIDE DEF c
  <2> QED BY <2>1, <2>2, Zenon
<1> QED BY <1>6, Zenon

-----------------------------------------------------------------------------
(* While the graph is visited, a node is known by its name just when there  *)
(* is code for it.                                                          *)
BoundInv ==
  visited < Len(graph.nodes) =>
    \A i \in 1 .. visited :
      Supported(graph.nodes[i]) <=> graph.nodes[i].name \in DOMAIN symbolTable

Stands(i) == Supported(graph.nodes[i]) => Means(symbolTable[graph.nodes[i].name], i)

(* What a value computes.                                                   *)
ComputedBy(value) == IF value.kind = "argument" THEN <<"input", value.at>> ELSE Computed[value.at]

LEMMA CallStands ==
  ASSUME ImportInv, BoundInv, visited < Len(graph.nodes), NEW i \in 1 .. visited,
         Supported(graph.nodes[i]), graph.nodes[i].op # "placeholder",
         \A j \in 1 .. i - 1 : Stands(j)
  PROVE  Stands(i)
<1> DEFINE node == graph.nodes[i]
           args == node.args
           value == symbolTable[node.name]
           operands == ops[value.at].operands
           j(k) == CHOOSE j \in NodeNamed(args[k]) : TRUE
<1>1. /\ graph \in Graphs /\ ControlInv /\ OpsInv /\ Len(graph.nodes) \in Nat
      /\ DOMAIN graph.nodes = 1 .. Len(graph.nodes) /\ visited \in Nat
  BY GraphAssumption, LenProperties DEF ImportInv, ControlInv
<1>2. i \in DOMAIN graph.nodes BY <1>1
<1>3. node.name \in DOMAIN symbolTable BY DEF BoundInv
<1>4. value \in Values BY <1>3, LookupTyped
<1>5. NodeMeans(i) BY <1>3 DEF ImportInv, NamesMeanNodes
<1>6. /\ value.kind = "result" /\ ops[value.at].kind = node.target
      /\ \A k \in 1 .. 2 : args[k] \in DOMAIN symbolTable /\ operands[k] = symbolTable[args[k]]
  BY <1>5 DEF NodeMeans
<1>7. value.at \in DOMAIN ops BY <1>4, <1>6, ResultsMade, Zenon
<1>8. DOMAIN args = 1 .. 2
  <2>1. node \in ToSet(graph.nodes) BY <1>2 DEF ToSet
  <2>2. node.op = "call_function" BY DEF Supported
  <2>3. args \in Seq(ToSet(args)) /\ Len(args) = 2 BY <1>1, <2>1, <2>2, GraphAssumption
  <2> QED BY <2>3, LenProperties
<1>9. ASSUME NEW k \in 1 .. 2
      PROVE  NodeNamed(args[k]) # {} /\ Meaning[j(k)] = ComputedBy(operands[k])
  <2>1. args[k] \in DOMAIN symbolTable /\ operands[k] = symbolTable[args[k]] BY <1>6
  <2>2. PICK m \in 1 .. visited : graph.nodes[m].name = args[k]
    BY <2>1 DEF ImportInv, TableInv
  <2>3. m \in NodeNamed(args[k]) BY <1>1, <2>2 DEF NodeNamed
  <2>4. NodeNamed(args[k]) # {} BY <2>3
  <2>5. j(k) \in 1 .. i - 1 /\ graph.nodes[j(k)].name = args[k]
    BY <1>1, <1>2, <1>8, <2>4, ArgumentsBefore
  <2> HIDE DEF j, operands, args
  <2>6. j(k) \in 1 .. visited BY <1>1, <2>5
  <2>7. Supported(graph.nodes[j(k)]) BY <2>1, <2>5, <2>6 DEF BoundInv
  <2>8. Means(symbolTable[args[k]], j(k)) BY <2>5, <2>7 DEF Stands
  <2> QED BY <2>1, <2>4, <2>8 DEF Means, ComputedBy
<1>10. Meaning[i] = <<node.target>> \o [k \in 1 .. 2 |->
                      IF NodeNamed(args[k]) = {} THEN <<"constant", args[k]>> ELSE Meaning[j(k)]]
  <2>1. Meaning[i] = MeaningOf(Meaning, i) BY <1>1, <1>2, MeaningIs, Zenon
  <2> QED BY <1>8, <2>1, Zenon DEF MeaningOf
<1>11. Computed[value.at] = <<node.target>> \o [k \in 1 .. 2 |-> ComputedBy(operands[k])]
  <2>1. Computed[value.at] = ComputedOf(Computed, value.at) BY <1>1, <1>7, ComputedIs, Zenon
  <2> QED BY <1>6, <2>1, Zenon DEF ComputedOf, ComputedBy
<1> DEFINE a == [k \in 1 .. 2 |->
                   IF NodeNamed(args[k]) = {} THEN <<"constant", args[k]>> ELSE Meaning[j(k)]]
           b == [k \in 1 .. 2 |-> ComputedBy(operands[k])]
<1>12. a = b
  <2> HIDE DEF j, operands, args
  <2> QED BY <1>9, Zenon
<1>13. Meaning[i] = Computed[value.at] BY <1>10, <1>11, <1>12, Zenon
<1>14. value.kind # "argument" BY <1>6
<1> QED BY <1>13, <1>14, Zenon DEF Stands, Means

(* What is known by the name of a node is what the node means.              *)
LEMMA AllStand ==
  ASSUME ImportInv, BoundInv, visited < Len(graph.nodes), NEW i \in 1 .. visited
  PROVE  Stands(i)
<1> DEFINE Fails == {m \in 1 .. visited : ~Stands(m)}
<1>1. visited \in Nat BY Lengths
<1>2. Fails = {}
  <2> SUFFICES ASSUME Fails # {} PROVE FALSE OBVIOUS
  <2>1. Fails \subseteq Nat BY <1>1
  <2>2. PICK m \in Fails : \A n \in Fails : m <= n
    <3> HIDE DEF Fails
    <3> QED BY <2>1, LeastNat
  <2>3. m \in 1 .. visited /\ ~Stands(m) OBVIOUS
  <2>4. ASSUME NEW n \in 1 .. m - 1 PROVE Stands(n)
    <3>1. n \in 1 .. visited /\ ~(m <= n) BY <1>1, <2>3
    <3> QED BY <2>2, <3>1
  <2>5. Supported(graph.nodes[m]) BY <2>3 DEF Stands
  <2>6. graph.nodes[m].op = "placeholder" BY <2>3, <2>4, <2>5, CallStands
  <2>7. graph.nodes[m].name \in DOMAIN symbolTable BY <2>3, <2>5 DEF BoundInv
  <2>8. symbolTable[graph.nodes[m].name] = Argument(Number(m))
    BY <2>3, <2>6, <2>7 DEF ImportInv, NamesMeanNodes, NodeMeans
  <2>9. graph \in Graphs /\ m \in DOMAIN graph.nodes
    BY <1>1, <2>3, Lengths, GraphAssumption, LenProperties DEF ImportInv, ControlInv
  <2>10. Meaning[m] = <<"input", Number(m)>>
    <3>1. Meaning[m] = MeaningOf(Meaning, m) BY <2>9, MeaningIs, Zenon
    <3> QED BY <2>6, <3>1, Zenon DEF MeaningOf
  <2>11. /\ symbolTable[graph.nodes[m].name].kind = "argument"
         /\ symbolTable[graph.nodes[m].name].at = Number(m)
    BY <2>8 DEF Argument
  <2>12. Means(symbolTable[graph.nodes[m].name], m) BY <2>10, <2>11, Zenon DEF Means
  <2> QED BY <2>3, <2>12 DEF Stands
<1> QED BY <1>2

-----------------------------------------------------------------------------
(* The result: the key "output" is bound by the last node, and what is bound *)
(* to it is what the function returns.                                      *)
First == CHOOSE i \in NodeNamed(Last(graph.nodes).args[1]) : TRUE
ResultRight(value) ==
  IF Supported(graph.nodes[First]) THEN value # None /\ Means(value, First) ELSE value = None
ResultInv ==
  /\ visited = Len(graph.nodes) =>
       "output" \in DOMAIN symbolTable /\ ResultRight(symbolTable["output"])
  /\ pc \in {"bufferizing", "lowering", "returned"} =>
       visited = Len(graph.nodes) /\ ResultRight(ret)

ResultsInv == ImportInv /\ BoundInv /\ ResultInv

LEMMA ResultFrozen ==
  ASSUME UNCHANGED <<graph, ops>>, NEW value, ResultRight(value)
  PROVE  ResultRight(value)'
<1>1. graph' = graph /\ ops' = ops OBVIOUS
<1>2. Meaning' = Meaning BY <1>1 DEF Meaning, NodeNamed, Number
<1>3. Computed' = Computed BY <1>1 DEF Computed
<1>4. First' = First BY <1>1 DEF First, NodeNamed
<1>5. graph'.nodes[First'] = graph.nodes[First] BY <1>1, <1>4
<1> QED BY <1>2, <1>3, <1>4, <1>5, Zenon DEF ResultRight, Means

(* What is looked up for the first of the values returned.                  *)
LEMMA FirstLooked ==
  ASSUME ImportInv, BoundInv, CodeGen("output"), Node.args # <<>>
  PROVE  ResultRight(Lookup(Node.args[1])) /\ visited + 1 = Len(graph.nodes)
<1> DEFINE name == Node.args[1]
           last == Len(graph.nodes)
<1>1. /\ graph \in Graphs /\ last \in Nat /\ DOMAIN graph.nodes = 1 .. last
      /\ visited \in 0 .. last /\ visited < last /\ Node.op = "output"
  BY GraphAssumption, LenProperties DEF ImportInv, ControlInv, CodeGen
<1>2. visited + 1 = last /\ visited + 1 \in DOMAIN graph.nodes
  <2>1. visited + 1 \in DOMAIN graph.nodes BY <1>1
  <2> QED BY <1>1, <2>1, GraphAssumption DEF Node
<1>3. Last(graph.nodes) = Node /\ graph.nodes[last] = Node BY <1>2 DEF Last, Node
<1>4. NodeNamed(name) # {}
  <2>1. Node \in ToSet(graph.nodes) BY <1>2 DEF Node, ToSet
  <2>2. PICK other \in ToSet(graph.nodes) : other.name = name
    BY <1>1, <2>1, GraphAssumption
  <2>3. PICK k \in DOMAIN graph.nodes : graph.nodes[k] = other BY <2>2 DEF ToSet
  <2> QED BY <2>2, <2>3 DEF NodeNamed
<1>5. 1 \in DOMAIN Node.args
  <2>1. Node \in ToSet(graph.nodes) BY <1>2 DEF Node, ToSet
  <2>2. Node.args \in Seq(ToSet(Node.args)) BY <1>1, <2>1, GraphAssumption
  <2>3. DOMAIN Node.args = 1 .. Len(Node.args) /\ Len(Node.args) \in Nat
    BY <2>2, LenProperties
  <2>4. Len(Node.args) # 0 BY <2>2, EmptySeq
  <2> QED BY <2>3, <2>4
<1>6. First \in 1 .. last - 1 /\ graph.nodes[First].name = name
  <2>1. last \in DOMAIN graph.nodes BY <1>2
  <2>2. 1 \in DOMAIN graph.nodes[last].args /\ graph.nodes[last].args[1] = name
    BY <1>3, <1>5
  <2>3. First = CHOOSE i \in NodeNamed(graph.nodes[last].args[1]) : TRUE
    BY <1>3 DEF First
  <2> HIDE DEF last, name
  <2> QED BY <1>1, <1>4, <2>1, <2>2, <2>3, ArgumentsBefore
<1>7. First \in 1 .. visited BY <1>1, <1>2, <1>6
<1>8. CASE Supported(graph.nodes[First])
  <2>1. name \in DOMAIN symbolTable BY <1>1, <1>6, <1>7, <1>8 DEF BoundInv
  <2>2. Lookup(name) = symbolTable[name] /\ symbolTable[name] \in Values
    BY <1>1, <2>1, LookupTyped
  <2>3. symbolTable[name] # None BY <2>2, ValueTyped, NoneAssumption DEF ImportInv, AllValues
  <2>4. Means(symbolTable[name], First) BY <1>1, <1>6, <1>7, <1>8, AllStand DEF Stands
  <2> QED BY <1>2, <1>8, <2>2, <2>3, <2>4 DEF ResultRight
<1>9. CASE ~Supported(graph.nodes[First])
  <2>1. name \notin DOMAIN symbolTable BY <1>1, <1>6, <1>7, <1>9 DEF BoundInv
  <2> QED BY <1>2, <1>9, <2>1 DEF ResultRight, Lookup
<1> QED BY <1>8, <1>9

LEMMA InitResults == Init => ResultsInv
<1> SUFFICES ASSUME Init PROVE ResultsInv OBVIOUS
<1>1. graph.nodes # <<>> /\ graph.nodes \in Seq(ToSet(graph.nodes))
  BY GraphAssumption DEF Init
<1>2. visited # Len(graph.nodes) BY <1>1, EmptySeq DEF Init
<1>3. BoundInv BY DEF Init, BoundInv
<1> QED BY <1>2, <1>3, InitImport DEF Init, ResultsInv, ResultInv

(* A node that there is code for gets its name into the table, a node there *)
(* is none for does not.                                                    *)
LEMMA BoundNext ==
  ASSUME ImportInv, BoundInv, visited < Len(graph.nodes), NextNode,
         \/ Supported(Node) /\ DOMAIN symbolTable' = DOMAIN symbolTable \cup {Node.name}
         \/ ~Supported(Node) /\ DOMAIN symbolTable' = DOMAIN symbolTable
  PROVE  BoundInv'
<1>1. /\ graph' = graph /\ visited' = visited + 1 /\ visited \in Nat BY Lengths DEF NextNode
<1> SUFFICES ASSUME NEW i \in 1 .. visited'
             PROVE  Supported(graph.nodes[i]) <=> graph.nodes[i].name \in DOMAIN symbolTable'
  BY <1>1 DEF BoundInv
<1>2. CASE i = visited + 1
  <2>1. graph.nodes[i] = Node BY <1>2 DEF Node
  <2> QED BY <2>1, NewName
<1>3. CASE i \in 1 .. visited
  <2>1. graph.nodes[i].name # Node.name BY <1>3, NewName
  <2>2. Supported(graph.nodes[i]) <=> graph.nodes[i].name \in DOMAIN symbolTable
    BY <1>3 DEF BoundInv
  <2> QED BY <2>1, <2>2
<1> QED BY <1>1, <1>2, <1>3

(* Only the output node is the last.                                        *)
LEMMA NotLast ==
  ASSUME ImportInv, visited < Len(graph.nodes), NextNode, Node.op # "output"
  PROVE  visited' # Len(graph.nodes) /\ graph' = graph
<1>1. /\ Len(graph.nodes) \in Nat /\ visited \in 0 .. Len(graph.nodes)
      /\ visited + 1 \in DOMAIN graph.nodes
  BY Lengths, NewName
<1>2. visited + 1 # Len(graph.nodes)
  BY <1>1, GraphAssumption DEF ImportInv, ControlInv, Node
<1> QED BY <1>2 DEF NextNode

LEMMA ResultNext ==
  ASSUME ResultsInv, visited < Len(graph.nodes), pc = "importing", NextNode,
         Node.op # "output"
  PROVE  ResultInv'
BY NotLast DEF ResultsInv, ResultInv, NextNode

(* What is right stays right while graph and operations stay as they are.   *)
LEMMA TableResult ==
  ASSUME UNCHANGED <<graph, ops>>, NEW value, ResultRight(value),
         "output" \in DOMAIN symbolTable', symbolTable'["output"] = value
  PROVE  ("output" \in DOMAIN symbolTable /\ ResultRight(symbolTable["output"]))'
<1>1. ResultRight(value)' BY ResultFrozen
<1>2. ResultRight(symbolTable["output"])' BY <1>1, Zenon DEF ResultRight, Means
<1> QED BY <1>2

LEMMA ReturnedResult ==
  ASSUME UNCHANGED <<graph, ops>>, NEW value, ResultRight(value), ret' = value
  PROVE  ResultRight(ret)'
<1>1. ResultRight(value)' BY ResultFrozen
<1> QED BY <1>1, Zenon DEF ResultRight, Means

(* The steps that are not the visit of a node.                              *)
LEMMA ResultOutside ==
  ASSUME ResultsInv, UNCHANGED <<graph, visited, symbolTable, ops>>,
         pc' \in {"bufferizing", "lowering", "returned"} =>
           visited = Len(graph.nodes) /\ \E value : ResultRight(value) /\ ret' = value
  PROVE  BoundInv' /\ ResultInv'
<1>1. BoundInv' BY DEF ResultsInv, BoundInv
<1>2. ASSUME visited = Len(graph.nodes)
      PROVE  ("output" \in DOMAIN symbolTable /\ ResultRight(symbolTable["output"]))'
  <2>1. "output" \in DOMAIN symbolTable /\ ResultRight(symbolTable["output"])
    BY <1>2 DEF ResultsInv, ResultInv
  <2>2. PICK value : value = symbolTable["output"] OBVIOUS
  <2> QED BY <2>1, <2>2, TableResult
<1>3. ASSUME pc' \in {"bufferizing", "lowering", "returned"}
      PROVE  visited = Len(graph.nodes) /\ ResultRight(ret)'
  <2>1. PICK value : ResultRight(value) /\ ret' = value BY <1>3
  <2> QED BY <1>3, <2>1, ReturnedResult
<1> QED BY <1>1, <1>2, <1>3 DEF ResultInv

LEMMA StepResults == ResultsInv /\ [Next]_vars => ResultsInv'
<1> SUFFICES ASSUME ResultsInv, [Next]_vars PROVE ResultsInv' OBVIOUS
<1>1. ImportInv' BY StepImport DEF ResultsInv
<1> SUFFICES BoundInv' /\ ResultInv' BY <1>1 DEF ResultsInv
<1>2. CASE Placeholder
  <2>1. /\ visited < Len(graph.nodes) /\ pc = "importing" /\ Node.op = "placeholder"
        /\ NextNode /\ DOMAIN symbolTable' = DOMAIN symbolTable \cup {Node.name}
    BY <1>2 DEF Placeholder, CodeGen, Bind
  <2> QED BY <2>1, BoundNext, ResultNext DEF ResultsInv, Supported
<1>3. CASE Add \/ Matmul
  <2>1. /\ visited < Len(graph.nodes) /\ pc = "importing"
        /\ Node.op = "call_function" /\ Node.target \in {"add", "matmul"}
        /\ NextNode /\ DOMAIN symbolTable' = DOMAIN symbolTable \cup {Node.name}
    BY <1>3 DEF Add, Matmul, Calls, CodeGen, Generate, Bind
  <2> QED BY <2>1, BoundNext, ResultNext DEF ResultsInv, Supported
<1>4. CASE Skip
  <2>1. /\ visited < Len(graph.nodes) /\ pc = "importing" /\ ~Supported(Node)
        /\ Node.op # "output" /\ NextNode /\ symbolTable' = symbolTable
    BY <1>4 DEF Skip, Supported, codeVars
  <2> QED BY <2>1, BoundNext, ResultNext DEF ResultsInv
<1>5. CASE Output
  <2>1. /\ CodeGen("output") /\ Node.args # <<>> /\ NextNode /\ ops' = ops
        /\ Bind("output", Lookup(Node.args[1])) /\ pc = "importing"
    BY <1>5 DEF Output, CodeGen
  <2>2. ResultRight(Lookup(Node.args[1])) /\ visited + 1 = Len(graph.nodes)
    BY <2>1, FirstLooked DEF ResultsInv
  <2>3. visited' = Len(graph.nodes)' /\ pc' = "importing" BY <2>1, <2>2 DEF NextNode
  <2>4. BoundInv'
    <3>1. ~(visited' < Len(graph.nodes)')
      BY <2>1, <2>2, Lengths DEF ResultsInv, NextNode
    <3> QED BY <3>1 DEF BoundInv
  <2>5. PICK value : value = Lookup(Node.args[1]) OBVIOUS
  <2>6. "output" \in DOMAIN symbolTable' /\ symbolTable'["output"] = value
    BY <2>1, <2>5 DEF Bind
  <2>7. ("output" \in DOMAIN symbolTable /\ ResultRight(symbolTable["output"]))'
    BY <2>1, <2>2, <2>5, <2>6, TableResult DEF NextNode
  <2> QED BY <2>3, <2>4, <2>7 DEF ResultInv
<1>6. CASE CallRaises \/ OutputRaises \/ LoweringFails
  <2>1. pc' = "raised" /\ UNCHANGED <<graph, visited, symbolTable, ops>>
    BY <1>6 DEF CallRaises, OutputRaises, LoweringFails, Raise, codeVars
  <2> QED BY <2>1, ResultOutside
<1>7. CASE ReturnGenerated
  <2>1. /\ visited = Len(graph.nodes) /\ ret' = Lookup("output")
        /\ UNCHANGED <<graph, visited, symbolTable, ops>>
    BY <1>7 DEF ReturnGenerated, codeVars
  <2>2. ResultRight(Lookup("output")) BY <2>1 DEF ResultsInv, ResultInv, Lookup
  <2> QED BY <2>1, <2>2, ResultOutside
<1>8. CASE Lowering
  <2>1. /\ pc \in {"bufferizing", "lowering"} /\ ret' = ret
        /\ UNCHANGED <<graph, visited, symbolTable, ops>>
    BY <1>8 DEF Lowering, codeVars
  <2>2. visited = Len(graph.nodes) /\ ResultRight(ret) BY <2>1 DEF ResultsInv, ResultInv
  <2> QED BY <2>1, <2>2, ResultOutside
<1>9. CASE Finished \/ UNCHANGED vars
  <2>1. pc' = pc /\ ret' = ret /\ UNCHANGED <<graph, visited, symbolTable, ops>>
    BY <1>9 DEF Finished, vars, codeVars
  <2>2. pc \in {"bufferizing", "lowering", "returned"} =>
          visited = Len(graph.nodes) /\ ResultRight(ret)
    BY DEF ResultsInv, ResultInv
  <2> QED BY <2>1, <2>2, ResultOutside
<1> QED BY <1>2, <1>3, <1>4, <1>5, <1>6, <1>7, <1>8, <1>9 DEF Next

(* For every graph, what the function returns is what the first of the      *)
(* values the graph returns means, computed from the arguments by the calls *)
(* that were imported; and it returns nothing just when that value is from  *)
(* a node that was passed over.                                             *)
THEOREM FirstOutputReturned == Spec => []ReturnsFirstOutput
<1>1. ResultsInv => ReturnsFirstOutput
  BY DEF ResultsInv, ResultInv, ResultRight, First, ReturnsFirstOutput
<1> QED BY <1>1, InitResults, StepResults, PTL DEF Spec

-----------------------------------------------------------------------------
(* The shapes in the graph, recursive on the nodes before a node too.       *)
ShapeOfArg(s, i, k) ==
  LET args == graph.nodes[i].args
  IN  IF k \in DOMAIN args /\ NodeNamed(args[k]) # {}
      THEN s[CHOOSE j \in NodeNamed(args[k]) : TRUE] ELSE <<>>
NodeShape(s, i) ==
  LET node == graph.nodes[i] IN
  IF node.op = "placeholder" THEN graph.inputs[Number(i)]
  ELSE IF node.target = "matmul" THEN <<ShapeOfArg(s, i, 1)[1], ShapeOfArg(s, i, 2)[2]>>
  ELSE ShapeOfArg(s, i, 1)

LEMMA ShapeLocal ==
  ASSUME graph \in Graphs, NEW i \in DOMAIN graph.nodes, NEW g, NEW h,
         \A j \in 1 .. i - 1 : g[j] = h[j]
  PROVE  NodeShape(g, i) = NodeShape(h, i)
<1>1. ASSUME NEW k PROVE ShapeOfArg(g, i, k) = ShapeOfArg(h, i, k)
  <2> DEFINE args == graph.nodes[i].args
             j == CHOOSE j \in NodeNamed(args[k]) : TRUE
  <2>1. CASE k \in DOMAIN args /\ NodeNamed(args[k]) # {}
    <3>1. j \in 1 .. i - 1 BY <2>1, ArgumentsBefore
    <3>2. g[j] = h[j] BY <3>1
    <3> QED BY <2>1, <3>2, Zenon DEF ShapeOfArg
  <2>2. CASE ~(k \in DOMAIN args /\ NodeNamed(args[k]) # {})
    BY <2>2, Zenon DEF ShapeOfArg
  <2> QED BY <2>1, <2>2
<1>2. ShapeOfArg(g, i, 1) = ShapeOfArg(h, i, 1) /\ ShapeOfArg(g, i, 2) = ShapeOfArg(h, i, 2)
  BY <1>1, Zenon
<1> QED BY <1>2 DEF NodeShape

LEMMA ShapeIs ==
  ASSUME graph \in Graphs
  PROVE  \A i \in DOMAIN graph.nodes : Shape[i] = NodeShape(Shape, i)
<1> DEFINE n == Len(graph.nodes)
           Good == {k \in 0 .. n : \E g : g = [i \in 1 .. k |-> NodeShape(g, i)]}
<1>1. n \in Nat /\ DOMAIN graph.nodes = 1 .. n BY GraphAssumption, LenProperties
<1> HIDE DEF n
<1>2. 0 \in Good
  <2> DEFINE g == [i \in 1 .. 0 |-> 0]
  <2>1. g = [i \in 1 .. 0 |-> NodeShape(g, i)] OBVIOUS
  <2>2. 0 \in 0 .. n BY <1>1
  <2> QED BY <2>1, <2>2, Zenon
<1>3. ASSUME NEW k \in 1 .. n, k - 1 \in Good PROVE k \in Good
  <2>1. PICK g : g = [i \in 1 .. k - 1 |-> NodeShape(g, i)] BY <1>3
  <2> DEFINE h == [i \in 1 .. k |-> NodeShape(g, i)]
  <2>2. ASSUME NEW i \in 1 .. k PROVE h[i] = NodeShape(h, i)
    <3>1. h[i] = NodeShape(g, i) BY Zenon
    <3>2. ASSUME NEW j \in 1 .. i - 1 PROVE g[j] = h[j]
      <4>1. j \in 1 .. k /\ j \in 1 .. k - 1 BY <1>1
      <4>2. g[j] = NodeShape(g, j) BY <2>1, <4>1, Zenon
      <4> QED BY <4>1, <4>2, Zenon
    <3>3. i \in DOMAIN graph.nodes BY <1>1
    <3> HIDE DEF h
    <3> QED BY <3>1, <3>2, <3>3, ShapeLocal
  <2>3. h = [i \in 1 .. k |-> NodeShape(h, i)]
    <3> DEFINE e == [i \in 1 .. k |-> NodeShape(h, i)]
    <3>1. \A i \in 1 .. k : h[i] = e[i] BY <2>2, Zenon
    <3> QED BY <3>1, Zenon
  <2>4. k \in 0 .. n BY <1>1
  <2> HIDE DEF h
  <2> QED BY <2>3, <2>4, Zenon
<1>4. n \in Good
  <2> HIDE DEF Good
  <2> QED BY <1>1, <1>2, <1>3, CountUp
<1>5. \E g : g = [i \in DOMAIN graph.nodes |-> NodeShape(g, i)] BY <1>1, <1>4, Zenon
<1>6. Shape = [i \in DOMAIN graph.nodes |-> NodeShape(Shape, i)]
  <2> DEFINE s == CHOOSE g : g = [i \in DOMAIN graph.nodes |-> NodeShape(g, i)]
  <2>1. s = [i \in DOMAIN graph.nodes |-> NodeShape(s, i)] BY <1>5, Zenon
  <2>2. Shape = s BY Zenon DEF Shape, NodeShape, ShapeOfArg
  <2> HIDE DEF s
  <2> QED BY <2>1, <2>2, Zenon
<1> QED BY <1>6, Zenon

-----------------------------------------------------------------------------
(* Every operation has the shape worked out for it, and stands for a call   *)
(* that has been visited.                                                   *)
CallOf(i, m) ==
  /\ Supported(graph.nodes[i]) /\ graph.nodes[i].op # "placeholder"
  /\ graph.nodes[i].name \in DOMAIN symbolTable
  /\ symbolTable[graph.nodes[i].name] = Result(m)
ShapedAt(m) == ops[m].shape = ShapeFor(ops[m].kind, ops[m].operands)
Shaped == \A m \in DOMAIN ops : ShapedAt(m)
Imported ==
  visited < Len(graph.nodes) => \A m \in DOMAIN ops : \E i \in 1 .. visited : CallOf(i, m)
AllFit == \A i \in 1 .. visited : Fits(i)
VerifiedAtEnd == visited = Len(graph.nodes) /\ AllFit => Verified

ShapesInv == ImportInv /\ BoundInv /\ Shaped /\ Imported /\ VerifiedAtEnd

(* A call that there is code for: its arguments are nodes before it, bound  *)
(* in the table to the operands of the operation made for it.               *)
LEMMA CallBound ==
  ASSUME ImportInv, BoundInv, visited < Len(graph.nodes), NEW i \in 1 .. visited,
         Supported(graph.nodes[i]), graph.nodes[i].op # "placeholder", NEW k \in 1 .. 2
  PROVE  LET args == graph.nodes[i].args
             value == symbolTable[graph.nodes[i].name]
             j == CHOOSE j \in NodeNamed(args[k]) : TRUE
         IN  /\ graph.nodes[i].op = "call_function"
             /\ graph.nodes[i].target \in {"add", "matmul"}
             /\ i \in DOMAIN graph.nodes /\ DOMAIN args = 1 .. 2
             /\ value \in Values /\ value.kind = "result" /\ value.at \in DOMAIN ops
             /\ ops[value.at].kind = graph.nodes[i].target
             /\ NodeNamed(args[k]) # {} /\ j \in 1 .. i - 1 /\ j \in 1 .. visited
             /\ Supported(graph.nodes[j])
             /\ ops[value.at].operands[k] = symbolTable[graph.nodes[j].name]
             /\ symbolTable[graph.nodes[j].name] \in Values
<1> DEFINE node == graph.nodes[i]
           args == node.args
           value == symbolTable[node.name]
           operands == ops[value.at].operands
           j == CHOOSE j \in NodeNamed(args[k]) : TRUE
<1>1. /\ graph \in Graphs /\ Len(graph.nodes) \in Nat
      /\ DOMAIN graph.nodes = 1 .. Len(graph.nodes) /\ visited \in Nat
  BY GraphAssumption, LenProperties DEF ImportInv, ControlInv
<1>2. i \in DOMAIN graph.nodes BY <1>1
<1>3. node.name \in DOMAIN symbolTable BY DEF BoundInv
<1>4. value \in Values BY <1>3, LookupTyped
<1>5. NodeMeans(i) BY <1>3 DEF ImportInv, NamesMeanNodes
<1>6. /\ value.kind = "result" /\ ops[value.at].kind = node.target
      /\ args[k] \in DOMAIN symbolTable /\ operands[k] = symbolTable[args[k]]
  BY <1>5 DEF NodeMeans
<1>7. value.at \in DOMAIN ops BY <1>4, <1>6, ResultsMade, Zenon
<1>8. node.op = "call_function" /\ node.target \in {"add", "matmul"} BY DEF Supported
<1>9. DOMAIN args = 1 .. 2
  <2>1. node \in ToSet(graph.nodes) BY <1>2 DEF ToSet
  <2>2. args \in Seq(ToSet(args)) /\ Len(args) = 2 BY <1>1, <1>8, <2>1, GraphAssumption
  <2> QED BY <2>2, LenProperties
<1>10. NodeNamed(args[k]) # {}
  <2>1. PICK m \in 1 .. visited : graph.nodes[m].name = args[k]
    BY <1>6 DEF ImportInv, TableInv
  <2> QED BY <1>1, <2>1 DEF NodeNamed
<1>11. j \in 1 .. i - 1 /\ graph.nodes[j].name = args[k]
  BY <1>1, <1>2, <1>9, <1>10, ArgumentsBefore
<1>12. symbolTable[args[k]] \in Values BY <1>6, LookupTyped
<1> HIDE DEF j
<1>13. j \in 1 .. visited BY <1>1, <1>11
<1>14. Supported(graph.nodes[j]) BY <1>6, <1>11, <1>13 DEF BoundInv
<1> QED BY <1>2, <1>4, <1>6, <1>7, <1>8, <1>9, <1>10, <1>11, <1>12, <1>13, <1>14 DEF j

HasShape(i) ==
  Supported(graph.nodes[i]) => ShapeOf(symbolTable[graph.nodes[i].name]) = Shape[i]

(* The operands of a call in the graph and in the function.                 *)
LEMMA OperandShape ==
  ASSUME ImportInv, BoundInv, visited < Len(graph.nodes), NEW i \in 1 .. visited,
         Supported(graph.nodes[i]), graph.nodes[i].op # "placeholder", NEW k \in 1 .. 2,
         \A j \in 1 .. i - 1 : HasShape(j)
  PROVE  LET value == symbolTable[graph.nodes[i].name]
         IN  /\ ShapeOfArg(Shape, i, k) = ShapeOf(ops[value.at].operands[k])
             /\ ShapeOf(ops[value.at].operands[k])
                  = Shape[CHOOSE j \in NodeNamed(graph.nodes[i].args[k]) : TRUE]
<1> DEFINE args == graph.nodes[i].args
           value == symbolTable[graph.nodes[i].name]
           j == CHOOSE j \in NodeNamed(args[k]) : TRUE
<1>1. /\ DOMAIN args = 1 .. 2 /\ NodeNamed(args[k]) # {} /\ j \in 1 .. i - 1
      /\ Supported(graph.nodes[j])
      /\ ops[value.at].operands[k] = symbolTable[graph.nodes[j].name]
  BY CallBound
<1> HIDE DEF j, args, value
<1>2. ShapeOf(symbolTable[graph.nodes[j].name]) = Shape[j] BY <1>1 DEF HasShape
<1>3. ShapeOf(ops[value.at].operands[k]) = Shape[j] BY <1>1, <1>2, Zenon
<1>4. k \in DOMAIN args BY <1>1
<1>5. ShapeOfArg(Shape, i, k) = Shape[j] BY <1>1, <1>4, Zenon DEF ShapeOfArg, j, args
<1> QED BY <1>3, <1>5, Zenon DEF j, args, value

LEMMA CallHasShape ==
  ASSUME ImportInv, BoundInv, Shaped, visited < Len(graph.nodes), NEW i \in 1 .. visited,
         Supported(graph.nodes[i]), graph.nodes[i].op # "placeholder",
         \A j \in 1 .. i - 1 : HasShape(j)
  PROVE  HasShape(i)
<1> DEFINE value == symbolTable[graph.nodes[i].name]
           o == ops[value.at].operands
<1>1. /\ graph.nodes[i].target \in {"add", "matmul"} /\ i \in DOMAIN graph.nodes
      /\ value.kind = "result" /\ value.at \in DOMAIN ops
      /\ ops[value.at].kind = graph.nodes[i].target
  <2>1. 1 \in 1 .. 2 OBVIOUS
  <2> QED BY <2>1, CallBound
<1>2. /\ ShapeOfArg(Shape, i, 1) = ShapeOf(o[1]) /\ ShapeOfArg(Shape, i, 2) = ShapeOf(o[2])
  <2>1. 1 \in 1 .. 2 /\ 2 \in 1 .. 2 OBVIOUS
  <2> QED BY <2>1, OperandShape
<1>3. Shape[i] = NodeShape(Shape, i)
  BY <1>1, ShapeIs DEF ImportInv, ControlInv
<1>4. ops[value.at].shape = ShapeFor(graph.nodes[i].target, o) BY <1>1 DEF Shaped, ShapedAt
<1>5. ShapeOf(value) = ops[value.at].shape
  <2>1. value.kind # "argument" BY <1>1
  <2> QED BY <2>1, Zenon DEF ShapeOf
<1> HIDE DEF value, o
<1>6. NodeShape(Shape, i) = ShapeFor(graph.nodes[i].target, o)
  <2>1. CASE graph.nodes[i].target = "add"
    <3>1. graph.nodes[i].target # "matmul" BY <2>1
    <3>2. NodeShape(Shape, i) = ShapeOfArg(Shape, i, 1) BY <3>1, Zenon DEF NodeShape
    <3> QED BY <1>2, <2>1, <3>2, Zenon DEF ShapeFor
  <2>2. CASE graph.nodes[i].target = "matmul"
    <3>1. graph.nodes[i].target # "add" BY <2>2
    <3>2. NodeShape(Shape, i) = <<ShapeOfArg(Shape, i, 1)[1], ShapeOfArg(Shape, i, 2)[2]>>
      BY <2>2, Zenon DEF NodeShape
    <3> QED BY <1>2, <3>1, <3>2, Zenon DEF ShapeFor, MatmulShape
  <2> QED BY <1>1, <2>1, <2>2
<1> QED BY <1>3, <1>4, <1>5, <1>6, Zenon DEF HasShape, value

(* The shape of a value is the one its node has in the graph.               *)
LEMMA AllHaveShape ==
  ASSUME ImportInv, BoundInv, Shaped, visited < Len(graph.nodes), NEW i \in 1 .. visited
  PROVE  HasShape(i)
<1> DEFINE Fails == {m \in 1 .. visited : ~HasShape(m)}
<1>1. visited \in Nat BY Lengths
<1>2. Fails = {}
  <2> SUFFICES ASSUME Fails # {} PROVE FALSE OBVIOUS
  <2>1. Fails \subseteq Nat BY <1>1
  <2>2. PICK m \in Fails : \A n \in Fails : m <= n
    <3> HIDE DEF Fails
    <3> QED BY <2>1, LeastNat
  <2>3. m \in 1 .. visited /\ ~HasShape(m) OBVIOUS
  <2>4. ASSUME NEW n \in 1 .. m - 1 PROVE HasShape(n)
    <3>1. n \in 1 .. visited /\ ~(m <= n) BY <1>1, <2>3
    <3> QED BY <2>2, <3>1
  <2>5. Supported(graph.nodes[m]) BY <2>3 DEF HasShape
  <2>6. graph.nodes[m].op = "placeholder" BY <2>3, <2>4, <2>5, CallHasShape
  <2>7. graph.nodes[m].name \in DOMAIN symbolTable BY <2>3, <2>5 DEF BoundInv
  <2>8. symbolTable[graph.nodes[m].name] = Argument(Number(m))
    BY <2>3, <2>6, <2>7 DEF ImportInv, NamesMeanNodes, NodeMeans
  <2>9. graph \in Graphs /\ m \in DOMAIN graph.nodes
    BY <1>1, <2>3, Lengths, GraphAssumption, LenProperties DEF ImportInv, ControlInv
  <2>10. Shape[m] = graph.inputs[Number(m)]
    <3>1. Shape[m] = NodeShape(Shape, m) BY <2>9, ShapeIs, Zenon
    <3> QED BY <2>6, <3>1, Zenon DEF NodeShape
  <2>11. ShapeOf(symbolTable[graph.nodes[m].name]) = graph.inputs[Number(m)]
    BY <2>8 DEF Argument, ShapeOf
  <2> QED BY <2>3, <2>10, <2>11 DEF HasShape
<1> QED BY <1>2

(* Operations and the graph agree on the shapes, so what fits in the graph  *)
(* is well typed in the function.                                           *)
LEMMA FittingVerified ==
  ASSUME ImportInv, BoundInv, Shaped, Imported, visited < Len(graph.nodes), AllFit
  PROVE  Verified
<1> SUFFICES ASSUME NEW m \in DOMAIN ops PROVE WellTyped(ops[m])
  BY DEF Verified, ToSet
<1>1. PICK i \in 1 .. visited : CallOf(i, m) BY DEF Imported
<1> DEFINE args == graph.nodes[i].args
           Of(k) == Shape[CHOOSE j \in NodeNamed(args[k]) : TRUE]
           a == ShapeOf(ops[m].operands[1])
           b == ShapeOf(ops[m].operands[2])
<1>2. symbolTable[graph.nodes[i].name].at = m BY <1>1 DEF CallOf, Result
<1>3. /\ graph.nodes[i].op = "call_function" /\ graph.nodes[i].target \in {"add", "matmul"}
      /\ ops[m].kind = graph.nodes[i].target
  <2>1. 1 \in 1 .. 2 OBVIOUS
  <2> QED BY <1>1, <1>2, <2>1, CallBound DEF CallOf
<1>4. \A j \in 1 .. i - 1 : HasShape(j)
  <2>1. \A j \in 1 .. i - 1 : j \in 1 .. visited BY Lengths
  <2> QED BY <2>1, AllHaveShape
<1>5. a = Of(1) /\ b = Of(2)
  <2>1. 1 \in 1 .. 2 /\ 2 \in 1 .. 2 OBVIOUS
  <2> QED BY <1>1, <1>2, <1>4, <2>1, OperandShape DEF CallOf
<1>6. IF graph.nodes[i].target = "matmul"
      THEN Len(Of(1)) = 2 /\ Len(Of(2)) = 2 /\ Of(1)[2] = Of(2)[1]
      ELSE Of(1) = Of(2)
  BY <1>1, <1>3 DEF AllFit, Fits
<1>7. ops[m].shape = ShapeFor(ops[m].kind, ops[m].operands) BY DEF Shaped, ShapedAt
<1>8. CASE graph.nodes[i].target = "add"
  <2>1. a = b
    <3> HIDE DEF a, b, Of
    <3> QED BY <1>5, <1>6, <1>8
  <2>2. ops[m].kind = "add" /\ ops[m].shape = a BY <1>3, <1>7, <1>8 DEF ShapeFor
  <2> QED BY <2>1, <2>2, Zenon DEF WellTyped
<1>9. CASE graph.nodes[i].target = "matmul"
  <2>1. Len(a) = 2 /\ Len(b) = 2 /\ a[2] = b[1]
    <3> HIDE DEF a, b, Of
    <3> QED BY <1>5, <1>6, <1>9
  <2>2. ops[m].kind # "add" BY <1>3, <1>9
  <2>3. ops[m].shape = <<a[1], b[2]>> BY <1>7, <2>2, Zenon DEF ShapeFor, MatmulShape
  <2> QED BY <2>1, <2>2, <2>3, Zenon DEF WellTyped
<1> QED BY <1>3, <1>8, <1>9

(* What an operation is made on keeps its shape.                            *)
LEMMA ShapeKept ==
  ASSUME Extends, NEW value \in Values, value.kind # "argument" => value.at \in DOMAIN ops
  PROVE  ShapeOf(value)' = ShapeOf(value)
<1>1. CASE value.kind = "argument"
  <2>1. graph'.inputs[value.at] = graph.inputs[value.at] BY DEF Extends
  <2> QED BY <1>1, <2>1, Zenon DEF ShapeOf
<1>2. CASE value.kind # "argument"
  <2>1. ops'[value.at] = ops[value.at] BY <1>2 DEF Extends
  <2> QED BY <1>2, <2>1, Zenon DEF ShapeOf
<1> QED BY <1>1, <1>2

LEMMA ShapeForKept ==
  ASSUME ImportInv, Extends, NEW kind, NEW operands,
         operands[1] \in Values, operands[2] \in Values
  PROVE  ShapeFor(kind, operands)' = ShapeFor(kind, operands)
<1>1. \A value \in Values : value.kind # "argument" => value.at \in DOMAIN ops
  <2>1. \A value \in Values : value.kind # "argument" => value.kind = "result"
    BY ValueTyped DEF ImportInv, AllValues
  <2> QED BY <2>1, ResultsMade
<1>2. /\ ShapeOf(operands[1])' = ShapeOf(operands[1])
      /\ ShapeOf(operands[2])' = ShapeOf(operands[2])
  BY <1>1, ShapeKept
<1> QED BY <1>2, Zenon DEF ShapeFor, MatmulShape

LEMMA ShapedAfter ==
  ASSUME ImportInv, Extends, NEW kind, NEW operands, NEW m,
         operands[1] \in Values, operands[2] \in Values,
         ops'[m].kind = kind, ops'[m].operands = operands,
         ops'[m].shape = ShapeFor(kind, operands)
  PROVE  ShapedAt(m)'
<1>1. ops'[m].shape = ShapeFor(kind, operands)' BY ShapeForKept
<1> QED BY <1>1, Zenon DEF ShapedAt, ShapeFor, ShapeOf

LEMMA ShapedKept ==
  ASSUME ImportInv, Extends, Shaped, NEW m \in DOMAIN ops
  PROVE  ShapedAt(m)'
<1>1. ControlInv /\ OpsInv BY DEF ImportInv
<1>2. ops[m].operands[1] \in Values /\ ops[m].operands[2] \in Values
  <2>1. 1 \in 1 .. 2 /\ 2 \in 1 .. 2 OBVIOUS
  <2> QED BY <1>1, <2>1, OperandsBefore
<1>3. PICK kind : kind = ops[m].kind OBVIOUS
<1>4. PICK operands : operands = ops[m].operands OBVIOUS
<1>5. ops'[m] = ops[m] BY DEF Extends
<1>6. ops[m].shape = ShapeFor(kind, operands)
  BY <1>3, <1>4 DEF Shaped, ShapedAt
<1>7. ops'[m].kind = kind /\ ops'[m].operands = operands
      /\ ops'[m].shape = ShapeFor(kind, operands)
  BY <1>3, <1>4, <1>5, <1>6
<1>8. operands[1] \in Values /\ operands[2] \in Values BY <1>2, <1>4
<1> QED BY <1>7, <1>8, ShapedAfter

(* A visit that makes no operation.                                         *)
LEMMA NoneMade ==
  ASSUME ShapesInv, visited < Len(graph.nodes), NextNode, ops' = ops,
         \A name \in DOMAIN symbolTable :
           name \in DOMAIN symbolTable' /\ symbolTable'[name] = symbolTable[name],
         Node.op # "output"
  PROVE  Shaped' /\ Imported' /\ VerifiedAtEnd'
<1>1. ImportInv /\ Shaped /\ Imported /\ Extends BY DEF ShapesInv, Extends, NextNode
<1>2. Shaped'
  <2>1. \A m \in DOMAIN ops : ShapedAt(m)' BY <1>1, ShapedKept
  <2> QED BY <2>1 DEF Shaped
<1>3. Imported'
  <2> SUFFICES ASSUME NEW m \in DOMAIN ops PROVE \E i \in 1 .. visited' : CallOf(i, m)'
    BY DEF Imported
  <2>1. PICK i \in 1 .. visited : CallOf(i, m) BY <1>1 DEF Imported
  <2>2. i \in 1 .. visited' BY <1>1, Lengths DEF NextNode
  <2>3. graph'.nodes[i] = graph.nodes[i] BY DEF NextNode
  <2>4. CallOf(i, m)' BY <2>1, <2>3 DEF CallOf, Supported, Result
  <2> QED BY <2>2, <2>4
<1>4. VerifiedAtEnd' BY <1>1, NotLast DEF VerifiedAtEnd
<1> QED BY <1>2, <1>3, <1>4

(* A visit that does.                                                       *)
LEMMA OneMade ==
  ASSUME ShapesInv, Add \/ Matmul
  PROVE  Shaped' /\ Imported' /\ VerifiedAtEnd'
<1>1. ImportInv /\ Shaped /\ Imported BY DEF ShapesInv
<1>2. PICK kind \in {"add", "matmul"}, shape \in Seq(Nat) :
        /\ Calls(kind) /\ None \notin ToSet(Operands) /\ Generate(kind, shape)
        /\ shape = ShapeFor(kind, Operands)
  BY <1>1, CallsGenerate
<1>3. /\ visited < Len(graph.nodes) /\ Node.op = "call_function" /\ Node.target = kind
      /\ NextNode /\ Extends
      /\ \A k \in 1 .. 2 : Operands[k] \in Values
  BY <1>1, <1>2, Made
<1>4. /\ DOMAIN ops' = 1 .. Len(ops) + 1
      /\ ops'[Len(ops) + 1].kind = kind /\ ops'[Len(ops) + 1].operands = Operands
      /\ ops'[Len(ops) + 1].shape = shape
  BY <1>1, <1>2, Made
<1>5. /\ DOMAIN symbolTable' = DOMAIN symbolTable \cup {Node.name}
      /\ symbolTable'[Node.name] = Result(Len(ops) + 1)
      /\ \A name \in DOMAIN symbolTable : symbolTable'[name] = symbolTable[name]
  BY <1>1, <1>2, Made
<1>6. \A m \in DOMAIN ops' : m \in DOMAIN ops \/ m = Len(ops) + 1
  BY <1>1, <1>4, Lengths
<1>7. PICK new : new = Len(ops) + 1 OBVIOUS
<1>8. ShapedAt(new)'
  <2>1. PICK operands : operands = Operands OBVIOUS
  <2>2. 1 \in 1 .. 2 /\ 2 \in 1 .. 2 OBVIOUS
  <2>3. operands[1] \in Values /\ operands[2] \in Values BY <1>3, <2>1, <2>2
  <2>4. shape = ShapeFor(kind, operands) BY <1>2, <2>1
  <2>5. /\ ops'[new].kind = kind /\ ops'[new].operands = operands
        /\ ops'[new].shape = ShapeFor(kind, operands)
    BY <1>4, <1>7, <2>1, <2>4
  <2> QED BY <1>1, <1>3, <2>3, <2>5, ShapedAfter
<1>9. Shaped'
  <2>1. \A m \in DOMAIN ops : ShapedAt(m)' BY <1>1, <1>3, ShapedKept
  <2> QED BY <1>6, <1>7, <1>8, <2>1 DEF Shaped
<1>10. Imported'
  <2> SUFFICES ASSUME NEW m \in DOMAIN ops' PROVE \E i \in 1 .. visited' : CallOf(i, m)'
    BY DEF Imported
  <2>1. CASE m \in DOMAIN ops
    <3>1. PICK i \in 1 .. visited : CallOf(i, m) BY <1>1, <1>3, <2>1 DEF Imported
    <3>2. i \in 1 .. visited' BY <1>1, <1>3, Lengths DEF NextNode
    <3>3. graph'.nodes[i] = graph.nodes[i] BY <1>3 DEF NextNode
    <3>4. CallOf(i, m)' BY <1>5, <3>1, <3>3 DEF CallOf, Supported, Result
    <3> QED BY <3>2, <3>4
  <2>2. CASE m = Len(ops) + 1
    <3>1. visited + 1 \in 1 .. visited' /\ graph'.nodes[visited + 1] = Node
      BY <1>1, <1>3, Lengths DEF NextNode, Node
    <3>2. PICK i : i = visited + 1 OBVIOUS
    <3>3. CallOf(i, m)' BY <1>3, <1>5, <2>2, <3>1, <3>2 DEF CallOf, Supported, Result
    <3> QED BY <3>1, <3>2, <3>3
  <2> QED BY <1>6, <2>1, <2>2
<1>11. VerifiedAtEnd' BY <1>1, <1>3, NotLast DEF VerifiedAtEnd
<1> QED BY <1>9, <1>10, <1>11

(* What fits and what is verified while graph and operations stay as they   *)
(* are.                                                                     *)
LEMMA VerdictsKept ==
  ASSUME UNCHANGED <<graph, ops>>
  PROVE  Verified' = Verified /\ \A i : Fits(i)' = Fits(i)
<1>1. Shape' = Shape BY DEF Shape, NodeNamed, Number
<1>2. \A i : Fits(i)' = Fits(i) BY <1>1 DEF Fits, NodeNamed
<1>3. Verified' = Verified BY DEF Verified, WellTyped, ShapeOf
<1> QED BY <1>2, <1>3

LEMMA ShapesOutside ==
  ASSUME ShapesInv, UNCHANGED <<graph, visited, symbolTable, ops>>
  PROVE  BoundInv' /\ Shaped' /\ Imported' /\ VerifiedAtEnd'
<1>1. BoundInv' BY DEF ShapesInv, BoundInv
<1>2. Shaped' BY DEF ShapesInv, Shaped, ShapedAt, ShapeFor, ShapeOf
<1>3. Imported' BY DEF ShapesInv, Imported, CallOf
<1>4. VerifiedAtEnd'
  <2>1. AllFit' = AllFit BY VerdictsKept DEF AllFit
  <2> QED BY <2>1, VerdictsKept DEF ShapesInv, VerifiedAtEnd
<1> QED BY <1>1, <1>2, <1>3, <1>4

LEMMA StepShapes == ShapesInv /\ [Next]_vars => ShapesInv'
<1> SUFFICES ASSUME ShapesInv, [Next]_vars PROVE ShapesInv' OBVIOUS
<1>1. ImportInv' BY StepImport DEF ShapesInv
<1> SUFFICES BoundInv' /\ Shaped' /\ Imported' /\ VerifiedAtEnd' BY <1>1 DEF ShapesInv
<1>2. CASE Placeholder
  <2>1. /\ visited < Len(graph.nodes) /\ Node.op = "placeholder" /\ NextNode /\ ops' = ops
        /\ DOMAIN symbolTable' = DOMAIN symbolTable \cup {Node.name}
    BY <1>2 DEF Placeholder, CodeGen, Bind
  <2>2. Node.name \notin DOMAIN symbolTable BY <2>1, NewName DEF ShapesInv
  <2>3. \A name \in DOMAIN symbolTable :
          name \in DOMAIN symbolTable' /\ symbolTable'[name] = symbolTable[name]
    BY <1>2, <2>2 DEF Placeholder, Bind
  <2>4. BoundInv' BY <2>1, BoundNext DEF ShapesInv, Supported
  <2> QED BY <2>1, <2>3, <2>4, NoneMade
<1>3. CASE Add \/ Matmul
  <2>1. /\ visited < Len(graph.nodes) /\ Supported(Node)
        /\ NextNode /\ DOMAIN symbolTable' = DOMAIN symbolTable \cup {Node.name}
    BY <1>3 DEF Add, Matmul, Calls, CodeGen, Generate, Bind, Supported
  <2>2. BoundInv' BY <2>1, BoundNext DEF ShapesInv
  <2> QED BY <1>3, <2>2, OneMade
<1>4. CASE Skip
  <2>1. /\ visited < Len(graph.nodes) /\ ~Supported(Node) /\ ops' = ops
        /\ Node.op # "output" /\ NextNode /\ symbolTable' = symbolTable
    BY <1>4 DEF Skip, Supported, codeVars
  <2>2. BoundInv' BY <2>1, BoundNext DEF ShapesInv
  <2> QED BY <2>1, <2>2, NoneMade
<1>5. CASE Output
  <2>1. /\ CodeGen("output") /\ Node.args # <<>> /\ visited < Len(graph.nodes)
        /\ visited' = visited + 1 /\ graph' = graph /\ ops' = ops
    BY <1>5 DEF Output, CodeGen, NextNode
  <2>2. visited + 1 = Len(graph.nodes) BY <2>1, FirstLooked DEF ShapesInv
  <2>3. ~(visited' < Len(graph.nodes)') BY <2>1, <2>2, Lengths DEF ShapesInv
  <2>4. BoundInv' /\ Imported' BY <2>3 DEF BoundInv, Imported
  <2>5. Shaped' BY <2>1 DEF ShapesInv, Shaped, ShapedAt, ShapeFor, ShapeOf
  <2>6. VerifiedAtEnd'
    <3>1. AllFit' => AllFit
      <4>1. \A i \in 1 .. visited : i \in 1 .. visited' BY <2>1, Lengths DEF ShapesInv
      <4> QED BY <2>1, <4>1, VerdictsKept DEF AllFit
    <3>2. AllFit => Verified BY <2>1, FittingVerified DEF ShapesInv
    <3> QED BY <2>1, <3>1, <3>2, VerdictsKept DEF VerifiedAtEnd
  <2> QED BY <2>4, <2>5, <2>6
<1>6. CASE CallRaises \/ OutputRaises \/ LoweringFails \/ ReturnGenerated \/ Lowering
           \/ Finished \/ UNCHANGED vars
  <2>1. UNCHANGED <<graph, visited, symbolTable, ops>>
    BY <1>6 DEF CallRaises, OutputRaises, LoweringFails, Raise, ReturnGenerated, Lowering,
                Finished, vars, codeVars
  <2> QED BY <2>1, ShapesOutside
<1> QED BY <1>2, <1>3, <1>4, <1>5, <1>6 DEF Next

(* For every graph: when the shapes of the graph fit, the verifier takes    *)
(* what has been imported of it, at every moment of the import and after.   *)
THEOREM FittingGraphsVerified == Spec => []ShapesCarryOver
<1>1. Init => ShapesInv
  <2> SUFFICES ASSUME Init PROVE ShapesInv OBVIOUS
  <2>1. ImportInv /\ BoundInv BY InitResults DEF ResultsInv
  <2>2. ops = <<>> BY DEF Init
  <2> QED BY <2>1, <2>2 DEF ShapesInv, Shaped, Imported, VerifiedAtEnd, Verified, ToSet
<1>2. ShapesInv => ShapesCarryOver
  <2> SUFFICES ASSUME ShapesInv, AllFit PROVE Verified BY DEF ShapesCarryOver, AllFit
  <2>1. visited < Len(graph.nodes) \/ visited = Len(graph.nodes)
    BY Lengths DEF ShapesInv
  <2> QED BY <2>1, FittingVerified DEF ShapesInv, VerifiedAtEnd
<1> QED BY <1>1, <1>2, StepShapes, PTL DEF Spec
=============================================================================
