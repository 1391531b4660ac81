--------------------------- MODULE VisitorCodeGen ---------------------------
(***************************************************************************)
(* CGModule::emitMLIRVisitor: the visitor class printed for a module, with  *)
(* a method per rule and, in it, a block of C++ for every builder that an   *)
(* alternative of the rule names.  Printed text is kept as far as it        *)
(* matters: the braces still open, and for each block what it declares and  *)
(* passes to builder.create.                                                *)
(***************************************************************************)
EXTENDS Integers, SequencesExt

CONSTANTS
  Asts,         \* the modules considered
  OpNames,      \* the names of ops, and those that builders refer to
  OperandNames, \* the names of operands
  NULL,         \* the null pointer
  NoName        \* the empty name of an operand

(* An operand's type as TypeMap and the test for "AnyTypeOf" see it.  In a  *)
(* bracketed AnyTypeOf every alternative is looked up; the last one decides *)
(* what is printed.                                                         *)
PlainTypes == {"mapped", "unmapped"}
AnyTypes == {"any", "anyPartlyMapped", "anyLastUnmapped", "anyUnbracketed"}
Types == PlainTypes \cup AnyTypes

(* A module as the parser leaves it: the builders that the alternatives of   *)
(* the rules name, and the ops.                                             *)
Ref == [op : OpNames, index : Nat]
Dag == {NULL} \cup Seq([type : Types, name : OperandNames])
Op == [name : OpNames, arguments : Dag, results : Dag, builders : Seq(Dag)]
ASSUME AstAssumption ==
  \A tree \in Asts : tree.rules \in Seq(Seq(Seq(Ref))) /\ tree.ops \in Seq(Op)

VARIABLES
  ast,         \* the Module
  todo,        \* what is left to print: methods to enter, builders, methods to leave
  pc,          \* the loop of emitOp that runs
  op, left,    \* emitOp: its operation, and the operands its loop has left
  opArguments, \* emitOp: StringRefs to the names to pass to create
  tmpStrings,  \* emitOp: the vector that owns computed names
  depth,       \* braces open in the file
  block,       \* what the block has declared so far
  created,     \* the calls of create printed
  complained   \* whether anything was printed on llvm::errs()

vars == <<ast, todo, pc, op, left, opArguments, tmpStrings, depth, block, created,
          complained>>

-----------------------------------------------------------------------------
(* The order of the visitors: emitClass, emitRuleVisitor, emitBuilders.     *)
Enter == [kind |-> "enter"]
Leave == [kind |-> "leave"]
Build(ref) == [kind |-> "build", op |-> ref.op, index |-> ref.index]
Method(rule) ==
  <<Enter>> \o FlattenSeq([a \in DOMAIN rule |->
                             [b \in DOMAIN rule[a] |-> Build(rule[a][b])]]) \o <<Leave>>
Visitors(tree) == FlattenSeq([r \in DOMAIN tree.rules |-> Method(tree.rules[r])])

Operands(dag) == IF dag = NULL THEN <<>> ELSE dag

(* findOp: the position of the first op of that name, 0 without one.        *)
Found(tree, name) == SelectInSeq(tree.ops, LAMBDA each : each.name = name)

(* Variant: a full vector is written past its end.                          *)
EmplacedUnchecked(strings) == [strings EXCEPT !.size = @ + 1]

(* A vector of std::string with room for one element inside the object.  A  *)
(* push to a full vector moves the strings to new storage, `home`; what     *)
(* points into the old one is left behind.                                  *)
NoStrings == [size |-> 0, capacity |-> 1, home |-> 0]
Emplaced(strings) ==
  IF strings.size < strings.capacity THEN [strings EXCEPT !.size = @ + 1]
  ELSE [size |-> strings.size + 1, capacity |-> 2 * strings.capacity + 1,
        home |-> strings.home + 1]

Source == -1         \* a name that lies in the source buffer
Named(name) == [text |-> name, owner |-> Source]
Computed(text, strings) == [text |-> text, owner |-> strings.home]
Valid(ref) == ref.owner = Source \/ ref.owner = tmpStrings.home

Init ==
  /\ ast \in Asts
  /\ todo = Visitors(ast) /\ pc = "visitors"
  /\ op = NULL /\ left = <<>>
  /\ opArguments = <<>> /\ tmpStrings = NoStrings
  /\ depth = 1                      \* the class is open
  /\ block = <<>> /\ created = <<>> /\ complained = FALSE

scratch == <<opArguments, tmpStrings, block>>

(* emitRuleVisitor opens and closes the braces of a method.                 *)
EnterOrLeaveMethod ==
  /\ pc = "visitors" /\ todo # <<>> /\ Head(todo).kind \in {"enter", "leave"}
  /\ depth' = IF Head(todo).kind = "enter" THEN depth + 1 ELSE depth - 1
  /\ todo' = Tail(todo)
  /\ UNCHANGED <<ast, pc, op, left, scratch, created, complained>>

(* emitBuilder for an op that findOp does not know.                         *)
UndefinedOp ==
  /\ pc = "visitors" /\ todo # <<>> /\ Head(todo).kind = "build"
  /\ Found(ast, Head(todo).op) = 0
  /\ complained' = TRUE /\ todo' = Tail(todo)
  /\ UNCHANGED <<ast, pc, op, left, scratch, depth, created>>

(* The unchecked lookup getBuilders()[index - 1]->getDag() is sound.         *)
HasBuilder(found, index) ==
  index <= Len(found.builders) /\ found.builders[index] # NULL

(* emitOp: index 0 is the default builder, fed by results, then arguments;  *)
(* index n > 0 is the n-th builder of the op, taken without a check of n or *)
(* of its dag.  The block's brace is printed before anything is looked up.  *)
EmitOp ==
  /\ pc = "visitors" /\ todo # <<>> /\ Head(todo).kind = "build"
  /\ Found(ast, Head(todo).op) # 0
  /\ LET found == ast.ops[Found(ast, Head(todo).op)]
         index == Head(todo).index
     IN  /\ op' = found
         /\ \/ /\ index = 0
               /\ left' = Operands(found.results) /\ pc' = "results"
            \/ /\ index > 0 /\ HasBuilder(found, index)
               /\ left' = found.builders[index] /\ pc' = "builder"
            \/ /\ index > 0 /\ ~HasBuilder(found, index)
               /\ left' = <<>> /\ pc' = "undefined"
  /\ depth' = IF pc' = "undefined" THEN depth ELSE depth + 1
  /\ opArguments' = <<>> /\ tmpStrings' = NoStrings /\ block' = <<>>
  /\ UNCHANGED <<ast, todo, created, complained>>

-----------------------------------------------------------------------------
(* Variant: the second loop goes on counting where the first one stopped.   *)
PositionInBlock == Len(block)

(* One operand: a line of the block, and a StringRef to the name in it.  The *)
(* line is a declaration when a type stands before the name.                *)
Position == CASE pc = "results" -> Len(Operands(op.results)) - Len(left)
              [] pc = "arguments" -> Len(Operands(op.arguments)) - Len(left)
              [] pc = "builder" -> Len(block)
Prefix == IF pc = "results" THEN "res" ELSE "arg"

(* Variant: the string is computed for every operand.                       *)
DeclareComputed(type) ==
  /\ LET name == Head(left).name
         text == IF name = NoName THEN <<Prefix, Position>> ELSE name
         strings == Emplaced(tmpStrings)
     IN  /\ block' = Append(block, [type |-> type, name |-> text])
         /\ opArguments' = Append(opArguments, Computed(text, strings))
         /\ tmpStrings' = strings
  /\ left' = Tail(left)
  /\ UNCHANGED <<ast, todo, pc, op, depth, created>>

Declare(type) ==
  /\ LET name == Head(left).name
         text == IF name = NoName THEN <<Prefix, Position>> ELSE name
         strings == IF name = NoName THEN Emplaced(tmpStrings) ELSE tmpStrings
     IN  /\ block' = Append(block, [type |-> type, name |-> text])
         /\ opArguments' = Append(opArguments, IF name = NoName
                                    THEN Computed(text, strings) ELSE Named(text))
         /\ tmpStrings' = strings
  /\ left' = Tail(left)
  /\ UNCHANGED <<ast, todo, pc, op, depth, created>>

DefaultLoop == pc \in {"results", "arguments"} /\ left # <<>>

DeclareMapped ==
  /\ DefaultLoop /\ Head(left).type \in {"mapped", "any"}
  /\ Declare("type") /\ UNCHANGED complained

(* An alternative of AnyTypeOf that is not in the map is complained about   *)
(* and printed all the same, as nothing when it is the last.                *)
DeclareAnyUnmapped ==
  /\ DefaultLoop /\ Head(left).type \in {"anyPartlyMapped", "anyLastUnmapped"}
  /\ Declare(IF Head(left).type = "anyLastUnmapped" THEN "nothing" ELSE "type")
  /\ complained' = TRUE

(* Variant: closes the block first.                                         *)
GiveUpClosing ==
  /\ DefaultLoop /\ Head(left).type \in {"unmapped", "anyUnbracketed"}
  /\ complained' = (complained \/ Head(left).type = "unmapped")
  /\ pc' = "visitors" /\ todo' = Tail(todo) /\ left' = <<>> /\ op' = NULL
  /\ depth' = depth - 1
  /\ UNCHANGED <<ast, scratch, created>>

(* emitOp returns, its brace still open; silently for a list of AnyTypeOf   *)
(* that is not in brackets.                                                 *)
GiveUp ==
  /\ DefaultLoop /\ Head(left).type \in {"unmapped", "anyUnbracketed"}
  /\ complained' = (complained \/ Head(left).type = "unmapped")
  /\ pc' = "visitors" /\ todo' = Tail(todo) /\ left' = <<>> /\ op' = NULL
  /\ UNCHANGED <<ast, scratch, depth, created>>

ResultsDone ==
  /\ pc = "results" /\ left = <<>>
  /\ pc' = "arguments" /\ left' = Operands(op.arguments)
  /\ UNCHANGED <<ast, todo, op, scratch, depth, created, complained>>

(* A type of a custom builder that is not in the map is printed as it is.   *)
(* No blank follows the type: one is printed before a name that is given,   *)
(* but a computed name is joined to the type, and the word declares nothing.*)
DeclareBuilderOperand ==
  /\ pc = "builder" /\ left # <<>>
  /\ Declare(IF Head(left).name = NoName THEN "joined" ELSE "type")
  /\ UNCHANGED complained

(* The call of create: the dialect's namespace without its quotes, then the *)
(* names, read through the StringRefs.                                      *)
CreateOp ==
  /\ pc \in {"arguments", "builder"} /\ left = <<>> /\ ast.dialect = "named"
  /\ \A i \in DOMAIN opArguments : Valid(opArguments[i])
  /\ created' = Append(created, [op |-> op.name, block |-> block,
                                 arguments |-> [i \in DOMAIN opArguments |->
                                                  opArguments[i].text]])
  /\ depth' = depth - 1
  /\ pc' = "visitors" /\ todo' = Tail(todo) /\ op' = NULL
  /\ UNCHANGED <<ast, left, scratch, complained>>

(* Without a dialect the pointer is null; without a namespace the length    *)
(* minus two wraps around; and a StringRef may point to where its string    *)
(* was before the vector grew.                                              *)
CreateUndefined ==
  /\ pc \in {"arguments", "builder"} /\ left = <<>>
  /\ ast.dialect # "named" \/ \E i \in DOMAIN opArguments : ~Valid(opArguments[i])
  /\ pc' = "undefined"
  /\ UNCHANGED <<ast, todo, op, left, scratch, depth, created, complained>>

ClassDone ==
  /\ pc = "visitors" /\ todo = <<>>
  /\ depth' = depth - 1 /\ pc' = "done"
  /\ UNCHANGED <<ast, todo, op, left, scratch, created, complained>>

Step == \/ EnterOrLeaveMethod \/ UndefinedOp \/ EmitOp \/ DeclareMapped
        \/ DeclareAnyUnmapped \/ GiveUp \/ ResultsDone \/ DeclareBuilderOperand
        \/ CreateOp \/ CreateUndefined \/ ClassDone
Next == Step \/ (pc \in {"done", "undefined"} /\ UNCHANGED vars)
Spec == Init /\ [][Next]_vars /\ WF_vars(Step)

-----------------------------------------------------------------------------
(* What the file should hold, stated on the module alone.                   *)
BuildsAt == {p \in DOMAIN Visitors(ast) : Visitors(ast)[p].kind = "build"}
RefAt(p) == Visitors(ast)[p]
OpOf(ref) == ast.ops[Found(ast, ref.op)]
Sound(ref) == Found(ast, ref.op) # 0
Inputs(ref) ==
  IF ref.index = 0 THEN Operands(OpOf(ref).results) \o Operands(OpOf(ref).arguments)
  ELSE OpOf(ref).builders[ref.index]
InRange(ref) == ref.index # 0 => /\ ref.index \in 1 .. Len(OpOf(ref).builders)
                                 /\ OpOf(ref).builders[ref.index] # NULL
Supported(ref) == ref.index > 0 \/ \A operand \in ToSet(Inputs(ref)) :
                                      operand.type \notin {"unmapped", "anyUnbracketed"}
Unnamed(ref) == {i \in DOMAIN Inputs(ref) : Inputs(ref)[i].name = NoName}
Before(p) == {q \in BuildsAt : q <= p}    \* of the builders, p is the nth one
Items == Visitors(ast)
Behind == Len(Items) - Len(todo)           \* the items printed so far

(* The names of a block: given, or numbered within results and arguments.   *)
NamesOf(ref) ==
  LET inputs == Inputs(ref)
      first == IF ref.index = 0 THEN Len(Operands(OpOf(ref).results)) ELSE 0
      nameOf(i) == CASE inputs[i].name # NoName -> inputs[i].name
                     [] inputs[i].name = NoName /\ i <= first -> <<"res", i - 1>>
                     [] OTHER -> <<"arg", i - 1 - first>>
  IN  [i \in DOMAIN inputs |-> nameOf(i)]

TypeOK ==
  /\ pc \in {"visitors", "results", "arguments", "builder", "done", "undefined"}
  /\ todo \in Seq({Enter, Leave} \cup {RefAt(p) : p \in BuildsAt})
  /\ op = NULL \/ op \in ToSet(ast.ops)
  /\ \A operand \in ToSet(left) : operand.type \in Types
  /\ \A ref \in ToSet(opArguments) : ref.owner \in Source .. tmpStrings.home
  /\ tmpStrings.size \in 0 .. tmpStrings.capacity
  /\ depth \in Nat /\ complained \in BOOLEAN

(* emitOp opens a block before it looks at its operands and returns from    *)
(* the middle when one is not supported.  The file ends with one brace too  *)
(* many for each such builder, wherever it stands, and none otherwise.      *)
BraceDebt ==
  pc = "done" =>
    depth = Cardinality({p \in BuildsAt : Sound(RefAt(p)) /\ ~Supported(RefAt(p))})

(* A builder whose printing is undefined: one that its op has not, or, when *)
(* no operand ends it before the call of create, one of a module without a  *)
(* namespace and one with two names to compute.                             *)
Fatal ==
  {p \in BuildsAt :
     /\ Sound(RefAt(p))
     /\ \/ ~InRange(RefAt(p))
        \/ Supported(RefAt(p)) /\ (ast.dialect # "named" \/ Cardinality(Unnamed(RefAt(p))) > 1)}

(* emitOp checks neither the dialect, nor the index of a builder, nor its   *)
(* dag, and passes StringRefs to strings that a growing vector moves, over  *)
(* two loops.  The first builder of the class at which one of these matters *)
(* is where its behaviour is undefined, and it never is elsewhere: a return *)
(* from the middle comes before the reads, an op not found before both.     *)
UndefinedExactly ==
  /\ \A p \in Fatal : p > Behind
  /\ pc = "undefined" => Behind + 1 \in Fatal

(* The operands that are not declared: of a default builder those with      *)
(* nothing printed for their type, of a custom one those without a name.    *)
Undeclared(ref) ==
  {i \in DOMAIN Inputs(ref) : IF ref.index = 0 THEN Inputs(ref)[i].type = "anyLastUnmapped"
                              ELSE Inputs(ref)[i].name = NoName}
Declared(call) ==
  {i \in DOMAIN call.block : call.block[i] = [type |-> "type", name |-> call.arguments[i]]}

(* The file for a module whose operands are supported: a call of create for *)
(* every builder named in the rules, in their order, each with one argument *)
(* per operand of the op, results first, and declared in the block under    *)
(* the same name, all but the operands that Undeclared names.               *)
FileComplete ==
  pc = "done" /\ (\A p \in BuildsAt : Sound(RefAt(p)) /\ Supported(RefAt(p)))
  => /\ Len(created) = Cardinality(BuildsAt)
     /\ \A p \in BuildsAt :
          LET call == created[Cardinality(Before(p))]
          IN  /\ call.op = RefAt(p).op
              /\ call.arguments = NamesOf(RefAt(p))
              /\ Declared(call) = DOMAIN call.arguments \ Undeclared(RefAt(p))

(* The comment on tmpStrings: it keeps the lifetime of the computed strings *)
(* longer than the StringRefs in opArguments.                               *)
StringsOutliveRefs == \A i \in DOMAIN opArguments : Valid(opArguments[i])
=============================================================================
