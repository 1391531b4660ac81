----------------------------- MODULE ToyVisitor -----------------------------
(***************************************************************************)
(* MLIRToyVisitor: once the whole program is parsed, the visitor goes over *)
(* the tree and builds a module of operations, function by function.  The  *)
(* program ends the visit in one of three ways: done, an exception that    *)
(* main does not catch, or undefined behaviour (a null pointer followed,   *)
(* an assertion of MLIR's that release builds leave out).                  *)
(***************************************************************************)
EXTENDS ToyParser, FiniteSets

CONSTANT NULL   \* mlir::Value with no operation behind it
ASSUME ValueAssumption == NULL \notin [fun : Nat, op : Nat]

VARIABLES
  visited,      \* how much of the program the visitor has left behind
  pc,           \* visiting, done, thrown, undefined
  results,      \* values of the expressions visited and not yet used
  symbolTable,  \* the scope of the function being visited
  returnFlag,
  theModule     \* the functions created, each a sequence of operations

visitorVars == <<visited, pc, results, symbolTable, returnFlag, theModule>>
vars == <<parserVars, visitorVars>>

Init ==
  /\ ParserInit
  /\ visited = 0 /\ pc = "visiting"
  /\ results = <<>> /\ symbolTable = <<>> /\ returnFlag = FALSE /\ theModule = <<>>

Visiting(item) ==
  /\ parsed = Len(walk) /\ visited < parsed /\ pc = "visiting"
  /\ walk[visited + 1].item = item
Event == walk[visited + 1]

(* builder.create at the end of the function being built; a value is known *)
(* by the operation that defines it.                                       *)
Operation(kind, operands) == [kind |-> kind, operands |-> operands, tensor |-> <<>>]
Block == Last(theModule).ops
Create(operation) ==
  theModule' = [theModule EXCEPT ![Len(theModule)].ops = Append(@, operation)]
NewValue == [fun |-> Len(theModule), op |-> Len(Block) + 1]

Proceed == visited' = visited + 1 /\ UNCHANGED parserVars
Stop(how) == pc' = how /\ UNCHANGED <<parserVars, visited, symbolTable, theModule>>

-----------------------------------------------------------------------------
(* Variant: the flag outlives the function that set it.                    *)
EnterFunctionFlagged ==
  /\ Visiting("enter")
  /\ theModule' = Append(theModule, [name |-> Event.name, ops |-> <<>>])
  /\ Proceed /\ UNCHANGED <<pc, results, symbolTable, returnFlag>>

(* visitFunDefine, before the block.  The parameters are counted for the   *)
(* type of the function and not declared.                                  *)
EnterFunction ==
  /\ Visiting("enter")
  /\ returnFlag' = FALSE
  /\ theModule' = Append(theModule, [name |-> Event.name, ops |-> <<>>])
  /\ Proceed /\ UNCHANGED <<pc, results, symbolTable>>

(* Variant: always a return at the end.                                    *)
LeaveFunctionReturning ==
  /\ Visiting("leave")
  /\ Create(Operation("return", <<>>))
  /\ symbolTable' = <<>>
  /\ Proceed /\ UNCHANGED <<pc, results, returnFlag>>

(* Variant: one scope for all the functions.                               *)
LeaveFunctionKeepsScope ==
  /\ Visiting("leave")
  /\ IF returnFlag THEN UNCHANGED theModule ELSE Create(Operation("return", <<>>))
  /\ Proceed /\ UNCHANGED <<pc, results, symbolTable, returnFlag>>

(* visitFunDefine, after the block: a return if none was visited, and the  *)
(* end of the scope.                                                       *)
LeaveFunction ==
  /\ Visiting("leave")
  /\ IF returnFlag THEN UNCHANGED theModule ELSE Create(Operation("return", <<>>))
  /\ symbolTable' = <<>>
  /\ Proceed /\ UNCHANGED <<pc, results, returnFlag>>

BeginStatement ==
  /\ Visiting("statement")
  /\ Event.stmt.kind = "var" => Event.stmt.expr # <<>>
  /\ Event.stmt.kind = "return" => Event.stmt.expr = <<>>
  /\ Proceed /\ UNCHANGED <<pc, results, symbolTable, returnFlag, theModule>>

(* visitVarDecl visits an expression the grammar lets a declaration omit.  *)
UninitialisedVariable ==
  /\ Visiting("statement") /\ Event.stmt.kind = "var" /\ Event.stmt.expr = <<>>
  /\ Stop("undefined") /\ UNCHANGED <<results, returnFlag>>

(* visitReturnExpr does not visit its expression: it casts the node itself *)
(* to a value, and std::any_cast throws.                                   *)
ReturnExpression ==
  /\ Visiting("statement") /\ Event.stmt.kind = "return" /\ Event.stmt.expr # <<>>
  /\ returnFlag' = TRUE
  /\ Stop("thrown") /\ UNCHANGED results

ReturnNothing ==
  /\ Visiting("finish") /\ Event.stmt.kind = "return"
  /\ returnFlag' = TRUE
  /\ Create(Operation("return", <<>>))
  /\ Proceed /\ UNCHANGED <<pc, results, symbolTable>>

-----------------------------------------------------------------------------
(* visitExpression.  A number gives a null value.                          *)
VisitNumber ==
  /\ Visiting("number")
  /\ results' = Append(results, NULL)
  /\ Proceed /\ UNCHANGED <<pc, symbolTable, returnFlag, theModule>>

(* getTensor takes the dimensions from the outermost row and the first one *)
(* inside; the data must fill them, or be a single number.                 *)
Dims(rows) ==
  IF rows[1].nested /\ rows[1].numbers # <<>> THEN <<Len(rows), Len(rows[1].numbers)>>
  ELSE <<Len(rows)>>
Fills(tensor, dims) == Len(tensor) \in {1, FoldSeq(LAMBDA n, m : n * m, 1, dims)}
Readable(at) == walk[at].rows # <<>> /\ Fills(data[at], Dims(walk[at].rows))

GetTensor ==
  /\ Visiting("literal") /\ Readable(visited + 1)
  /\ Create([Operation("constant", <<>>) EXCEPT !.tensor = data[visited + 1]])
  /\ results' = Append(results, NewValue)
  /\ Proceed /\ UNCHANGED <<pc, symbolTable, returnFlag>>

GetTensorUndefined ==
  /\ Visiting("literal") /\ ~Readable(visited + 1)
  /\ Stop("undefined") /\ UNCHANGED <<results, returnFlag>>

(* A name that the table does not know gives a null value.                 *)
VisitVariable ==
  /\ Visiting("name")
  /\ results' = Append(results, IF Event.id \in DOMAIN symbolTable
                                THEN symbolTable[Event.id] ELSE NULL)
  /\ Proceed /\ UNCHANGED <<pc, symbolTable, returnFlag, theModule>>

Arguments == SubSeq(results, Len(results) - Event.arity + 1, Len(results))
Rest == SubSeq(results, 1, Len(results) - Event.arity)
Operands == IF Event.callee = "print" /\ Arguments # <<>> THEN <<Head(Arguments)>>
            ELSE Arguments
Callable == NULL \notin ToSet(Operands) /\ (Event.callee = "print" => Operands # <<>>)
AloneInStatement == LET next == walk[visited + 2]
                    IN  next.item = "finish" /\ next.stmt.kind = "expression"

(* Variant: the call is made, and put into no block.                       *)
VisitCallDetached ==
  /\ Visiting("call") /\ Callable /\ Event.callee # "print"
  /\ results' = Append(Rest, NewValue)
  /\ Proceed /\ UNCHANGED <<pc, symbolTable, returnFlag, theModule>>

VisitCall ==
  /\ Visiting("call") /\ Callable /\ Event.callee # "print"
  /\ Create(Operation("call", Operands))
  /\ results' = Append(Rest, NewValue)
  /\ Proceed /\ UNCHANGED <<pc, symbolTable, returnFlag>>

(* The built-in print makes an operation of its first argument and returns *)
(* an int, which nobody may cast to a value.                               *)
VisitPrint ==
  /\ Visiting("call") /\ Callable /\ Event.callee = "print"
  /\ Create(Operation("print", Operands))
  /\ pc' = IF AloneInStatement THEN "visiting" ELSE "thrown"
  /\ results' = Append(Rest, NULL)
  /\ Proceed /\ UNCHANGED <<symbolTable, returnFlag>>

(* An operation on a null value, or print of nothing.                      *)
CallUndefined ==
  /\ Visiting("call") /\ ~Callable
  /\ Stop("undefined") /\ UNCHANGED <<results, returnFlag>>

-----------------------------------------------------------------------------
(* Variant: a later declaration replaces an earlier one.                   *)
DeclareAgain(id, value) == symbolTable' = With(symbolTable, id, value)

(* visitVarDecl, after its expression: a reshape if there is a shape, and  *)
(* the name, unless it is taken.                                           *)
Declare(id, value) ==
  symbolTable' = IF id \in DOMAIN symbolTable THEN symbolTable
                 ELSE With(symbolTable, id, value)

VisitVarDecl ==
  /\ Visiting("finish") /\ Event.stmt.kind = "var"
  /\ Event.stmt.shaped => Last(results) # NULL
  /\ results' = Front(results)
  /\ IF Event.stmt.shaped
     THEN /\ Create(Operation("reshape", <<Last(results)>>))
          /\ Declare(Event.stmt.id, NewValue)
     ELSE /\ Declare(Event.stmt.id, Last(results))
          /\ UNCHANGED theModule
  /\ Proceed /\ UNCHANGED <<pc, returnFlag>>

ReshapeUndefined ==
  /\ Visiting("finish") /\ Event.stmt.kind = "var"
  /\ Event.stmt.shaped /\ Last(results) = NULL
  /\ Stop("undefined") /\ UNCHANGED <<results, returnFlag>>

FinishExpression ==
  /\ Visiting("finish") /\ Event.stmt.kind = "expression"
  /\ results' = Front(results)
  /\ Proceed /\ UNCHANGED <<pc, symbolTable, returnFlag, theModule>>

VisitDone ==
  /\ parsed = Len(walk) /\ visited = parsed /\ pc = "visiting"
  /\ pc' = "done"
  /\ UNCHANGED <<parserVars, visited, results, symbolTable, returnFlag, theModule>>

VisitorStep ==
  \/ EnterFunction \/ LeaveFunction \/ BeginStatement \/ UninitialisedVariable
  \/ ReturnExpression \/ ReturnNothing \/ VisitNumber \/ GetTensor \/ GetTensorUndefined
  \/ VisitVariable \/ VisitCall \/ VisitPrint \/ CallUndefined \/ VisitVarDecl
  \/ ReshapeUndefined \/ FinishExpression \/ VisitDone
Next == \/ ParserNext /\ UNCHANGED visitorVars
        \/ VisitorStep
        \/ pc # "visiting" /\ UNCHANGED vars
Spec == Init /\ [][Next]_vars
-----------------------------------------------------------------------------
Values == {NULL} \cup UNION {[fun : {f}, op : DOMAIN theModule[f].ops] : f \in DOMAIN theModule}
Kinds == {"constant", "call", "print", "reshape", "return"}

TypeOK ==
  /\ parsed \in 0 .. Len(walk) /\ visited \in 0 .. parsed
  /\ DOMAIN data = {at \in 1 .. parsed : walk[at].item = "literal"}
  /\ pc \in {"visiting", "done", "thrown", "undefined"} /\ returnFlag \in BOOLEAN
  /\ ToSet(results) \subseteq Values
  /\ \A id \in DOMAIN symbolTable : symbolTable[id] \in Values
  /\ \A f \in DOMAIN theModule : \A operation \in ToSet(theModule[f].ops) :
       operation.kind \in Kinds /\ ToSet(operation.operands) \subseteq Values

(* An operation uses values made earlier in its own function, although the *)
(* table is a member that lives across functions, names are shared between *)
(* them and declared twice in one, and calls are arguments of calls.       *)
OperandsDominate ==
  \A f \in DOMAIN theModule : \A i \in DOMAIN theModule[f].ops :
    \A value \in ToSet(theModule[f].ops[i].operands) :
      value # NULL /\ value.fun = f /\ value.op < i

(* Between two ends of scope a name keeps the value of its first            *)
(* declaration: declare() fails on the next one and nobody looks.          *)
NameKeepsValue ==
  [][\A id \in DOMAIN symbolTable :
       \/ id \in DOMAIN symbolTable' /\ symbolTable'[id] = symbolTable[id]
       \/ symbolTable' = <<>> /\ Event.item = "leave"]_vars

(* A place in the program belongs to the last function entered before it.   *)
Function(at) == Cardinality({before \in 1 .. at : walk[before].item = "enter"})
Within(f) == {at \in DOMAIN walk : Function(at) = f}
Left(f) == Within(f) \subseteq 1 .. visited
Finishes(f) == {at \in Within(f) : walk[at].item = "finish"}
ReturnsIn(f) == {at \in Finishes(f) : walk[at].stmt.kind = "return"}

(* A function that has been visited has one return for every return        *)
(* statement of its own, or one more at its end if it has none, whatever   *)
(* the functions around it do to the flag.                                 *)
ReturnPerFunction ==
  \A f \in DOMAIN theModule : Left(f) =>
    LET returns == {i \in DOMAIN theModule[f].ops : theModule[f].ops[i].kind = "return"}
    IN  IF ReturnsIn(f) = {} THEN returns = {Len(theModule[f].ops)}
        ELSE Cardinality(returns) = Cardinality(ReturnsIn(f))

(* What the visitor needs of a program, stated on the program alone: every *)
(* name read was declared before in the same function, every declaration   *)
(* has a value, no return has one, print has an argument and stands alone, *)
(* numbers stand alone, literals are full and have their own data.         *)
DeclaredAt(at, id) ==
  \E before \in Finishes(Function(at)) :
    /\ before < at
    /\ walk[before].stmt.kind = "var" /\ walk[before].stmt.id = id
Alone(at) == walk[at + 1].item = "finish" /\ walk[at + 1].stmt.kind = "expression"
SoundAt(at) ==
  LET event == walk[at] IN
  CASE event.item = "statement" -> /\ event.stmt.kind = "var" => event.stmt.expr # <<>>
                                   /\ event.stmt.kind = "return" => event.stmt.expr = <<>>
    [] event.item = "literal" -> /\ event.rows # <<>> /\ Fresh(at)
                                 /\ Fills(Numbers(at), Dims(event.rows))
    [] event.item = "name" -> DeclaredAt(at, event.id)
    [] event.item = "number" -> Alone(at)
    [] event.item = "call" /\ event.callee = "print" -> event.arity > 0 /\ Alone(at)
    [] OTHER -> TRUE

(* A sound program neither throws nor meets undefined behaviour, and a     *)
(* finished visit leaves one operation for every literal, call, shape and  *)
(* return, and the returns added.                                          *)
SoundProgramsCompile ==
  /\ pc \in {"thrown", "undefined"} => \E at \in DOMAIN walk : ~SoundAt(at)
  /\ pc = "done" =>
       \A f \in DOMAIN theModule :
         Len(theModule[f].ops) =
           (IF ReturnsIn(f) = {} THEN 1 ELSE Cardinality(ReturnsIn(f)))
           + Cardinality({at \in Within(f) : walk[at].item \in {"literal", "call"}})
           + Cardinality({at \in Finishes(f) : walk[at].stmt.kind = "var" /\ walk[at].stmt.shaped})

(* The comment in visitReturnExpr: the return operation is generated based *)
(* on whether the function has the return value; so a return statement,    *)
(* with a value or not, gives a return operation and not an exception.     *)
ReturnWithValue == pc = "thrown" => walk[visited + 1].item # "statement"

(* The comment in visitFunDefine: if there is no return expression at the  *)
(* end of the function, a return operation is generated; so the last       *)
(* operation of a function that has been visited is a return.              *)
EndsWithReturn ==
  \A f \in DOMAIN theModule : Left(f) => Last(theModule[f].ops).kind = "return"
=============================================================================
