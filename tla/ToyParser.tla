------------------------------ MODULE ToyParser ------------------------------
(****************************************************************************)
(* The actions embedded in Toy.g4, which run while ANTLR's parser goes over *)
(* a program that has no syntax error: the numbers of tensor literals pass  *)
(* through one buffer, a member of the parser, on their way to the tree.    *)
(* A number is known by its literal and its place in it.                    *)
(****************************************************************************)
EXTENDS Integers, SequencesExt

CONSTANT Programs   \* the programs considered: sequences of functions

(* A program is met by the parser, and again by the visitor, in the order   *)
(* in which the nodes of its tree are left: the arguments of a call before  *)
(* the call, the expression of a statement before the statement's end.      *)
(*   function   [name, block], a block being a sequence of statements       *)
(*   statement  [kind, id, shaped, expr], expr empty if there is none       *)
(*   expression nodes: number, literal (rows), name (id), call (callee,     *)
(*              arity); a row is a number or nested, with the numbers below *)
(*              each of its children                                        *)
Statement(stmt) == <<[item |-> "statement", stmt |-> stmt]>> \o stmt.expr
                     \o <<[item |-> "finish", stmt |-> stmt]>>
FunDefine(fun) ==
  <<[item |-> "enter", name |-> fun.name]>>
    \o FlattenSeq([s \in DOMAIN fun.block |-> Statement(fun.block[s])])
    \o <<[item |-> "leave"]>>
Walk(program) == FlattenSeq([f \in DOMAIN program |-> FunDefine(program[f])])

(* What the grammar makes of a program.  The nodes of an expression are one  *)
(* tree: where a call is left, at least as many trees are behind the parser  *)
(* as it has arguments, and it makes one of them; one is left at the end.    *)
Rows == [nested : BOOLEAN, numbers : Seq(Nat)]
Nodes == [item : {"number"}] \cup [item : {"literal"}, rows : Seq(Rows)]
           \cup [item : {"name"}, id : STRING]
           \cup [item : {"call"}, callee : STRING, arity : Nat]
Arity(node) == IF node.item = "call" THEN node.arity ELSE 0
OneTree(expr) ==
  \E trees \in [0 .. Len(expr) -> 0 .. Len(expr)] :
    /\ trees[0] = 0 /\ trees[Len(expr)] = 1
    /\ \A i \in DOMAIN expr : /\ Arity(expr[i]) <= trees[i - 1]
                              /\ trees[i] = trees[i - 1] - Arity(expr[i]) + 1
Statements == [kind : {"var", "return", "expression"}, id : STRING, shaped : BOOLEAN,
               expr : Seq(Nodes)]
FunDefines == [name : STRING, block : Seq(Statements)]
ASSUME ProgramAssumption ==
  \A program \in Programs :
    /\ program \in Seq(FunDefines)
    /\ \A f \in DOMAIN program : \A stmt \in ToSet(program[f].block) :
         OneTree(stmt.expr) \/ (stmt.expr = <<>> /\ stmt.kind # "expression")

(* The numbers a literal holds.                                             *)
Size(rows) == FoldLeft(+, 0, FlattenSeq([r \in DOMAIN rows |-> rows[r].numbers]))

VARIABLES
  walk,              \* the program
  parsed,            \* how much of it the parser has left behind
  tensorDataBuffer,  \* the parser's member
  data               \* per literal parsed, its `data`

(* A table with a new entry, or another value for an old one.               *)
With(table, key, value) ==
  [k \in DOMAIN table \cup {key} |-> IF k = key THEN value ELSE table[k]]

parserVars == <<walk, parsed, tensorDataBuffer, data>>

ParserInit ==
  /\ walk \in {Walk(program) : program \in Programs}
  /\ parsed = 0 /\ tensorDataBuffer = <<>> /\ data = <<>>

Parsing == parsed < Len(walk)
Parsed == walk[parsed + 1]
Initialises(event) ==
  event.item = "finish" /\ event.stmt.kind = "var" /\ event.stmt.expr # <<>>

Numbers(at) == [i \in 1 .. Size(walk[at].rows) |-> <<at, i>>]

(* tensorLiteral: each number is pushed when it is met; the closing bracket *)
(* takes the whole buffer.  The data of a nested literal is never read.     *)
TensorLiteral ==
  /\ Parsing /\ Parsed.item = "literal"
  /\ tensorDataBuffer' = tensorDataBuffer \o Numbers(parsed + 1)
  /\ data' = With(data, parsed + 1, tensorDataBuffer')
  /\ parsed' = parsed + 1 /\ UNCHANGED walk

(* Variant: the buffer lasts for the whole of the parse.                    *)
VarDeclNeverClears ==
  /\ Parsing /\ Initialises(Parsed)
  /\ parsed' = parsed + 1 /\ UNCHANGED <<walk, tensorDataBuffer, data>>

(* varDecl's action runs when the declaration has been parsed, expression   *)
(* included, and clears the buffer if there was one.                        *)
VarDecl ==
  /\ Parsing /\ Initialises(Parsed)
  /\ tensorDataBuffer' = <<>>
  /\ parsed' = parsed + 1 /\ UNCHANGED <<walk, data>>

(* The other rules, a lone number among them, leave the buffer alone.       *)
OtherRule ==
  /\ Parsing /\ Parsed.item # "literal" /\ ~Initialises(Parsed)
  /\ parsed' = parsed + 1 /\ UNCHANGED <<walk, tensorDataBuffer, data>>

ParserNext == TensorLiteral \/ VarDecl \/ OtherRule

------------------------------------------------------------------------------
(* No number has been read between the last initialised declaration before  *)
(* the literal, and the literal.                                            *)
Fresh(at) ==
  \A other \in 1 .. at - 1 :
    walk[other].item = "literal" /\ Size(walk[other].rows) > 0
      => \E clear \in other .. at : Initialises(walk[clear])

(* A literal has its own numbers, all of them and in order, exactly when no *)
(* other literal stands between it and the declaration before it.  The      *)
(* exceptions are literals passed to calls, printed or returned, and the    *)
(* literal after them, in the next function too.                            *)
OwnDataIffFresh == \A at \in DOMAIN data : data[at] = Numbers(at) <=> Fresh(at)

(* The comment in varDecl: the buffer is cleared before its tensorLiteral   *)
(* is accessed; so a declaration whose expression is a literal gets the     *)
(* numbers of that literal.                                                 *)
ClearedBeforeLiteral ==
  \A at \in DOMAIN data : walk[at - 1].item = "statement"
                          /\ walk[at - 1].stmt.kind = "var"
                          => data[at] = Numbers(at)
==============================================================================
