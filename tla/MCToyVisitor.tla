---------------------------- MODULE MCToyVisitor ----------------------------
(* Programs of one function of up to three statements and of two functions   *)
(* of up to two and one, drawn from small pools that hold literals in every  *)
(* position, full and ragged, names declared, twice, elsewhere and never,    *)
(* calls in calls, and returns.                                              *)
EXTENDS ToyVisitor

Number == [item |-> "number"]
Scalar == [nested |-> FALSE, numbers |-> <<1>>]
Nested(numbers) == [nested |-> TRUE, numbers |-> numbers]
Literal(rows) == [item |-> "literal", rows |-> rows]
Name(id) == [item |-> "name", id |-> id]
Call(callee, arity) == [item |-> "call", callee |-> callee, arity |-> arity]

Pair == Literal(<<Scalar, Scalar>>)
One == Literal(<<Scalar>>)
Square == Literal(<<Nested(<<1, 1>>), Nested(<<1, 1>>)>>)
Ragged == Literal(<<Nested(<<1, 1>>), Nested(<<1>>)>>)
Deep == Literal(<<Nested(<<2>>)>>)
Holes == Literal(<<Nested(<<>>), Nested(<<>>)>>)
Nothing == Literal(<<>>)

Stmt(kind, id, shaped, expr) == [kind |-> kind, id |-> id, shaped |-> shaped, expr |-> expr]
Var(id, expr) == Stmt("var", id, FALSE, expr)
Shaped(id, expr) == Stmt("var", id, TRUE, expr)
Bare(expr) == Stmt("expression", "", FALSE, expr)
Return(expr) == Stmt("return", "", FALSE, expr)

Declarations == {Var("a", <<Pair>>), Shaped("a", <<Square>>), Var("b", <<Name("a")>>),
                 Shaped("b", <<Pair, One, Call("f", 2)>>)}
Uses == {Bare(<<Name("a"), Call("print", 1)>>), Bare(<<One, Call("print", 1)>>),
         Bare(<<Name("b"), Name("a"), Call("f", 2)>>), Return(<<>>)}
Slips == {Var("a", <<>>), Shaped("a", <<Number>>), Var("b", <<Number>>), Bare(<<Number>>),
          Bare(<<Name("a"), Name("b"), Call("print", 2)>>), Bare(<<Call("print", 0)>>),
          Var("a", <<One, Call("print", 1)>>), Bare(<<Call("f", 0), Call("f", 1)>>),
          Bare(<<One, Call("print", 1), Call("f", 1)>>), Return(<<One>>), Bare(<<Number, Call("f", 1)>>)}
         \cup {Bare(<<literal>>) : literal \in {Square, Ragged, Deep, Holes, Nothing}}
Good == Declarations \cup Uses
All == Good \cup Slips

Fun(name, block) == [name |-> name, block |-> block]
MCPrograms ==
  {<<Fun("main", block)>> : block \in BoundedSeq(Good, 3) \cup BoundedSeq(All, 2)}
  \cup {<<Fun("g", first), Fun("main", second)>> :
          first \in BoundedSeq(Good, 2), second \in BoundedSeq(All, 1)}

FewPrograms ==
  {<<Fun("main", block)>> :
     block \in BoundedSeq({Var("a", <<Pair>>), Bare(<<One, Call("print", 1)>>),
                           Return(<<>>), Return(<<One>>)}, 3)}
=============================================================================
