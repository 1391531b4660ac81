------------------------------ MODULE ToyProofs ------------------------------
(****************************************************************************)
(* What ToyParser, ToyVisitor and ToyDriver promise for every set of        *)
(* programs and every way to call the compiler.                             *)
(****************************************************************************)
EXTENDS ToyDriver, DataLemmas, TLAPS

-----------------------------------------------------------------------------
(* The shape of a program.  A spot is what surrounds the parser, or the     *)
(* visitor, between two events: nothing, a block, or a statement of which   *)
(* so many trees have been left.                                            *)
Events == Nodes \cup [item : {"enter"}, name : STRING] \cup [item : {"leave"}]
            \cup [item : {"statement", "finish"}, stmt : Statements]
Spot(place, stmt, trees) == [place |-> place, stmt |-> stmt, trees |-> trees]
Outside == Spot("outside", "none", 0)
InBlock == Spot("block", "none", 0)
Reading(stmt, trees) == Spot("statement", stmt, trees)
Spots == {Outside, InBlock} \cup {Reading(stmt, trees) : stmt \in Statements, trees \in Nat}

Complete(stmt) == stmt.expr # <<>> \/ stmt.kind # "expression"
TreesOf(stmt) == IF stmt.expr = <<>> THEN 0 ELSE 1
Moves(before, event, after) ==
  \/ event.item = "enter" /\ before = Outside /\ after = InBlock
  \/ event.item = "leave" /\ before = InBlock /\ after = Outside
  \/ event.item = "statement" /\ before = InBlock /\ after = Reading(event.stmt, 0)
  \/ /\ event.item = "finish" /\ Complete(event.stmt)
     /\ before = Reading(event.stmt, TreesOf(event.stmt)) /\ after = InBlock
  \/ /\ event \in Nodes /\ before.place = "statement" /\ Arity(event) <= before.trees
     /\ after = Reading(before.stmt, before.trees - Arity(event) + 1)

Course(events, spots) == \A i \in 1 .. Len(events) : Moves(spots[i - 1], events[i], spots[i])
Leads(events, from, to) ==
  \E spots \in [0 .. Len(events) -> Spots] :
    spots[0] = from /\ spots[Len(events)] = to /\ Course(events, spots)

LEMMA LeadsNowhere == \A spot \in Spots : Leads(<<>>, spot, spot)
<1> SUFFICES ASSUME NEW spot \in Spots PROVE Leads(<<>>, spot, spot) OBVIOUS
<1> DEFINE spots == [i \in 0 .. 0 |-> spot]
<1>1. Len(<<>>) = 0 OBVIOUS
<1>2. spots \in [0 .. 0 -> Spots] /\ spots[0] = spot OBVIOUS
<1>3. Course(<<>>, spots) BY <1>1 DEF Course
<1> HIDE DEF spots
<1> QED BY <1>1, <1>2, <1>3 DEF Leads

LEMMA LeadsOne ==
  ASSUME NEW event \in Events, NEW from \in Spots, NEW to \in Spots, Moves(from, event, to)
  PROVE  Leads(<<event>>, from, to)
<1> DEFINE spots == [i \in 0 .. 1 |-> IF i = 0 THEN from ELSE to]
<1>1. Len(<<event>>) = 1 /\ <<event>>[1] = event OBVIOUS
<1>2. spots \in [0 .. 1 -> Spots] /\ spots[0] = from /\ spots[1] = to OBVIOUS
<1> HIDE DEF spots
<1>3. \A i \in 1 .. 1 : i = 1 /\ i - 1 = 0 OBVIOUS
<1>4. Course(<<event>>, spots) BY <1>1, <1>2, <1>3 DEF Course
<1> QED BY <1>1, <1>2, <1>4 DEF Leads

LEMMA LeadsOn ==
  ASSUME NEW a \in Seq(Events), NEW b \in Seq(Events), NEW from, NEW via, NEW to,
         Leads(a, from, via), Leads(b, via, to)
  PROVE  a \o b \in Seq(Events) /\ Leads(a \o b, from, to)
<1> DEFINE m == Len(a)
           n == Len(b)
           c == a \o b
<1>1. PICK s \in [0 .. m -> Spots] : s[0] = from /\ s[m] = via /\ Course(a, s) BY DEF Leads
<1>2. PICK t \in [0 .. n -> Spots] : t[0] = via /\ t[n] = to /\ Course(b, t) BY DEF Leads
<1>3. /\ c \in Seq(Events) /\ m \in Nat /\ n \in Nat /\ Len(c) = m + n
      /\ \A p \in 1 .. m + n : c[p] = IF p <= m THEN a[p] ELSE b[p - m]
  BY Concatenated
<1>8. \A i \in 1 .. m : Moves(s[i - 1], a[i], s[i]) BY <1>1 DEF Course
<1>9. \A i \in 1 .. n : Moves(t[i - 1], b[i], t[i]) BY <1>2 DEF Course
<1> DEFINE u == [i \in 0 .. m + n |-> IF i <= m THEN s[i] ELSE t[i - m]]
<1> HIDE DEF m, n, c
<1>4. u \in [0 .. m + n -> Spots] BY <1>1, <1>2, <1>3
<1>5. u[0] = from /\ u[m + n] = to
  <2>1. CASE n = 0 BY <1>1, <1>2, <1>3, <2>1
  <2>2. CASE n # 0 BY <1>1, <1>2, <1>3, <2>2
  <2> QED BY <2>1, <2>2
<1>6. ASSUME NEW i \in 1 .. m + n PROVE Moves(u[i - 1], c[i], u[i])
  <2>1. CASE i <= m
    <3>1. i \in 1 .. m /\ u[i - 1] = s[i - 1] /\ u[i] = s[i] /\ c[i] = a[i]
      BY <1>3, <2>1
    <3> HIDE DEF u
    <3> QED BY <1>8, <3>1
  <2>2. CASE ~(i <= m)
    <3>1. i - m \in 1 .. n /\ u[i] = t[i - m] /\ c[i] = b[i - m] BY <1>3, <2>2
    <3>2. u[i - 1] = t[(i - m) - 1]
      <4>1. CASE i = m + 1
        <5>1. i - 1 = m /\ (i - m) - 1 = 0 /\ m \in 0 .. m + n BY <1>3, <4>1
        <5> QED BY <1>1, <1>2, <1>3, <5>1
      <4>2. CASE i # m + 1
        <5>1. i - 1 \in 0 .. m + n /\ ~(i - 1 <= m) /\ (i - 1) - m = (i - m) - 1
          BY <1>3, <2>2, <4>2
        <5> QED BY <5>1
      <4> QED BY <4>1, <4>2
    <3> HIDE DEF u
    <3> QED BY <1>9, <3>1, <3>2
  <2> QED BY <2>1, <2>2
<1> HIDE DEF u
<1>7. Course(c, u) BY <1>3, <1>6 DEF Course
<1>10. Leads(c, from, to) BY <1>3, <1>4, <1>5, <1>7 DEF Leads
<1> QED BY <1>3, <1>10 DEF c

LEMMA LeadsThroughTree ==
  ASSUME NEW stmt \in Statements, OneTree(stmt.expr)
  PROVE  Leads(stmt.expr, Reading(stmt, 0), Reading(stmt, 1))
<1> DEFINE n == Len(stmt.expr)
<1>1. PICK trees \in [0 .. n -> 0 .. n] :
        /\ trees[0] = 0 /\ trees[n] = 1
        /\ \A i \in DOMAIN stmt.expr : /\ Arity(stmt.expr[i]) <= trees[i - 1]
                                       /\ trees[i] = trees[i - 1] - Arity(stmt.expr[i]) + 1
  BY DEF OneTree
<1>2. stmt.expr \in Seq(Nodes) BY DEF Statements
<1>3. n \in Nat /\ DOMAIN stmt.expr = 1 .. n /\ \A i \in 1 .. n : stmt.expr[i] \in Nodes
  BY <1>2
<1> DEFINE spots == [i \in 0 .. n |-> Reading(stmt, trees[i])]
<1> HIDE DEF n
<1>4. \A i \in 0 .. n : trees[i] \in Nat BY <1>1, <1>3
<1>5. \A i \in 0 .. n : Reading(stmt, trees[i]) \in Spots BY <1>4 DEF Spots
<1>6. spots \in [0 .. n -> Spots] BY <1>5
<1>7. 0 \in 0 .. n /\ n \in 0 .. n BY <1>3
<1>8. spots[0] = Reading(stmt, 0) /\ spots[n] = Reading(stmt, 1) BY <1>1, <1>7
<1>9. ASSUME NEW i \in 1 .. n PROVE Moves(spots[i - 1], stmt.expr[i], spots[i])
  <2>1. i - 1 \in 0 .. n /\ i \in 0 .. n BY <1>3
  <2>2. spots[i - 1] = Reading(stmt, trees[i - 1]) /\ spots[i] = Reading(stmt, trees[i])
    BY <2>1
  <2>3. /\ Arity(stmt.expr[i]) <= trees[i - 1]
        /\ trees[i] = trees[i - 1] - Arity(stmt.expr[i]) + 1
    BY <1>1, <1>3
  <2>4. stmt.expr[i] \in Nodes BY <1>3
  <2>5. /\ Reading(stmt, trees[i - 1]).place = "statement"
        /\ Reading(stmt, trees[i - 1]).stmt = stmt
        /\ Reading(stmt, trees[i - 1]).trees = trees[i - 1]
    BY DEF Reading, Spot
  <2> HIDE DEF spots
  <2> QED BY <2>2, <2>3, <2>4, <2>5, Zenon DEF Moves
<1>10. Course(stmt.expr, spots) BY <1>9 DEF Course, n
<1> HIDE DEF spots
<1> QED BY <1>6, <1>8, <1>10 DEF Leads, n

LEMMA NodesAreEvents ==
  ASSUME NEW expr \in Seq(Nodes) PROVE expr \in Seq(Events)
<1>1. Nodes \subseteq Events BY DEF Events
<1> QED BY <1>1

LEMMA LeadsThroughStatement ==
  ASSUME NEW stmt \in Statements,
         OneTree(stmt.expr) \/ (stmt.expr = <<>> /\ stmt.kind # "expression")
  PROVE  Statement(stmt) \in Seq(Events) /\ Leads(Statement(stmt), InBlock, InBlock)
<1> DEFINE begin == [item |-> "statement", stmt |-> stmt]
           finish == [item |-> "finish", stmt |-> stmt]
<1>1. begin \in Events /\ finish \in Events BY DEF Events
<1>2. stmt.expr \in Seq(Nodes) BY DEF Statements
<1>3. stmt.expr \in Seq(Events) BY <1>2, NodesAreEvents
<1>4. \A n \in Nat : Reading(stmt, n) \in Spots BY DEF Spots
<1>5. InBlock \in Spots BY DEF Spots
<1>6. Leads(<<begin>>, InBlock, Reading(stmt, 0))
  <2>1. Moves(InBlock, begin, Reading(stmt, 0)) BY DEF Moves
  <2> QED BY <1>1, <1>4, <1>5, <2>1, LeadsOne
<1>7. Leads(stmt.expr, Reading(stmt, 0), Reading(stmt, TreesOf(stmt))) /\ Complete(stmt)
  <2>1. CASE stmt.expr = <<>>
    <3>1. ~OneTree(stmt.expr)
      <4>1. Len(stmt.expr) = 0 BY <2>1
      <4> QED BY <4>1 DEF OneTree
    <3>2. TreesOf(stmt) = 0 /\ Complete(stmt) BY <2>1, <3>1 DEF TreesOf, Complete
    <3> QED BY <1>4, <2>1, <3>2, LeadsNowhere
  <2>2. CASE stmt.expr # <<>>
    <3>1. TreesOf(stmt) = 1 /\ Complete(stmt) BY <2>2 DEF TreesOf, Complete
    <3> QED BY <2>2, <3>1, LeadsThroughTree
  <2> QED BY <2>1, <2>2
<1>8. Leads(<<finish>>, Reading(stmt, TreesOf(stmt)), InBlock)
  <2>1. Moves(Reading(stmt, TreesOf(stmt)), finish, InBlock) BY <1>7 DEF Moves
  <2>2. TreesOf(stmt) \in Nat BY DEF TreesOf
  <2> QED BY <1>1, <1>4, <1>5, <2>1, <2>2, LeadsOne
<1>9. <<begin>> \in Seq(Events) /\ <<finish>> \in Seq(Events) BY <1>1
<1> HIDE DEF begin, finish
<1>10. /\ <<begin>> \o stmt.expr \in Seq(Events)
       /\ Leads(<<begin>> \o stmt.expr, InBlock, Reading(stmt, TreesOf(stmt)))
  BY <1>3, <1>6, <1>7, <1>9, LeadsOn
<1>11. /\ (<<begin>> \o stmt.expr) \o <<finish>> \in Seq(Events)
       /\ Leads((<<begin>> \o stmt.expr) \o <<finish>>, InBlock, InBlock)
  BY <1>8, <1>9, <1>10, LeadsOn
<1> QED BY <1>11 DEF Statement, begin, finish

LEMMA LeadsThroughAll ==
  ASSUME NEW spot \in Spots, NEW parts,
         parts \in Seq({part \in Seq(Events) : Leads(part, spot, spot)})
  PROVE  FlattenSeq(parts) \in Seq(Events) /\ Leads(FlattenSeq(parts), spot, spot)
<1> DEFINE Good == {part \in Seq(Events) : Leads(part, spot, spot)}
<1>1. <<>> \in Good BY LeadsNowhere
<1>2. \A a, b \in Good : a \o b \in Good BY LeadsOn
<1>3. parts \in Seq(Good) OBVIOUS
<1>4. FlattenSeq(parts) \in Good
  <2> HIDE DEF Good
  <2> QED BY <1>1, <1>2, <1>3, FlattenClosed
<1> QED BY <1>4
LEMMA LeadsThroughFun ==
  ASSUME NEW program \in Programs, NEW f \in DOMAIN program
  PROVE  /\ FunDefine(program[f]) \in Seq(Events)
         /\ Leads(FunDefine(program[f]), Outside, Outside)
<1> DEFINE fun == program[f]
           enter == [item |-> "enter", name |-> fun.name]
           leave == [item |-> "leave"]
           parts == [s \in DOMAIN fun.block |-> Statement(fun.block[s])]
           Good == {part \in Seq(Events) : Leads(part, InBlock, InBlock)}
<1>1. fun \in FunDefines BY ProgramAssumption
<1>2. fun.block \in Seq(Statements) /\ fun.name \in STRING BY <1>1 DEF FunDefines
<1>3. \A s \in DOMAIN fun.block : Statement(fun.block[s]) \in Good
  <2> SUFFICES ASSUME NEW s \in DOMAIN fun.block PROVE Statement(fun.block[s]) \in Good
    OBVIOUS
  <2>1. fun.block[s] \in Statements /\ fun.block[s] \in ToSet(fun.block)
    BY <1>2 DEF ToSet
  <2>2. LET stmt == fun.block[s]
        IN  OneTree(stmt.expr) \/ (stmt.expr = <<>> /\ stmt.kind # "expression")
    BY <2>1, ProgramAssumption
  <2> QED BY <2>1, <2>2, LeadsThroughStatement
<1>4. Outside \in Spots /\ InBlock \in Spots BY DEF Spots
<1>5. parts \in Seq(Good)
  <2>1. DOMAIN fun.block = 1 .. Len(fun.block) /\ Len(fun.block) \in Nat BY <1>2
  <2> DEFINE n == Len(fun.block)
  <2>2. parts = [s \in 1 .. n |-> Statement(fun.block[s])] BY <2>1
  <2>3. \A s \in 1 .. n : Statement(fun.block[s]) \in Good BY <1>3, <2>1
  <2> HIDE DEF Good, n, fun
  <2>4. [s \in 1 .. n |-> Statement(fun.block[s])] \in [1 .. n -> Good] BY <2>3
  <2>5. n \in Nat BY <2>1 DEF n
  <2> HIDE DEF parts
  <2> QED BY <2>2, <2>4, <2>5, SeqDef
<1>6. FlattenSeq(parts) \in Seq(Events) /\ Leads(FlattenSeq(parts), InBlock, InBlock)
  <2> HIDE DEF parts
  <2> QED BY <1>4, <1>5, LeadsThroughAll
<1>7. /\ <<enter>> \in Seq(Events) /\ <<leave>> \in Seq(Events)
      /\ enter \in Events /\ leave \in Events
  BY <1>2 DEF Events
<1>8. Leads(<<enter>>, Outside, InBlock)
  <2>1. Moves(Outside, enter, InBlock) BY DEF Moves
  <2> QED BY <1>4, <1>7, <2>1, LeadsOne
<1>9. Leads(<<leave>>, InBlock, Outside)
  <2>1. Moves(InBlock, leave, Outside) BY DEF Moves
  <2> QED BY <1>4, <1>7, <2>1, LeadsOne
<1> HIDE DEF enter, leave, parts
<1>10. /\ <<enter>> \o FlattenSeq(parts) \in Seq(Events)
       /\ Leads(<<enter>> \o FlattenSeq(parts), Outside, InBlock)
  BY <1>6, <1>7, <1>8, LeadsOn
<1>11. /\ (<<enter>> \o FlattenSeq(parts)) \o <<leave>> \in Seq(Events)
       /\ Leads((<<enter>> \o FlattenSeq(parts)) \o <<leave>>, Outside, Outside)
  BY <1>7, <1>9, <1>10, LeadsOn
<1> QED BY <1>11 DEF FunDefine, enter, leave, parts

(* A program leads from nowhere to nowhere.                                 *)
LEMMA LeadsThroughProgram ==
  ASSUME NEW program \in Programs
  PROVE  Walk(program) \in Seq(Events) /\ Leads(Walk(program), Outside, Outside)
<1> DEFINE Good == {part \in Seq(Events) : Leads(part, Outside, Outside)}
           n == Len(program)
           parts == [f \in 1 .. n |-> FunDefine(program[f])]
<1>1. DOMAIN program = 1 .. n /\ n \in Nat BY ProgramAssumption
<1>2. \A f \in 1 .. n : FunDefine(program[f]) \in Good BY <1>1, LeadsThroughFun
<1>3. Outside \in Spots BY DEF Spots
<1>4. parts \in Seq(Good)
  <2> HIDE DEF Good, n
  <2>1. parts \in [1 .. n -> Good] BY <1>2
  <2> HIDE DEF parts
  <2> QED BY <1>1, <2>1, SeqDef
<1>5. FlattenSeq(parts) \in Seq(Events) /\ Leads(FlattenSeq(parts), Outside, Outside)
  <2> HIDE DEF parts
  <2> QED BY <1>3, <1>4, LeadsThroughAll
<1> QED BY <1>1, <1>5 DEF Walk

(* A literal holds a number of numbers.                                     *)
LEMMA SizeIsNat ==
  ASSUME NEW rows \in Seq(Rows) PROVE Size(rows) \in Nat
<1> DEFINE n == Len(rows)
           parts == [r \in DOMAIN rows |-> rows[r].numbers]
           Good == Seq(Nat)
<1>1. DOMAIN rows = 1 .. n /\ n \in Nat OBVIOUS
<1>2. \A r \in 1 .. n : rows[r].numbers \in Seq(Nat)
  <2>1. \A r \in 1 .. n : rows[r] \in Rows BY <1>1
  <2>2. \A row \in Rows : row.numbers \in Seq(Nat) BY DEF Rows
  <2> QED BY <2>1, <2>2
<1>3. parts \in Seq(Seq(Nat))
  <2> HIDE DEF n
  <2>1. parts \in [1 .. n -> Seq(Nat)] BY <1>1, <1>2
  <2> HIDE DEF parts
  <2> QED BY <1>1, <2>1, SeqDef
<1>4. <<>> \in Good /\ \A a, b \in Good : a \o b \in Good OBVIOUS
<1>5. FlattenSeq(parts) \in Good
  <2>1. parts \in Seq(Good) BY <1>3
  <2> HIDE DEF Good, parts
  <2> QED BY <1>4, <2>1, FlattenClosed
<1>6. FlattenSeq(parts) \in Seq(Nat) BY <1>5
<1> HIDE DEF parts, Good
<1>7. FoldLeft(+, 0, FlattenSeq(parts)) \in Nat BY <1>6, FoldedSum
<1> QED BY <1>7, Zenon DEF Size, parts

(* What an event is, by its item.                                           *)
LEMMA EventKinds ==
  ASSUME NEW event \in Events
  PROVE  /\ event.item \in {"number", "literal", "name", "call", "enter", "leave",
                            "statement", "finish"}
         /\ event \in Nodes <=> event.item \in {"number", "literal", "name", "call"}
         /\ event.item = "literal" => event.rows \in Seq(Rows)
         /\ event.item = "name" => event.id \in STRING
         /\ event.item = "call" => event.callee \in STRING /\ event.arity \in Nat
         /\ event.item = "enter" => event.name \in STRING
         /\ event.item \in {"statement", "finish"} => event.stmt \in Statements
BY DEF Events, Nodes

-----------------------------------------------------------------------------
(* Everything read up to `last` has been cleared away by a declaration.     *)
Cleared(last) ==
  \A other \in 1 .. last :
    walk[other].item = "literal" /\ Size(walk[other].rows) > 0
      => \E clear \in other .. last : Initialises(walk[clear])

WalkOK ==
  /\ walk \in Seq({walk[at] : at \in DOMAIN walk})
  /\ parsed \in 0 .. Len(walk)
  /\ \A at \in DOMAIN walk : walk[at].item = "literal" => Size(walk[at].rows) \in Nat
Tokens == {<<at, i>> : at \in Nat, i \in Nat}

(* The buffer is empty exactly when nothing read is waiting to be cleared.  *)
BufferInv ==
  /\ WalkOK
  /\ tensorDataBuffer \in Seq(Tokens)
  /\ tensorDataBuffer = <<>> <=> Cleared(parsed)
DataInv ==
  /\ DOMAIN data \subseteq 1 .. parsed
  /\ OwnDataIffFresh

(* The numbers of a literal are a sequence as long as its size.             *)
LEMMA NumbersLength ==
  ASSUME WalkOK, NEW at \in DOMAIN walk, walk[at].item = "literal"
  PROVE  /\ Numbers(at) \in Seq(Tokens)
         /\ Len(Numbers(at)) = Size(walk[at].rows) /\ Size(walk[at].rows) \in Nat
<1>1. Size(walk[at].rows) \in Nat BY DEF WalkOK
<1>2. at \in Nat BY DEF WalkOK
<1> DEFINE size == Size(walk[at].rows)
<1>3. Numbers(at) = [i \in 1 .. size |-> <<at, i>>] BY DEF Numbers
<1>4. \A i \in 1 .. size : <<at, i>> \in Tokens BY <1>1, <1>2 DEF Tokens
<1> HIDE DEF size
<1>5. size \in Nat BY <1>1 DEF size
<1>6. Numbers(at) \in [1 .. size -> Tokens] BY <1>3, <1>4
<1>7. Numbers(at) \in Seq(Tokens) /\ Len(Numbers(at)) = size BY <1>5, <1>6, <1>3
<1> QED BY <1>7, <1>5 DEF size

(* Of the whole buffer and its own numbers, a literal has its own alone     *)
(* only when the buffer is empty.                                           *)
LEMMA OwnAlone ==
  ASSUME NEW s \in Seq(Tokens), NEW t \in Seq(Tokens)
  PROVE  /\ s \o t \in Seq(Tokens)
         /\ (s \o t = t) <=> (s = <<>>)
         /\ (s \o t = <<>>) <=> (s = <<>> /\ t = <<>>)
<1>1. Len(s \o t) = Len(s) + Len(t) /\ s \o t \in Seq(Tokens) OBVIOUS
<1>2. Len(s) \in Nat /\ Len(t) \in Nat OBVIOUS
<1>3. s = <<>> <=> Len(s) = 0 OBVIOUS
<1>4. s = <<>> => s \o t = t OBVIOUS
<1>5. s \o t = t => s = <<>> BY <1>1, <1>2, <1>3
<1>6. t = <<>> <=> Len(t) = 0 OBVIOUS
<1>7. s \o t = <<>> <=> Len(s \o t) = 0 BY <1>1
<1> QED BY <1>1, <1>2, <1>3, <1>4, <1>5, <1>6, <1>7

(* What has been cleared after one more event.                              *)
LEMMA ClearedNext ==
  ASSUME WalkOK, Parsing
  PROVE  /\ parsed + 1 \in DOMAIN walk /\ parsed \in Nat
         /\ Initialises(Parsed) => Cleared(parsed + 1)
         /\ ~Initialises(Parsed) /\ Parsed.item # "literal"
              => (Cleared(parsed + 1) <=> Cleared(parsed))
         /\ Parsed.item = "literal"
              => (Cleared(parsed + 1) <=> Cleared(parsed) /\ ~(Size(Parsed.rows) > 0))
<1>1. parsed \in Nat /\ Len(walk) \in Nat /\ parsed < Len(walk) BY DEF WalkOK, Parsing
<1>2. parsed + 1 \in DOMAIN walk BY <1>1 DEF WalkOK
<1>3. Parsed = walk[parsed + 1] BY DEF Parsed
<1>4. ASSUME Initialises(Parsed) PROVE Cleared(parsed + 1)
  BY <1>1, <1>3, <1>4 DEF Cleared
<1>5. ASSUME ~Initialises(Parsed) PROVE Cleared(parsed + 1) => Cleared(parsed)
  <2> SUFFICES ASSUME Cleared(parsed + 1), NEW other \in 1 .. parsed,
                      walk[other].item = "literal" /\ Size(walk[other].rows) > 0
               PROVE  \E clear \in other .. parsed : Initialises(walk[clear])
    BY DEF Cleared
  <2>1. PICK clear \in other .. parsed + 1 : Initialises(walk[clear]) BY <1>1 DEF Cleared
  <2>2. clear # parsed + 1 BY <2>1, <1>3, <1>5
  <2> QED BY <1>1, <2>1, <2>2
<1>6. ASSUME ~(Parsed.item = "literal" /\ Size(Parsed.rows) > 0)
      PROVE  Cleared(parsed) => Cleared(parsed + 1)
  <2> SUFFICES ASSUME Cleared(parsed), NEW other \in 1 .. parsed + 1,
                      walk[other].item = "literal" /\ Size(walk[other].rows) > 0
               PROVE  \E clear \in other .. parsed + 1 : Initialises(walk[clear])
    BY DEF Cleared
  <2>1. other \in 1 .. parsed BY <1>1, <1>3, <1>6
  <2>2. PICK clear \in other .. parsed : Initialises(walk[clear]) BY <2>1 DEF Cleared
  <2> QED BY <1>1, <2>2
<1>7. Parsed.item = "literal" => ~Initialises(Parsed) BY DEF Initialises
<1>8. ASSUME Parsed.item = "literal", Size(Parsed.rows) > 0 PROVE ~Cleared(parsed + 1)
  <2> SUFFICES ASSUME Cleared(parsed + 1) PROVE FALSE OBVIOUS
  <2>1. PICK clear \in parsed + 1 .. parsed + 1 : Initialises(walk[clear])
    BY <1>1, <1>3, <1>8 DEF Cleared
  <2>2. clear = parsed + 1 BY <1>1
  <2> QED BY <2>1, <2>2, <1>3, <1>7, <1>8
<1> QED BY <1>1, <1>2, <1>4, <1>5, <1>6, <1>7, <1>8

(* A literal about to be parsed is fresh when all read before is cleared.   *)
LEMMA FreshNext ==
  ASSUME WalkOK, Parsing, Parsed.item = "literal"
  PROVE  Fresh(parsed + 1) <=> Cleared(parsed)
<1>1. parsed \in Nat BY DEF WalkOK
<1>2. ~Initialises(walk[parsed + 1]) BY DEF Initialises, Parsed
<1>3. Cleared(parsed) => Fresh(parsed + 1) BY <1>1 DEF Cleared, Fresh
<1>4. ASSUME Fresh(parsed + 1) PROVE Cleared(parsed)
  <2> SUFFICES ASSUME NEW other \in 1 .. parsed,
                      walk[other].item = "literal" /\ Size(walk[other].rows) > 0
               PROVE  \E clear \in other .. parsed : Initialises(walk[clear])
    BY DEF Cleared
  <2>1. PICK clear \in other .. parsed + 1 : Initialises(walk[clear]) BY <1>1, <1>4 DEF Fresh
  <2>2. clear # parsed + 1 BY <2>1, <1>2
  <2> QED BY <1>1, <2>1, <2>2
<1> QED BY <1>3, <1>4

(* What is said of the program alone stays.                                 *)
LEMMA SameProgram ==
  ASSUME walk' = walk
  PROVE  \A at : /\ Fresh(at)' <=> Fresh(at)
                 /\ Cleared(at)' <=> Cleared(at)
                 /\ Numbers(at)' = Numbers(at)
BY DEF Fresh, Cleared, Numbers, Initialises

LEMMA InitBuffer == Init => BufferInv /\ DataInv
<1> SUFFICES ASSUME Init PROVE BufferInv /\ DataInv OBVIOUS
<1>1. PICK program \in Programs : walk = Walk(program) BY DEF Init, ParserInit
<1>2. walk \in Seq(Events) BY <1>1, LeadsThroughProgram
<1>3. walk \in Seq({walk[at] : at \in DOMAIN walk}) BY <1>2
<1>4. \A at \in DOMAIN walk : walk[at].item = "literal" => Size(walk[at].rows) \in Nat
  <2>1. \A at \in DOMAIN walk : walk[at] \in Events BY <1>2
  <2> QED BY <2>1, EventKinds, SizeIsNat
<1>5. WalkOK
  <2>1. parsed = 0 /\ Len(walk) \in Nat BY <1>2 DEF Init, ParserInit
  <2> QED BY <1>3, <1>4, <2>1 DEF WalkOK
<1> USE DEF Init, ParserInit
<1>6. Cleared(parsed) BY DEF Cleared
<1>7. tensorDataBuffer \in Seq(Tokens) OBVIOUS
<1>8. DOMAIN data = {} OBVIOUS
<1> QED BY <1>5, <1>6, <1>7, <1>8 DEF BufferInv, DataInv, OwnDataIffFresh

LEMMA WalkStep ==
  ASSUME WalkOK, Parsing, walk' = walk, parsed' = parsed + 1
  PROVE  WalkOK'
<1>1. parsed + 1 \in 0 .. Len(walk) BY DEF WalkOK, Parsing
<1> QED BY <1>1 DEF WalkOK

LEMMA StepBuffer == BufferInv /\ DataInv /\ [Next]_vars => BufferInv' /\ DataInv'
<1> SUFFICES ASSUME BufferInv, DataInv, [Next]_vars PROVE BufferInv' /\ DataInv' OBVIOUS
<1> USE DEF BufferInv
<1>1. CASE TensorLiteral
  <2> DEFINE at == parsed + 1
  <2>1. Parsing /\ Parsed.item = "literal" /\ walk' = walk /\ parsed' = at
    BY <1>1 DEF TensorLiteral
  <2>2. tensorDataBuffer' = tensorDataBuffer \o Numbers(at)
    BY <1>1 DEF TensorLiteral
  <2>3. data' = With(data, at, tensorDataBuffer') BY <1>1 DEF TensorLiteral
  <2>4. at \in DOMAIN walk /\ parsed \in Nat /\ walk[at] = Parsed
    BY <2>1, ClearedNext DEF Parsed
  <2>5. Numbers(at) \in Seq(Tokens) /\ (Numbers(at) = <<>> <=> ~(Size(Parsed.rows) > 0))
    <3>1. /\ Numbers(at) \in Seq(Tokens) /\ Len(Numbers(at)) = Size(Parsed.rows)
          /\ Size(Parsed.rows) \in Nat
      BY <2>1, <2>4, NumbersLength
    <3>2. Numbers(at) = <<>> <=> Len(Numbers(at)) = 0 BY <3>1
    <3> QED BY <3>1, <3>2
  <2>6. /\ tensorDataBuffer' \in Seq(Tokens)
        /\ tensorDataBuffer' = Numbers(at) <=> tensorDataBuffer = <<>>
        /\ tensorDataBuffer' = <<>> <=> tensorDataBuffer = <<>> /\ Numbers(at) = <<>>
    BY <2>2, <2>5, OwnAlone
  <2>7. Cleared(at) <=> Cleared(parsed) /\ ~(Size(Parsed.rows) > 0) BY <2>1, ClearedNext
  <2>8. BufferInv'
    <3>1. WalkOK' BY <2>1, WalkStep
    <3>2. Cleared(parsed)' <=> Cleared(at) BY <2>1 DEF Cleared, Initialises
    <3> QED BY <3>1, <3>2, <2>5, <2>6, <2>7
  <2>9. DOMAIN data' = DOMAIN data \cup {at} /\ data'[at] = tensorDataBuffer'
        /\ \A old \in DOMAIN data : old # at => data'[old] = data[old]
    BY <2>3 DEF With
  <2>10. Fresh(at) <=> tensorDataBuffer = <<>> BY <2>1, FreshNext
  <2>11. \A lit \in DOMAIN data' : data'[lit] = Numbers(lit) <=> Fresh(lit)
    <3>1. at \notin DOMAIN data BY <2>4 DEF DataInv
    <3>2. data'[at] = Numbers(at) <=> Fresh(at) BY <2>9, <2>6, <2>10
    <3> HIDE DEF at
    <3> QED BY <2>9, <3>1, <3>2 DEF DataInv, OwnDataIffFresh
  <2>12. OwnDataIffFresh' BY <2>11, <2>1, SameProgram DEF OwnDataIffFresh
  <2>13. DOMAIN data' \subseteq 1 .. parsed'
    <3>1. DOMAIN data \subseteq 1 .. parsed BY DEF DataInv
    <3> QED BY <2>9, <2>1, <2>4, <3>1
  <2> QED BY <2>8, <2>12, <2>13 DEF DataInv
<1>2. CASE VarDecl \/ OtherRule
  <2>1. /\ Parsing /\ Parsed.item # "literal" /\ walk' = walk /\ parsed' = parsed + 1
        /\ data' = data
        /\ IF Initialises(Parsed) THEN tensorDataBuffer' = <<>>
           ELSE tensorDataBuffer' = tensorDataBuffer
    BY <1>2 DEF VarDecl, OtherRule, Initialises
  <2>2. Cleared(parsed)' <=> Cleared(parsed + 1) BY <2>1 DEF Cleared, Initialises
  <2>3. /\ Initialises(Parsed) => Cleared(parsed + 1)
        /\ ~Initialises(Parsed) => (Cleared(parsed + 1) <=> Cleared(parsed))
        /\ parsed \in Nat
    BY <2>1, ClearedNext
  <2>4. WalkOK' BY <2>1, WalkStep
  <2>5. tensorDataBuffer' \in Seq(Tokens)
    <3>1. <<>> \in Seq(Tokens) OBVIOUS
    <3> QED BY <2>1, <3>1
  <2>6. tensorDataBuffer' = <<>> <=> Cleared(parsed)' BY <2>1, <2>2, <2>3
  <2>7. DataInv'
    <3>1. OwnDataIffFresh' BY <2>1, SameProgram DEF DataInv, OwnDataIffFresh
    <3>2. DOMAIN data' \subseteq 1 .. parsed' BY <2>1, <2>3 DEF DataInv
    <3> QED BY <3>1, <3>2 DEF DataInv
  <2> QED BY <2>4, <2>5, <2>6, <2>7
<1>3. CASE VisitorStep \/ UNCHANGED vars
  <2>1. UNCHANGED parserVars
    <3>1. CASE UNCHANGED vars BY <3>1 DEF vars
    <3>2. CASE VisitorStep
      BY <3>2 DEF VisitorStep, EnterFunction, LeaveFunction, BeginStatement,
        UninitialisedVariable, ReturnExpression, ReturnNothing, VisitNumber, GetTensor,
        GetTensorUndefined, VisitVariable, VisitCall, VisitPrint, CallUndefined,
        VisitVarDecl, ReshapeUndefined, FinishExpression, VisitDone, Proceed, Stop
    <3> QED BY <1>3, <3>1, <3>2
  <2> QED BY <2>1 DEF parserVars, WalkOK, DataInv, OwnDataIffFresh, Cleared, Fresh,
                      Numbers, Initialises
<1> QED BY <1>1, <1>2, <1>3 DEF Next, ParserNext

(* For all programs, a literal has its own numbers exactly when no other    *)
(* literal stands between it and the last initialised declaration.          *)
THEOREM OwnData == Spec => []OwnDataIffFresh
<1>1. BufferInv /\ DataInv => OwnDataIffFresh BY DEF DataInv
<1> QED BY <1>1, InitBuffer, StepBuffer, PTL DEF Spec

(* For all programs, a name keeps its first value until its function ends.  *)
THEOREM FirstDeclarationWins == Spec => NameKeepsValue
<1> DEFINE Keeps == \A id \in DOMAIN symbolTable :
                      \/ id \in DOMAIN symbolTable' /\ symbolTable'[id] = symbolTable[id]
                      \/ symbolTable' = <<>> /\ Event.item = "leave"
<1>1. ASSUME [Next]_vars PROVE [Keeps]_vars
  <2>1. CASE LeaveFunction BY <2>1 DEF LeaveFunction, Visiting, Event
  <2>2. CASE VisitVarDecl
    <3>1. PICK id, value : Declare(id, value) BY <2>2 DEF VisitVarDecl
    <3> QED BY <3>1 DEF Declare, With
  <2>3. CASE UNCHANGED symbolTable BY <2>3
  <2>4. \/ LeaveFunction \/ VisitVarDecl \/ UNCHANGED symbolTable
    BY <1>1 DEF Next, vars, visitorVars, VisitorStep, EnterFunction, BeginStatement,
      UninitialisedVariable, ReturnExpression, ReturnNothing, VisitNumber, GetTensor,
      GetTensorUndefined, VisitVariable, VisitCall, VisitPrint, CallUndefined,
      ReshapeUndefined, FinishExpression, VisitDone, Stop
  <2> QED BY <2>1, <2>2, <2>3, <2>4
<1> QED BY <1>1, PTL DEF Spec, NameKeepsValue

-----------------------------------------------------------------------------
(* The visitor on its way through the program.                              *)
Way == CHOOSE spots \in [0 .. Len(walk) -> Spots] :
         spots[0] = Outside /\ spots[Len(walk)] = Outside /\ Course(walk, spots)
Here == Way[visited]

(* The visitor does not get past a declaration without a value or a return  *)
(* with one.                                                                *)
Passable(stmt) == /\ stmt.kind = "var" => stmt.expr # <<>>
                  /\ stmt.kind = "return" => stmt.expr = <<>>
WayInv ==
  /\ walk \in Seq(Events) /\ Leads(walk, Outside, Outside)
  /\ parsed \in 0 .. Len(walk) /\ visited \in 0 .. parsed
  /\ visited # 0 \/ pc # "visiting" => parsed = Len(walk)
  /\ pc \in {"visiting", "done", "thrown", "undefined"} /\ returnFlag \in BOOLEAN
  /\ pc = "done" => visited = Len(walk)
  /\ DOMAIN data = {at \in 1 .. parsed : walk[at].item = "literal"}
  /\ \A at \in DOMAIN data : data[at] \in Seq(Tokens)
  /\ tensorDataBuffer \in Seq(Tokens)
  /\ Here.place = "statement" => Passable(Here.stmt)

LEMMA OnTheWay ==
  ASSUME WayInv
  PROVE  /\ Way \in [0 .. Len(walk) -> Spots] /\ Way[0] = Outside /\ Way[Len(walk)] = Outside
         /\ Course(walk, Way) /\ Len(walk) \in Nat /\ Here \in Spots
         /\ visited \in Nat /\ visited <= Len(walk)
<1>1. \E spots \in [0 .. Len(walk) -> Spots] :
        spots[0] = Outside /\ spots[Len(walk)] = Outside /\ Course(walk, spots)
  BY DEF WayInv, Leads
<1>2. /\ Way \in [0 .. Len(walk) -> Spots] /\ Way[0] = Outside /\ Way[Len(walk)] = Outside
      /\ Course(walk, Way)
  BY <1>1, Zenon DEF Way
<1>3. Len(walk) \in Nat /\ visited \in Nat /\ visited <= Len(walk) BY DEF WayInv
<1>4. Here \in Spots BY <1>2, <1>3 DEF Here
<1> QED BY <1>2, <1>3, <1>4

(* What a spot is, by its place.                                            *)
LEMMA SpotKinds ==
  ASSUME NEW spot \in Spots
  PROVE  /\ spot.trees \in Nat /\ spot.place \in {"outside", "block", "statement"}
         /\ spot.place = "outside" <=> spot = Outside
         /\ spot.place = "block" <=> spot = InBlock
         /\ spot.place = "statement" =>
              spot.stmt \in Statements /\ spot = Reading(spot.stmt, spot.trees)
         /\ spot.place # "statement" => spot.trees = 0
<1>1. CASE spot = Outside BY <1>1 DEF Outside, InBlock, Spot
<1>2. CASE spot = InBlock BY <1>2 DEF Outside, InBlock, Spot
<1>3. ASSUME NEW stmt \in Statements, NEW n \in Nat, spot = Reading(stmt, n)
      PROVE  /\ spot.place = "statement" /\ spot.stmt = stmt /\ spot.trees = n
  BY <1>3 DEF Reading, Spot
<1>4. Outside.place = "outside" /\ InBlock.place = "block" BY DEF Outside, InBlock, Spot
<1>5. CASE \E stmt \in Statements, n \in Nat : spot = Reading(stmt, n) BY <1>3, <1>4, <1>5
<1> QED BY <1>1, <1>2, <1>5 DEF Spots

(* The next event, and the spot behind it.                                  *)
LEMMA NextSpot ==
  ASSUME WayInv, visited < Len(walk)
  PROVE  /\ visited + 1 \in DOMAIN walk /\ visited + 1 \in 0 .. Len(walk)
         /\ Event \in Events /\ Way[visited + 1] \in Spots
         /\ Event.item = "enter" <=> Here = Outside
         /\ Event.item = "enter" => Way[visited + 1] = InBlock
         /\ Event.item = "leave" => Here = InBlock /\ Way[visited + 1] = Outside
         /\ Event.item = "statement" => Here = InBlock /\ Way[visited + 1] = Reading(Event.stmt, 0)
         /\ Event.item = "finish" => /\ Complete(Event.stmt) /\ Way[visited + 1] = InBlock
                                     /\ Here = Reading(Event.stmt, TreesOf(Event.stmt))
         /\ Event \in Nodes => /\ Here.place = "statement" /\ Arity(Event) <= Here.trees
                               /\ Way[visited + 1]
                                    = Reading(Here.stmt, Here.trees - Arity(Event) + 1)
<1>1. /\ visited + 1 \in DOMAIN walk /\ visited + 1 \in 0 .. Len(walk)
      /\ visited + 1 \in 1 .. Len(walk)
  BY OnTheWay DEF WayInv
<1>2. Event \in Events BY <1>1 DEF WayInv, Event
<1>3. Way[visited + 1] \in Spots BY <1>1, OnTheWay
<1>4. Moves(Here, Event, Way[visited + 1])
  <2>1. Moves(Way[(visited + 1) - 1], walk[visited + 1], Way[visited + 1])
    BY <1>1, OnTheWay, Zenon DEF Course
  <2>2. (visited + 1) - 1 = visited BY OnTheWay
  <2> QED BY <2>1, <2>2 DEF Here, Event
<1>5. Outside.place = "outside" /\ InBlock.place = "block"
      /\ \A stmt, n : Reading(stmt, n).place = "statement"
  BY DEF Outside, InBlock, Reading, Spot
<1> DEFINE next == Way[visited + 1]
<1> HIDE DEF next
<1>6. Moves(Here, Event, next) BY <1>4 DEF next
<1>7. \/ Event.item = "enter" /\ Here = Outside /\ next = InBlock
      \/ Event.item = "leave" /\ Here = InBlock /\ next = Outside
      \/ Event.item = "statement" /\ Here = InBlock /\ next = Reading(Event.stmt, 0)
      \/ /\ Event.item = "finish" /\ Complete(Event.stmt)
         /\ Here = Reading(Event.stmt, TreesOf(Event.stmt)) /\ next = InBlock
      \/ /\ Event \in Nodes /\ Here.place = "statement" /\ Arity(Event) <= Here.trees
         /\ next = Reading(Here.stmt, Here.trees - Arity(Event) + 1)
  BY <1>6, Zenon DEF Moves
<1>8. Event \in Nodes <=> Event.item \in {"number", "literal", "name", "call"}
  BY <1>2, EventKinds
<1>9. /\ Event.item = "enter" <=> Here = Outside
      /\ Event.item = "enter" => next = InBlock
      /\ Event.item = "leave" => Here = InBlock /\ next = Outside
      /\ Event.item = "statement" => Here = InBlock /\ next = Reading(Event.stmt, 0)
      /\ Event.item = "finish" => /\ Complete(Event.stmt) /\ next = InBlock
                                  /\ Here = Reading(Event.stmt, TreesOf(Event.stmt))
      /\ Event \in Nodes => /\ Here.place = "statement" /\ Arity(Event) <= Here.trees
                            /\ next = Reading(Here.stmt, Here.trees - Arity(Event) + 1)
  BY <1>5, <1>7, <1>8
<1> QED BY <1>1, <1>2, <1>3, <1>9 DEF next
-----------------------------------------------------------------------------
(* The module being built, and the values it makes.                         *)
AllValues == {NULL} \cup [fun : Nat, op : Nat \ {0}]
Instructions == [kind : Kinds, operands : Seq(AllValues), tensor : Seq(Tokens)]
Bodies == [name : STRING, ops : Seq(Instructions)]
Locals == {NULL} \cup [fun : {Len(theModule)}, op : 1 .. Len(Block)]

ModuleInv ==
  /\ theModule \in Seq(Bodies)
  /\ Here.place # "outside" => theModule # <<>>
ResultsInv ==
  /\ results \in Seq(Locals) /\ Len(results) = Here.trees
  /\ \A id \in DOMAIN symbolTable : symbolTable[id] \in Locals
  /\ Here.place = "outside" => DOMAIN symbolTable = {}

(* The last values visited, and those before them.                          *)
LEMMA Divided ==
  ASSUME NEW S, NEW s \in Seq(S), NEW k \in 0 .. Len(s)
  PROVE  /\ Len(s) \in Nat /\ Len(s) - k \in Nat
         /\ SubSeq(s, 1, Len(s) - k) \in Seq(S) /\ Len(SubSeq(s, 1, Len(s) - k)) = Len(s) - k
         /\ SubSeq(s, Len(s) - k + 1, Len(s)) \in Seq(S)
         /\ Len(SubSeq(s, Len(s) - k + 1, Len(s))) = k
<1> DEFINE n == Len(s)
<1>1. n \in Nat /\ k \in Nat /\ n - k \in Nat /\ k <= n OBVIOUS
<1>2. \A i \in 1 .. n : s[i] \in S OBVIOUS
<1> HIDE DEF n
<1>3. 1 \in Int /\ n \in Int /\ n - k \in Int /\ n - k + 1 \in Int BY <1>1
<1>4. (\A i \in 1 .. n - k : s[i] \in S) /\ (\A i \in n - k + 1 .. n : s[i] \in S)
  BY <1>1, <1>2
<1> DEFINE a == SubSeq(s, 1, n - k)
           b == SubSeq(s, n - k + 1, n)
<1>5. a \in Seq(S) /\ Len(a) = IF 1 <= n - k THEN (n - k) - 1 + 1 ELSE 0
  <2> DEFINE first == 1
             last == n - k
  <2>1. first \in Int /\ last \in Int /\ \A i \in first .. last : s[i] \in S BY <1>3, <1>4
  <2>2. a = SubSeq(s, first, last) OBVIOUS
  <2> HIDE DEF a, first, last
  <2>3. SubSeq(s, first, last) \in Seq(S) BY <2>1, SubSeqProperties, Zenon
  <2>4. Len(SubSeq(s, first, last)) = IF first <= last THEN last - first + 1 ELSE 0
    BY <2>1, SubSeqProperties, Zenon
  <2> QED BY <2>2, <2>3, <2>4, Zenon DEF first, last
<1>6. b \in Seq(S) /\ Len(b) = IF n - k + 1 <= n THEN n - (n - k + 1) + 1 ELSE 0
  BY <1>3, <1>4, SubSeqProperties, Zenon
<1> HIDE DEF a, b
<1>7. Len(a) = n - k /\ Len(b) = k BY <1>1, <1>5, <1>6
<1> QED BY <1>1, <1>5, <1>6, <1>7, Zenon DEF n, a, b

LEMMA AllButLast ==
  ASSUME NEW S, NEW s \in Seq(S), s # <<>>
  PROVE  Front(s) \in Seq(S) /\ Len(Front(s)) = Len(s) - 1 /\ Last(s) \in S
<1>1. Len(s) \in Nat /\ Len(s) # 0 OBVIOUS
<1>2. 1 \in 0 .. Len(s) BY <1>1
<1>3. Front(s) \in Seq(S) /\ Len(Front(s)) = Len(s) - 1 BY <1>2, Divided DEF Front
<1>4. Last(s) \in S BY <1>1 DEF Last
<1> QED BY <1>3, <1>4

LEMMA FieldReplaced ==
  ASSUME NEW N, NEW O, NEW body \in [name : N, ops : O], NEW ops \in O
  PROVE  /\ [body EXCEPT !.ops = ops] \in [name : N, ops : O]
         /\ [body EXCEPT !.ops = ops].ops = ops
OBVIOUS

(* What builder.create does to the module.                                  *)
LEMMA Built ==
  ASSUME theModule \in Seq(Bodies), theModule # <<>>, NEW operation \in Instructions,
         Create(operation)
  PROVE  /\ theModule' \in Seq(Bodies) /\ Len(theModule') = Len(theModule)
         /\ Len(theModule) \in Nat \ {0} /\ Len(theModule) \in DOMAIN theModule
         /\ DOMAIN theModule' = DOMAIN theModule
         /\ \A f \in DOMAIN theModule : f # Len(theModule) => theModule'[f] = theModule[f]
         /\ Block \in Seq(Instructions) /\ Block = theModule[Len(theModule)].ops
         /\ theModule'[Len(theModule)].ops = Append(Block, operation)
         /\ theModule' # <<>> /\ Block' = Append(Block, operation)
<1> DEFINE n == Len(theModule)
           body == [theModule[n] EXCEPT !.ops = Append(@, operation)]
<1>1. n \in Nat \ {0} /\ DOMAIN theModule = 1 .. n /\ n \in DOMAIN theModule OBVIOUS
<1>2. theModule' = [theModule EXCEPT ![n] = body] BY <1>1 DEF Create
<1>3. theModule[n] \in Bodies BY <1>1
<1>4. body \in Bodies /\ body.ops = Append(theModule[n].ops, operation)
      /\ theModule[n].ops \in Seq(Instructions)
  <2>1. theModule[n] \in [name : STRING, ops : Seq(Instructions)] BY <1>3 DEF Bodies
  <2>2. theModule[n].ops \in Seq(Instructions) BY <2>1
  <2>3. Append(theModule[n].ops, operation) \in Seq(Instructions) BY <2>2
  <2>4. body = [theModule[n] EXCEPT !.ops = Append(theModule[n].ops, operation)] OBVIOUS
  <2> HIDE DEF body, n
  <2> QED BY <2>1, <2>2, <2>3, <2>4, FieldReplaced, Zenon DEF Bodies
<1>5. Block = theModule[n].ops BY DEF Block, Last
<1> HIDE DEF body
<1>6. /\ theModule' \in Seq(Bodies) /\ Len(theModule') = n
      /\ \A f \in DOMAIN theModule : f # n => theModule'[f] = theModule[f]
      /\ theModule'[n] = body
  <2>1. body \in Bodies BY <1>4
  <2>2. theModule \in [1 .. n -> Bodies] BY <1>1
  <2>3. n \in Nat /\ DOMAIN theModule = 1 .. n BY <1>1
  <2> HIDE DEF n
  <2>4. theModule' \in [1 .. n -> Bodies] /\ theModule'[n] = body
        /\ \A f \in 1 .. n : f # n => theModule'[f] = theModule[f]
    BY <1>1, <1>2, <2>1, <2>2, <2>3
  <2>5. theModule' \in Seq(Bodies) /\ Len(theModule') = n
    BY <2>3, <2>4, SeqDef, LenProperties
  <2> QED BY <2>3, <2>4, <2>5
<1>7. Block' = theModule'[n].ops BY <1>6 DEF Block, Last
<1>8. theModule' # <<>> /\ DOMAIN theModule' = DOMAIN theModule BY <1>1, <1>6
<1> QED BY <1>1, <1>4, <1>5, <1>6, <1>7, <1>8

LEMMA LocalsGrow ==
  ASSUME theModule \in Seq(Bodies), theModule # <<>>, NEW operation \in Instructions,
         Create(operation)
  PROVE  Locals \subseteq Locals' /\ NewValue \in Locals' /\ Seq(Locals) \subseteq Seq(Locals')
<1> DEFINE n == Len(theModule)
           m == Len(Block)
<1>1. Block \in Seq(Instructions) /\ Block' = Append(Block, operation)
      /\ Len(theModule') = n
  BY Built
<1>2. m \in Nat /\ Len(Block') = m + 1 BY <1>1
<1>3. Locals' = {NULL} \cup [fun : {n}, op : 1 .. m + 1] BY <1>1, <1>2 DEF Locals
<1>4. NewValue = [fun |-> n, op |-> m + 1] BY DEF NewValue
<1>5. Locals = {NULL} \cup [fun : {n}, op : 1 .. m] BY DEF Locals
<1> HIDE DEF n, m
<1>6. 1 .. m \subseteq 1 .. m + 1 /\ m + 1 \in 1 .. m + 1 BY <1>2
<1>7. Locals \subseteq Locals' /\ NewValue \in Locals' BY <1>3, <1>4, <1>5, <1>6
<1> QED BY <1>7
-----------------------------------------------------------------------------
(* The steps of the visitor: those that go past an event, and those that    *)
(* end the visit.                                                           *)
Goes ==
  /\ visited < Len(walk) /\ visited' = visited + 1
  /\ pc' = "visiting" \/ (pc' = "thrown" /\ Event.item = "call")
  /\ Event.item = "statement" => Passable(Event.stmt)
Ends ==
  /\ visited' = visited /\ UNCHANGED <<results, symbolTable, theModule>>
  /\ \/ pc' = "done" /\ visited = Len(walk)
     \/ pc' \in {"thrown", "undefined"}

LEMMA VisitorMoves ==
  ASSUME WayInv, VisitorStep
  PROVE  /\ UNCHANGED parserVars /\ parsed = Len(walk) /\ pc = "visiting"
         /\ returnFlag' \in BOOLEAN /\ (Goes \/ Ends)
<1> USE DEF parserVars, Visiting, Event, Proceed, Stop, Goes, Ends, Passable, WayInv
<1>1. CASE EnterFunction BY <1>1 DEF EnterFunction
<1>2. CASE LeaveFunction BY <1>2 DEF LeaveFunction
<1>3. CASE BeginStatement BY <1>3 DEF BeginStatement
<1>4. CASE UninitialisedVariable BY <1>4 DEF UninitialisedVariable
<1>5. CASE ReturnExpression BY <1>5 DEF ReturnExpression
<1>6. CASE ReturnNothing BY <1>6 DEF ReturnNothing
<1>7. CASE VisitNumber BY <1>7 DEF VisitNumber
<1>8. CASE GetTensor BY <1>8 DEF GetTensor
<1>9. CASE GetTensorUndefined BY <1>9 DEF GetTensorUndefined
<1>10. CASE VisitVariable BY <1>10 DEF VisitVariable
<1>11. CASE VisitCall BY <1>11 DEF VisitCall
<1>12. CASE VisitPrint BY <1>12 DEF VisitPrint
<1>13. CASE CallUndefined BY <1>13 DEF CallUndefined
<1>14. CASE VisitVarDecl BY <1>14 DEF VisitVarDecl
<1>15. CASE ReshapeUndefined BY <1>15 DEF ReshapeUndefined
<1>16. CASE FinishExpression BY <1>16 DEF FinishExpression
<1>17. CASE VisitDone BY <1>17 DEF VisitDone
<1> QED BY <1>1, <1>2, <1>3, <1>4, <1>5, <1>6, <1>7, <1>8, <1>9, <1>10, <1>11, <1>12,
           <1>13, <1>14, <1>15, <1>16, <1>17 DEF VisitorStep

LEMMA SameWay == ASSUME walk' = walk PROVE Way' = Way
BY DEF Way

LEMMA WayInit == Init => WayInv
<1> SUFFICES ASSUME Init PROVE WayInv OBVIOUS
<1> USE DEF Init, ParserInit
<1>1. PICK program \in Programs : walk = Walk(program) OBVIOUS
<1>2. walk \in Seq(Events) /\ Leads(walk, Outside, Outside) BY <1>1, LeadsThroughProgram
<1>3. Len(walk) \in Nat BY <1>2
<1>4. parsed \in 0 .. Len(walk) /\ visited \in 0 .. parsed
  <2>1. parsed = 0 /\ visited = 0 OBVIOUS
  <2> HIDE DEF Init, ParserInit
  <2> QED BY <1>3, <2>1
<1>5. DOMAIN data = {} /\ {at \in 1 .. parsed : walk[at].item = "literal"} = {} OBVIOUS
<1>6. tensorDataBuffer \in Seq(Tokens) OBVIOUS
<1>7. Here = Outside
  <2>1. \E spots \in [0 .. Len(walk) -> Spots] :
          spots[0] = Outside /\ spots[Len(walk)] = Outside /\ Course(walk, spots)
    BY <1>2 DEF Leads
  <2>2. Way[0] = Outside BY <2>1, Zenon DEF Way
  <2> QED BY <2>2 DEF Here
<1>8. Here.place # "statement" BY <1>7 DEF Outside, Spot
<1>9. pc = "visiting" /\ visited = 0 /\ returnFlag \in BOOLEAN OBVIOUS
<1> HIDE DEF Init, ParserInit
<1> QED BY <1>2, <1>4, <1>5, <1>6, <1>8, <1>9 DEF WayInv

LEMMA NumbersAreTokens ==
  ASSUME NEW at \in Nat, NEW rows \in Seq(Rows), walk[at].rows = rows
  PROVE  Numbers(at) \in Seq(Tokens)
<1> DEFINE n == Size(rows)
<1>1. n \in Nat BY SizeIsNat
<1>2. Numbers(at) = [i \in 1 .. n |-> <<at, i>>] BY DEF Numbers
<1>3. \A i \in 1 .. n : <<at, i>> \in Tokens BY <1>1 DEF Tokens
<1> HIDE DEF n
<1>4. Numbers(at) \in [1 .. n -> Tokens] BY <1>2, <1>3
<1> QED BY <1>1, <1>4, SeqDef

LEMMA WayStep == ASSUME WayInv, [Next]_vars PROVE WayInv'
<1>1. CASE TensorLiteral /\ UNCHANGED visitorVars
  <2> DEFINE at == parsed + 1
  <2>1. /\ parsed < Len(walk) /\ walk[at].item = "literal" /\ walk' = walk /\ parsed' = at
        /\ tensorDataBuffer' = tensorDataBuffer \o Numbers(at)
        /\ data' = With(data, at, tensorDataBuffer')
        /\ visited' = visited /\ pc' = pc /\ returnFlag' = returnFlag
    BY <1>1 DEF TensorLiteral, Parsing, Parsed, visitorVars
  <2>2. /\ Len(walk) \in Nat /\ parsed \in Nat /\ at \in 1 .. Len(walk) /\ at \in Nat
        /\ walk[at] \in Events /\ visited = 0 /\ pc = "visiting"
    BY <2>1 DEF WayInv
  <2>3. walk[at].rows \in Seq(Rows) BY <2>1, <2>2, EventKinds
  <2>4. Numbers(at) \in Seq(Tokens) BY <2>2, <2>3, NumbersAreTokens
  <2>5. tensorDataBuffer' \in Seq(Tokens) BY <2>1, <2>4 DEF WayInv
  <2>6. DOMAIN data' = {lit \in 1 .. at : walk[lit].item = "literal"}
    <3>1. DOMAIN data' = DOMAIN data \cup {at} BY <2>1 DEF With
    <3>2. DOMAIN data = {lit \in 1 .. parsed : walk[lit].item = "literal"} BY DEF WayInv
    <3>3. 1 .. at = 1 .. parsed \cup {at} BY <2>2
    <3> QED BY <2>1, <3>1, <3>2, <3>3
  <2>7. \A lit \in DOMAIN data' : data'[lit] \in Seq(Tokens)
    <3>1. \A lit \in DOMAIN data' : \/ lit = at /\ data'[lit] = tensorDataBuffer'
                                    \/ lit \in DOMAIN data /\ data'[lit] = data[lit]
      BY <2>1 DEF With
    <3> QED BY <2>5, <3>1 DEF WayInv
  <2>8. Here' = Here BY <2>1, SameWay DEF Here
  <2>9. parsed' \in 0 .. Len(walk') /\ visited' \in 0 .. parsed' BY <2>1, <2>2
  <2>10. Leads(walk, Outside, Outside)' BY <2>1 DEF WayInv
  <2> QED BY <2>1, <2>2, <2>5, <2>6, <2>7, <2>8, <2>9, <2>10 DEF WayInv, Passable
<1>2. CASE (VarDecl \/ OtherRule) /\ UNCHANGED visitorVars
  <2>1. /\ parsed < Len(walk) /\ walk[parsed + 1].item # "literal" /\ walk' = walk
        /\ parsed' = parsed + 1 /\ data' = data
        /\ tensorDataBuffer' \in {<<>>, tensorDataBuffer}
        /\ visited' = visited /\ pc' = pc /\ returnFlag' = returnFlag
    BY <1>2 DEF VarDecl, OtherRule, Parsing, Parsed, Initialises, visitorVars
  <2>2. /\ Len(walk) \in Nat /\ parsed \in Nat /\ parsed + 1 \in 1 .. Len(walk)
        /\ visited = 0 /\ pc = "visiting"
    BY <2>1 DEF WayInv
  <2>3. DOMAIN data' = {lit \in 1 .. parsed + 1 : walk[lit].item = "literal"}
    <3>1. DOMAIN data = {lit \in 1 .. parsed : walk[lit].item = "literal"} BY DEF WayInv
    <3>2. 1 .. parsed + 1 = 1 .. parsed \cup {parsed + 1} BY <2>2
    <3> QED BY <2>1, <3>1, <3>2
  <2>4. tensorDataBuffer' \in Seq(Tokens)
    <3>1. <<>> \in Seq(Tokens) OBVIOUS
    <3> QED BY <2>1, <3>1 DEF WayInv
  <2>5. Here' = Here BY <2>1, SameWay DEF Here
  <2>6. parsed' \in 0 .. Len(walk') /\ visited' \in 0 .. parsed' BY <2>1, <2>2
  <2>7. Leads(walk, Outside, Outside)' BY <2>1 DEF WayInv
  <2> QED BY <2>1, <2>2, <2>3, <2>4, <2>5, <2>6, <2>7 DEF WayInv, Passable
<1>3. CASE VisitorStep
  <2>1. /\ UNCHANGED parserVars /\ parsed = Len(walk) /\ pc = "visiting"
        /\ returnFlag' \in BOOLEAN
    BY <1>3, VisitorMoves
  <2>2. Goes \/ Ends BY <1>3, VisitorMoves
  <2>3. /\ walk' = walk /\ parsed' = parsed /\ data' = data
        /\ tensorDataBuffer' = tensorDataBuffer
    BY <2>1 DEF parserVars
  <2>4. Way' = Way BY <2>3, SameWay
  <2>5. /\ walk' \in Seq(Events) /\ Leads(walk, Outside, Outside)'
        /\ DOMAIN data' = {at \in 1 .. parsed' : walk'[at].item = "literal"}
        /\ (\A at \in DOMAIN data : data[at] \in Seq(Tokens))'
        /\ tensorDataBuffer' \in Seq(Tokens) /\ parsed' \in 0 .. Len(walk')
        /\ parsed' = Len(walk')
    BY <2>1, <2>3 DEF WayInv
  <2>6. CASE Goes
    <3>1. /\ visited' = visited + 1 /\ visited < Len(walk)
          /\ pc' = "visiting" \/ pc' = "thrown"
          /\ Event.item = "statement" => Passable(Event.stmt)
      BY <2>6 DEF Goes
    <3>2. visited' \in 0 .. parsed' BY <2>1, <2>3, <3>1 DEF WayInv
    <3>3. Here' = Way[visited + 1] BY <2>4, <3>1 DEF Here
    <3>4. Here'.place = "statement" => Passable(Here'.stmt)
      <4>1. CASE Event.item = "statement"
        <5>1. Here' = Reading(Event.stmt, 0) BY <3>1, <3>3, <4>1, NextSpot
        <5>2. Here'.stmt = Event.stmt BY <5>1 DEF Reading, Spot
        <5> QED BY <3>1, <4>1, <5>2
      <4>2. CASE Event \in Nodes
        <5>1. Here.place = "statement" BY <3>1, <4>2, NextSpot
        <5>2. Here' = Reading(Here.stmt, Here.trees - Arity(Event) + 1)
          BY <3>1, <3>3, <4>2, NextSpot
        <5>3. Here'.stmt = Here.stmt BY <5>2 DEF Reading, Spot
        <5> QED BY <5>1, <5>3 DEF WayInv
      <4>3. CASE Event.item \in {"enter", "leave", "finish"}
        <5>1. Here' = Outside \/ Here' = InBlock BY <3>1, <3>3, <4>3, NextSpot
        <5>2. Here'.place # "statement" BY <5>1 DEF Outside, InBlock, Spot
        <5> QED BY <5>2
      <4>4. Event \in Events BY <3>1, NextSpot
      <4> QED BY <4>1, <4>2, <4>3, <4>4, EventKinds
    <3>5. (Here.place = "statement" => Passable(Here.stmt))' BY <3>4 DEF Passable
    <3> QED BY <2>1, <2>5, <3>1, <3>2, <3>5 DEF WayInv
  <2>7. CASE Ends
    <3>1. /\ visited' = visited /\ pc' \in {"done", "thrown", "undefined"}
          /\ pc' = "done" => visited = Len(walk)
      BY <2>7 DEF Ends
    <3>2. Here' = Here BY <2>4, <3>1 DEF Here
    <3>3. (Here.place = "statement" => Passable(Here.stmt))'
      BY <3>2 DEF WayInv, Passable
    <3>4. visited' \in 0 .. parsed' BY <2>3, <3>1 DEF WayInv
    <3> QED BY <2>1, <2>3, <2>5, <3>1, <3>3, <3>4 DEF WayInv
  <2> QED BY <2>2, <2>6, <2>7
<1>4. CASE UNCHANGED vars
  <2>1. Here' = Here BY <1>4 DEF vars, parserVars, visitorVars, Here, Way
  <2> QED BY <1>4, <2>1 DEF vars, parserVars, visitorVars, WayInv, Passable
<1> QED BY <1>1, <1>2, <1>3, <1>4 DEF Next, ParserNext
-----------------------------------------------------------------------------
(* What a step of the visitor makes of the module: nothing, a function, or  *)
(* one operation on values that are there, in the function being built.     *)
Returns(event) == event.item = "finish" /\ event.stmt.kind = "return"
Makes(event) == event.item \in {"literal", "call"}
Shapes(event) == event.item = "finish" /\ event.stmt.kind = "var" /\ event.stmt.shaped
Closes == Event.item = "leave" /\ ~returnFlag
Acts == Returns(Event) \/ Makes(Event) \/ Shapes(Event) \/ Closes

Enters == /\ Event.item = "enter"
          /\ theModule' = Append(theModule, [name |-> Event.name, ops |-> <<>>])
Builds(operation) ==
  /\ theModule # <<>> /\ operation \in Instructions /\ Create(operation)
  /\ operation.operands \in Seq(Locals \ {NULL})
Adds(operation) ==
  Acts /\ Builds(operation) /\ (operation.kind = "return" <=> Returns(Event) \/ Closes)
Effect == \/ Enters
          \/ ~Acts /\ Event.item # "enter" /\ theModule' = theModule
          \/ \E operation : Adds(operation)

(* And of the values at hand.                                               *)
Keeps == /\ results' \in Seq(Locals') /\ Len(results') = Way[visited + 1].trees
         /\ \A id \in DOMAIN symbolTable' : symbolTable'[id] \in Locals'
         /\ Way[visited + 1].place = "outside" => DOMAIN symbolTable' = {}

LEMMA LocalsAreValues ==
  ASSUME ModuleInv
  PROVE  Locals \subseteq AllValues /\ Seq(Locals) \subseteq Seq(AllValues)
         /\ NULL \in Locals
<1> DEFINE n == Len(theModule)
           m == Len(Block)
<1>1. n \in Nat BY DEF ModuleInv
<1>2. Locals = {NULL} \cup [fun : {n}, op : 1 .. m] BY DEF Locals
<1> HIDE DEF n, m
<1>3. 1 .. m \subseteq Nat \ {0}
  <2> SUFFICES ASSUME NEW i \in 1 .. m PROVE i \in Nat \ {0} OBVIOUS
  <2> QED OBVIOUS
<1>4. Locals \subseteq AllValues /\ NULL \in Locals BY <1>1, <1>2, <1>3 DEF AllValues
<1> QED BY <1>4

LEMMA OperationMade ==
  ASSUME ModuleInv, theModule # <<>>, NEW kind \in Kinds, NEW operands \in Seq(Locals \ {NULL}),
         Create(Operation(kind, operands))
  PROVE  Builds(Operation(kind, operands)) /\ Operation(kind, operands).kind = kind
<1>1. operands \in Seq(AllValues)
  <2>1. Locals \ {NULL} \subseteq AllValues BY LocalsAreValues
  <2> QED BY <2>1
<1>2. <<>> \in Seq(Tokens) OBVIOUS
<1>3. Operation(kind, operands) \in Instructions BY <1>1, <1>2 DEF Operation, Instructions
<1>4. Operation(kind, operands).operands = operands /\ Operation(kind, operands).kind = kind
  BY DEF Operation
<1> QED BY <1>3, <1>4 DEF Builds

LEMMA EmptyOperands == <<>> \in Seq(Locals \ {NULL})
OBVIOUS

(* Where the visitor is inside a function.                                  *)
LEMMA InFunction ==
  ASSUME WayInv, ModuleInv, visited < Len(walk), Event.item # "enter"
  PROVE  theModule # <<>>
<1>1. Here # Outside BY NextSpot
<1>2. Here.place # "outside" BY <1>1, OnTheWay, SpotKinds
<1> QED BY <1>2 DEF ModuleInv

(* A statement that is finished: what is left of its expression.            *)
LEMMA AtFinish ==
  ASSUME WayInv, ResultsInv, visited < Len(walk), Event.item = "finish"
  PROVE  /\ Way[visited + 1].trees = 0 /\ Way[visited + 1].place = "block"
         /\ Event.stmt \in Statements
         /\ Event.stmt.kind = "return" => Len(results) = 0
         /\ Event.stmt.kind # "return" => Len(results) = 1 /\ results # <<>>
<1>1. /\ Complete(Event.stmt) /\ Way[visited + 1] = InBlock
      /\ Here = Reading(Event.stmt, TreesOf(Event.stmt)) /\ Event \in Events
  BY NextSpot
<1>2. Event.stmt \in Statements BY <1>1, EventKinds
<1>3. Here.place = "statement" /\ Here.stmt = Event.stmt /\ Here.trees = TreesOf(Event.stmt)
  BY <1>1 DEF Reading, Spot
<1>4. Passable(Event.stmt) BY <1>3 DEF WayInv
<1>5. Event.stmt.kind \in {"var", "return", "expression"} BY <1>2 DEF Statements
<1>6. Len(results) = TreesOf(Event.stmt) BY <1>3 DEF ResultsInv
<1>7. Event.stmt.kind = "return" => TreesOf(Event.stmt) = 0 BY <1>4 DEF Passable, TreesOf
<1>8. Event.stmt.kind # "return" => TreesOf(Event.stmt) = 1
  BY <1>1, <1>4, <1>5 DEF Passable, TreesOf, Complete
<1>9. Len(results) = 1 => results # <<>> OBVIOUS
<1> QED BY <1>1, <1>2, <1>6, <1>7, <1>8, <1>9 DEF InBlock, Spot

(* A node that is left: what it takes and leaves.                           *)
LEMMA AtNode ==
  ASSUME WayInv, ResultsInv, visited < Len(walk), Event \in Nodes
  PROVE  /\ Arity(Event) \in 0 .. Len(results) /\ Len(results) \in Nat
         /\ Way[visited + 1].trees = Len(results) - Arity(Event) + 1
         /\ Way[visited + 1].place = "statement"
<1>1. /\ Arity(Event) <= Here.trees /\ Event \in Events
      /\ Way[visited + 1] = Reading(Here.stmt, Here.trees - Arity(Event) + 1)
  BY NextSpot
<1>2. Arity(Event) \in Nat BY <1>1, EventKinds DEF Arity
<1>3. Len(results) = Here.trees /\ Len(results) \in Nat BY DEF ResultsInv
<1> QED BY <1>1, <1>2, <1>3 DEF Reading, Spot

LEMMA CallTakes ==
  ASSUME WayInv, ResultsInv, visited < Len(walk), Event.item = "call"
  PROVE  /\ Rest \in Seq(Locals) /\ Len(Rest) + 1 = Way[visited + 1].trees
         /\ Way[visited + 1].place = "statement"
         /\ Arguments \in Seq(Locals) /\ Len(Arguments) = Event.arity
         /\ Callable => Operands \in Seq(Locals \ {NULL})
<1>1. Event \in Nodes
  <2>1. Event \in Events BY NextSpot
  <2> QED BY <2>1, EventKinds
<1>2. Arity(Event) = Event.arity BY DEF Arity
<1>3. /\ Event.arity \in 0 .. Len(results) /\ Len(results) \in Nat
      /\ Way[visited + 1].trees = Len(results) - Event.arity + 1
      /\ Way[visited + 1].place = "statement"
  BY <1>1, <1>2, AtNode
<1>4. results \in Seq(Locals) BY DEF ResultsInv
<1>5. /\ Rest \in Seq(Locals) /\ Len(Rest) = Len(results) - Event.arity
      /\ Arguments \in Seq(Locals) /\ Len(Arguments) = Event.arity
  BY <1>3, <1>4, Divided DEF Rest, Arguments
<1>6. Operands \in Seq(Locals)
  <2>1. CASE Event.callee = "print" /\ Arguments # <<>>
    <3>1. Head(Arguments) \in Locals BY <1>5, <2>1
    <3>2. <<Head(Arguments)>> \in Seq(Locals) BY <3>1
    <3> QED BY <2>1, <3>2 DEF Operands
  <2> QED BY <1>5, <2>1 DEF Operands
<1>7. ASSUME Callable PROVE Operands \in Seq(Locals \ {NULL})
  <2>1. NULL \notin ToSet(Operands) BY <1>7 DEF Callable
  <2> DEFINE s == Operands
             n == Len(s)
  <2> HIDE DEF s
  <2>2. s \in Seq(Locals) /\ \A i \in DOMAIN s : s[i] # NULL
    BY <1>6, <2>1 DEF ToSet, s
  <2>3. \A i \in 1 .. n : s[i] \in Locals \ {NULL} BY <2>2
  <2>4. s \in Seq(Locals \ {NULL}) BY <2>2, <2>3
  <2> QED BY <2>4 DEF s
<1> QED BY <1>3, <1>5, <1>7
-----------------------------------------------------------------------------
(* Each step of the visitor, on the module and on the values at hand.       *)
LEMMA SameLocals ==
  ASSUME theModule' = theModule PROVE Locals' = Locals /\ Seq(Locals)' = Seq(Locals)
BY DEF Locals, Block

LEMMA LeavingOnly ==
  ASSUME WayInv, visited < Len(walk), Event.item # "leave"
  PROVE  Way[visited + 1].place # "outside"
<1> DEFINE next == Way[visited + 1]
<1>1. Event \in Events BY NextSpot
<1>2. Event \in Nodes => \E stmt, n : next = Reading(stmt, n) BY NextSpot
<1>3. Event.item \in {"enter", "finish"} => next = InBlock BY NextSpot
<1>4. Event.item = "statement" => \E stmt, n : next = Reading(stmt, n) BY NextSpot
<1>5. InBlock.place = "block" /\ \A stmt, n : Reading(stmt, n).place = "statement"
  BY DEF InBlock, Reading, Spot
<1> HIDE DEF next
<1>6. next.place # "outside" BY <1>1, <1>2, <1>3, <1>4, <1>5, EventKinds
<1> QED BY <1>6 DEF next

LEMMA ActsWhen ==
  ASSUME Event \in Events
  PROVE  /\ Event.item \in {"number", "name", "enter", "statement"} => ~Acts
         /\ Makes(Event) => ~Returns(Event) /\ ~Shapes(Event) /\ ~Closes
         /\ Returns(Event) => ~Makes(Event) /\ ~Shapes(Event) /\ ~Closes
         /\ Shapes(Event) => ~Makes(Event) /\ ~Returns(Event) /\ ~Closes
         /\ Closes => ~Makes(Event) /\ ~Returns(Event) /\ ~Shapes(Event)
BY DEF Acts, Makes, Returns, Shapes, Closes

LEMMA Effects ==
  ASSUME WayInv, ModuleInv, ResultsInv, VisitorStep, Goes
  PROVE  Effect /\ Keeps
<1> DEFINE next == Way[visited + 1]
<1>1. visited < Len(walk) /\ Event \in Events BY NextSpot DEF Goes
<1>2. results \in Seq(Locals) /\ Len(results) = Here.trees
      /\ \A id \in DOMAIN symbolTable : symbolTable[id] \in Locals
  BY DEF ResultsInv
<1>3. ASSUME Event.item \in {"enter", "leave", "statement"}
      PROVE  Len(results) = 0 /\ next.trees = 0
  <2>1. Here = Outside \/ Here = InBlock BY <1>1, <1>3, NextSpot
  <2>2. next \in {Outside, InBlock} \/ next = Reading(Event.stmt, 0) BY <1>1, <1>3, NextSpot
  <2> HIDE DEF next
  <2>3. Here.trees = 0 /\ next.trees = 0
    BY <2>1, <2>2 DEF Outside, InBlock, Reading, Spot
  <2> QED BY <1>2, <2>3
<1>4. Event.item # "leave" => next.place # "outside" BY <1>1, LeavingOnly
<1>5. Event.item \in {"number", "literal", "name", "call"} => Event \in Nodes
  BY <1>1, EventKinds
<1>6. NULL \in Locals BY LocalsAreValues
<1> HIDE DEF next
<1>7. CASE EnterFunction
  <2>1. /\ Event.item = "enter"
        /\ theModule' = Append(theModule, [name |-> Event.name, ops |-> <<>>])
        /\ results' = results /\ symbolTable' = symbolTable
    BY <1>7 DEF EnterFunction, Visiting, Event
  <2>2. DOMAIN symbolTable = {}
    <3>1. Here = Outside BY <1>1, <2>1, NextSpot
    <3> QED BY <3>1 DEF ResultsInv, Outside, Spot
  <2>3. results = <<>> BY <1>2, <1>3, <2>1
  <2>4. <<>> \in Seq(Locals') /\ Len(<<>>) = 0 OBVIOUS
  <2>5. Keeps BY <1>3, <1>4, <2>1, <2>2, <2>3, <2>4 DEF Keeps, next
  <2> QED BY <2>1, <2>5 DEF Effect, Enters
<1>8. CASE LeaveFunction
  <2>1. /\ Event.item = "leave" /\ results' = results /\ symbolTable' = <<>>
        /\ IF returnFlag THEN theModule' = theModule ELSE Create(Operation("return", <<>>))
    BY <1>8 DEF LeaveFunction, Visiting, Event
  <2>2. results = <<>> BY <1>2, <1>3, <2>1
  <2>3. <<>> \in Seq(Locals') /\ Len(<<>>) = 0 /\ DOMAIN <<>> = {} OBVIOUS
  <2>4. Keeps BY <1>3, <2>1, <2>2, <2>3 DEF Keeps, next
  <2>5. "return" \in Kinds BY DEF Kinds
  <2>6. ~Returns(Event) /\ ~Makes(Event) /\ ~Shapes(Event)
    BY <2>1 DEF Returns, Makes, Shapes
  <2>7. CASE returnFlag BY <2>1, <2>4, <2>6, <2>7 DEF Effect, Acts, Closes
  <2>8. CASE ~returnFlag
    <3>1. /\ Builds(Operation("return", <<>>))
          /\ Operation("return", <<>>).kind = "return"
      BY <1>1, <2>1, <2>5, <2>8, EmptyOperands, OperationMade, InFunction
    <3>2. Closes /\ Acts BY <2>1, <2>8 DEF Closes, Acts
    <3> QED BY <2>4, <3>1, <3>2 DEF Effect, Adds
  <2> QED BY <2>7, <2>8
<1>9. CASE BeginStatement
  <2>1. /\ Event.item = "statement" /\ results' = results /\ symbolTable' = symbolTable
        /\ theModule' = theModule
    BY <1>9 DEF BeginStatement, Visiting, Event
  <2>2. Keeps BY <1>2, <1>3, <1>4, <2>1, SameLocals DEF Keeps, next
  <2>3. ~Acts BY <1>1, <2>1, ActsWhen
  <2> QED BY <2>1, <2>2, <2>3 DEF Effect
<1>10. CASE ReturnNothing
  <2>1. /\ Event.item = "finish" /\ Event.stmt.kind = "return"
        /\ Create(Operation("return", <<>>)) /\ results' = results
        /\ symbolTable' = symbolTable
    BY <1>10 DEF ReturnNothing, Visiting, Event
  <2>2. Builds(Operation("return", <<>>)) /\ Operation("return", <<>>).kind = "return"
    <3>1. "return" \in Kinds BY DEF Kinds
    <3> QED BY <1>1, <2>1, <3>1, EmptyOperands, OperationMade, InFunction
  <2>3. Locals \subseteq Locals' /\ Seq(Locals) \subseteq Seq(Locals')
    BY <2>2, LocalsGrow DEF Builds, ModuleInv
  <2>4. Len(results) = 0 /\ next.trees = 0 BY <1>1, <2>1, AtFinish DEF next
  <2>5. Keeps BY <1>2, <1>4, <2>1, <2>3, <2>4 DEF Keeps, next
  <2>6. Returns(Event) /\ Acts BY <2>1 DEF Returns, Acts
  <2> QED BY <2>2, <2>5, <2>6 DEF Effect, Adds
<1>11. CASE VisitNumber \/ VisitVariable
  <2>1. PICK value : /\ Event.item \in {"number", "name"} /\ value \in Locals
                     /\ results' = Append(results, value) /\ symbolTable' = symbolTable
                     /\ theModule' = theModule
    BY <1>2, <1>6, <1>11 DEF VisitNumber, VisitVariable, Visiting, Event
  <2>2. Arity(Event) = 0 BY <2>1 DEF Arity
  <2>3. next.trees = Len(results) + 1 BY <1>1, <1>5, <2>1, <2>2, AtNode DEF next
  <2>4. Append(results, value) \in Seq(Locals)
        /\ Len(Append(results, value)) = Len(results) + 1
    BY <1>2, <2>1
  <2>5. Keeps BY <1>2, <1>4, <2>1, <2>3, <2>4, SameLocals DEF Keeps, next
  <2>6. ~Acts BY <1>1, <2>1, ActsWhen
  <2> QED BY <2>1, <2>5, <2>6 DEF Effect
<1>12. CASE GetTensor
  <2> DEFINE operation == [Operation("constant", <<>>) EXCEPT !.tensor = data[visited + 1]]
  <2>1. /\ Event.item = "literal" /\ Create(operation)
        /\ results' = Append(results, NewValue) /\ symbolTable' = symbolTable
    BY <1>12 DEF GetTensor, Visiting, Event
  <2>2. data[visited + 1] \in Seq(Tokens)
    <3>1. parsed = Len(walk) BY VisitorMoves
    <3>2. visited + 1 \in 1 .. parsed /\ walk[visited + 1].item = "literal"
      BY <1>1, <2>1, <3>1, OnTheWay DEF Event
    <3> QED BY <3>2 DEF WayInv
  <2>3. /\ operation \in Instructions /\ operation.operands = <<>>
        /\ operation.kind = "constant"
    <3>1. operation = [kind |-> "constant", operands |-> <<>>, tensor |-> data[visited + 1]]
      BY DEF Operation
    <3>2. <<>> \in Seq(AllValues) /\ "constant" \in Kinds BY DEF Kinds
    <3> HIDE DEF operation
    <3> QED BY <2>2, <3>1, <3>2 DEF Instructions
  <2> HIDE DEF operation
  <2>4. Builds(operation) BY <1>1, <2>1, <2>3, EmptyOperands, InFunction DEF Builds
  <2>5. /\ Locals \subseteq Locals' /\ Seq(Locals) \subseteq Seq(Locals')
        /\ NewValue \in Locals'
    BY <2>4, LocalsGrow DEF Builds, ModuleInv
  <2>6. Arity(Event) = 0 BY <2>1 DEF Arity
  <2>7. next.trees = Len(results) + 1 BY <1>1, <1>5, <2>1, <2>6, AtNode DEF next
  <2>8. results \in Seq(Locals') BY <1>2, <2>5
  <2>9. Append(results, NewValue) \in Seq(Locals')
        /\ Len(Append(results, NewValue)) = Len(results) + 1
    BY <2>5, <2>8
  <2>10. Keeps BY <1>2, <1>4, <2>1, <2>5, <2>7, <2>9 DEF Keeps, next
  <2>11. Makes(Event) /\ Acts BY <2>1 DEF Makes, Acts
  <2>12. ~Returns(Event) /\ ~Closes BY <1>1, <2>11, ActsWhen
  <2> QED BY <2>3, <2>4, <2>10, <2>11, <2>12 DEF Effect, Adds
<1>13. CASE VisitCall \/ VisitPrint
  <2>1. PICK kind, value :
          /\ Event.item = "call" /\ Callable /\ kind \in Kinds /\ kind # "return"
          /\ Create(Operation(kind, Operands)) /\ value \in {NULL, NewValue}
          /\ results' = Append(Rest, value) /\ symbolTable' = symbolTable
    BY <1>13, Zenon DEF VisitCall, VisitPrint, Visiting, Event, Kinds
  <2>2. Builds(Operation(kind, Operands)) /\ Operation(kind, Operands).kind = kind
    BY <1>1, <2>1, CallTakes, OperationMade, InFunction
  <2>3. /\ Locals \subseteq Locals' /\ Seq(Locals) \subseteq Seq(Locals')
        /\ NewValue \in Locals'
    BY <2>2, LocalsGrow DEF Builds, ModuleInv
  <2>4. Rest \in Seq(Locals') /\ Len(Rest) + 1 = next.trees
    BY <1>1, <2>1, <2>3, CallTakes DEF next
  <2>5. Append(Rest, value) \in Seq(Locals') /\ Len(Append(Rest, value)) = Len(Rest) + 1
    BY <1>6, <2>1, <2>3, <2>4
  <2>6. Keeps BY <1>2, <1>4, <2>1, <2>3, <2>4, <2>5 DEF Keeps, next
  <2>7. Makes(Event) /\ Acts BY <2>1 DEF Makes, Acts
  <2>8. ~Returns(Event) /\ ~Closes BY <1>1, <2>7, ActsWhen
  <2> QED BY <2>1, <2>2, <2>6, <2>7, <2>8 DEF Effect, Adds
<1>14. CASE FinishExpression
  <2>1. /\ Event.item = "finish" /\ Event.stmt.kind = "expression" /\ results' = Front(results)
        /\ symbolTable' = symbolTable /\ theModule' = theModule
    BY <1>14 DEF FinishExpression, Visiting, Event
  <2>2. Len(results) = 1 /\ results # <<>> /\ next.trees = 0
    BY <1>1, <2>1, AtFinish DEF next
  <2>3. Front(results) \in Seq(Locals) /\ Len(Front(results)) = 0 BY <1>2, <2>2, AllButLast
  <2>4. Keeps BY <1>2, <1>4, <2>1, <2>2, <2>3, SameLocals DEF Keeps, next
  <2>5. ~Acts BY <2>1 DEF Acts, Returns, Makes, Shapes, Closes
  <2> QED BY <2>1, <2>4, <2>5 DEF Effect
<1>15. CASE VisitVarDecl
  <2>1. /\ Event.item = "finish" /\ Event.stmt.kind = "var" /\ results' = Front(results)
    BY <1>15 DEF VisitVarDecl, Visiting, Event
  <2>2. Len(results) = 1 /\ results # <<>> /\ next.trees = 0
    BY <1>1, <2>1, AtFinish DEF next
  <2>3. Front(results) \in Seq(Locals) /\ Len(Front(results)) = 0 /\ Last(results) \in Locals
    BY <1>2, <2>2, AllButLast
  <2>4. ASSUME NEW value, value \in Locals', Locals \subseteq Locals',
               Declare(Event.stmt.id, value)
        PROVE  \A id \in DOMAIN symbolTable' : symbolTable'[id] \in Locals'
    BY <1>2, <2>4 DEF Declare, With
  <2>5. CASE Event.stmt.shaped
    <3>1. /\ Create(Operation("reshape", <<Last(results)>>)) /\ Last(results) # NULL
          /\ Declare(Event.stmt.id, NewValue)
      BY <1>15, <2>5 DEF VisitVarDecl, Event
    <3>2. <<Last(results)>> \in Seq(Locals \ {NULL}) BY <2>3, <3>1
    <3>3. "reshape" \in Kinds BY DEF Kinds
    <3>4. /\ Builds(Operation("reshape", <<Last(results)>>))
          /\ Operation("reshape", <<Last(results)>>).kind = "reshape"
      BY <1>1, <2>1, <3>1, <3>2, <3>3, OperationMade, InFunction
    <3>5. /\ Locals \subseteq Locals' /\ Seq(Locals) \subseteq Seq(Locals')
          /\ NewValue \in Locals'
      BY <3>4, LocalsGrow DEF Builds, ModuleInv
    <3>6. Keeps BY <1>4, <2>1, <2>2, <2>3, <2>4, <3>1, <3>5 DEF Keeps, next
    <3>7. Shapes(Event) /\ Acts BY <2>1, <2>5 DEF Shapes, Acts
    <3>8. ~Returns(Event) /\ ~Closes BY <1>1, <3>7, ActsWhen
    <3> QED BY <3>4, <3>6, <3>7, <3>8 DEF Effect, Adds
  <2>6. CASE ~Event.stmt.shaped
    <3>1. Declare(Event.stmt.id, Last(results)) /\ theModule' = theModule
      BY <1>15, <2>6 DEF VisitVarDecl, Event
    <3>2. Keeps BY <1>4, <2>1, <2>2, <2>3, <2>4, <3>1, SameLocals DEF Keeps, next
    <3>3. ~Acts BY <2>1, <2>6 DEF Acts, Returns, Makes, Shapes, Closes
    <3> QED BY <2>1, <3>1, <3>2, <3>3 DEF Effect
  <2> QED BY <2>5, <2>6
<1>16. visited' # visited BY <1>1, OnTheWay DEF Goes
<1>17. CASE UninitialisedVariable \/ ReturnExpression \/ GetTensorUndefined \/ CallUndefined
            \/ ReshapeUndefined \/ VisitDone
  BY <1>16, <1>17 DEF UninitialisedVariable, ReturnExpression, GetTensorUndefined, CallUndefined,
                      ReshapeUndefined, VisitDone, Stop
<1> QED BY <1>7, <1>8, <1>9, <1>10, <1>11, <1>12, <1>13, <1>14, <1>15, <1>17 DEF VisitorStep
-----------------------------------------------------------------------------
(* The values an operation may use, and what the steps do to the operations *)
(* that are there.                                                          *)
LEMMA LocalValue ==
  ASSUME ModuleInv, theModule # <<>>, NEW value \in Locals, value # NULL
  PROVE  /\ value.fun = Len(theModule) /\ value.op \in 1 .. Len(Block)
         /\ value \in [fun : {Len(theModule)}, op : 1 .. Len(Block)]
BY DEF Locals

LEMMA EntersAppends ==
  ASSUME theModule \in Seq(Bodies), Enters, Event \in Events
  PROVE  /\ theModule' \in Seq(Bodies) /\ theModule' # <<>>
         /\ Len(theModule) \in Nat /\ Len(theModule') = Len(theModule) + 1
         /\ DOMAIN theModule' = DOMAIN theModule \cup {Len(theModule) + 1}
         /\ \A f \in DOMAIN theModule : theModule'[f] = theModule[f]
         /\ theModule'[Len(theModule) + 1].ops = <<>> /\ Block' = <<>>
<1> DEFINE body == [name |-> Event.name, ops |-> <<>>]
           n == Len(theModule)
<1>1. body \in Bodies /\ body.ops = <<>>
  <2>1. Event.name \in STRING BY EventKinds DEF Enters
  <2>2. <<>> \in Seq(Instructions) OBVIOUS
  <2> QED BY <2>1, <2>2 DEF Bodies
<1>2. theModule' = Append(theModule, body) BY DEF Enters
<1> HIDE DEF body
<1>3. /\ theModule' \in Seq(Bodies) /\ n \in Nat /\ Len(theModule') = n + 1
      /\ \A f \in 1 .. n : theModule'[f] = theModule[f]
      /\ theModule'[n + 1] = body
  BY <1>1, <1>2, Appended
<1>4. DOMAIN theModule = 1 .. n /\ DOMAIN theModule' = 1 .. n + 1 BY <1>3
<1>5. 1 .. n + 1 = 1 .. n \cup {n + 1} BY <1>3
<1>6. theModule' # <<>> BY <1>3
<1>7. Block' = theModule'[n + 1].ops BY <1>3 DEF Block, Last
<1> QED BY <1>1, <1>3, <1>4, <1>5, <1>6, <1>7

LEMMA ModuleStep ==
  ASSUME WayInv, ModuleInv, OperandsDominate, visited < Len(walk), Effect
  PROVE  /\ theModule' \in Seq(Bodies) /\ OperandsDominate'
         /\ theModule' # <<>>
<1>1. theModule \in Seq(Bodies) /\ Event \in Events BY NextSpot DEF ModuleInv
<1>2. CASE Event.item # "enter" /\ theModule' = theModule
  BY <1>1, <1>2, InFunction DEF OperandsDominate
<1>3. CASE Enters
  <2>1. /\ theModule' \in Seq(Bodies) /\ theModule' # <<>>
        /\ DOMAIN theModule' = DOMAIN theModule \cup {Len(theModule) + 1}
        /\ \A f \in DOMAIN theModule : theModule'[f] = theModule[f]
        /\ theModule'[Len(theModule) + 1].ops = <<>>
    BY <1>1, <1>3, EntersAppends
  <2>2. DOMAIN <<>> = {} OBVIOUS
  <2>3. OperandsDominate' BY <2>1, <2>2 DEF OperandsDominate
  <2> QED BY <2>1, <2>3
<1>4. CASE \E operation : Adds(operation)
  <2>1. PICK operation : Builds(operation) BY <1>4 DEF Adds
  <2> DEFINE n == Len(theModule)
             m == Len(Block)
  <2>2. /\ theModule # <<>> /\ operation \in Instructions /\ Create(operation)
        /\ operation.operands \in Seq(Locals \ {NULL})
    BY <2>1 DEF Builds
  <2>3. /\ theModule' \in Seq(Bodies) /\ theModule' # <<>>
        /\ n \in DOMAIN theModule /\ DOMAIN theModule' = DOMAIN theModule
        /\ \A f \in DOMAIN theModule : f # n => theModule'[f] = theModule[f]
        /\ Block \in Seq(Instructions) /\ Block = theModule[n].ops
        /\ theModule'[n].ops = Append(Block, operation)
    BY <1>1, <2>2, Built
  <2>4. m \in Nat /\ \A i \in DOMAIN theModule'[n].ops :
          \/ i \in DOMAIN Block /\ theModule'[n].ops[i] = Block[i]
          \/ i = m + 1 /\ theModule'[n].ops[i] = operation
    <3> DEFINE a == Append(Block, operation)
    <3>1. /\ m \in Nat /\ Len(a) = m + 1 /\ a \in Seq(Instructions)
          /\ \A i \in 1 .. m : a[i] = Block[i]
          /\ a[m + 1] = operation
      BY <2>2, <2>3, Appended
    <3>2. DOMAIN a = 1 .. m + 1 /\ DOMAIN Block = 1 .. m BY <2>3, <3>1
    <3> HIDE DEF a, m
    <3>3. \A i \in 1 .. m + 1 : i \in 1 .. m \/ i = m + 1 BY <3>1
    <3>4. \A i \in DOMAIN a : \/ i \in DOMAIN Block /\ a[i] = Block[i]
                              \/ i = m + 1 /\ a[i] = operation
      BY <3>1, <3>2, <3>3
    <3> QED BY <2>3, <3>1, <3>4 DEF a
  <2>5. \A value \in ToSet(operation.operands) :
          value # NULL /\ value.fun = n /\ value.op < m + 1
    <3> SUFFICES ASSUME NEW value \in ToSet(operation.operands)
                 PROVE  value # NULL /\ value.fun = n /\ value.op < m + 1
      OBVIOUS
    <3>1. value \in Locals /\ value # NULL BY <2>2 DEF ToSet
    <3>2. value.fun = n /\ value.op \in 1 .. m BY <2>2, <3>1, LocalValue
    <3> QED BY <2>4, <3>1, <3>2
  <2>6. \A i \in DOMAIN Block : \A value \in ToSet(Block[i].operands) :
          value # NULL /\ value.fun = n /\ value.op < i
    BY <2>3 DEF OperandsDominate
  <2> HIDE DEF n, m
  <2>7. ASSUME NEW f \in DOMAIN theModule', NEW i \in DOMAIN theModule'[f].ops,
               NEW value \in ToSet(theModule'[f].ops[i].operands)
        PROVE  value # NULL /\ value.fun = f /\ value.op < i
    <3>1. CASE f # n
      <4>1. theModule'[f] = theModule[f] /\ f \in DOMAIN theModule BY <2>3, <3>1
      <4> QED BY <2>7, <4>1 DEF OperandsDominate
    <3>2. CASE f = n
      <4>1. \/ i \in DOMAIN Block /\ theModule'[f].ops[i] = Block[i]
            \/ i = m + 1 /\ theModule'[f].ops[i] = operation
        BY <2>4, <2>7, <3>2
      <4> QED BY <2>5, <2>6, <2>7, <3>2, <4>1
    <3> QED BY <3>1, <3>2
  <2>8. OperandsDominate' BY <2>7 DEF OperandsDominate
  <2> QED BY <2>3, <2>8
<1> QED BY <1>2, <1>3, <1>4 DEF Effect

ToyInv == WayInv /\ ModuleInv /\ ResultsInv /\ OperandsDominate

LEMMA ToyInit == Init => ToyInv
<1> SUFFICES ASSUME Init PROVE ToyInv OBVIOUS
<1>1. WayInv BY WayInit
<1>2. /\ theModule = <<>> /\ results = <<>> /\ symbolTable = <<>> /\ visited = 0
  BY DEF Init
<1>3. Here = Outside BY <1>1, <1>2, OnTheWay DEF Here
<1>4. Here.place = "outside" /\ Here.trees = 0 BY <1>3 DEF Outside, Spot
<1>5. DOMAIN <<>> = {} /\ Len(<<>>) = 0 /\ <<>> \in Seq(Locals) /\ <<>> \in Seq(Bodies) OBVIOUS
<1>6. ModuleInv BY <1>2, <1>4, <1>5 DEF ModuleInv
<1>7. ResultsInv BY <1>2, <1>4, <1>5 DEF ResultsInv
<1>8. OperandsDominate BY <1>2, <1>5 DEF OperandsDominate
<1> QED BY <1>1, <1>6, <1>7, <1>8 DEF ToyInv

LEMMA ToyStep == ASSUME ToyInv, [Next]_vars PROVE ToyInv'
<1> USE DEF ToyInv
<1>1. WayInv' BY WayStep
<1>2. CASE (ParserNext \/ UNCHANGED parserVars) /\ UNCHANGED visitorVars
  <2>1. walk' = walk
    BY <1>2 DEF ParserNext, TensorLiteral, VarDecl, OtherRule, parserVars
  <2>2. /\ theModule' = theModule /\ results' = results /\ symbolTable' = symbolTable
        /\ visited' = visited
    BY <1>2 DEF visitorVars
  <2>3. Here' = Here BY <2>1, <2>2, SameWay DEF Here
  <2> QED BY <1>1, <2>2, <2>3, SameLocals DEF ModuleInv, ResultsInv, OperandsDominate
<1>3. CASE VisitorStep /\ Ends
  <2>1. walk' = walk BY <1>3, VisitorMoves DEF parserVars
  <2>2. /\ theModule' = theModule /\ results' = results /\ symbolTable' = symbolTable
        /\ visited' = visited
    BY <1>3 DEF Ends
  <2>3. Here' = Here BY <2>1, <2>2, SameWay DEF Here
  <2> QED BY <1>1, <2>2, <2>3, SameLocals DEF ModuleInv, ResultsInv, OperandsDominate
<1>4. CASE VisitorStep /\ Goes
  <2>1. Effect /\ Keeps BY <1>4, Effects
  <2>2. visited < Len(walk) /\ visited' = visited + 1 BY <1>4 DEF Goes
  <2>3. walk' = walk BY <1>4, VisitorMoves DEF parserVars
  <2>4. Here' = Way[visited + 1] BY <2>2, <2>3, SameWay DEF Here
  <2>5. ResultsInv' BY <2>1, <2>4 DEF Keeps, ResultsInv
  <2>6. theModule' \in Seq(Bodies) /\ OperandsDominate' /\ theModule' # <<>>
    BY <2>1, <2>2, ModuleStep
  <2> QED BY <1>1, <2>5, <2>6 DEF ModuleInv
<1>5. VisitorStep => Goes \/ Ends BY VisitorMoves
<1> QED BY <1>2, <1>3, <1>4, <1>5 DEF Next, vars
-----------------------------------------------------------------------------
LEMMA ToyIsInv == Spec => []ToyInv
<1>1. Init => ToyInv BY ToyInit
<1>2. ToyInv /\ [Next]_vars => ToyInv' BY ToyStep
<1> QED BY <1>1, <1>2, PTL DEF Spec

(* TypeOK: the values at hand, in the table and used by the operations are  *)
(* the null value or those of operations in the module (std::any holds a    *)
(* value of MLIR's wherever the visitor casts one).                         *)
THEOREM VisitorTypes == Spec => []TypeOK
<1>1. ToyInv => TypeOK
  <2> SUFFICES ASSUME ToyInv PROVE TypeOK OBVIOUS
  <2> USE DEF ToyInv
  <2>1. /\ parsed \in 0 .. Len(walk) /\ visited \in 0 .. parsed
        /\ DOMAIN data = {at \in 1 .. parsed : walk[at].item = "literal"}
        /\ pc \in {"visiting", "done", "thrown", "undefined"} /\ returnFlag \in BOOLEAN
    BY DEF WayInv
  <2>2. ASSUME NEW f \in DOMAIN theModule, NEW i \in DOMAIN theModule[f].ops
        PROVE  theModule[f].ops[i] \in Instructions /\ theModule[f].ops \in Seq(Instructions)
    <3>1. theModule[f] \in Bodies BY DEF ModuleInv
    <3>2. theModule[f].ops \in Seq(Instructions) BY <3>1 DEF Bodies
    <3> QED BY <3>2
  <2>3. ASSUME NEW f \in DOMAIN theModule, NEW i \in DOMAIN theModule[f].ops,
               NEW value \in ToSet(theModule[f].ops[i].operands)
        PROVE  value \in Values
    <3> DEFINE s == theModule[f].ops
               operation == s[i]
    <3>1. operation \in Instructions /\ s \in Seq(Instructions) BY <2>2
    <3>2. value # NULL /\ value.fun = f /\ value.op < i BY <2>3 DEF OperandsDominate
    <3>3. value \in AllValues
      <4>1. operation.operands \in Seq(AllValues) BY <3>1 DEF Instructions
      <4> QED BY <2>3, <4>1 DEF ToSet
    <3> HIDE DEF s
    <3>4. value \in [fun : Nat, op : Nat \ {0}]
      <4>1. value # NULL BY <3>2
      <4> QED BY <3>3, <4>1, Zenon DEF AllValues
    <3>5. i \in 1 .. Len(s) /\ Len(s) \in Nat /\ DOMAIN s = 1 .. Len(s)
      <4>1. i \in DOMAIN s BY <2>3 DEF s
      <4> QED BY <3>1, <4>1
    <3>6. value.op \in 1 .. Len(s) BY <3>2, <3>4, <3>5
    <3>7. value \in [fun : {f}, op : DOMAIN s] BY <3>2, <3>4, <3>5, <3>6
    <3> QED BY <3>7 DEF Values, s
  <2>4. ASSUME theModule # <<>> PROVE Locals \subseteq Values
    <3> SUFFICES ASSUME NEW value \in Locals, value # NULL PROVE value \in Values
      BY DEF Values
    <3> DEFINE n == Len(theModule)
    <3>1. n \in DOMAIN theModule BY <2>4 DEF ModuleInv
    <3>2. theModule[n].ops \in Seq(Instructions)
      <4>1. theModule[n] \in Bodies BY <3>1 DEF ModuleInv
      <4> QED BY <4>1 DEF Bodies
    <3>3. Block = theModule[n].ops BY DEF Block, Last
    <3>4. value \in [fun : {n}, op : DOMAIN theModule[n].ops]
      BY <2>4, <3>2, <3>3, LocalValue
    <3> HIDE DEF n
    <3> QED BY <3>1, <3>4 DEF Values
  <2>5. theModule # <<>> \/ (results = <<>> /\ DOMAIN symbolTable = {})
    <3>1. CASE Here.place # "outside" BY <3>1 DEF ModuleInv
    <3>2. CASE Here.place = "outside"
      <4>1. Here \in Spots BY OnTheWay
      <4>2. Here.trees = 0 BY <3>2, <4>1, SpotKinds
      <4> QED BY <3>2, <4>2 DEF ResultsInv
    <3> QED BY <3>1, <3>2
  <2>6. /\ ToSet(results) \subseteq Values
        /\ \A id \in DOMAIN symbolTable : symbolTable[id] \in Values
    <3>1. CASE theModule # <<>> BY <2>4, <3>1 DEF ResultsInv, ToSet
    <3>2. CASE results = <<>> /\ DOMAIN symbolTable = {} BY <3>2 DEF ToSet
    <3> QED BY <2>5, <3>1, <3>2
  <2>7. \A f \in DOMAIN theModule : \A operation \in ToSet(theModule[f].ops) :
          operation.kind \in Kinds /\ ToSet(operation.operands) \subseteq Values
    BY <2>2, <2>3 DEF ToSet, Instructions
  <2> QED BY <2>1, <2>6, <2>7 DEF TypeOK
<1> QED BY <1>1, ToyIsInv, PTL

(* OperandsDominate: an operation uses values made earlier in its own       *)
(* function.                                                                *)
THEOREM OperandsAreDominated == Spec => []OperandsDominate
<1>1. ToyInv => OperandsDominate BY DEF ToyInv
<1> QED BY <1>1, ToyIsInv, PTL
-----------------------------------------------------------------------------
(* The account kept of a function while it is visited: its operations are   *)
(* its returns and one for every literal, call and shape behind the visitor;*)
(* as long as it is open its returns are those of its return statements, and *)
(* the flag tells whether there is one.                                     *)
Behind(places, k) == {at \in places : at <= k}
MakersIn(f) == {at \in Within(f) : Makes(walk[at])}
ShapersIn(f) == {at \in Within(f) : Shapes(walk[at])}
ReturnOps(ops) == {i \in DOMAIN ops : ops[i].kind = "return"}
Open(f) == f = Len(theModule) /\ Here.place # "outside"
Account(f, ops) ==
  /\ Len(ops) = Cardinality(ReturnOps(ops)) + Cardinality(Behind(MakersIn(f), visited))
                  + Cardinality(Behind(ShapersIn(f), visited))
  /\ Open(f) \/ Behind(ReturnsIn(f), visited) # {}
       => Cardinality(ReturnOps(ops)) = Cardinality(Behind(ReturnsIn(f), visited))
  /\ ~Open(f) /\ Behind(ReturnsIn(f), visited) = {} => ReturnOps(ops) = {Len(ops)}
AccountInv ==
  /\ Function(visited) = Len(theModule)
  /\ \A at \in 0 .. visited : Function(at) <= Len(theModule)
  /\ pc = "visiting" /\ Here.place # "outside"
       => (returnFlag <=> Behind(ReturnsIn(Len(theModule)), visited) # {})
  /\ \A f \in DOMAIN theModule : Account(f, theModule[f].ops)

LEMMA FunctionGrows ==
  ASSUME NEW k \in Nat
  PROVE  /\ Function(k) \in Nat
         /\ walk[k + 1].item = "enter" => Function(k + 1) = Function(k) + 1
         /\ walk[k + 1].item # "enter" => Function(k + 1) = Function(k)
<1> DEFINE S == {p \in Nat : p > 0 /\ walk[p].item = "enter"}
           A == {before \in 1 .. k : walk[before].item = "enter"}
           B == {before \in 1 .. k + 1 : walk[before].item = "enter"}
<1>1. S \subseteq Nat OBVIOUS
<1>2. \A p : p \in A <=> p \in S /\ p <= k OBVIOUS
<1>3. \A p : p \in B <=> p \in S /\ p <= k + 1 OBVIOUS
<1>4. k + 1 \in S <=> walk[k + 1].item = "enter" OBVIOUS
<1>5. Function(k) = Cardinality(A) /\ Function(k + 1) = Cardinality(B) BY DEF Function
<1> HIDE DEF S, A, B
<1>6. /\ IsFiniteSet(A) /\ Cardinality(A) \in Nat
      /\ k + 1 \in S => Cardinality(B) = Cardinality(A) + 1
      /\ k + 1 \notin S => B = A
  BY <1>1, <1>2, <1>3, CountedUpTo
<1> QED BY <1>4, <1>5, <1>6

(* What is counted of a set of places as the visitor goes on.               *)
LEMMA BehindGrows ==
  ASSUME NEW places, places \subseteq Nat, NEW k \in Nat
  PROVE  /\ IsFiniteSet(Behind(places, k)) /\ Cardinality(Behind(places, k)) \in Nat
         /\ k + 1 \in places =>
              /\ Cardinality(Behind(places, k + 1)) = Cardinality(Behind(places, k)) + 1
              /\ Behind(places, k + 1) # {}
         /\ k + 1 \notin places => Behind(places, k + 1) = Behind(places, k)
<1> DEFINE A == Behind(places, k)
           B == Behind(places, k + 1)
<1>1. \A p : p \in A <=> p \in places /\ p <= k BY DEF Behind
<1>2. \A p : p \in B <=> p \in places /\ p <= k + 1 BY DEF Behind
<1>3. k + 1 \in places => B # {}
  <2>1. k + 1 <= k + 1 OBVIOUS
  <2> QED BY <2>1 DEF Behind
<1> HIDE DEF A, B
<1>4. /\ IsFiniteSet(A) /\ Cardinality(A) \in Nat
      /\ k + 1 \in places => Cardinality(B) = Cardinality(A) + 1
      /\ k + 1 \notin places => B = A
  BY <1>1, <1>2, CountedUpTo
<1> QED BY <1>3, <1>4 DEF A, B

LEMMA ReturnsAppended ==
  ASSUME NEW ops \in Seq(Instructions), NEW operation \in Instructions
  PROVE  /\ IsFiniteSet(ReturnOps(ops)) /\ Cardinality(ReturnOps(ops)) \in Nat
         /\ Len(ops) \in Nat /\ Len(Append(ops, operation)) = Len(ops) + 1
         /\ operation.kind = "return" =>
              /\ Cardinality(ReturnOps(Append(ops, operation))) = Cardinality(ReturnOps(ops)) + 1
              /\ ReturnOps(ops) = {} => ReturnOps(Append(ops, operation)) = {Len(ops) + 1}
         /\ operation.kind # "return" => ReturnOps(Append(ops, operation)) = ReturnOps(ops)
<1> DEFINE k == Len(ops)
           more == Append(ops, operation)
           A == ReturnOps(ops)
           B == ReturnOps(more)
<1>1. /\ k \in Nat /\ Len(more) = k + 1 /\ DOMAIN ops = 1 .. k /\ DOMAIN more = 1 .. k + 1
      /\ more[k + 1] = operation /\ \A j \in 1 .. k : more[j] = ops[j]
  BY Appended
<1> HIDE DEF k, more
<1>2. \A p : p \in A <=> p \in B /\ p <= k
  <2>1. \A p : p \in 1 .. k <=> p \in 1 .. k + 1 /\ p <= k BY <1>1
  <2> QED BY <1>1, <2>1 DEF ReturnOps
<1>3. B \subseteq Nat /\ \A p : p \in B <=> p \in B /\ p <= k + 1 BY <1>1 DEF ReturnOps
<1>4. k + 1 \in B <=> operation.kind = "return"
  <2>1. k + 1 \in 1 .. k + 1 BY <1>1
  <2> QED BY <1>1, <2>1 DEF ReturnOps
<1> HIDE DEF A, B
<1>5. /\ IsFiniteSet(A) /\ Cardinality(A) \in Nat
      /\ k + 1 \in B => Cardinality(B) = Cardinality(A) + 1
      /\ k + 1 \notin B => B = A
  BY <1>1, <1>2, <1>3, CountedUpTo
<1>6. ASSUME k + 1 \in B, A = {} PROVE B = {k + 1}
  <2>1. \A p \in B : p \in 1 .. k + 1 BY <1>1 DEF B, ReturnOps
  <2>2. \A p \in B : ~(p <= k) BY <1>2, <1>6
  <2>3. \A p \in B : p = k + 1 BY <1>1, <2>1, <2>2
  <2> QED BY <1>6, <2>3
<1> QED BY <1>1, <1>4, <1>5, <1>6 DEF A, B, k, more

(* Where the next event is counted.                                         *)
LEMMA CountedWhere ==
  ASSUME WayInv, visited < Len(walk), NEW f
  PROVE  /\ ReturnsIn(f) \subseteq Nat /\ MakersIn(f) \subseteq Nat /\ ShapersIn(f) \subseteq Nat
         /\ visited + 1 \in ReturnsIn(f) <=> Function(visited + 1) = f /\ Returns(Event)
         /\ visited + 1 \in MakersIn(f) <=> Function(visited + 1) = f /\ Makes(Event)
         /\ visited + 1 \in ShapersIn(f) <=> Function(visited + 1) = f /\ Shapes(Event)
<1>1. visited + 1 \in DOMAIN walk BY NextSpot
<1>2. DOMAIN walk \subseteq Nat BY DEF WayInv
<1>3. Event = walk[visited + 1] BY DEF Event
<1>4. \A at : at \in Within(f) <=> at \in DOMAIN walk /\ Function(at) = f BY DEF Within
<1>5. \A at : at \in ReturnsIn(f) <=> at \in Within(f) /\ Returns(walk[at])
  BY DEF ReturnsIn, Finishes, Returns
<1>6. \A at : at \in MakersIn(f) <=> at \in Within(f) /\ Makes(walk[at]) BY DEF MakersIn
<1>7. \A at : at \in ShapersIn(f) <=> at \in Within(f) /\ Shapes(walk[at]) BY DEF ShapersIn
<1> QED BY <1>1, <1>2, <1>3, <1>4, <1>5, <1>6, <1>7

(* The flag, and the names of the table, past an event.                     *)
LEMMA FlagStep ==
  ASSUME VisitorStep, Goes
  PROVE  /\ Event.item = "enter" => ~returnFlag'
         /\ Returns(Event) => returnFlag' = TRUE
         /\ Event.item # "enter" /\ ~Returns(Event) => returnFlag' = returnFlag
         /\ Event.item # "leave" => DOMAIN symbolTable \subseteq DOMAIN symbolTable'
         /\ Event.item = "finish" /\ Event.stmt.kind = "var"
              => Event.stmt.id \in DOMAIN symbolTable'
<1> USE DEF Visiting, Event, Returns
<1>1. CASE EnterFunction BY <1>1 DEF EnterFunction
<1>2. CASE LeaveFunction BY <1>2 DEF LeaveFunction
<1>3. CASE BeginStatement BY <1>3 DEF BeginStatement
<1>4. CASE UninitialisedVariable BY <1>4 DEF UninitialisedVariable, Stop
<1>5. CASE ReturnExpression BY <1>5 DEF ReturnExpression, Goes, Stop
<1>6. CASE ReturnNothing BY <1>6 DEF ReturnNothing
<1>7. CASE VisitNumber BY <1>7 DEF VisitNumber
<1>8. CASE GetTensor BY <1>8 DEF GetTensor
<1>9. CASE GetTensorUndefined BY <1>9 DEF GetTensorUndefined, Stop
<1>10. CASE VisitVariable BY <1>10 DEF VisitVariable
<1>11. CASE VisitCall BY <1>11 DEF VisitCall
<1>12. CASE VisitPrint BY <1>12 DEF VisitPrint
<1>13. CASE CallUndefined BY <1>13 DEF CallUndefined, Stop
<1>14. CASE VisitVarDecl BY <1>14 DEF VisitVarDecl, Declare, With
<1>15. CASE ReshapeUndefined BY <1>15 DEF ReshapeUndefined, Goes, Stop
<1>16. CASE FinishExpression BY <1>16 DEF FinishExpression
<1>17. CASE VisitDone BY <1>17 DEF VisitDone, Goes
<1> QED BY <1>1, <1>2, <1>3, <1>4, <1>5, <1>6, <1>7, <1>8, <1>9, <1>10, <1>11, <1>12,
           <1>13, <1>14, <1>15, <1>16, <1>17 DEF VisitorStep
-----------------------------------------------------------------------------
LEMMA SamePlaces ==
  ASSUME walk' = walk
  PROVE  /\ \A at : Function(at)' = Function(at)
         /\ \A f : /\ ReturnsIn(f)' = ReturnsIn(f) /\ MakersIn(f)' = MakersIn(f)
                   /\ ShapersIn(f)' = ShapersIn(f)
<1>1. \A at : Function(at)' = Function(at) BY DEF Function
<1>2. \A f : Within(f)' = Within(f) BY <1>1 DEF Within
<1> QED BY <1>1, <1>2 DEF ReturnsIn, Finishes, MakersIn, ShapersIn

LEMMA AccountInit == Init => AccountInv
<1> SUFFICES ASSUME Init PROVE AccountInv OBVIOUS
<1>1. theModule = <<>> /\ visited = 0 BY DEF Init
<1>2. Len(<<>>) = 0 /\ DOMAIN <<>> = {} OBVIOUS
<1>3. Function(0) = 0
  <2>1. {before \in 1 .. 0 : walk[before].item = "enter"} = {} OBVIOUS
  <2> QED BY <2>1, FS_EmptySet DEF Function
<1>4. \A at \in 0 .. 0 : at = 0 OBVIOUS
<1>5. Here.place = "outside"
  <2>1. Here = Outside BY <1>1, WayInit, OnTheWay DEF Here
  <2> QED BY <2>1 DEF Outside, Spot
<1> QED BY <1>1, <1>2, <1>3, <1>4, <1>5 DEF AccountInv

LEMMA SameAccount ==
  ASSUME AccountInv, walk' = walk, visited' = visited, theModule' = theModule,
         pc' = "visiting" => pc = "visiting" /\ returnFlag' = returnFlag
  PROVE  AccountInv'
<1>1. Here' = Here BY SameWay DEF Here
<1> QED BY <1>1, SamePlaces DEF AccountInv, Account, Open

(* The step past an event, on the account of each function.                 *)
LEMMA AccountStep ==
  ASSUME ToyInv, AccountInv, VisitorStep, Goes
  PROVE  AccountInv'
<1> USE DEF ToyInv
<1> SUFFICES ASSUME NEW n \in Nat, n = Len(theModule) PROVE AccountInv' BY DEF ModuleInv
<1> DEFINE at == visited + 1
           next == Way[visited + 1]
           R(f) == Behind(ReturnsIn(f), visited)
           M(f) == Behind(MakersIn(f), visited)
           S(f) == Behind(ShapersIn(f), visited)
           R1(f) == Behind(ReturnsIn(f), at)
           M1(f) == Behind(MakersIn(f), at)
           S1(f) == Behind(ShapersIn(f), at)
<1>1. /\ visited < Len(walk) /\ Event \in Events /\ visited \in Nat /\ at \in Nat
      /\ visited' = at
  BY NextSpot, OnTheWay DEF Goes
<1>2. walk' = walk /\ pc = "visiting" BY VisitorMoves DEF parserVars
<1>3. /\ \A f : /\ Behind(ReturnsIn(f), visited)' = R1(f)
                /\ Behind(MakersIn(f), visited)' = M1(f)
                /\ Behind(ShapersIn(f), visited)' = S1(f)
      /\ \A p : Function(p)' = Function(p)
  BY <1>1, <1>2, SamePlaces DEF Behind
<1>4. Here' = next BY <1>1, <1>2, SameWay DEF Here
<1>5. Effect BY Effects
<1>6. ASSUME NEW f
      PROVE  /\ Cardinality(R(f)) \in Nat /\ Cardinality(M(f)) \in Nat
             /\ Cardinality(S(f)) \in Nat
             /\ IF Function(at) = f /\ Returns(Event)
                THEN Cardinality(R1(f)) = Cardinality(R(f)) + 1 /\ R1(f) # {}
                ELSE R1(f) = R(f)
             /\ IF Function(at) = f /\ Makes(Event)
                THEN Cardinality(M1(f)) = Cardinality(M(f)) + 1 ELSE M1(f) = M(f)
             /\ IF Function(at) = f /\ Shapes(Event)
                THEN Cardinality(S1(f)) = Cardinality(S(f)) + 1 ELSE S1(f) = S(f)
  <2>1. /\ ReturnsIn(f) \subseteq Nat /\ MakersIn(f) \subseteq Nat /\ ShapersIn(f) \subseteq Nat
        /\ at \in ReturnsIn(f) <=> Function(at) = f /\ Returns(Event)
        /\ at \in MakersIn(f) <=> Function(at) = f /\ Makes(Event)
        /\ at \in ShapersIn(f) <=> Function(at) = f /\ Shapes(Event)
    BY <1>1, CountedWhere
  <2> QED BY <1>1, <2>1, BehindGrows
<1>7. /\ Function(visited) = n /\ \A p \in 0 .. visited : Function(p) <= n
      /\ Here.place # "outside" => (returnFlag <=> R(n) # {})
      /\ \A f \in DOMAIN theModule : Account(f, theModule[f].ops)
      /\ n \in Nat
  BY <1>2 DEF AccountInv, ModuleInv
<1>8. /\ Event.item = "enter" => Function(at) = n + 1
      /\ Event.item # "enter" => Function(at) = n
  BY <1>1, <1>7, FunctionGrows DEF Event
<1>9. \A p \in 0 .. at : p \in 0 .. visited \/ p = at BY <1>1
<1>10. CASE Enters
  <2>1. /\ Len(theModule') = n + 1 /\ DOMAIN theModule' = DOMAIN theModule \cup {n + 1}
        /\ \A f \in DOMAIN theModule : theModule'[f] = theModule[f]
        /\ theModule'[n + 1].ops = <<>> /\ DOMAIN theModule = 1 .. n
    BY <1>1, <1>10, EntersAppends DEF ModuleInv
  <2>2. Event.item = "enter" /\ Function(at) = n + 1 BY <1>8, <1>10 DEF Enters
  <2>3. Here.place = "outside" /\ next.place = "block"
    BY <1>1, <2>2, NextSpot DEF Outside, InBlock, Spot
  <2>4. R1(n + 1) = {} /\ M1(n + 1) = {} /\ S1(n + 1) = {}
    <3>1. \A p \in 0 .. visited : Function(p) # n + 1
      <4>1. \A p \in 0 .. visited : Function(p) \in Nat BY <1>1, FunctionGrows
      <4> QED BY <1>7, <4>1
    <3>2. \A p \in Within(n + 1) : ~(p <= visited)
      BY <1>1, <3>1 DEF Within, WayInv
    <3>3. R(n + 1) = {} /\ M(n + 1) = {} /\ S(n + 1) = {}
      BY <3>2 DEF Behind, ReturnsIn, Finishes, MakersIn, ShapersIn
    <3>4. ~Returns(Event) /\ ~Makes(Event) /\ ~Shapes(Event)
      BY <2>2 DEF Returns, Makes, Shapes
    <3> QED BY <1>6, <3>3, <3>4
  <2>5. ~returnFlag' BY <2>2, FlagStep
  <2>6. ASSUME NEW f \in DOMAIN theModule' PROVE Account(f, theModule[f].ops)'
    <3>1. CASE f = n + 1
      <4>1. Open(f)' BY <1>4, <2>1, <2>3, <3>1 DEF Open
      <4>2. ReturnOps(<<>>) = {} /\ Len(<<>>) = 0 BY DEF ReturnOps
      <4>3. Cardinality({}) = 0 BY FS_EmptySet
      <4>4. /\ Behind(ReturnsIn(f), visited)' = {} /\ Behind(MakersIn(f), visited)' = {}
            /\ Behind(ShapersIn(f), visited)' = {}
        BY <1>3, <2>4, <3>1
      <4>5. theModule'[f].ops = <<>> BY <2>1, <3>1
      <4>6. /\ Len(theModule[f].ops)' = 0 /\ ReturnOps(theModule[f].ops)' = {}
            /\ Cardinality(ReturnOps(theModule[f].ops))' = 0
        BY <4>2, <4>3, <4>5 DEF ReturnOps
      <4>7. /\ Cardinality(Behind(MakersIn(f), visited))' = 0
            /\ Cardinality(Behind(ShapersIn(f), visited))' = 0
            /\ Cardinality(Behind(ReturnsIn(f), visited))' = 0
        BY <4>3, <4>4
      <4> QED BY <4>1, <4>6, <4>7 DEF Account
    <3>2. CASE f # n + 1
      <4>1. f \in DOMAIN theModule /\ theModule'[f] = theModule[f] BY <2>1, <3>2
      <4>2. ~Open(f)' /\ ~Open(f) BY <2>1, <2>3, <3>2 DEF Open
      <4>3. R1(f) = R(f) /\ M1(f) = M(f) /\ S1(f) = S(f) BY <1>6, <2>2, <3>2
      <4>4. Account(f, theModule[f].ops) BY <1>7, <4>1
      <4> QED BY <1>3, <4>1, <4>2, <4>3, <4>4 DEF Account
    <3> QED BY <3>1, <3>2
  <2>7. Function(visited)' = Len(theModule')
        /\ \A p \in 0 .. at : Function(p) <= n + 1
    <3>1. \A p \in 0 .. at : Function(p) \in Nat
      <4>1. \A p \in Nat : Function(p) \in Nat BY FunctionGrows
      <4>2. \A p \in 0 .. at : p \in Nat BY <1>1
      <4> QED BY <4>1, <4>2
    <3> QED BY <1>1, <1>3, <1>7, <1>9, <2>1, <2>2, <3>1
  <2>8. (returnFlag <=> Behind(ReturnsIn(Len(theModule)), visited) # {})'
    <3>1. Behind(ReturnsIn(Len(theModule)), visited)' = R1(n + 1)
      BY <1>1, <1>2, <2>1, SamePlaces
    <3> QED BY <2>4, <2>5, <3>1
  <2> QED BY <1>1, <1>3, <2>1, <2>6, <2>7, <2>8 DEF AccountInv
<1>11. ASSUME Event.item # "enter", Len(theModule') = n, DOMAIN theModule' = DOMAIN theModule,
              \A f \in DOMAIN theModule : f # n => theModule'[f] = theModule[f],
              Account(n, theModule[n].ops)',
              next.place # "outside" => (returnFlag' <=> R1(n) # {})
       PROVE  AccountInv'
  <2>1. Function(at) = n BY <1>8, <1>11
  <2>2. ASSUME NEW f \in DOMAIN theModule PROVE Account(f, theModule[f].ops)'
    <3>1. CASE f # n
      <4>1. theModule'[f] = theModule[f] BY <1>11, <3>1
      <4>2. ~Open(f)' /\ ~Open(f) BY <1>11, <3>1 DEF Open
      <4>3. R1(f) = R(f) /\ M1(f) = M(f) /\ S1(f) = S(f) BY <1>6, <2>1, <3>1
      <4>4. Account(f, theModule[f].ops) BY <1>7
      <4> QED BY <1>3, <4>1, <4>2, <4>3, <4>4 DEF Account
    <3> QED BY <1>11, <3>1
  <2>3. Function(visited)' = Len(theModule')
        /\ \A p \in 0 .. at : Function(p) <= n
    <3>1. \A p \in 0 .. at : Function(p) \in Nat
      <4>1. \A p \in Nat : Function(p) \in Nat BY FunctionGrows
      <4>2. \A p \in 0 .. at : p \in Nat BY <1>1
      <4> QED BY <4>1, <4>2
    <3> QED BY <1>1, <1>3, <1>7, <1>9, <1>11, <2>1, <3>1
  <2>4. Behind(ReturnsIn(Len(theModule)), visited)' = R1(n)
    BY <1>1, <1>2, <1>11, SamePlaces
  <2> QED BY <1>1, <1>3, <1>4, <1>11, <2>2, <2>3, <2>4 DEF AccountInv
<1>12. ASSUME Event.item # "enter"
       PROVE  /\ theModule # <<>> /\ n \in DOMAIN theModule /\ Here.place # "outside"
              /\ theModule[n].ops \in Seq(Instructions) /\ Block = theModule[n].ops
              /\ Event.item = "leave" <=> next.place = "outside"
  <2>1. theModule # <<>> BY <1>1, <1>12, InFunction
  <2>2. n \in DOMAIN theModule BY <2>1 DEF ModuleInv
  <2>3. theModule[n].ops \in Seq(Instructions)
    <3>1. theModule[n] \in Bodies BY <2>2 DEF ModuleInv
    <3> QED BY <3>1 DEF Bodies
  <2>4. Here.place # "outside"
    <3>1. Here # Outside BY <1>1, <1>12, NextSpot
    <3> QED BY <3>1, OnTheWay, SpotKinds
  <2>5. Event.item = "leave" => next.place = "outside" BY <1>1, NextSpot DEF Outside, Spot
  <2>6. Event.item # "leave" => next.place # "outside" BY <1>1, <1>12, LeavingOnly
  <2> QED BY <2>1, <2>2, <2>3, <2>4, <2>5, <2>6 DEF Block, Last
<1>13. ASSUME Event.item # "enter"
       PROVE  /\ Len(theModule[n].ops) = Cardinality(ReturnOps(theModule[n].ops))
                                           + Cardinality(M(n)) + Cardinality(S(n))
              /\ Cardinality(ReturnOps(theModule[n].ops)) = Cardinality(R(n))
              /\ returnFlag <=> R(n) # {}
              /\ Function(at) = n
              /\ IsFiniteSet(R(n))
              /\ R(n) # {} => Cardinality(R(n)) # 0
  <2>1. Open(n) /\ Account(n, theModule[n].ops) BY <1>7, <1>12, <1>13 DEF Open
  <2>2. IsFiniteSet(R(n))
    <3>1. ReturnsIn(n) \subseteq Nat BY <1>1, CountedWhere
    <3> QED BY <1>1, <3>1, BehindGrows
  <2>3. R(n) # {} => Cardinality(R(n)) # 0 BY <2>2, FS_EmptySet
  <2> QED BY <1>7, <1>8, <1>12, <1>13, <2>1, <2>2, <2>3 DEF Account
<1>14. CASE ~Acts /\ Event.item # "enter" /\ theModule' = theModule
  <2> DEFINE ops == theModule[n].ops
  <2>1. R1(n) = R(n) /\ M1(n) = M(n) /\ S1(n) = S(n) BY <1>6, <1>14 DEF Acts
  <2>2. ~Returns(Event) /\ (Event.item = "leave" => returnFlag)
    BY <1>14 DEF Acts, Closes
  <2>3. returnFlag' = returnFlag BY <1>14, <2>2, FlagStep
  <2>4. Open(n)' <=> next.place # "outside" BY <1>4, <1>14 DEF Open
  <2>5. next.place = "outside" => R(n) # {} BY <1>12, <1>13, <1>14, <2>2
  <2>6. Account(n, theModule[n].ops)'
    BY <1>3, <1>13, <1>14, <2>1, <2>4, <2>5 DEF Account
  <2>7. returnFlag' <=> R1(n) # {} BY <1>13, <1>14, <2>1, <2>3
  <2> QED BY <1>11, <1>14, <2>6, <2>7
<1>15. CASE \E operation : Adds(operation)
  <2>1. PICK operation : Adds(operation) BY <1>15
  <2> DEFINE ops == theModule[n].ops
             more == Append(ops, operation)
  <2>2. /\ Acts /\ Builds(operation)
        /\ operation.kind = "return" <=> Returns(Event) \/ Closes
    BY <2>1 DEF Adds
  <2>3. /\ Event.item # "enter" /\ operation \in Instructions /\ theModule # <<>>
        /\ Create(operation) /\ theModule \in Seq(Bodies)
    BY <1>1, <2>2, ActsWhen DEF Builds, ModuleInv
  <2>4. /\ Len(theModule') = n /\ DOMAIN theModule' = DOMAIN theModule
        /\ \A f \in DOMAIN theModule : f # n => theModule'[f] = theModule[f]
        /\ theModule'[n].ops = more
    BY <2>3, Built
  <2>5. /\ IsFiniteSet(ReturnOps(ops)) /\ Cardinality(ReturnOps(ops)) \in Nat
        /\ Len(ops) \in Nat /\ Len(more) = Len(ops) + 1
        /\ operation.kind = "return" =>
             /\ Cardinality(ReturnOps(more)) = Cardinality(ReturnOps(ops)) + 1
             /\ ReturnOps(ops) = {} => ReturnOps(more) = {Len(ops) + 1}
        /\ operation.kind # "return" => ReturnOps(more) = ReturnOps(ops)
    BY <1>12, <2>3, ReturnsAppended
  <2>6. Open(n)' <=> next.place # "outside" BY <1>4, <2>4 DEF Open
  <2>7. /\ Cardinality(R(n)) \in Nat /\ Cardinality(M(n)) \in Nat /\ Cardinality(S(n)) \in Nat
        /\ IF Returns(Event) THEN Cardinality(R1(n)) = Cardinality(R(n)) + 1 /\ R1(n) # {}
           ELSE R1(n) = R(n)
        /\ IF Makes(Event) THEN Cardinality(M1(n)) = Cardinality(M(n)) + 1 ELSE M1(n) = M(n)
        /\ IF Shapes(Event) THEN Cardinality(S1(n)) = Cardinality(S(n)) + 1 ELSE S1(n) = S(n)
    BY <1>6, <1>13, <2>3
  <2>8. /\ Len(ops) = Cardinality(ReturnOps(ops)) + Cardinality(M(n)) + Cardinality(S(n))
        /\ Cardinality(ReturnOps(ops)) = Cardinality(R(n)) /\ (returnFlag <=> R(n) # {})
        /\ R(n) # {} => Cardinality(R(n)) # 0
        /\ Event.item = "leave" <=> next.place = "outside"
    BY <1>12, <1>13, <2>3
  <2> HIDE DEF ops, more, R, M, S, R1, M1, S1, next
  <2>9. /\ Returns(Event) => returnFlag' = TRUE
        /\ ~Returns(Event) => returnFlag' = returnFlag
    BY <2>3, FlagStep
  <2>10. /\ next.place # "outside" => (returnFlag' <=> R1(n) # {})
         /\ Len(more) = Cardinality(ReturnOps(more)) + Cardinality(M1(n)) + Cardinality(S1(n))
         /\ next.place # "outside" \/ R1(n) # {}
              => Cardinality(ReturnOps(more)) = Cardinality(R1(n))
         /\ next.place = "outside" /\ R1(n) = {} => ReturnOps(more) = {Len(more)}
    <3>1. CASE Returns(Event)
      <4>1. ~Makes(Event) /\ ~Shapes(Event) /\ Event.item # "leave"
        BY <1>1, <3>1, ActsWhen DEF Returns
      <4> QED BY <2>2, <2>5, <2>7, <2>8, <2>9, <3>1, <4>1
    <3>2. CASE Makes(Event)
      <4>1. ~Returns(Event) /\ ~Shapes(Event) /\ ~Closes /\ Event.item # "leave"
        BY <1>1, <3>2, ActsWhen DEF Makes
      <4> QED BY <2>2, <2>5, <2>7, <2>8, <2>9, <3>2, <4>1
    <3>3. CASE Shapes(Event)
      <4>1. ~Returns(Event) /\ ~Makes(Event) /\ ~Closes /\ Event.item # "leave"
        BY <1>1, <3>3, ActsWhen DEF Shapes
      <4> QED BY <2>2, <2>5, <2>7, <2>8, <2>9, <3>3, <4>1
    <3>4. CASE Closes
      <4>1. /\ ~Returns(Event) /\ ~Makes(Event) /\ ~Shapes(Event)
            /\ Event.item = "leave" /\ ~returnFlag
        BY <1>1, <3>4, ActsWhen DEF Closes
      <4>2. R(n) = {} /\ Cardinality(R(n)) = 0 BY <2>8, <4>1, FS_EmptySet
      <4>3. ReturnOps(ops) = {} BY <2>5, <2>8, <4>2, FS_EmptySet
      <4> QED BY <2>2, <2>5, <2>7, <2>8, <3>4, <4>1, <4>2, <4>3
    <3> QED BY <2>2, <3>1, <3>2, <3>3, <3>4 DEF Acts
  <2>11. Account(n, theModule[n].ops)'
    <3>1. /\ Len(theModule[n].ops)' = Len(more)
          /\ ReturnOps(theModule[n].ops)' = ReturnOps(more)
      BY <2>4 DEF ReturnOps
    <3>2. /\ Cardinality(Behind(ReturnsIn(n), visited))' = Cardinality(R1(n))
          /\ Cardinality(Behind(MakersIn(n), visited))' = Cardinality(M1(n))
          /\ Cardinality(Behind(ShapersIn(n), visited))' = Cardinality(S1(n))
          /\ Behind(ReturnsIn(n), visited)' = R1(n)
      BY <1>3
    <3> QED BY <2>6, <2>10, <3>1, <3>2 DEF Account
  <2> QED BY <1>11, <2>3, <2>4, <2>10, <2>11 DEF ops, more
<1> QED BY <1>5, <1>10, <1>14, <1>15, Zenon DEF Effect
-----------------------------------------------------------------------------
AccountedInv == ToyInv /\ AccountInv

LEMMA AccountedStep == ASSUME AccountedInv, [Next]_vars PROVE AccountedInv'
<1> USE DEF AccountedInv
<1>1. ToyInv' BY ToyStep
<1>2. CASE (ParserNext \/ UNCHANGED parserVars) /\ UNCHANGED visitorVars
  <2>1. walk' = walk
    BY <1>2 DEF ParserNext, TensorLiteral, VarDecl, OtherRule, parserVars
  <2>2. /\ theModule' = theModule /\ visited' = visited /\ pc' = pc
        /\ returnFlag' = returnFlag
    BY <1>2 DEF visitorVars
  <2> QED BY <1>1, <2>1, <2>2, SameAccount
<1>3. CASE VisitorStep /\ Ends
  <2>1. walk' = walk BY <1>3, VisitorMoves DEF parserVars, ToyInv
  <2>2. theModule' = theModule /\ visited' = visited /\ pc' # "visiting"
    BY <1>3 DEF Ends
  <2> QED BY <1>1, <2>1, <2>2, SameAccount
<1>4. CASE VisitorStep /\ Goes BY <1>1, <1>4, AccountStep
<1>5. VisitorStep => Goes \/ Ends BY VisitorMoves DEF ToyInv
<1> QED BY <1>2, <1>3, <1>4, <1>5 DEF Next, vars

LEMMA AccountedIsInv == Spec => []AccountedInv
<1>1. Init => AccountedInv BY ToyInit, AccountInit DEF AccountedInv
<1>2. AccountedInv /\ [Next]_vars => AccountedInv' BY AccountedStep
<1> QED BY <1>1, <1>2, PTL DEF Spec

(* A function that has been left is closed, and all of it is behind.        *)
LEMMA LeftIsClosed ==
  ASSUME AccountedInv, NEW f \in DOMAIN theModule, Left(f)
  PROVE  /\ ~Open(f) /\ Behind(ReturnsIn(f), visited) = ReturnsIn(f)
         /\ Behind(MakersIn(f), visited) = MakersIn(f)
         /\ Behind(ShapersIn(f), visited) = ShapersIn(f)
<1> USE DEF AccountedInv, ToyInv
<1>1. \A at \in Within(f) : at <= visited BY OnTheWay DEF Left
<1>2. ASSUME Open(f) PROVE FALSE
  <2>1. f = Len(theModule) /\ Here.place # "outside" BY <1>2 DEF Open
  <2>2. visited # Len(walk)
    <3>1. Outside.place = "outside" BY DEF Outside, Spot
    <3> QED BY <2>1, <3>1, OnTheWay DEF Here
  <2>3. visited < Len(walk) /\ visited \in Nat BY <2>2, OnTheWay
  <2>4. Here # Outside BY <2>1 DEF Outside, Spot
  <2>5. Event.item # "enter" /\ visited + 1 \in DOMAIN walk BY <2>3, <2>4, NextSpot
  <2>6. Function(visited + 1) = f BY <2>1, <2>3, <2>5, FunctionGrows DEF Event, AccountInv
  <2>7. visited + 1 \in Within(f) BY <2>5, <2>6 DEF Within
  <2> QED BY <1>1, <2>3, <2>7
<1> QED BY <1>1, <1>2 DEF Behind, ReturnsIn, Finishes, MakersIn, ShapersIn

(* ReturnPerFunction: a function that has been visited has a return for     *)
(* every return statement of its own, or one at its end if it has none,     *)
(* whatever the functions around it do to returnFlag.                       *)
THEOREM ReturnsOfFunctions == Spec => []ReturnPerFunction
<1>1. ASSUME AccountedInv PROVE ReturnPerFunction
  <2> SUFFICES ASSUME NEW f \in DOMAIN theModule, Left(f)
               PROVE  IF ReturnsIn(f) = {}
                      THEN ReturnOps(theModule[f].ops) = {Len(theModule[f].ops)}
                      ELSE Cardinality(ReturnOps(theModule[f].ops)) = Cardinality(ReturnsIn(f))
    BY DEF ReturnPerFunction, ReturnOps
  <2>1. Account(f, theModule[f].ops) BY <1>1 DEF AccountedInv, AccountInv
  <2> QED BY <1>1, <2>1, LeftIsClosed DEF Account
<1> QED BY <1>1, AccountedIsInv, PTL
-----------------------------------------------------------------------------
(* A sound program, and the visitor in it: every name declared so far has a *)
(* value, and a null value is at hand only where the next thing to do is to *)
(* drop it.                                                                 *)
Sound == \A at \in DOMAIN walk : SoundAt(at)
Dropping == Event.item = "finish" /\ Event.stmt.kind = "expression"
SoundInv ==
  Sound => /\ pc \in {"visiting", "done"}
           /\ \A id \in DOMAIN symbolTable : symbolTable[id] # NULL
           /\ NULL \in ToSet(results) => Dropping
           /\ Here.place # "outside" =>
                \A before \in Finishes(Len(theModule)) :
                  before <= visited /\ walk[before].stmt.kind = "var"
                    => walk[before].stmt.id \in DOMAIN symbolTable

LEMMA SameSound == ASSUME walk' = walk PROVE Sound' <=> Sound
<1>1. \A f : Finishes(f)' = Finishes(f) /\ Function(f)' = Function(f)
  BY SamePlaces DEF Finishes, Within
<1>2. \A at : /\ Fresh(at)' <=> Fresh(at)
              /\ Numbers(at)' = Numbers(at)
  BY DEF Fresh, Initialises, Numbers
<1>3. \A at, id : DeclaredAt(at, id)' <=> DeclaredAt(at, id) BY <1>1 DEF DeclaredAt
<1>4. \A at : Fills(Numbers(at), Dims(walk[at].rows))' <=> Fills(Numbers(at), Dims(walk[at].rows))
  BY <1>2, Zenon
<1>5. \A at : Alone(at)' <=> Alone(at) BY DEF Alone
<1>6. \A at : SoundAt(at)' <=> SoundAt(at) BY <1>2, <1>3, <1>4, <1>5 DEF SoundAt
<1> QED BY <1>6 DEF Sound

LEMMA SoundEvent ==
  ASSUME WayInv, visited < Len(walk), Sound
  PROVE  /\ Event.item = "statement" => Passable(Event.stmt)
         /\ Event.item = "literal" =>
              /\ Event.rows # <<>> /\ Fresh(visited + 1)
              /\ Fills(Numbers(visited + 1), Dims(Event.rows))
         /\ Event.item = "name" => DeclaredAt(visited + 1, Event.id)
         /\ Event.item = "number" => Alone(visited + 1)
         /\ Event.item = "call" /\ Event.callee = "print"
              => Event.arity > 0 /\ Alone(visited + 1)
<1>1. SoundAt(visited + 1)
  <2>1. visited + 1 \in DOMAIN walk BY NextSpot
  <2> QED BY <2>1 DEF Sound
<1>2. Event = walk[visited + 1] BY DEF Event
<1>3. Event.item = "statement" => Passable(Event.stmt)
  BY <1>1, <1>2 DEF SoundAt, Passable
<1>4. Event.item = "literal" =>
        /\ Event.rows # <<>> /\ Fresh(visited + 1)
        /\ Fills(Numbers(visited + 1), Dims(Event.rows))
  BY <1>1, <1>2 DEF SoundAt
<1>5. Event.item = "name" => DeclaredAt(visited + 1, Event.id) BY <1>1, <1>2 DEF SoundAt
<1>6. Event.item = "number" => Alone(visited + 1) BY <1>1, <1>2 DEF SoundAt
<1>7. Event.item = "call" /\ Event.callee = "print" => Event.arity > 0 /\ Alone(visited + 1)
  BY <1>1, <1>2 DEF SoundAt
<1> QED BY <1>3, <1>4, <1>5, <1>6, <1>7

(* Where the values of a piece of a sequence come from.                     *)
LEMMA ElementsOfParts ==
  ASSUME NEW S, NEW s \in Seq(S), NEW k \in 0 .. Len(s)
  PROVE  /\ ToSet(SubSeq(s, 1, Len(s) - k)) \subseteq ToSet(s)
         /\ ToSet(SubSeq(s, Len(s) - k + 1, Len(s))) \subseteq ToSet(s)
<1> DEFINE T == ToSet(s)
<1>1. s \in Seq(T) BY DEF ToSet
<1>2. \A t : t \in Seq(T) => ToSet(t) \subseteq T
  <2> SUFFICES ASSUME NEW t, t \in Seq(T) PROVE \A i \in DOMAIN t : t[i] \in T BY DEF ToSet
  <2> HIDE DEF T
  <2> QED OBVIOUS
<1> HIDE DEF T
<1>3. /\ SubSeq(s, 1, Len(s) - k) \in Seq(T)
      /\ SubSeq(s, Len(s) - k + 1, Len(s)) \in Seq(T)
  BY <1>1, Divided
<1> QED BY <1>2, <1>3 DEF T

LEMMA ElementsAppended ==
  ASSUME NEW S, NEW s \in Seq(S), NEW e
  PROVE  ToSet(Append(s, e)) = ToSet(s) \cup {e}
<1> DEFINE T == S \cup {e}
           a == Append(s, e)
<1>1. s \in Seq(T) /\ e \in T OBVIOUS
<1> HIDE DEF T
<1>2. /\ DOMAIN s = 1 .. Len(s) /\ DOMAIN a = 1 .. Len(s) + 1 /\ a[Len(s) + 1] = e
      /\ \A j \in 1 .. Len(s) : a[j] = s[j]
      /\ Len(s) \in Nat
  BY <1>1, Appended
<1>3. \A j : j \in 1 .. Len(s) + 1 <=> j \in 1 .. Len(s) \/ j = Len(s) + 1 BY <1>2
<1> HIDE DEF a
<1>4. ToSet(a) = ToSet(s) \cup {e} BY <1>2, <1>3 DEF ToSet
<1> QED BY <1>4 DEF a

LEMMA TakenFromResults ==
  ASSUME WayInv, ResultsInv, visited < Len(walk), Event.item = "call"
  PROVE  /\ ToSet(Rest) \subseteq ToSet(results) /\ ToSet(Operands) \subseteq ToSet(results)
         /\ Event.arity > 0 => Operands # <<>>
<1>1. Event \in Nodes
  <2>1. Event \in Events BY NextSpot
  <2> QED BY <2>1, EventKinds
<1>2. Arity(Event) = Event.arity BY DEF Arity
<1>3. Event.arity \in 0 .. Len(results) /\ results \in Seq(Locals)
  BY <1>1, <1>2, AtNode DEF ResultsInv
<1>4. ToSet(Rest) \subseteq ToSet(results) /\ ToSet(Arguments) \subseteq ToSet(results)
  BY <1>3, ElementsOfParts DEF Rest, Arguments
<1>5. Arguments \in Seq(Locals) /\ Len(Arguments) = Event.arity BY CallTakes
<1>6. Event.arity > 0 => Arguments # <<>> BY <1>3, <1>5
<1>7. CASE Event.callee = "print" /\ Arguments # <<>>
  <2>1. Operands = <<Head(Arguments)>> BY <1>7 DEF Operands
  <2>2. Head(Arguments) \in ToSet(Arguments) BY <1>5, <1>7 DEF ToSet
  <2>3. ToSet(<<Head(Arguments)>>) = {Head(Arguments)} BY DEF ToSet
  <2> QED BY <1>4, <2>1, <2>2, <2>3
<1>8. CASE ~(Event.callee = "print" /\ Arguments # <<>>)
  BY <1>4, <1>6, <1>8 DEF Operands
<1> QED BY <1>4, <1>7, <1>8
-----------------------------------------------------------------------------
LEMMA NewValueIsSome == ASSUME ModuleInv, theModule # <<>> PROVE NewValue # NULL
<1>1. Len(theModule) \in Nat BY DEF ModuleInv
<1>2. Len(Block) \in Nat
  <2>1. Len(theModule) \in DOMAIN theModule /\ theModule \in Seq(Bodies) BY DEF ModuleInv
  <2>2. theModule[Len(theModule)] \in Bodies BY <2>1
  <2>3. theModule[Len(theModule)].ops \in Seq(Instructions) BY <2>2 DEF Bodies
  <2> QED BY <2>3 DEF Block, Last
<1>3. Len(Block) + 1 \in Nat BY <1>2
<1>4. NewValue \in [fun : Nat, op : Nat] BY <1>1, <1>3 DEF NewValue
<1> QED BY <1>4, ValueAssumption

(* In a sound program each step keeps to values, or drops what is none.     *)
LEMMA SoundValues ==
  ASSUME AccountedInv, OwnDataIffFresh, SoundInv, VisitorStep, Sound
  PROVE  /\ pc' \in {"visiting", "done"}
         /\ \A id \in DOMAIN symbolTable' : symbolTable'[id] # NULL
         /\ NULL \in ToSet(results') /\ visited' = visited + 1 => Alone(visited + 1)
         /\ visited' = visited => results' = results
<1> USE DEF AccountedInv, ToyInv
<1>1. /\ \A id \in DOMAIN symbolTable : symbolTable[id] # NULL
      /\ NULL \in ToSet(results) => Dropping
  BY DEF SoundInv
<1>2. pc = "visiting" /\ parsed = Len(walk) BY VisitorMoves
<1>3. results \in Seq(Locals) /\ Len(results) = Here.trees BY DEF ResultsInv
<1>4. ASSUME NEW item, Visiting(item) PROVE visited < Len(walk) /\ Event.item = item
  BY <1>2, <1>4 DEF Visiting, Event
<1>5. \A v : ToSet(Append(results, v)) = ToSet(results) \cup {v}
  BY <1>3, ElementsAppended
<1>6. \A v : Event.item = "call" /\ visited < Len(walk)
               => ToSet(Append(Rest, v)) \subseteq ToSet(results) \cup {v}
  <2> SUFFICES ASSUME NEW v, Event.item = "call", visited < Len(walk)
               PROVE  ToSet(Append(Rest, v)) \subseteq ToSet(results) \cup {v}
    OBVIOUS
  <2>1. Rest \in Seq(Locals) BY CallTakes
  <2>2. ToSet(Rest) \subseteq ToSet(results) BY TakenFromResults
  <2> QED BY <2>1, <2>2, ElementsAppended
<1>7. visited \in Nat BY OnTheWay
<1>8. CASE EnterFunction \/ BeginStatement
  BY <1>1, <1>2, <1>4, <1>8 DEF EnterFunction, BeginStatement, Dropping
<1>9. CASE LeaveFunction
  <2>1. DOMAIN <<>> = {} OBVIOUS
  <2> QED BY <1>1, <1>2, <1>4, <1>9, <2>1 DEF LeaveFunction, Dropping
<1>10. CASE UninitialisedVariable \/ ReturnExpression
  <2>1. visited < Len(walk) /\ Event.item = "statement" /\ ~Passable(Event.stmt)
    BY <1>4, <1>10 DEF UninitialisedVariable, ReturnExpression, Passable
  <2> QED BY <2>1, SoundEvent
<1>11. CASE ReturnNothing
  <2>1. Event.item = "finish" /\ Event.stmt.kind = "return"
    BY <1>4, <1>11 DEF ReturnNothing
  <2> QED BY <1>1, <1>2, <1>11, <2>1 DEF ReturnNothing, Dropping
<1>12. CASE VisitNumber
  <2>1. Alone(visited + 1) BY <1>4, <1>12, SoundEvent DEF VisitNumber
  <2> QED BY <1>1, <1>2, <1>7, <1>12, <2>1 DEF VisitNumber, Proceed
<1>13. CASE GetTensor
  <2>1. visited < Len(walk) /\ Event.item = "literal" BY <1>4, <1>13 DEF GetTensor
  <2>2. NewValue # NULL
    <3>1. theModule # <<>> BY <2>1, InFunction
    <3> QED BY <3>1, NewValueIsSome
  <2>3. NULL \notin ToSet(results) BY <1>1, <2>1 DEF Dropping
  <2> QED BY <1>1, <1>2, <1>5, <1>7, <1>13, <2>2, <2>3 DEF GetTensor, Proceed
<1>14. CASE GetTensorUndefined
  <2>1. visited < Len(walk) /\ Event.item = "literal" /\ ~Readable(visited + 1)
    BY <1>4, <1>14 DEF GetTensorUndefined
  <2>2. /\ walk[visited + 1].rows # <<>> /\ Fresh(visited + 1)
        /\ Fills(Numbers(visited + 1), Dims(walk[visited + 1].rows))
    BY <2>1, SoundEvent DEF Event
  <2>3. visited + 1 \in DOMAIN data
    <3>1. visited + 1 \in 1 .. parsed /\ walk[visited + 1].item = "literal"
      BY <1>2, <1>7, <2>1, OnTheWay DEF Event
    <3> QED BY <3>1 DEF WayInv
  <2>4. data[visited + 1] = Numbers(visited + 1) BY <2>2, <2>3 DEF OwnDataIffFresh
  <2> QED BY <2>1, <2>2, <2>4 DEF Readable
<1>15. CASE VisitVariable
  <2>1. visited < Len(walk) /\ Event.item = "name" BY <1>4, <1>15 DEF VisitVariable
  <2>2. PICK before \in Finishes(Function(visited + 1)) :
          /\ before < visited + 1
          /\ walk[before].stmt.kind = "var" /\ walk[before].stmt.id = Event.id
    BY <2>1, SoundEvent DEF DeclaredAt
  <2>3. Function(visited + 1) = Len(theModule)
    BY <1>7, <2>1, FunctionGrows DEF Event, AccountInv
  <2>4. Here.place # "outside"
    <3>1. Here # Outside BY <2>1, NextSpot
    <3> QED BY <3>1, OnTheWay, SpotKinds
  <2>5. before <= visited
    <3>1. before \in Nat BY <2>2 DEF Finishes, Within, WayInv
    <3> QED BY <1>7, <2>2, <3>1
  <2>6. Event.id \in DOMAIN symbolTable BY <2>2, <2>3, <2>4, <2>5 DEF SoundInv
  <2>7. results' = Append(results, symbolTable[Event.id]) BY <1>15, <2>6 DEF VisitVariable
  <2>8. NULL \notin ToSet(results') BY <1>1, <1>5, <2>1, <2>6, <2>7 DEF Dropping
  <2> QED BY <1>1, <1>2, <1>7, <1>15, <2>8 DEF VisitVariable, Proceed
<1>16. CASE VisitCall
  <2>1. visited < Len(walk) /\ Event.item = "call" BY <1>4, <1>16 DEF VisitCall
  <2>2. NewValue # NULL
    <3>1. theModule # <<>> BY <2>1, InFunction
    <3> QED BY <3>1, NewValueIsSome
  <2>3. NULL \notin ToSet(results) BY <1>1, <2>1 DEF Dropping
  <2>4. NULL \notin ToSet(results') BY <1>6, <1>16, <2>1, <2>2, <2>3 DEF VisitCall
  <2> QED BY <1>1, <1>2, <1>7, <1>16, <2>4 DEF VisitCall, Proceed
<1>17. CASE VisitPrint
  <2>1. visited < Len(walk) /\ Event.item = "call" /\ Event.callee = "print"
    BY <1>4, <1>17 DEF VisitPrint
  <2>2. Alone(visited + 1) BY <2>1, SoundEvent
  <2>3. AloneInStatement
    <3>1. (visited + 1) + 1 = visited + 2 BY <1>7
    <3> QED BY <2>2, <3>1 DEF Alone, AloneInStatement
  <2> QED BY <1>1, <1>7, <1>17, <2>2, <2>3 DEF VisitPrint, Proceed
<1>18. CASE CallUndefined
  <2>1. visited < Len(walk) /\ Event.item = "call" /\ ~Callable
    BY <1>4, <1>18 DEF CallUndefined
  <2>2. NULL \notin ToSet(results) BY <1>1, <2>1 DEF Dropping
  <2>3. NULL \notin ToSet(Operands) BY <2>1, <2>2, TakenFromResults
  <2>4. Event.callee = "print" => Operands # <<>> BY <2>1, SoundEvent, TakenFromResults
  <2> QED BY <2>1, <2>3, <2>4 DEF Callable
<1>19. CASE VisitVarDecl \/ ReshapeUndefined
  <2>1. visited < Len(walk) /\ Event.item = "finish" /\ Event.stmt.kind = "var"
    BY <1>4, <1>19 DEF VisitVarDecl, ReshapeUndefined
  <2>2. NULL \notin ToSet(results) BY <1>1, <2>1 DEF Dropping
  <2>3. results # <<>> /\ Len(results) = 1 BY <2>1, AtFinish
  <2>4. Last(results) # NULL
    <3>1. Last(results) \in ToSet(results) BY <1>3, <2>3 DEF Last, ToSet
    <3> QED BY <2>2, <3>1
  <2>5. VisitVarDecl BY <1>19, <2>4 DEF ReshapeUndefined
  <2>6. NewValue # NULL
    <3>1. theModule # <<>> BY <2>1, InFunction
    <3> QED BY <3>1, NewValueIsSome
  <2>7. PICK value : value # NULL /\ Declare(Event.stmt.id, value)
    BY <2>4, <2>5, <2>6 DEF VisitVarDecl
  <2>8. \A id \in DOMAIN symbolTable' : symbolTable'[id] # NULL
    BY <1>1, <2>7 DEF Declare, With
  <2>9. NULL \notin ToSet(results')
    <3>1. results' = Front(results) BY <2>5 DEF VisitVarDecl
    <3>2. Front(results) \in Seq(Locals) /\ Len(Front(results)) = 0
      BY <1>3, <2>3, AllButLast
    <3>3. DOMAIN results' = {} BY <3>1, <3>2
    <3> QED BY <3>3 DEF ToSet
  <2> QED BY <1>2, <1>7, <2>5, <2>8, <2>9 DEF VisitVarDecl, Proceed
<1>20. CASE FinishExpression
  <2>1. visited < Len(walk) /\ Event.item = "finish" /\ Event.stmt.kind = "expression"
    BY <1>4, <1>20 DEF FinishExpression
  <2>2. results # <<>> /\ Len(results) = 1 BY <2>1, AtFinish
  <2>3. NULL \notin ToSet(results')
    <3>1. results' = Front(results) BY <1>20 DEF FinishExpression
    <3>2. Front(results) \in Seq(Locals) /\ Len(Front(results)) = 0
      BY <1>3, <2>2, AllButLast
    <3>3. DOMAIN results' = {} BY <3>1, <3>2
    <3> QED BY <3>3 DEF ToSet
  <2> QED BY <1>1, <1>2, <1>7, <1>20, <2>3 DEF FinishExpression, Proceed
<1>21. CASE VisitDone BY <1>1, <1>7, <1>21 DEF VisitDone
<1> QED BY <1>8, <1>9, <1>10, <1>11, <1>12, <1>13, <1>14, <1>15, <1>16, <1>17, <1>18, <1>19,
           <1>20, <1>21 DEF VisitorStep
-----------------------------------------------------------------------------
(* The names declared so far, past an event.                                *)
LEMMA DeclaredStep ==
  ASSUME AccountedInv, SoundInv, Sound, VisitorStep, Goes, Here'.place # "outside",
         NEW before \in Finishes(Len(theModule')), before <= visited + 1,
         walk[before].stmt.kind = "var"
  PROVE  walk[before].stmt.id \in DOMAIN symbolTable'
<1> USE DEF AccountedInv, ToyInv
<1>1. visited < Len(walk) /\ visited' = visited + 1 /\ visited \in Nat /\ Event \in Events
  BY NextSpot, OnTheWay DEF Goes
<1>2. /\ before \in DOMAIN walk /\ Function(before) = Len(theModule')
      /\ walk[before].item = "finish" /\ before \in Nat
  BY DEF Finishes, Within, WayInv
<1>3. Here' = Way[visited + 1]
  <2>1. walk' = walk BY VisitorMoves DEF parserVars
  <2> QED BY <1>1, <2>1, SameWay DEF Here
<1>4. Event.item # "leave"
  <2>1. Outside.place = "outside" BY DEF Outside, Spot
  <2> QED BY <1>1, <1>3, <2>1, NextSpot
<1>5. DOMAIN symbolTable \subseteq DOMAIN symbolTable' BY <1>4, FlagStep
<1>6. CASE before = visited + 1
  <2>1. Event = walk[before] BY <1>6 DEF Event
  <2> QED BY <1>2, <2>1, FlagStep
<1>7. CASE before # visited + 1
  <2>1. before \in 0 .. visited BY <1>1, <1>2, <1>7
  <2>2. Function(before) <= Len(theModule) BY <2>1 DEF AccountInv
  <2>3. Len(theModule) \in Nat BY DEF ModuleInv
  <2>4. Event.item # "enter" /\ Len(theModule') = Len(theModule)
    <3>1. Effect BY Effects
    <3>2. CASE Enters
      <4>1. Len(theModule') = Len(theModule) + 1
        BY <1>1, <3>2, EntersAppends DEF ModuleInv
      <4> QED BY <1>2, <2>2, <2>3, <4>1
    <3>3. CASE ~Acts /\ Event.item # "enter" /\ theModule' = theModule BY <3>3
    <3>4. CASE \E operation : Adds(operation)
      <4>1. PICK operation : Adds(operation) BY <3>4
      <4>2. /\ Event.item # "enter" /\ operation \in Instructions /\ theModule # <<>>
            /\ Create(operation) /\ theModule \in Seq(Bodies)
        BY <1>1, <4>1, ActsWhen DEF Adds, Builds, ModuleInv
      <4> QED BY <4>2, Built
    <3> QED BY <3>1, <3>2, <3>3, <3>4, Zenon DEF Effect
  <2>5. Here.place # "outside"
    <3>1. Here # Outside BY <1>1, <2>4, NextSpot
    <3> QED BY <3>1, OnTheWay, SpotKinds
  <2>6. before \in Finishes(Len(theModule)) BY <2>4
  <2>7. before <= visited BY <2>1
  <2>8. walk[before].stmt.id \in DOMAIN symbolTable BY <2>5, <2>6, <2>7 DEF SoundInv
  <2> QED BY <1>5, <2>8
<1> QED BY <1>6, <1>7

LEMMA SameSoundness ==
  ASSUME SoundInv, walk' = walk, visited' = visited, theModule' = theModule,
         results' = results, symbolTable' = symbolTable,
         Sound => pc' \in {"visiting", "done"}
  PROVE  SoundInv'
<1>1. Here' = Here BY SameWay DEF Here
<1>2. Sound' <=> Sound BY SameSound
<1>3. Dropping' <=> Dropping BY DEF Dropping, Event
<1>4. \A f : Finishes(f)' = Finishes(f) BY SamePlaces DEF Finishes, Within
<1>5. ToSet(results)' = ToSet(results) BY DEF ToSet
<1>6. Finishes(Len(theModule))' = Finishes(Len(theModule)) BY <1>4
<1> QED BY <1>1, <1>2, <1>3, <1>5, <1>6 DEF SoundInv

LEMMA SoundStep ==
  ASSUME AccountedInv, OwnDataIffFresh, SoundInv, [Next]_vars
  PROVE  SoundInv'
<1> USE DEF AccountedInv, ToyInv
<1>1. CASE (ParserNext \/ UNCHANGED parserVars) /\ UNCHANGED visitorVars
  <2>1. walk' = walk
    BY <1>1 DEF ParserNext, TensorLiteral, VarDecl, OtherRule, parserVars
  <2>2. /\ theModule' = theModule /\ visited' = visited /\ pc' = pc
        /\ results' = results /\ symbolTable' = symbolTable
    BY <1>1 DEF visitorVars
  <2>3. Sound => pc' \in {"visiting", "done"} BY <2>2 DEF SoundInv
  <2> QED BY <2>1, <2>2, <2>3, SameSoundness
<1>2. CASE VisitorStep /\ Ends
  <2>1. walk' = walk BY <1>2, VisitorMoves DEF parserVars
  <2>2. /\ theModule' = theModule /\ visited' = visited
        /\ results' = results /\ symbolTable' = symbolTable
    BY <1>2 DEF Ends
  <2>3. Sound => pc' \in {"visiting", "done"} BY <1>2, SoundValues
  <2> QED BY <2>1, <2>2, <2>3, SameSoundness
<1>3. CASE VisitorStep /\ Goes
  <2>1. walk' = walk BY <1>3, VisitorMoves DEF parserVars
  <2>2. visited' = visited + 1 BY <1>3 DEF Goes
  <2>3. Sound =>
        /\ pc' \in {"visiting", "done"}
        /\ \A id \in DOMAIN symbolTable' : symbolTable'[id] # NULL
        /\ NULL \in ToSet(results') => Alone(visited + 1)
    BY <1>3, <2>2, SoundValues
  <2>4. Alone(visited + 1) => Dropping' BY <2>1, <2>2 DEF Alone, Dropping, Event
  <2>5. \A f : Finishes(f)' = Finishes(f) BY <2>1, SamePlaces DEF Finishes, Within
  <2>6. Finishes(Len(theModule))' = Finishes(Len(theModule')) BY <2>5
  <2>7. ASSUME Sound, Here'.place # "outside", NEW before \in Finishes(Len(theModule')),
               before <= visited', walk'[before].stmt.kind = "var"
        PROVE  walk'[before].stmt.id \in DOMAIN symbolTable'
    BY <1>3, <2>1, <2>2, <2>7, DeclaredStep
  <2>8. Sound' <=> Sound BY <2>1, SameSound
  <2> QED BY <2>3, <2>4, <2>6, <2>7, <2>8 DEF SoundInv
<1>4. VisitorStep => Goes \/ Ends BY VisitorMoves
<1> QED BY <1>1, <1>2, <1>3, <1>4 DEF Next, vars

LEMMA SoundInit == Init => SoundInv
<1> SUFFICES ASSUME Init PROVE SoundInv OBVIOUS
<1>1. /\ theModule = <<>> /\ results = <<>> /\ symbolTable = <<>> /\ visited = 0
      /\ pc = "visiting"
  BY DEF Init
<1>2. Here.place = "outside"
  <2>1. Here = Outside BY <1>1, WayInit, OnTheWay DEF Here
  <2> QED BY <2>1 DEF Outside, Spot
<1>3. DOMAIN <<>> = {} /\ ToSet(<<>>) = {} BY DEF ToSet
<1> QED BY <1>1, <1>2, <1>3 DEF SoundInv

(* What the account and soundness say of the module at the end.             *)
LEMMA SoundlyCompiled ==
  ASSUME AccountedInv, SoundInv
  PROVE  SoundProgramsCompile
<1>1. pc \in {"thrown", "undefined"} => \E at \in DOMAIN walk : ~SoundAt(at)
  BY DEF SoundInv, Sound
<1>2. ASSUME pc = "done", NEW f \in DOMAIN theModule
      PROVE  Len(theModule[f].ops) =
               (IF ReturnsIn(f) = {} THEN 1 ELSE Cardinality(ReturnsIn(f)))
               + Cardinality(MakersIn(f)) + Cardinality(ShapersIn(f))
  <2>1. Account(f, theModule[f].ops) BY DEF AccountedInv, AccountInv
  <2>2. Left(f)
    <3>1. visited = Len(walk) /\ walk \in Seq(Events) BY <1>2 DEF AccountedInv, ToyInv, WayInv
    <3> QED BY <3>1 DEF Left, Within
  <2>3. /\ ~Open(f) /\ Behind(ReturnsIn(f), visited) = ReturnsIn(f)
        /\ Behind(MakersIn(f), visited) = MakersIn(f)
        /\ Behind(ShapersIn(f), visited) = ShapersIn(f)
    BY <2>2, LeftIsClosed
  <2>4. Cardinality({Len(theModule[f].ops)}) = 1 BY FS_Singleton
  <2> QED BY <2>1, <2>3, <2>4 DEF Account
<1>3. \A f : /\ MakersIn(f) = {at \in Within(f) : walk[at].item \in {"literal", "call"}}
             /\ ShapersIn(f) = {at \in Finishes(f) : walk[at].stmt.kind = "var"
                                                       /\ walk[at].stmt.shaped}
  BY DEF MakersIn, ShapersIn, Makes, Shapes, Finishes
<1> QED BY <1>1, <1>2, <1>3 DEF SoundProgramsCompile

(* SoundProgramsCompile: a program in which names are declared before they  *)
(* are read, and declarations, returns, print, numbers and literals are     *)
(* used as the visitor needs them, neither throws nor meets undefined       *)
(* behaviour; and the module of a finished visit has one operation for      *)
(* every literal, call, shape and return, and the returns added.            *)
THEOREM SoundProgramsAreCompiled == Spec => []SoundProgramsCompile
<1>1. Init => SoundInv BY SoundInit
<1>2. AccountedInv /\ OwnDataIffFresh /\ SoundInv /\ [Next]_vars => SoundInv'
  BY SoundStep
<1>3. AccountedInv /\ SoundInv => SoundProgramsCompile BY SoundlyCompiled
<1> QED BY <1>1, <1>2, <1>3, AccountedIsInv, OwnData, PTL DEF Spec

-----------------------------------------------------------------------------
(* The driver.  Main parses and visits, so what holds of the executions of  *)
(* ToyVisitor holds of the driver's.                                        *)
LEMMA DriverMoves ==
  ASSUME [DriverNext]_mainVars
  PROVE  (Parse \/ Visit \/ UNCHANGED vars) /\ [Next]_vars
<1>1. Parse => [Next]_vars BY DEF Parse, Next
<1>2. Visit => [Next]_vars BY DEF Visit, Next
<1>3. Parse \/ Visit \/ UNCHANGED vars
  BY DEF DriverNext, ReadEmit, DumpAST, LoadMLIR, VisitFails, BuildPipeline, RunPass,
         PassFails, DumpModule, DumpLLVMIR, RunJIT, Ended, mainVars
<1> QED BY <1>1, <1>2, <1>3

(* Whatever holds of Spec holds of the whole compiler.                      *)
THEOREM DriverRunsVisitor == DriverSpec => Spec
<1>1. DriverInit => Init BY DEF DriverInit
<1>2. [DriverNext]_mainVars => [Next]_vars BY DriverMoves
<1> QED BY <1>1, <1>2, PTL DEF DriverSpec, Spec

(* What is left of the pipeline fits the module as it is: each pass finds   *)
(* its kind of function once the passes before it have run, all that it     *)
(* needs has run or is before it, and the last lowering is the last pass.   *)
PassNames == {"inliner", "canonicalizer", "shape inference", "CSE", "lower to affine",
              "loop fusion", "affine scalar replacement", "lower to LLVM"}
PassRecords == [pass : PassNames, on : {"module", "toy", "func"}]
Names(passes) == {passes[i].pass : i \in DOMAIN passes}
KindAfter(names, kind) == IF "lower to affine" \in names THEN "func" ELSE kind
Earlier(passes, i) == {passes[j].pass : j \in 1 .. i - 1}
Fit(passes, done, kind) ==
  \A i \in DOMAIN passes :
    /\ passes[i].on \in {"module", KindAfter(Earlier(passes, i), kind)}
    /\ Before(passes[i].pass) \subseteq done \cup Earlier(passes, i)
    /\ passes[i].pass = "lower to LLVM" => i = Len(passes)

(* The kind of function that an action asks for, and how it comes about.    *)
Target(action) == IF LoweringToLLVM(action) THEN "llvm"
                  ELSE IF LoweringToAffine(action) THEN "func" ELSE "toy"
Lowering(action) == IF LoweringToLLVM(action) THEN "lower to LLVM" ELSE "lower to affine"
PipelineLeads ==
  /\ functions = Target(emitAction) \/ Lowering(emitAction) \in Names(pipeline)
  /\ "lower to LLVM" \in Names(pipeline) => LoweringToLLVM(emitAction)
  /\ "lower to affine" \in Names(pipeline) => LoweringToAffine(emitAction)
  /\ functions = "llvm" => pipeline = <<>>
  /\ ~enableOpt /\ ~LoweringToAffine(emitAction) => pipeline = <<>> /\ ran = {}

CompilerInv ==
  /\ stage \in {"parsing", "dumpAST", "loading", "visiting"} =>
       pipeline = <<>> /\ ran = {} /\ functions = "toy"
  /\ stage \in {"parsing", "dumpAST", "loading", "visiting", "passes"} =>
       output = "nothing" /\ code = 0
  /\ stage = "dumpAST" => emitAction = "DumpAST"
  /\ stage \in {"loading", "visiting", "passes"} =>
       emitAction \in DOMAIN Action \ {"DumpAST"}
  /\ stage = "passes" =>
       /\ pc = "done" /\ pipeline \in Seq(PassRecords)
       /\ functions \in {"toy", "func", "llvm"}
       /\ Fit(pipeline, ran, functions) /\ PipelineLeads
  /\ OutputAsNamed

(* Two pipelines in a row.                                                  *)
LEMMA Places ==
  ASSUME NEW a \in Seq(PassRecords), NEW b \in Seq(PassRecords)
  PROVE  \E n, m \in Nat :
           /\ DOMAIN a = 1 .. n /\ DOMAIN b = 1 .. m /\ Len(b) = m
           /\ DOMAIN (a \o b) = 1 .. n + m /\ Len(a \o b) = n + m
           /\ \A p \in 1 .. n + m : (a \o b)[p] = IF p <= n THEN a[p] ELSE b[p - n]
<1>1. /\ a \o b \in Seq(PassRecords) /\ Len(a) \in Nat /\ Len(b) \in Nat
      /\ DOMAIN (a \o b) = 1 .. Len(a) + Len(b)
      /\ DOMAIN a = 1 .. Len(a) /\ DOMAIN b = 1 .. Len(b)
      /\ \A p \in 1 .. Len(a) + Len(b) :
           (a \o b)[p] = IF p <= Len(a) THEN a[p] ELSE b[p - Len(a)]
  BY Concatenated
<1>2. Len(a \o b) = Len(a) + Len(b) BY Concatenated
<1> QED BY <1>1, <1>2, Zenon

LEMMA Joined ==
  ASSUME NEW a \in Seq(PassRecords), NEW b \in Seq(PassRecords)
  PROVE  a \o b \in Seq(PassRecords) /\ Names(a \o b) = Names(a) \cup Names(b)
<1>1. /\ a \o b \in Seq(PassRecords) /\ Len(a) \in Nat /\ Len(b) \in Nat
      /\ DOMAIN (a \o b) = 1 .. Len(a) + Len(b)
      /\ DOMAIN a = 1 .. Len(a) /\ DOMAIN b = 1 .. Len(b)
      /\ \A p \in 1 .. Len(a) + Len(b) :
           (a \o b)[p] = IF p <= Len(a) THEN a[p] ELSE b[p - Len(a)]
  BY Concatenated
<1> DEFINE c == a \o b
<1>2. \A i \in DOMAIN a : i \in DOMAIN c /\ c[i] = a[i] BY <1>1
<1>3. \A i \in DOMAIN b : Len(a) + i \in DOMAIN c /\ c[Len(a) + i] = b[i]
  <2> SUFFICES ASSUME NEW i \in DOMAIN b
               PROVE  Len(a) + i \in DOMAIN c /\ c[Len(a) + i] = b[i]
    OBVIOUS
  <2>1. Len(a) + i \in 1 .. Len(a) + Len(b) /\ ~(Len(a) + i <= Len(a))
        /\ (Len(a) + i) - Len(a) = i
    BY <1>1
  <2> QED BY <1>1, <2>1
<1>4. \A p \in DOMAIN c : (p \in DOMAIN a /\ c[p] = a[p])
                          \/ (p - Len(a) \in DOMAIN b /\ c[p] = b[p - Len(a)])
  BY <1>1
<1> HIDE DEF c
<1>5. Names(c) \subseteq Names(a) \cup Names(b) BY <1>4 DEF Names
<1>6. Names(a) \subseteq Names(c) /\ Names(b) \subseteq Names(c) BY <1>2, <1>3 DEF Names
<1> QED BY <1>1, <1>5, <1>6 DEF c

(* Where the place i of two sequences in a row comes from.                  *)
ComesFrom(a, b, c, n, m, i) ==
  /\ i <= n => i \in 1 .. n /\ c[i] = a[i] /\ \A j \in 1 .. i - 1 : c[j] = a[j]
  /\ ~(i <= n) =>
       /\ i - n \in 1 .. m /\ c[i] = b[i - n] /\ (i - n = m => i = n + m)
       /\ \A j \in 1 .. n : j \in 1 .. i - 1 /\ c[j] = a[j]
       /\ \A j \in 1 .. i - n - 1 : n + j \in 1 .. i - 1 /\ c[n + j] = b[j]
       /\ \A p \in 1 .. i - 1 : \/ p \in 1 .. n /\ c[p] = a[p]
                                \/ p - n \in 1 .. i - n - 1 /\ c[p] = b[p - n]

LEMMA Positions ==
  ASSUME NEW n \in Nat, NEW m \in Nat, NEW a, NEW b, NEW c,
         \A p \in 1 .. n + m : c[p] = IF p <= n THEN a[p] ELSE b[p - n]
  PROVE  \A i \in 1 .. n + m : ComesFrom(a, b, c, n, m, i)
<1> SUFFICES ASSUME NEW i \in 1 .. n + m PROVE ComesFrom(a, b, c, n, m, i) OBVIOUS
<1> USE DEF ComesFrom
<1>1. CASE i <= n
  <2>1. i \in 1 .. n /\ \A j \in 1 .. i - 1 : j \in 1 .. n + m /\ j <= n BY <1>1
  <2> QED BY <1>1, <2>1
<1>2. CASE ~(i <= n)
  <2>1. i - n \in 1 .. m /\ (i - n = m <=> i = n + m) BY <1>2
  <2>2. \A j \in 1 .. n : j \in 1 .. i - 1 /\ j \in 1 .. n + m /\ j <= n BY <1>2
  <2>3. \A j \in 1 .. i - n - 1 : /\ n + j \in 1 .. i - 1 /\ n + j \in 1 .. n + m
                                  /\ ~(n + j <= n) /\ (n + j) - n = j
    BY <1>2
  <2>4. \A p \in 1 .. i - 1 : /\ p \in 1 .. n + m
                              /\ IF p <= n THEN p \in 1 .. n ELSE p - n \in 1 .. i - n - 1
    BY <1>2
  <2>5. \A j \in 1 .. n : c[j] = a[j] BY <2>2
  <2>6. \A j \in 1 .. i - n - 1 : c[n + j] = b[j] BY <2>3
  <2>7. \A p \in 1 .. i - 1 : \/ p \in 1 .. n /\ c[p] = a[p]
                              \/ p - n \in 1 .. i - n - 1 /\ c[p] = b[p - n]
    BY <2>4
  <2> QED BY <1>2, <2>1, <2>2, <2>3, <2>5, <2>6, <2>7
<1> QED BY <1>1, <1>2

LEMMA FitTogether ==
  ASSUME NEW a \in Seq(PassRecords), NEW b \in Seq(PassRecords), NEW done, NEW kind,
         Fit(a, done, kind), "lower to LLVM" \notin Names(a),
         Fit(b, done \cup Names(a), KindAfter(Names(a), kind))
  PROVE  Fit(a \o b, done, kind)
<1> DEFINE c == a \o b
<1>1. PICK n, m \in Nat :
        /\ DOMAIN a = 1 .. n /\ DOMAIN b = 1 .. m /\ Len(b) = m
        /\ DOMAIN c = 1 .. n + m /\ Len(c) = n + m
        /\ \A p \in 1 .. n + m : c[p] = IF p <= n THEN a[p] ELSE b[p - n]
  BY Places
<1>2. Fit(c, done, kind) <=>
        \A i \in DOMAIN c :
          /\ c[i].on \in {"module", KindAfter(Earlier(c, i), kind)}
          /\ Before(c[i].pass) \subseteq done \cup Earlier(c, i)
          /\ c[i].pass = "lower to LLVM" => i = Len(c)
  BY DEF Fit
<1>3. /\ \A k \in DOMAIN b :
           /\ b[k].on \in {"module", KindAfter(Earlier(b, k), KindAfter(Names(a), kind))}
           /\ Before(b[k].pass) \subseteq (done \cup Names(a)) \cup Earlier(b, k)
           /\ b[k].pass = "lower to LLVM" => k = m
      /\ \A k \in DOMAIN a :
           /\ a[k].on \in {"module", KindAfter(Earlier(a, k), kind)}
           /\ Before(a[k].pass) \subseteq done \cup Earlier(a, k)
  BY <1>1 DEF Fit
<1> HIDE DEF c
<1>a. \A i \in 1 .. n + m : ComesFrom(a, b, c, n, m, i) BY <1>1, Positions
<1>4. ASSUME NEW i \in DOMAIN c
      PROVE  /\ c[i].on \in {"module", KindAfter(Earlier(c, i), kind)}
             /\ Before(c[i].pass) \subseteq done \cup Earlier(c, i)
             /\ c[i].pass = "lower to LLVM" => i = Len(c)
  <2>1. i \in 1 .. n + m BY <1>1, <1>4
  <2>2. CASE i <= n
    <3>1. i \in DOMAIN a /\ c[i] = a[i] /\ \A j \in 1 .. i - 1 : c[j] = a[j]
      BY <1>1, <1>a, <2>1, <2>2 DEF ComesFrom
    <3>2. Earlier(c, i) = Earlier(a, i) BY <3>1 DEF Earlier
    <3>3. c[i].pass # "lower to LLVM" BY <3>1 DEF Names
    <3> QED BY <1>3, <3>1, <3>2, <3>3
  <2>3. CASE ~(i <= n)
    <3> DEFINE k == i - n
    <3>1. /\ k \in DOMAIN b /\ c[i] = b[k] /\ (k = m => i = n + m)
          /\ \A j \in DOMAIN a : j \in 1 .. i - 1 /\ c[j] = a[j]
          /\ \A j \in 1 .. k - 1 : n + j \in 1 .. i - 1 /\ c[n + j] = b[j]
          /\ \A p \in 1 .. i - 1 : \/ p \in DOMAIN a /\ c[p] = a[p]
                                   \/ p - n \in 1 .. k - 1 /\ c[p] = b[p - n]
      BY <1>1, <1>a, <2>1, <2>3 DEF ComesFrom
    <3> HIDE DEF k
    <3>2. Earlier(c, i) \subseteq Names(a) \cup Earlier(b, k)
      <4>1. ASSUME NEW p \in 1 .. i - 1 PROVE c[p].pass \in Names(a) \cup Earlier(b, k)
        BY <3>1, Zenon DEF Earlier, Names
      <4> QED BY <4>1 DEF Earlier
    <3>3. Names(a) \subseteq Earlier(c, i) /\ Earlier(b, k) \subseteq Earlier(c, i)
      <4>1. \A j \in DOMAIN a : a[j].pass \in Earlier(c, i) BY <3>1, Zenon DEF Earlier
      <4>2. \A j \in 1 .. k - 1 : b[j].pass \in Earlier(c, i) BY <3>1, Zenon DEF Earlier
      <4> QED BY <4>1, <4>2 DEF Earlier, Names
    <3>4. Earlier(c, i) = Names(a) \cup Earlier(b, k) BY <3>2, <3>3
    <3>5. KindAfter(Earlier(c, i), kind)
            = KindAfter(Earlier(b, k), KindAfter(Names(a), kind))
      BY <3>4 DEF KindAfter
    <3> QED BY <1>1, <1>3, <3>1, <3>4, <3>5
  <2> QED BY <2>2, <2>3
<1> QED BY <1>2, <1>4 DEF c

(* Each group of passes fits the module that the groups before it leave.    *)
LEMMA Single ==
  ASSUME NEW name \in PassNames, NEW done, NEW kind, Before(name) \subseteq done
  PROVE  /\ OnModule(name) \in Seq(PassRecords) /\ Names(OnModule(name)) = {name}
         /\ Fit(OnModule(name), done, kind)
<1> DEFINE pass == [pass |-> name, on |-> "module"]
<1>1. pass \in PassRecords BY DEF PassRecords
<1>2. OnModule(name) = <<pass>> BY DEF OnModule
<1>3. /\ <<pass>> \in Seq(PassRecords) /\ DOMAIN <<pass>> = {1} /\ <<pass>>[1] = pass
      /\ Len(<<pass>>) = 1
  BY <1>1
<1>4. pass.pass = name /\ pass.on = "module" OBVIOUS
<1> DEFINE passes == <<pass>>
<1> HIDE DEF pass, passes
<1>5. /\ passes \in Seq(PassRecords) /\ DOMAIN passes = {1} /\ passes[1] = pass
      /\ Len(passes) = 1
  BY <1>3 DEF passes
<1>6. Names(passes) = {name} BY <1>4, <1>5 DEF Names
<1>7. Fit(passes, done, kind) BY <1>4, <1>5 DEF Fit
<1> QED BY <1>2, <1>5, <1>6, <1>7 DEF passes

LEMMA Indices ==
  /\ \A size \in Nat : \A i \in 1 .. size : \A j \in 1 .. i - 1 : j \in 1 .. size
  /\ 1 .. 2 = {1, 2} /\ 1 .. 4 = {1, 2, 3, 4} /\ 1 \in 1 .. 2 - 1
OBVIOUS

LEMMA PassFields ==
  \A name, kind : /\ [pass |-> name, on |-> kind].pass = name
                  /\ [pass |-> name, on |-> kind].on = kind
OBVIOUS

(* No lowering, and each pass after what it needs.                          *)
InOrder(names, size, done) ==
  \A i \in 1 .. size :
    /\ names[i] \in PassNames \ {"lower to affine", "lower to LLVM"}
    /\ Before(names[i]) \subseteq done \cup {names[j] : j \in 1 .. i - 1}

LEMMA Nested ==
  ASSUME NEW kind \in {"toy", "func"}, NEW size \in Nat, NEW names, NEW done,
         DOMAIN names = 1 .. size, InOrder(names, size, done)
  PROVE  /\ Passes(kind, names) \in Seq(PassRecords)
         /\ Names(Passes(kind, names)) = {names[i] : i \in 1 .. size}
         /\ Fit(Passes(kind, names), done, kind)
<1> DEFINE passes == Passes(kind, names)
<1>a. \A i \in 1 .. size :
        /\ names[i] \in PassNames \ {"lower to affine", "lower to LLVM"}
        /\ Before(names[i]) \subseteq done \cup {names[j] : j \in 1 .. i - 1}
  BY DEF InOrder
<1>1. passes = [i \in 1 .. size |-> [pass |-> names[i], on |-> kind]] BY DEF Passes
<1> HIDE DEF passes
<1>2. DOMAIN passes = 1 .. size
      /\ \A i \in 1 .. size : passes[i] = [pass |-> names[i], on |-> kind]
  BY <1>1
<1>3. passes \in Seq(PassRecords)
  <2>1. \A i \in 1 .. size : [pass |-> names[i], on |-> kind] \in PassRecords
    BY <1>a DEF PassRecords
  <2>2. passes \in [1 .. size -> PassRecords] BY <1>1, <2>1
  <2> QED BY <2>2, SeqDef
<1>4. \A i \in 1 .. size : passes[i].pass = names[i] /\ passes[i].on = kind
  <2> TAKE i \in 1 .. size
  <2> DEFINE pass == [pass |-> names[i], on |-> kind]
  <2>1. pass.pass = names[i] /\ pass.on = kind BY PassFields, Zenon
  <2>2. passes[i] = pass BY <1>2, Zenon
  <2> HIDE DEF pass
  <2> QED BY <2>1, <2>2, Zenon
<1>5. Names(passes) = {names[i] : i \in 1 .. size}
  <2>1. {passes[i].pass : i \in 1 .. size} = {names[i] : i \in 1 .. size} BY <1>4, Zenon
  <2> QED BY <1>2, <2>1, Zenon DEF Names
<1>6. ASSUME NEW i \in 1 .. size
      PROVE  Earlier(passes, i) = {names[j] : j \in 1 .. i - 1}
  <2>1. \A j \in 1 .. i - 1 : j \in 1 .. size BY Indices, Zenon
  <2>2. \A j \in 1 .. i - 1 : passes[j].pass = names[j] BY <1>4, <2>1, Zenon
  <2> QED BY <2>2, Zenon DEF Earlier
<1>7. ASSUME NEW i \in 1 .. size
      PROVE  /\ passes[i].on \in {"module", KindAfter(Earlier(passes, i), kind)}
             /\ Before(passes[i].pass) \subseteq done \cup Earlier(passes, i)
             /\ passes[i].pass # "lower to LLVM"
  <2>1. "lower to affine" \notin Earlier(passes, i)
    <3>1. \A j \in 1 .. i - 1 : j \in 1 .. size BY Indices, Zenon
    <3>2. \A j \in 1 .. i - 1 : names[j] # "lower to affine" BY <1>a, <3>1
    <3> QED BY <1>6, <3>2
  <2>2. KindAfter(Earlier(passes, i), kind) = kind BY <2>1 DEF KindAfter
  <2> QED BY <1>a, <1>4, <1>6, <2>2
<1>8. Fit(passes, done, kind) BY <1>2, <1>7 DEF Fit
<1> QED BY <1>3, <1>5, <1>8 DEF passes

(* What a pass needs that is not a lowering.                                *)
LEMMA Needs ==
  /\ \A name \in {"inliner", "canonicalizer", "CSE", "loop fusion",
                  "affine scalar replacement"} : Before(name) = {}
  /\ Before("shape inference") = {"inliner", "canonicalizer"}
BY DEF Before

FirstNames == {"inliner", "canonicalizer", "shape inference", "CSE"}
LEMMA OptimisedFits ==
  /\ Optimised \in Seq(PassRecords) /\ Names(Optimised) = FirstNames
  /\ Fit(Optimised, {}, "toy")
<1> DEFINE first == OnModule("inliner")
           names == <<"canonicalizer", "shape inference", "canonicalizer", "CSE">>
           rest == Passes("toy", names)
<1>1. /\ first \in Seq(PassRecords) /\ Names(first) = {"inliner"} /\ Fit(first, {}, "toy")
  <2>1. "inliner" \in PassNames /\ Before("inliner") \subseteq {} BY DEF PassNames, Before
  <2> QED BY <2>1, Single
<1>2. /\ DOMAIN names = 1 .. 4
      /\ names[1] = "canonicalizer" /\ names[2] = "shape inference"
      /\ names[3] = "canonicalizer" /\ names[4] = "CSE"
  BY DEF PassNames
<1> HIDE DEF names
<1>3. /\ rest \in Seq(PassRecords)
      /\ Names(rest) = {"canonicalizer", "shape inference", "CSE"}
      /\ Fit(rest, {"inliner"}, "toy")
  <2>1. InOrder(names, 4, {"inliner"})
    <3>1. \A i \in 1 .. 4 : i \in {1, 2, 3, 4} BY <1>2, Indices, Zenon
    <3>2. \A i \in {1, 3, 4} : Before(names[i]) = {} BY <1>2, Needs
    <3>3. 1 \in 1 .. 2 - 1 /\ Before(names[2]) = {"inliner", names[1]}
      BY <1>2, Needs, Indices, Zenon
    <3>4. \A i \in {1, 2, 3, 4} :
            names[i] \in PassNames \ {"lower to affine", "lower to LLVM"}
      BY <1>2 DEF PassNames
    <3>5. \A i \in 1 .. 4 :
            Before(names[i]) \subseteq {"inliner"} \cup {names[j] : j \in 1 .. i - 1}
      BY <3>1, <3>2, <3>3, Indices
    <3> QED BY <3>1, <3>4, <3>5, Indices, Zenon DEF InOrder
  <2>2. {names[i] : i \in 1 .. 4} = {"canonicalizer", "shape inference", "CSE"}
    <3>1. {names[i] : i \in 1 .. 4} = {names[i] : i \in {1, 2, 3, 4}} BY Indices
    <3> QED BY <1>2, <3>1
  <2>3. 4 \in Nat /\ "toy" \in {"toy", "func"} OBVIOUS
  <2> QED BY <1>2, <2>1, <2>2, <2>3, Nested
<1>4. Optimised = first \o rest BY DEF Optimised, names
<1> HIDE DEF first, rest
<1>5. KindAfter(Names(first), "toy") = "toy" /\ "lower to LLVM" \notin Names(first)
      /\ {} \cup Names(first) = {"inliner"}
  BY <1>1 DEF KindAfter
<1>6. Fit(Optimised, {}, "toy") BY <1>1, <1>3, <1>4, <1>5, FitTogether
<1>7. Names(first) \cup Names(rest) = FirstNames BY <1>1, <1>3 DEF FirstNames
<1> QED BY <1>1, <1>3, <1>4, <1>6, <1>7, Joined

SecondNames == {"lower to affine", "canonicalizer", "CSE"}
LEMMA LoweredFits ==
  /\ Lowered \in Seq(PassRecords) /\ Names(Lowered) = SecondNames
  /\ Fit(Lowered, FirstNames, "toy")
<1> DEFINE first == OnModule("lower to affine")
           names == <<"canonicalizer", "CSE">>
           rest == Passes("func", names)
<1>1. /\ first \in Seq(PassRecords) /\ Names(first) = {"lower to affine"}
      /\ Fit(first, FirstNames, "toy")
  <2>1. "lower to affine" \in PassNames /\ Before("lower to affine") \subseteq FirstNames
    BY DEF PassNames, Before, FirstNames
  <2> QED BY <2>1, Single
<1>2. /\ DOMAIN names = 1 .. 2
      /\ names[1] = "canonicalizer" /\ names[2] = "CSE"
  BY DEF PassNames
<1> HIDE DEF names
<1>3. /\ rest \in Seq(PassRecords) /\ Names(rest) = {"canonicalizer", "CSE"}
      /\ Fit(rest, FirstNames \cup {"lower to affine"}, "func")
  <2>1. InOrder(names, 2, FirstNames \cup {"lower to affine"})
    <3>1. /\ names[1] \in PassNames \ {"lower to affine", "lower to LLVM"}
          /\ names[2] \in PassNames \ {"lower to affine", "lower to LLVM"}
          /\ Before(names[1]) = {} /\ Before(names[2]) = {}
      BY <1>2, Needs DEF PassNames
    <3>2. \A i \in 1 .. 2 : i \in {1, 2} BY Indices
    <3> QED BY <3>1, <3>2 DEF InOrder
  <2>2. {names[i] : i \in 1 .. 2} = {"canonicalizer", "CSE"}
    <3>1. {names[i] : i \in 1 .. 2} = {names[i] : i \in {1, 2}} BY Indices
    <3> QED BY <1>2, <3>1
  <2>3. 2 \in Nat /\ "func" \in {"toy", "func"} OBVIOUS
  <2> QED BY <1>2, <2>1, <2>2, <2>3, Nested
<1>4. Lowered = first \o rest BY DEF Lowered, names
<1> HIDE DEF first, rest
<1>5. KindAfter(Names(first), "toy") = "func" /\ "lower to LLVM" \notin Names(first)
  BY <1>1 DEF KindAfter
<1>6. Fit(Lowered, FirstNames, "toy") BY <1>1, <1>3, <1>4, <1>5, FitTogether
<1>7. Names(first) \cup Names(rest) = SecondNames BY <1>1, <1>3 DEF SecondNames
<1> QED BY <1>1, <1>3, <1>4, <1>6, <1>7, Joined

LEMMA FusedFits ==
  ASSUME NEW done
  PROVE  /\ Fused \in Seq(PassRecords) /\ Fit(Fused, done, "func")
         /\ Names(Fused) = {"loop fusion", "affine scalar replacement"}
<1> DEFINE names == <<"loop fusion", "affine scalar replacement">>
<1>1. /\ DOMAIN names = 1 .. 2
      /\ names[1] = "loop fusion" /\ names[2] = "affine scalar replacement"
  BY DEF PassNames
<1>2. Fused = Passes("func", names) BY DEF Fused
<1> HIDE DEF names
<1>3. InOrder(names, 2, done)
  <2>1. /\ names[1] \in PassNames \ {"lower to affine", "lower to LLVM"}
        /\ names[2] \in PassNames \ {"lower to affine", "lower to LLVM"}
        /\ Before(names[1]) = {} /\ Before(names[2]) = {}
    BY <1>1, Needs DEF PassNames
  <2>2. \A i \in 1 .. 2 : i \in {1, 2} BY Indices
  <2> QED BY <2>1, <2>2 DEF InOrder
<1>4. {names[i] : i \in 1 .. 2} = {"loop fusion", "affine scalar replacement"}
  <2>1. {names[i] : i \in 1 .. 2} = {names[i] : i \in {1, 2}} BY Indices
  <2> QED BY <1>1, <2>1
<1>5. 2 \in Nat /\ "func" \in {"toy", "func"} OBVIOUS
<1> QED BY <1>1, <1>2, <1>3, <1>4, <1>5, Nested

LEMMA NoPasses ==
  ASSUME NEW done, NEW kind
  PROVE  <<>> \in Seq(PassRecords) /\ Names(<<>>) = {} /\ Fit(<<>>, done, kind)
BY DEF Names, Fit

(* The pipeline as main builds it.                                          *)
LEMMA PipelineBuilt ==
  ASSUME NEW action \in DOMAIN Action \ {"DumpAST"}, NEW opt \in BOOLEAN
  PROVE  LET passes == Pipeline(action, opt)
         IN  /\ passes \in Seq(PassRecords) /\ Fit(passes, {}, "toy")
             /\ "lower to affine" \in Names(passes) <=> LoweringToAffine(action)
             /\ "lower to LLVM" \in Names(passes) <=> LoweringToLLVM(action)
             /\ ~opt /\ ~LoweringToAffine(action) => passes = <<>>
<1> DEFINE affine == LoweringToAffine(action)
           llvm == LoweringToLLVM(action)
           a == When(opt \/ affine, Optimised)
           b == When(affine, Lowered)
           c == When(affine /\ opt, Fused)
           d == When(llvm, OnModule("lower to LLVM"))
<1>1. llvm => affine
  BY DEF Action, LoweringToAffine, LoweringToLLVM, AtLeast
<1>2. Pipeline(action, opt) = ((a \o b) \o c) \o d BY DEF Pipeline
<1>3. /\ a \in Seq(PassRecords) /\ Fit(a, {}, "toy")
      /\ Names(a) = IF opt \/ affine THEN FirstNames ELSE {}
  BY OptimisedFits, NoPasses DEF When
<1>4. /\ b \in Seq(PassRecords) /\ Names(b) = IF affine THEN SecondNames ELSE {}
      /\ Fit(b, Names(a), "toy")
  <2>1. CASE affine BY <1>3, <2>1, LoweredFits DEF When
  <2>2. CASE ~affine BY <2>2, NoPasses DEF When
  <2> QED BY <2>1, <2>2
<1> DEFINE ab == a \o b
<1>5. /\ ab \in Seq(PassRecords) /\ Names(ab) = Names(a) \cup Names(b)
      /\ Fit(ab, {}, "toy")
  <2>1. /\ KindAfter(Names(a), "toy") = "toy" /\ "lower to LLVM" \notin Names(a)
        /\ {} \cup Names(a) = Names(a)
    <3>1. "lower to affine" \notin FirstNames /\ "lower to LLVM" \notin FirstNames
      BY DEF FirstNames
    <3> HIDE DEF a
    <3>2. "lower to affine" \notin Names(a) /\ "lower to LLVM" \notin Names(a)
      BY <1>3, <3>1
    <3> QED BY <3>2 DEF KindAfter
  <2> HIDE DEF a, b
  <2> QED BY <1>3, <1>4, <2>1, Joined, FitTogether
<1>6. /\ c \in Seq(PassRecords) /\ Fit(c, Names(ab), KindAfter(Names(ab), "toy"))
      /\ "lower to LLVM" \notin Names(c) /\ "lower to affine" \notin Names(c)
  <2>1. affine => KindAfter(Names(ab), "toy") = "func"
    BY <1>4, <1>5 DEF SecondNames, KindAfter
  <2>2. CASE affine /\ opt BY <2>1, <2>2, FusedFits DEF When
  <2>3. CASE ~(affine /\ opt) BY <2>3, NoPasses DEF When
  <2> QED BY <2>2, <2>3
<1>7. /\ "lower to LLVM" \notin Names(ab) /\ ("lower to affine" \in Names(ab) <=> affine)
      /\ affine => {"lower to affine", "CSE"} \subseteq Names(ab)
  <2>1. "lower to affine" \notin FirstNames /\ "lower to LLVM" \notin FirstNames
    BY DEF FirstNames
  <2>2. /\ "lower to LLVM" \notin SecondNames
        /\ {"lower to affine", "CSE"} \subseteq SecondNames
    BY DEF SecondNames
  <2> HIDE DEF a, b, ab, affine
  <2>3. CASE affine BY <1>3, <1>4, <1>5, <2>1, <2>2, <2>3
  <2>4. CASE ~affine BY <1>3, <1>4, <1>5, <2>1, <2>4
  <2> QED BY <2>3, <2>4
<1> DEFINE abc == ab \o c
<1>8. /\ abc \in Seq(PassRecords) /\ Names(abc) = Names(ab) \cup Names(c)
      /\ Fit(abc, {}, "toy")
  <2>1. {} \cup Names(ab) = Names(ab) OBVIOUS
  <2> HIDE DEF ab, c
  <2> QED BY <1>5, <1>6, <1>7, <2>1, Joined, FitTogether
<1>9. /\ d \in Seq(PassRecords) /\ Fit(d, Names(abc), KindAfter(Names(abc), "toy"))
      /\ Names(d) = IF llvm THEN {"lower to LLVM"} ELSE {}
  <2>1. CASE llvm
    <3>1. "lower to LLVM" \in PassNames /\ Before("lower to LLVM") \subseteq Names(abc)
      <4>1. Before("lower to LLVM") = {"lower to affine", "CSE"} BY DEF Before
      <4>2. "lower to LLVM" \in PassNames BY DEF PassNames
      <4> HIDE DEF abc, ab
      <4> QED BY <1>1, <1>7, <1>8, <2>1, <4>1, <4>2
    <3> HIDE DEF abc
    <3> QED BY <2>1, <3>1, Single DEF When
  <2>2. CASE ~llvm BY <2>2, NoPasses DEF When
  <2> QED BY <2>1, <2>2
<1> DEFINE abcd == abc \o d
<1>10. /\ abcd \in Seq(PassRecords) /\ Names(abcd) = Names(abc) \cup Names(d)
       /\ Fit(abcd, {}, "toy")
  <2>1. {} \cup Names(abc) = Names(abc) OBVIOUS
  <2>2. "lower to LLVM" \notin Names(abc)
    <3> HIDE DEF abc, ab, c
    <3> QED BY <1>6, <1>7, <1>8
  <2> HIDE DEF abc, d
  <2> QED BY <1>8, <1>9, <2>1, <2>2, Joined, FitTogether
<1>11. ~opt /\ ~affine => abcd = <<>>
  <2> SUFFICES ASSUME ~opt, ~affine PROVE abcd = <<>> OBVIOUS
  <2>1. a = <<>> /\ b = <<>> /\ c = <<>> /\ d = <<>> BY <1>1 DEF When
  <2>2. <<>> \o <<>> = <<>> OBVIOUS
  <2> HIDE DEF a, b, c, d
  <2> QED BY <2>1, <2>2
<1>12. /\ "lower to affine" \in Names(abcd) <=> affine
       /\ "lower to LLVM" \in Names(abcd) <=> llvm
  <2> HIDE DEF abcd, abc, ab, c, d, affine, llvm
  <2>1. Names(abcd) = (Names(ab) \cup Names(c)) \cup Names(d) BY <1>8, <1>10
  <2>2. "lower to affine" \notin Names(d) /\ ("lower to LLVM" \in Names(d) <=> llvm)
    <3>1. CASE llvm
      <4>1. Names(d) = {"lower to LLVM"} BY <1>9, <3>1, Zenon
      <4> QED BY <3>1, <4>1
    <3>2. CASE ~llvm BY <1>9, <3>2
    <3> QED BY <3>1, <3>2
  <2> QED BY <1>6, <1>7, <2>1, <2>2
<1> HIDE DEF a, b, c, d, affine, llvm
<1> QED BY <1>2, <1>10, <1>11, <1>12 DEF affine, llvm

LEMMA Shifted ==
  \A n \in Nat : \A i \in 1 .. n - 1 : \A j \in 1 .. (i + 1) - 1 :
    /\ j \in 1 .. n
    /\ j = 1 \/ (j - 1 \in 1 .. i - 1 /\ j - 1 \in 1 .. n - 1 /\ (j - 1) + 1 = j)
OBVIOUS

(* The first pass of a pipeline that fits can run, and the others fit then. *)
LEMMA PassRun ==
  ASSUME NEW passes \in Seq(PassRecords), passes # <<>>, NEW done,
         NEW kind \in {"toy", "func"}, Fit(passes, done, kind)
  PROVE  LET pass == Head(passes)
             rest == Tail(passes)
             next == CASE pass.pass = "lower to affine" -> "func"
                       [] pass.pass = "lower to LLVM" -> "llvm"
                       [] OTHER -> kind
         IN  /\ pass \in PassRecords /\ rest \in Seq(PassRecords)
             /\ pass.on \in {"module", kind} /\ Before(pass.pass) \subseteq done
             /\ Names(passes) = {pass.pass} \cup Names(rest)
             /\ pass.pass = "lower to LLVM" => rest = <<>>
             /\ Fit(rest, done \cup {pass.pass}, next)
<1> DEFINE pass == Head(passes)
           rest == Tail(passes)
           n == Len(passes)
           next == CASE pass.pass = "lower to affine" -> "func"
                     [] pass.pass = "lower to LLVM" -> "llvm"
                     [] OTHER -> kind
<1>1. /\ n \in Nat /\ n # 0 /\ DOMAIN passes = 1 .. n /\ pass = passes[1]
      /\ pass \in PassRecords /\ rest \in Seq(PassRecords)
      /\ DOMAIN rest = 1 .. n - 1 /\ \A i \in 1 .. n - 1 : rest[i] = passes[i + 1]
  OBVIOUS
<1>2. Len(rest) = n - 1 BY <1>1
<1>3. n = 1 => rest = <<>> BY <1>1, <1>2
<1>4. \A i \in 1 .. n :
        /\ passes[i].on \in {"module", KindAfter(Earlier(passes, i), kind)}
        /\ Before(passes[i].pass) \subseteq done \cup Earlier(passes, i)
        /\ passes[i].pass = "lower to LLVM" => i = n
  BY <1>1 DEF Fit
<1> HIDE DEF pass, rest, n, next
<1>5. 1 \in 1 .. n BY <1>1
<1>6. Earlier(passes, 1) = {} BY DEF Earlier
<1>7. /\ pass.on \in {"module", kind} /\ Before(pass.pass) \subseteq done
      /\ pass.pass = "lower to LLVM" => n = 1
  <2>1. KindAfter(Earlier(passes, 1), kind) = kind BY <1>6 DEF KindAfter
  <2> QED BY <1>1, <1>4, <1>5, <1>6, <2>1
<1>8. \A i \in 1 .. n - 1 : i + 1 \in 1 .. n BY <1>1
<1>9. \A i \in 1 .. n : i = 1 \/ (i - 1 \in 1 .. n - 1 /\ (i - 1) + 1 = i) BY <1>1
<1>10. Names(passes) = {pass.pass} \cup Names(rest)
  <2>1. \A i \in 1 .. n : passes[i].pass \in {pass.pass} \cup Names(rest)
    <3> SUFFICES ASSUME NEW i \in 1 .. n
                 PROVE  passes[i].pass \in {pass.pass} \cup Names(rest)
      OBVIOUS
    <3>1. CASE i = 1 BY <1>1, <3>1
    <3>2. CASE i # 1
      <4>1. i - 1 \in DOMAIN rest /\ rest[i - 1] = passes[i] BY <1>1, <1>9, <3>2
      <4> QED BY <4>1 DEF Names
    <3> QED BY <3>1, <3>2
  <2>2. \A i \in 1 .. n - 1 : rest[i].pass \in Names(passes) BY <1>1, <1>8 DEF Names
  <2>3. pass.pass \in Names(passes) BY <1>1, <1>5 DEF Names
  <2> QED BY <1>1, <2>1, <2>2, <2>3 DEF Names
<1>11. ASSUME NEW i \in 1 .. n - 1
       PROVE  Earlier(passes, i + 1) = {pass.pass} \cup Earlier(rest, i)
  <2>1. \A j \in 1 .. (i + 1) - 1 :
          /\ j \in 1 .. n
          /\ j = 1 \/ (j - 1 \in 1 .. i - 1 /\ j - 1 \in 1 .. n - 1 /\ (j - 1) + 1 = j)
    <3>1. n \in Nat BY <1>1
    <3> QED BY <3>1, Shifted
  <2>2. \A j \in 1 .. i - 1 : j \in 1 .. n - 1 /\ j + 1 \in 1 .. (i + 1) - 1 BY <1>1
  <2>3. 1 \in 1 .. (i + 1) - 1 BY <1>1
  <2>4. \A j \in 1 .. (i + 1) - 1 : passes[j].pass \in {pass.pass} \cup Earlier(rest, i)
    <3> SUFFICES ASSUME NEW j \in 1 .. (i + 1) - 1
                 PROVE  passes[j].pass \in {pass.pass} \cup Earlier(rest, i)
      OBVIOUS
    <3>1. CASE j = 1 BY <1>1, <3>1
    <3>2. CASE j # 1
      <4>1. j - 1 \in 1 .. i - 1 /\ rest[j - 1] = passes[j] BY <1>1, <2>1, <3>2
      <4> QED BY <4>1 DEF Earlier
    <3> QED BY <3>1, <3>2
  <2>5. \A j \in 1 .. i - 1 : rest[j].pass \in Earlier(passes, i + 1)
    BY <1>1, <2>2 DEF Earlier
  <2>6. pass.pass \in Earlier(passes, i + 1) BY <1>1, <2>3 DEF Earlier
  <2> QED BY <2>4, <2>5, <2>6 DEF Earlier
<1>12. ASSUME NEW i \in 1 .. n - 1
       PROVE  /\ rest[i].on \in {"module", KindAfter(Earlier(rest, i), next)}
              /\ Before(rest[i].pass) \subseteq (done \cup {pass.pass}) \cup Earlier(rest, i)
              /\ rest[i].pass = "lower to LLVM" => i = n - 1
  <2>1. /\ i + 1 \in 1 .. n /\ rest[i] = passes[i + 1] /\ (i + 1 = n => i = n - 1)
        /\ n # 1
    BY <1>1, <1>8
  <2>2. Earlier(passes, i + 1) = {pass.pass} \cup Earlier(rest, i) BY <1>11
  <2>3. KindAfter(Earlier(passes, i + 1), kind) = KindAfter(Earlier(rest, i), next)
    BY <1>7, <2>1, <2>2 DEF KindAfter, next
  <2>4. /\ rest[i].on \in {"module", KindAfter(Earlier(passes, i + 1), kind)}
        /\ Before(rest[i].pass) \subseteq done \cup Earlier(passes, i + 1)
        /\ rest[i].pass = "lower to LLVM" => i = n - 1
    BY <1>4, <2>1
  <2> QED BY <2>2, <2>3, <2>4
<1>13. Fit(rest, done \cup {pass.pass}, next) BY <1>1, <1>2, <1>12 DEF Fit
<1> QED BY <1>1, <1>3, <1>7, <1>10, <1>13 DEF pass, rest, next

LEMMA CompilerInvInit == DriverInit => CompilerInv
BY DEF DriverInit, CompilerInv, OutputAsNamed

LEMMA BuildStep == ASSUME CompilerInv, BuildPipeline PROVE CompilerInv'
<1>1. /\ emitAction \in DOMAIN Action \ {"DumpAST"} /\ enableOpt' \in BOOLEAN
      /\ emitAction' = emitAction /\ stage' = "passes" /\ pc' = "done"
      /\ pipeline' = Pipeline(emitAction, enableOpt') /\ ran' = {} /\ functions' = "toy"
      /\ output' = "nothing" /\ code' = 0
  BY DEF CompilerInv, BuildPipeline, exitVars, vars, visitorVars
<1>2. /\ pipeline' \in Seq(PassRecords) /\ Fit(pipeline', {}, "toy")
      /\ "lower to affine" \in Names(pipeline') <=> LoweringToAffine(emitAction)
      /\ "lower to LLVM" \in Names(pipeline') <=> LoweringToLLVM(emitAction)
      /\ ~enableOpt' /\ ~LoweringToAffine(emitAction) => pipeline' = <<>>
  BY <1>1, PipelineBuilt
<1>3. PipelineLeads'
  <2>1. \/ "toy" = Target(emitAction)
        \/ Lowering(emitAction) \in Names(pipeline')
    BY <1>2 DEF Target, Lowering
  <2> QED BY <1>1, <1>2, <2>1 DEF PipelineLeads
<1>4. Fit(pipeline, ran, functions)' BY <1>1, <1>2
<1> QED BY <1>1, <1>2, <1>3, <1>4 DEF CompilerInv, OutputAsNamed

LEMMA RunStep == ASSUME CompilerInv, RunPass PROVE CompilerInv'
<1> DEFINE pass == Head(pipeline)
           next == CASE pass.pass = "lower to affine" -> "func"
                     [] pass.pass = "lower to LLVM" -> "llvm"
                     [] OTHER -> functions
<1>1. /\ stage = "passes" /\ stage' = "passes" /\ pipeline # <<>>
      /\ pipeline' = Tail(pipeline) /\ functions' = next
      /\ ran' = IF Finds(pass) THEN ran \cup {pass.pass} ELSE ran
      /\ emitAction' = emitAction /\ enableOpt' = enableOpt /\ pc' = pc
      /\ output' = output /\ code' = code
  BY DEF RunPass, optionVars, exitVars, vars, visitorVars
<1>2. /\ pc = "done" /\ pipeline \in Seq(PassRecords) /\ Fit(pipeline, ran, functions)
      /\ PipelineLeads /\ emitAction \in DOMAIN Action \ {"DumpAST"}
      /\ output = "nothing" /\ code = 0
  BY <1>1 DEF CompilerInv
<1>3. functions \in {"toy", "func"} /\ next \in {"toy", "func", "llvm"}
  <2>1. functions \in {"toy", "func", "llvm"} BY <1>1 DEF CompilerInv
  <2> QED BY <1>1, <1>2, <2>1 DEF PipelineLeads
<1>4. /\ pass \in PassRecords /\ Tail(pipeline) \in Seq(PassRecords)
      /\ pass.on \in {"module", functions}
      /\ Names(pipeline) = {pass.pass} \cup Names(Tail(pipeline))
      /\ pass.pass = "lower to LLVM" => Tail(pipeline) = <<>>
      /\ Fit(Tail(pipeline), ran \cup {pass.pass}, next)
  BY <1>1, <1>2, <1>3, PassRun
<1> HIDE DEF pass
<1>5. ran' = ran \cup {pass.pass} BY <1>1, <1>4 DEF Finds
<1>6. /\ next = "func" <=> pass.pass = "lower to affine"
                           \/ (pass.pass # "lower to LLVM" /\ functions = "func")
      /\ next = "llvm" <=> pass.pass = "lower to LLVM"
      /\ pass.pass \notin {"lower to affine", "lower to LLVM"} => next = functions
  BY <1>3
<1> HIDE DEF next
<1>7. PipelineLeads'
  <2>1. /\ functions = Target(emitAction) \/ Lowering(emitAction) \in Names(pipeline)
        /\ "lower to LLVM" \in Names(pipeline) => LoweringToLLVM(emitAction)
        /\ "lower to affine" \in Names(pipeline) => LoweringToAffine(emitAction)
        /\ ~(~enableOpt /\ ~LoweringToAffine(emitAction))
    BY <1>1, <1>2 DEF PipelineLeads
  <2>2. LoweringToLLVM(emitAction) => LoweringToAffine(emitAction)
    BY <1>2 DEF Action, LoweringToAffine, LoweringToLLVM, AtLeast
  <2>3. next = Target(emitAction) \/ Lowering(emitAction) \in Names(pipeline')
    BY <1>1, <1>3, <1>4, <1>6, <2>1, <2>2 DEF Target, Lowering
  <2>4. Names(pipeline') \subseteq Names(pipeline) BY <1>1, <1>4
  <2>5. functions' = "llvm" => pipeline' = <<>> BY <1>1, <1>4, <1>6
  <2>6. /\ LoweringToLLVM(emitAction)' <=> LoweringToLLVM(emitAction)
        /\ LoweringToAffine(emitAction)' <=> LoweringToAffine(emitAction)
        /\ Target(emitAction)' = Target(emitAction)
        /\ Lowering(emitAction)' = Lowering(emitAction)
    BY <1>1
  <2> QED BY <1>1, <2>1, <2>3, <2>4, <2>5, <2>6 DEF PipelineLeads
<1>8. Fit(pipeline, ran, functions)' BY <1>1, <1>4, <1>5
<1> QED BY <1>1, <1>2, <1>3, <1>4, <1>7, <1>8 DEF CompilerInv, OutputAsNamed

LEMMA ExitStep ==
  ASSUME CompilerInv, DumpModule \/ DumpLLVMIR \/ RunJIT PROVE CompilerInv'
<1>1. /\ stage = "passes" /\ pipeline = <<>> /\ emitAction' = emitAction /\ pc' = pc
      /\ ran' = ran /\ enableOpt' = enableOpt
  BY DEF DumpModule, DumpLLVMIR, RunJIT, Finished, optionVars, moduleVars, vars, visitorVars
<1>2. /\ pc = "done" /\ PipelineLeads /\ emitAction \in DOMAIN Action \ {"DumpAST"}
      /\ output = "nothing" /\ code = 0
  BY <1>1 DEF CompilerInv
<1>3. functions = Target(emitAction)
  <2>1. Names(pipeline) = {} BY <1>1 DEF Names
  <2> QED BY <1>2, <2>1 DEF PipelineLeads
<1>4. /\ LoweringToAffine(emitAction) <=> emitAction \notin {"None", "DumpMLIR"}
      /\ LoweringToLLVM(emitAction) <=> emitAction \in {"DumpMLIRLLVM", "DumpLLVMIR", "RunJIT"}
      /\ AtLeast(emitAction, "DumpLLVMIR") <=> emitAction \in {"DumpLLVMIR", "RunJIT"}
  BY <1>2 DEF Action, LoweringToAffine, LoweringToLLVM, AtLeast
<1>5. CASE DumpModule
  <2>1. /\ stage' = "exited" /\ code' = 0 /\ output' = functions
        /\ emitAction \in {"None", "DumpMLIR", "DumpMLIRAffine", "DumpMLIRLLVM"}
    BY <1>2, <1>4, <1>5 DEF DumpModule, ExitWith, Action
  <2>2. output' = OutputOf(emitAction) BY <1>3, <1>4, <2>1 DEF Target, OutputOf
  <2>3. output' = "toy" /\ ~enableOpt => ran = {}
    BY <1>2, <1>3, <1>4, <2>1 DEF Target, PipelineLeads
  <2>4. output' # "nothing" BY <1>3, <2>1 DEF Target
  <2>5. OutputOf(emitAction)' = OutputOf(emitAction) BY <1>1
  <2> QED BY <1>1, <1>2, <2>1, <2>2, <2>3, <2>4, <2>5 DEF CompilerInv, OutputAsNamed
<1>6. CASE DumpLLVMIR \/ RunJIT
  <2>1. \/ /\ stage' = "exited" /\ code' = 0
           /\ output' = "LLVM IR" /\ emitAction = "DumpLLVMIR"
        \/ stage' = "exited" /\ code' = 0 /\ output' = "run" /\ emitAction = "RunJIT"
        \/ stage' = "exited" /\ code' = -1 /\ output' = output
        \/ stage' = "aborted" /\ code' = code /\ output' = output
    BY <1>6 DEF DumpLLVMIR, RunJIT, ExitWith, Abort, exitVars
  <2>2. OutputOf("DumpLLVMIR") = "LLVM IR" /\ OutputOf("RunJIT") = "run" BY DEF OutputOf
  <2>3. OutputOf(emitAction)' = OutputOf(emitAction) BY <1>1
  <2>7. -1 # 0 OBVIOUS
  <2>4. CASE stage' = "exited" /\ code' = 0
    <3>1. \/ output' = "LLVM IR" /\ emitAction = "DumpLLVMIR"
          \/ output' = "run" /\ emitAction = "RunJIT"
      <4>1. code' # -1 /\ stage' # "aborted" BY <2>4, <2>7
      <4> QED BY <2>1, <4>1, Zenon
    <3>2. CASE output' = "LLVM IR" /\ emitAction = "DumpLLVMIR"
      <4>1. output' = OutputOf(emitAction)' BY <2>2, <2>3, <3>2, Zenon
      <4> QED BY <1>1, <1>2, <2>4, <3>2, <4>1 DEF CompilerInv, OutputAsNamed
    <3>3. CASE output' = "run" /\ emitAction = "RunJIT"
      <4>1. output' = OutputOf(emitAction)' BY <2>2, <2>3, <3>3, Zenon
      <4> QED BY <1>1, <1>2, <2>4, <3>3, <4>1 DEF CompilerInv, OutputAsNamed
    <3> QED BY <3>1, <3>2, <3>3
  <2>5. CASE stage' = "exited" /\ code' # 0 /\ output' = "nothing"
    BY <2>5 DEF CompilerInv, OutputAsNamed
  <2>6. CASE stage' = "aborted" BY <2>6 DEF CompilerInv, OutputAsNamed
  <2> QED BY <1>2, <2>1, <2>4, <2>5, <2>6, <2>7
<1> QED BY <1>5, <1>6

LEMMA CompilerInvStep == ASSUME CompilerInv, [DriverNext]_mainVars PROVE CompilerInv'
<1>1. CASE Parse BY <1>1 DEF Parse, CompilerInv, OutputAsNamed, driverVars, optionVars,
                              moduleVars, exitVars, visitorVars, PipelineLeads
<1>2. CASE ReadEmit BY <1>2 DEF ReadEmit, CompilerInv, OutputAsNamed, moduleVars, exitVars
<1>3. CASE DumpAST
  <2>1. OutputOf("DumpAST") = "tree" BY DEF OutputOf
  <2> QED BY <1>3, <2>1 DEF DumpAST, CompilerInv, OutputAsNamed, ExitWith, moduleVars
<1>4. CASE LoadMLIR BY <1>4 DEF LoadMLIR, CompilerInv, OutputAsNamed, moduleVars, exitVars
<1>5. CASE Visit BY <1>5 DEF Visit, CompilerInv, OutputAsNamed, driverVars, optionVars,
                              moduleVars, exitVars
<1>6. CASE VisitFails
  BY <1>6 DEF VisitFails, Abort, CompilerInv, OutputAsNamed, moduleVars, exitVars
<1>7. CASE BuildPipeline BY <1>7, BuildStep
<1>8. CASE RunPass BY <1>8, RunStep
<1>9. CASE PassFails BY <1>9 DEF PassFails, ExitWith, CompilerInv, OutputAsNamed, moduleVars
<1>10. CASE DumpModule \/ DumpLLVMIR \/ RunJIT BY <1>10, ExitStep
<1>11. CASE UNCHANGED mainVars
  BY <1>11 DEF mainVars, vars, visitorVars, driverVars, optionVars, moduleVars, exitVars,
               CompilerInv, OutputAsNamed, PipelineLeads, Fit
<1> QED BY <1>1, <1>2, <1>3, <1>4, <1>5, <1>6, <1>7, <1>8, <1>9, <1>10, <1>11
        DEF DriverNext, Ended

LEMMA CompilerInvariant == DriverSpec => []CompilerInv
BY CompilerInvInit, CompilerInvStep, PTL DEF DriverSpec

(* For every program and every way to call the compiler, a pass meets the   *)
(* module as the ones before it were to leave it.                           *)
THEOREM PassesFindTheirModule == DriverSpec => []PassesPrepared
<1>1. ASSUME CompilerInv, stage = "passes", pipeline # <<>>
      PROVE  Finds(Head(pipeline)) /\ Before(Head(pipeline).pass) \subseteq ran
  <2>1. /\ pipeline \in Seq(PassRecords) /\ Fit(pipeline, ran, functions)
        /\ functions \in {"toy", "func"}
    BY <1>1 DEF CompilerInv, PipelineLeads
  <2> QED BY <1>1, <2>1, PassRun DEF Finds
<1>2. CompilerInv => PassesPrepared BY <1>1 DEF PassesPrepared
<1> QED BY <1>2, CompilerInvariant, PTL

(* For every program, main returns 0 only with what -emit names.            *)
THEOREM ExitCodeMeansOutput == DriverSpec => []OutputAsNamed
<1>1. CompilerInv => OutputAsNamed BY DEF CompilerInv
<1> QED BY <1>1, CompilerInvariant, PTL
==============================================================================
