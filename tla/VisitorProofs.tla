---------------------------- MODULE VisitorProofs ----------------------------
(****************************************************************************)
(* The visitor generator, for every module and every set of names: what is  *)
(* left to print is always the end of the module's visitors, emitOp is      *)
(* always at one of the operands of the builder at hand, and the braces and *)
(* the calls printed so far are counted by the builders behind.             *)
(****************************************************************************)
EXTENDS VisitorCodeGen, DataLemmas

(* The items that emitClass prints, and how methods nest: an Enter starts   *)
(* the class or follows a Leave, and nothing follows the last Leave.        *)
BuildItem == [kind : {"build"}, op : OpNames, index : Nat]
VisitItem == {Enter, Leave} \cup BuildItem
Nested(items) ==
  /\ \A p \in DOMAIN items : items[p] = Enter <=> (p = 1 \/ items[p - 1] = Leave)
  /\ items # <<>> => items[Len(items)] = Leave

LEMMA ItemKinds ==
  /\ Enter # Leave /\ Enter.kind = "enter" /\ Leave.kind = "leave"
  /\ \A item \in BuildItem : item # Enter /\ item # Leave /\ item.kind = "build"
  /\ \A item \in VisitItem : /\ item.kind = "build" <=> item \in BuildItem
                             /\ item.kind = "enter" <=> item = Enter
                             /\ item.kind = "leave" <=> item = Leave
<1>1. Enter.kind = "enter" /\ Leave.kind = "leave" BY DEF Enter, Leave
<1>2. \A item \in BuildItem : item.kind = "build" BY DEF BuildItem
<1> QED BY <1>1, <1>2 DEF VisitItem

LEMMA MethodShape ==
  ASSUME NEW rule \in Seq(Seq(Ref))
  PROVE  Method(rule) \in {s \in Seq(VisitItem) : Nested(s)}
<1> DEFINE Inner == [a \in DOMAIN rule |-> [b \in DOMAIN rule[a] |-> Build(rule[a][b])]]
           mid == FlattenSeq(Inner)
<1>1. \A ref \in Ref : Build(ref) \in BuildItem BY DEF Ref, Build, BuildItem
<1>2. ASSUME NEW a \in DOMAIN rule
      PROVE  [b \in DOMAIN rule[a] |-> Build(rule[a][b])] \in Seq(BuildItem)
  <2>1. rule[a] \in Seq(Ref) OBVIOUS
  <2>2. /\ Len(rule[a]) \in Nat /\ DOMAIN rule[a] = 1 .. Len(rule[a])
        /\ \A b \in DOMAIN rule[a] : rule[a][b] \in Ref
    BY <2>1
  <2>3. [b \in DOMAIN rule[a] |-> Build(rule[a][b])] \in [1 .. Len(rule[a]) -> BuildItem]
    BY <1>1, <2>2
  <2> QED BY <2>2, <2>3, SeqDef
<1>3. Inner \in Seq(Seq(BuildItem))
  <2>1. Len(rule) \in Nat /\ DOMAIN rule = 1 .. Len(rule) OBVIOUS
  <2>2. Inner \in [1 .. Len(rule) -> Seq(BuildItem)] BY <1>2, <2>1
  <2> QED BY <2>1, <2>2, SeqDef
<1>4. mid \in Seq(BuildItem)
  <2> HIDE DEF Inner
  <2>1. <<>> \in Seq(BuildItem) /\ \A a, b \in Seq(BuildItem) : a \o b \in Seq(BuildItem)
    OBVIOUS
  <2> QED BY <1>3, <2>1, FlattenClosed
<1>5. Method(rule) = <<Enter>> \o mid \o <<Leave>> BY DEF Method
<1> HIDE DEF mid
<1>6. mid \in Seq(VisitItem)
  <2>1. BuildItem \subseteq VisitItem BY DEF VisitItem
  <2> QED BY <1>4, <2>1
<1>7. /\ Method(rule) \in Seq(VisitItem) /\ Len(Method(rule)) = Len(mid) + 2
      /\ DOMAIN Method(rule) = 1 .. Len(mid) + 2
      /\ \A p \in 1 .. Len(mid) + 2 :
           Method(rule)[p] = IF p = 1 THEN Enter
                             ELSE IF p = Len(mid) + 2 THEN Leave ELSE mid[p - 1]
  <2>1. Enter \in VisitItem /\ Leave \in VisitItem BY DEF VisitItem
  <2> DEFINE front == <<Enter>> \o mid
             one == <<Enter>>
             last == <<Leave>>
  <2>11. /\ one \in Seq(VisitItem) /\ Len(one) = 1 /\ one[1] = Enter
         /\ last \in Seq(VisitItem) /\ Len(last) = 1 /\ last[1] = Leave
    BY <2>1
  <2>12. front = one \o mid OBVIOUS
  <2> HIDE DEF one, last, front
  <2>13. /\ front \in Seq(VisitItem) /\ Len(mid) \in Nat /\ Len(front) = Len(one) + Len(mid)
         /\ \A p \in 1 .. Len(one) + Len(mid) :
              front[p] = IF p <= Len(one) THEN one[p] ELSE mid[p - Len(one)]
    BY <1>6, <2>11, <2>12, Concatenated
  <2>2. /\ Len(front) = Len(mid) + 1 /\ Len(mid) \in Nat
        /\ \A p \in 1 .. Len(mid) + 1 : front[p] = IF p = 1 THEN Enter ELSE mid[p - 1]
    BY <2>11, <2>13
  <2>14. /\ front \o last \in Seq(VisitItem) /\ Len(front \o last) = Len(front) + Len(last)
         /\ DOMAIN (front \o last) = 1 .. Len(front) + Len(last)
         /\ \A p \in 1 .. Len(front) + Len(last) :
              (front \o last)[p] = IF p <= Len(front) THEN front[p] ELSE last[p - Len(front)]
    <3>1. front \in Seq(VisitItem) /\ last \in Seq(VisitItem) BY <2>11, <2>13
    <3>2. front \o last \in Seq(VisitItem) /\ Len(front \o last) = Len(front) + Len(last)
      BY <3>1, Concatenated
    <3>3. DOMAIN (front \o last) = 1 .. Len(front) + Len(last)
      BY <3>1, Concatenated
    <3>4. \A p \in 1 .. Len(front) + Len(last) :
             (front \o last)[p] = IF p <= Len(front) THEN front[p] ELSE last[p - Len(front)]
      BY <3>1, Concatenated
    <3> QED BY <3>2, <3>3, <3>4
  <2>15. \A p \in 1 .. Len(front) + 1 :
          (front \o last)[p] = IF p = Len(front) + 1 THEN Leave ELSE front[p]
    BY <2>11, <2>2, <2>14
  <2>3. /\ front \o <<Leave>> \in Seq(VisitItem)
        /\ Len(front \o <<Leave>>) = Len(front) + 1
        /\ DOMAIN (front \o <<Leave>>) = 1 .. Len(front) + 1
        /\ \A p \in 1 .. Len(front) + 1 :
             (front \o <<Leave>>)[p] = IF p = Len(front) + 1 THEN Leave ELSE front[p]
    BY <2>11, <2>14, <2>15 DEF last
  <2>4. Method(rule) = front \o <<Leave>> BY <1>5 DEF front, one
  <2>5. ASSUME NEW p \in 1 .. Len(mid) + 2
        PROVE  Method(rule)[p] = IF p = 1 THEN Enter
                                 ELSE IF p = Len(mid) + 2 THEN Leave ELSE mid[p - 1]
    <3>1. CASE p = Len(mid) + 2
      <4>1. p # 1 /\ p = Len(front) + 1 BY <2>2, <3>1
      <4> QED BY <2>2, <2>3, <2>4, <3>1, <4>1
    <3>2. CASE p # Len(mid) + 2
      <4>1. p \in 1 .. Len(mid) + 1 /\ p # Len(front) + 1 /\ p \in 1 .. Len(front) + 1
        BY <2>2, <3>2
      <4>2. Method(rule)[p] = front[p] BY <2>3, <2>4, <4>1
      <4> QED BY <2>2, <3>2, <4>1, <4>2
    <3> QED BY <3>1, <3>2
  <2>6. Len(front) + 1 = Len(mid) + 2 BY <2>2
  <2> QED BY <2>3, <2>4, <2>5, <2>6
<1>8. \A p \in 1 .. Len(mid) : mid[p] # Enter /\ mid[p] # Leave BY <1>4, ItemKinds
<1>9. Nested(Method(rule))
  <2>1. Len(mid) \in Nat BY <1>4
  <2>2. ASSUME NEW p \in 1 .. Len(mid) + 2
        PROVE  Method(rule)[p] = Enter <=> (p = 1 \/ Method(rule)[p - 1] = Leave)
    <3>1. CASE p = 1 BY <1>7, <3>1
    <3>2. CASE p # 1
      <4>1. p - 1 \in 1 .. Len(mid) + 2 /\ p - 1 # Len(mid) + 2 BY <2>1, <3>2
      <4>2. p # Len(mid) + 2 => p - 1 \in 1 .. Len(mid) BY <2>1, <3>2
      <4>3. Method(rule)[p] # Enter BY <1>7, <1>8, <3>2, <4>2, ItemKinds
      <4>4. p - 1 # 1 => p - 1 - 1 \in 1 .. Len(mid) BY <2>1, <4>1
      <4>5. Method(rule)[p - 1] # Leave BY <1>7, <1>8, <4>1, <4>4, ItemKinds
      <4> QED BY <3>2, <4>3, <4>5
    <3> QED BY <3>1, <3>2
  <2>3. Method(rule)[Len(Method(rule))] = Leave BY <1>7, <2>1
  <2> QED BY <1>7, <2>2, <2>3 DEF Nested
<1> QED BY <1>7, <1>9

LEMMA NestedClosed ==
  ASSUME NEW a \in Seq(VisitItem), NEW b \in Seq(VisitItem), Nested(a), Nested(b)
  PROVE  Nested(a \o b)
<1>1. /\ Len(a) \in Nat /\ Len(b) \in Nat /\ Len(a \o b) = Len(a) + Len(b)
      /\ DOMAIN (a \o b) = 1 .. Len(a) + Len(b)
      /\ DOMAIN a = 1 .. Len(a) /\ DOMAIN b = 1 .. Len(b)
      /\ \A p \in 1 .. Len(a) + Len(b) :
           (a \o b)[p] = IF p <= Len(a) THEN a[p] ELSE b[p - Len(a)]
  BY Concatenated
<1>2. ASSUME NEW p \in 1 .. Len(a) + Len(b)
      PROVE  (a \o b)[p] = Enter <=> (p = 1 \/ (a \o b)[p - 1] = Leave)
  <2>1. CASE p <= Len(a)
    <3>1. p \in DOMAIN a /\ (p # 1 => p - 1 <= Len(a) /\ p - 1 \in 1 .. Len(a) + Len(b))
      BY <1>1, <2>1
    <3>2. a[p] = Enter <=> (p = 1 \/ a[p - 1] = Leave) BY <3>1 DEF Nested
    <3> QED BY <1>1, <2>1, <3>1, <3>2
  <2>2. CASE p = Len(a) + 1
    <3>9. 1 \in DOMAIN b BY <1>1, <2>2
    <3>1. 1 \in DOMAIN b /\ b[1] = Enter BY <3>9 DEF Nested
    <3>2. (a \o b)[p] = Enter BY <1>1, <2>2, <3>1
    <3>3. p = 1 \/ (a \o b)[p - 1] = Leave
      <4> SUFFICES ASSUME p # 1 PROVE (a \o b)[p - 1] = Leave OBVIOUS
      <4>1. Len(a) # 0 /\ a # <<>> BY <1>1, <2>2
      <4>2. a[Len(a)] = Leave BY <4>1 DEF Nested
      <4> QED BY <1>1, <2>2, <4>1, <4>2
    <3> QED BY <3>2, <3>3
  <2>3. CASE p > Len(a) + 1
    <3>1. /\ p - Len(a) \in DOMAIN b /\ p - Len(a) # 1
          /\ p - 1 \in 1 .. Len(a) + Len(b) /\ ~(p - 1 <= Len(a)) /\ p # 1
      BY <1>1, <2>3
    <3>2. b[p - Len(a)] = Enter <=> b[p - Len(a) - 1] = Leave BY <3>1 DEF Nested
    <3>3. (a \o b)[p] = b[p - Len(a)] BY <1>1, <2>3
    <3>4. (a \o b)[p - 1] = b[p - 1 - Len(a)] BY <1>1, <3>1
    <3>5. p - 1 - Len(a) = p - Len(a) - 1 BY <1>1
    <3> QED BY <3>1, <3>2, <3>3, <3>4, <3>5
  <2> QED BY <1>1, <2>1, <2>2, <2>3
<1>3. a \o b # <<>> => (a \o b)[Len(a \o b)] = Leave
  <2>1. CASE b = <<>>
    <3>1. Len(b) = 0 BY <2>1
    <3>2. a \o b = a BY <2>1
    <3> QED BY <3>2 DEF Nested
  <2>2. CASE b # <<>>
    <3>1. Len(b) # 0 BY <2>2
    <3>2. b[Len(b)] = Leave BY <2>2 DEF Nested
    <3> QED BY <1>1, <3>1, <3>2
  <2> QED BY <2>1, <2>2
<1> QED BY <1>1, <1>2, <1>3 DEF Nested

LEMMA VisitorsShape ==
  ASSUME NEW tree \in Asts
  PROVE  Visitors(tree) \in Seq(VisitItem) /\ Nested(Visitors(tree))
<1> DEFINE Good == {s \in Seq(VisitItem) : Nested(s)}
           seqs == [r \in DOMAIN tree.rules |-> Method(tree.rules[r])]
<1>1. tree.rules \in Seq(Seq(Seq(Ref))) BY AstAssumption
<1>2. seqs \in Seq(Good)
  <2>1. Len(tree.rules) \in Nat /\ DOMAIN tree.rules = 1 .. Len(tree.rules) BY <1>1
  <2>2. ASSUME NEW r \in DOMAIN tree.rules PROVE Method(tree.rules[r]) \in Good
    <3>1. tree.rules[r] \in Seq(Seq(Ref)) BY <1>1
    <3> QED BY <3>1, MethodShape
  <2>3. seqs \in [1 .. Len(tree.rules) -> Good]
    <3> HIDE DEF Good
    <3> QED BY <2>1, <2>2
  <2> HIDE DEF Good
  <2> QED BY <2>1, <2>3, SeqDef
<1>3. <<>> \in Good BY DEF Nested
<1>4. \A a, b \in Good : a \o b \in Good
  <2> SUFFICES ASSUME NEW a \in Good, NEW b \in Good PROVE a \o b \in Good OBVIOUS
  <2>1. a \in Seq(VisitItem) /\ b \in Seq(VisitItem) /\ Nested(a) /\ Nested(b) OBVIOUS
  <2>2. a \o b \in Seq(VisitItem) BY <2>1
  <2>3. Nested(a \o b) BY <2>1, NestedClosed
  <2> QED BY <2>2, <2>3
<1>5. Visitors(tree) = FlattenSeq(seqs) BY DEF Visitors
<1>6. FlattenSeq(seqs) \in Good
  <2> HIDE DEF Good, seqs
  <2> QED BY <1>2, <1>3, <1>4, FlattenClosed
<1> QED BY <1>5, <1>6

(* findOp returns an op of the module under the name it was asked for.      *)
LEMMA FoundSound ==
  ASSUME NEW tree \in Asts, NEW name, Found(tree, name) # 0
  PROVE  /\ Found(tree, name) \in 1 .. Len(tree.ops)
         /\ tree.ops[Found(tree, name)] \in Op
         /\ tree.ops[Found(tree, name)].name = name
<1> DEFINE I == {i \in 1 .. Len(tree.ops) : tree.ops[i].name = name}
<1>1. Found(tree, name) = IF I # {} THEN Min(I) ELSE 0 BY DEF Found, SelectInSeq
<1>2. tree.ops \in Seq(Op) BY AstAssumption
<1>3. I # {} /\ I \subseteq Nat BY <1>1
<1> HIDE DEF I
<1>4. \E x \in I : \A y \in I : x <= y BY <1>3, LeastNat
<1>5. Min(I) \in I BY <1>4 DEF Min
<1>6. Found(tree, name) \in I BY <1>1, <1>3, <1>5
<1> QED BY <1>2, <1>6 DEF I

-----------------------------------------------------------------------------
(* The invariant.  Shown of the items already behind the generator ...      *)
Printing == {"results", "arguments", "builder"}

ListInv ==
  /\ ast \in Asts
  /\ todo \in Seq(VisitItem) /\ Len(todo) <= Len(Items)
  /\ \A i \in 1 .. Len(todo) : todo[i] = Items[Behind + i]
  /\ pc \in Printing \cup {"visitors", "done", "undefined"}
  /\ pc \in Printing => todo # <<>>
  /\ pc = "done" => todo = <<>>

(* ... the builders among them that left a brace open ...                   *)
Owes(p) == Sound(RefAt(p)) /\ ~Supported(RefAt(p))
Owers == {p \in BuildsAt : Owes(p)}
Owing(k) == {p \in Owers : p <= k}
Inside(k) == IF k = 0 \/ Items[k] = Leave THEN 0 ELSE 1
DebtInv ==
  /\ depth \in Nat
  /\ pc = "done" => depth = Cardinality(Owing(Behind))
  /\ pc = "visitors" => depth = 1 + Inside(Behind) + Cardinality(Owing(Behind))
  /\ pc \in Printing => depth = 2 + Inside(Behind) + Cardinality(Owing(Behind))

(* ... the calls printed for them, in a module that FileComplete is about;  *)
Lonely(ref) == Cardinality(Unnamed(ref)) <= 1
Fine == \A p \in BuildsAt : Sound(RefAt(p)) /\ Supported(RefAt(p))
Fits(call, ref) ==
  /\ call.op = ref.op
  /\ call.arguments = NamesOf(ref)
  /\ Declared(call) = DOMAIN call.arguments \ Undeclared(ref)
Matches(p) == Fits(created[Cardinality(Before(p))], RefAt(p))
FileInv ==
  Fine => /\ Len(created) = Cardinality(Before(Behind))
          /\ \A p \in BuildsAt : p <= Behind => Matches(p)

(* and of the block being printed: the builder it is for, ...               *)
Current == RefAt(Behind + 1)
BuilderInv ==
  pc \in Printing =>
    /\ Behind + 1 \in BuildsAt /\ Sound(Current) /\ op = OpOf(Current)
    /\ Current.index = 0 <=> pc # "builder"
    /\ InRange(Current)

(* ... the operands that the loop has behind it and those left ...          *)
Unsupported == {"unmapped", "anyUnbracketed"}
OperandInv ==
  pc \in Printing =>
    /\ Len(block) + Len(left) = IF pc = "results" THEN Len(Operands(op.results))
                                ELSE Len(Inputs(Current))
    /\ \A i \in 1 .. Len(left) : left[i] = Inputs(Current)[Len(block) + i]
    /\ pc = "arguments" => Len(left) <= Len(Operands(op.arguments))
    /\ pc # "builder" =>
         \A i \in 1 .. Len(block) : Inputs(Current)[i].type \notin Unsupported

(* ... and their names.  A first string computed needs no new storage, a    *)
(* second one moves it and leaves the StringRef to it behind.               *)
Nameless(k) == {i \in 1 .. k : Inputs(Current)[i].name = NoName}
NameInv ==
  pc \in Printing =>
    /\ Len(opArguments) = Len(block)
    /\ \A i \in 1 .. Len(block) : /\ block[i].name = NamesOf(Current)[i]
                                  /\ opArguments[i].text = block[i].name
                                  /\ block[i].type = "type" <=> i \notin Undeclared(Current)
StringInv ==
  pc \in Printing =>
    LET nameless == Nameless(Len(block))
    IN  /\ tmpStrings.home = 0 =>
             tmpStrings.capacity = 1 /\ (tmpStrings.size = 0 <=> nameless = {})
        /\ tmpStrings.home = 0 <=> \A i, j \in nameless : i = j
        /\ nameless # {} => \E i \in 1 .. Len(opArguments) : opArguments[i].owner = 0

Text == OperandNames \cup ({"res", "arg"} \X Int)
Operand == [type : Types, name : OperandNames]
LineTypes == {"type", "nothing", "joined"}
Declaration == [type : LineTypes, name : Text]
DataInv ==
  /\ op = NULL \/ op \in ToSet(ast.ops)
  /\ left \in Seq(Operand)
  /\ block \in Seq(Declaration)
  /\ opArguments \in Seq([text : Text, owner : Int])
  /\ \A i \in DOMAIN opArguments : opArguments[i].owner \in Source .. tmpStrings.home
  /\ tmpStrings \in [size : Nat, capacity : Nat, home : Nat]
  /\ tmpStrings.size <= tmpStrings.capacity
  /\ created \in Seq([op : OpNames, block : Seq(Declaration),
                      arguments : Seq(Text)])
  /\ complained \in BOOLEAN

(* A step that keeps the module keeps all that is stated on it.             *)
LEMMA SameModule ==
  ASSUME ast' = ast
  PROVE  /\ Items' = Items /\ BuildsAt' = BuildsAt /\ Owers' = Owers /\ Fine' = Fine
         /\ \A p : /\ RefAt(p)' = RefAt(p) /\ Before(p)' = Before(p)
                   /\ Owing(p)' = Owing(p) /\ Inside(p)' = Inside(p)
         /\ \A ref : /\ Sound(ref)' = Sound(ref) /\ OpOf(ref)' = OpOf(ref)
                     /\ InRange(ref)' = InRange(ref) /\ Inputs(ref)' = Inputs(ref)
                     /\ NamesOf(ref)' = NamesOf(ref) /\ Lonely(ref)' = Lonely(ref)
                     /\ Undeclared(ref)' = Undeclared(ref)
         /\ Fatal' = Fatal
<1>1. /\ Items' = Items /\ BuildsAt' = BuildsAt /\ \A p : RefAt(p)' = RefAt(p)
  BY DEF Items, BuildsAt, RefAt
<1>2. \A ref : /\ Sound(ref)' = Sound(ref) /\ OpOf(ref)' = OpOf(ref)
  BY DEF Sound, OpOf
<1>3. \A ref : InRange(ref)' = InRange(ref) /\ Inputs(ref)' = Inputs(ref)
  BY <1>2 DEF InRange, Inputs
<1>4. \A ref : NamesOf(ref)' = NamesOf(ref) BY <1>2, <1>3 DEF NamesOf
<1>5. \A ref : Supported(ref)' = Supported(ref) /\ Unnamed(ref)' = Unnamed(ref)
  BY <1>3 DEF Supported, Unnamed
<1>6. \A ref : Lonely(ref)' = Lonely(ref) BY <1>5 DEF Lonely
<1>7. Fine' = Fine BY <1>1, <1>2, <1>5 DEF Fine
<1>11. \A ref : Undeclared(ref)' = Undeclared(ref) BY <1>3 DEF Undeclared
<1>12. Fatal' = Fatal BY <1>1, <1>2, <1>3, <1>5 DEF Fatal
<1>8. \A p : Before(p)' = Before(p) /\ Inside(p)' = Inside(p) BY <1>1 DEF Before, Inside
<1>9. Owers' = Owers BY <1>1, <1>2, <1>5 DEF Owers, Owes
<1>10. \A p : Owing(p)' = Owing(p) BY <1>9 DEF Owing
<1> QED BY <1>1, <1>2, <1>3, <1>4, <1>6, <1>7, <1>8, <1>9, <1>10, <1>11, <1>12

(* The next item is the first of those left.                                *)
LEMMA NextItem ==
  ASSUME ListInv
  PROVE  /\ Behind \in Nat /\ Len(Items) \in Nat /\ Behind <= Len(Items)
         /\ Items \in Seq(VisitItem) /\ Nested(Items) /\ DOMAIN Items = 1 .. Len(Items)
         /\ todo = <<>> => Behind = Len(Items)
         /\ todo # <<>> => /\ Head(todo) = RefAt(Behind + 1)
                           /\ RefAt(Behind + 1) \in VisitItem
                           /\ Behind + 1 \in 1 .. Len(Items)
                           /\ Head(todo).kind = "build" <=> Behind + 1 \in BuildsAt
<1>1. Items \in Seq(VisitItem) /\ Nested(Items) BY VisitorsShape DEF ListInv, Items
<1>2. Len(Items) \in Nat /\ DOMAIN Items = 1 .. Len(Items) BY <1>1
<1>3. Len(todo) \in Nat /\ Len(todo) <= Len(Items) BY DEF ListInv
<1>4. Behind \in Nat /\ Behind <= Len(Items) BY <1>2, <1>3 DEF Behind
<1>5. todo = <<>> => Behind = Len(Items) BY <1>2, <1>3 DEF Behind
<1>6. ASSUME todo # <<>>
      PROVE  Head(todo) = Items[Behind + 1] /\ Behind + 1 \in 1 .. Len(Items)
  <2>1. Len(todo) # 0 /\ Head(todo) = todo[1] BY <1>6 DEF ListInv
  <2>2. 1 \in 1 .. Len(todo) BY <1>3, <2>1
  <2>3. todo[1] = Items[Behind + 1] BY <2>2 DEF ListInv
  <2> QED BY <1>2, <1>3, <2>1, <2>3 DEF Behind
<1>7. \A p : RefAt(p) = Items[p] BY DEF RefAt, Items
<1>8. ASSUME todo # <<>>
      PROVE  /\ Head(todo) = RefAt(Behind + 1) /\ RefAt(Behind + 1) \in VisitItem
             /\ Head(todo).kind = "build" <=> Behind + 1 \in BuildsAt
  <2>1. Head(todo) = RefAt(Behind + 1) BY <1>6, <1>7, <1>8
  <2>2. RefAt(Behind + 1) \in VisitItem BY <1>1, <1>6, <1>7, <1>8
  <2>3. Head(todo).kind = "build" <=> Behind + 1 \in BuildsAt
    BY <1>2, <1>6, <1>8 DEF BuildsAt, Items
  <2> QED BY <2>1, <2>2, <2>3
<1> QED BY <1>1, <1>2, <1>4, <1>5, <1>6, <1>8

(* A step leaves the list as it is or removes the item it has printed.      *)
Stays == todo' = todo
Advances == todo # <<>> /\ todo' = Tail(todo)
LEMMA ListStep ==
  ASSUME ListInv, ast' = ast
  PROVE  /\ Stays => /\ Behind' = Behind
                     /\ \A i \in 1 .. Len(todo') : todo'[i] = Items[Behind' + i]
         /\ Advances => /\ Behind' = Behind + 1
                        /\ todo' \in Seq(VisitItem) /\ Len(todo') <= Len(Items)
                        /\ \A i \in 1 .. Len(todo') : todo'[i] = Items[Behind' + i]
<1>1. Items' = Items BY SameModule
<1>2. Stays => /\ Behind' = Behind
               /\ \A i \in 1 .. Len(todo') : todo'[i] = Items[Behind' + i]
  BY <1>1 DEF Stays, Behind, ListInv
<1>3. ASSUME Advances
      PROVE  /\ Behind' = Behind + 1
             /\ todo' \in Seq(VisitItem) /\ Len(todo') <= Len(Items)
             /\ \A i \in 1 .. Len(todo') : todo'[i] = Items[Behind' + i]
  <2>1. todo \in Seq(VisitItem) /\ Len(todo) \in Nat /\ Len(Items) \in Nat
    BY NextItem DEF ListInv
  <2>2. /\ todo' \in Seq(VisitItem) /\ Len(todo') = Len(todo) - 1
        /\ \A i \in 1 .. Len(todo') : todo'[i] = todo[i + 1]
    BY <1>3, <2>1 DEF Advances
  <2>3. Behind' = Behind + 1 BY <1>1, <2>1, <2>2 DEF Behind
  <2>4. Len(todo') <= Len(Items) BY <2>1, <2>2 DEF ListInv
  <2>5. ASSUME NEW i \in 1 .. Len(todo') PROVE todo'[i] = Items[Behind' + i]
    <3>1. i + 1 \in 1 .. Len(todo) BY <2>1, <2>2
    <3>2. todo[i + 1] = Items[Behind + (i + 1)] BY <3>1 DEF ListInv
    <3>3. Behind + (i + 1) = Behind' + i BY <2>3, NextItem
    <3> QED BY <2>2, <3>2, <3>3
  <2> QED BY <2>2, <2>3, <2>4, <2>5
<1> QED BY <1>2, <1>3

LEMMA OwingCounts ==
  ASSUME ListInv
  PROVE  /\ Cardinality(Owing(Behind)) \in Nat
         /\ todo # <<>> =>
              Cardinality(Owing(Behind + 1)) = Cardinality(Owing(Behind))
                + IF Behind + 1 \in BuildsAt /\ Owes(Behind + 1) THEN 1 ELSE 0
<1>1. Owers \subseteq Nat BY NextItem DEF Owers, BuildsAt, Items
<1>2. /\ \A p : p \in Owing(Behind) <=> p \in Owers /\ p <= Behind
      /\ \A p : p \in Owing(Behind + 1) <=> p \in Owers /\ p <= Behind + 1
  BY DEF Owing
<1>3. Behind \in Nat BY NextItem
<1>4. /\ IsFiniteSet(Owing(Behind)) /\ Cardinality(Owing(Behind)) \in Nat
      /\ Behind + 1 \in Owers =>
           Cardinality(Owing(Behind + 1)) = Cardinality(Owing(Behind)) + 1
      /\ Behind + 1 \notin Owers => Owing(Behind + 1) = Owing(Behind)
  BY <1>1, <1>2, <1>3, CountedUpTo
<1>5. Behind + 1 \in Owers <=> Behind + 1 \in BuildsAt /\ Owes(Behind + 1) BY DEF Owers
<1> QED BY <1>4, <1>5

LEMMA BeforeCounts ==
  ASSUME ListInv
  PROVE  /\ Cardinality(Before(Behind)) \in Nat
         /\ todo # <<>> =>
              Cardinality(Before(Behind + 1)) = Cardinality(Before(Behind))
                + IF Behind + 1 \in BuildsAt THEN 1 ELSE 0
         /\ \A p \in BuildsAt : p <= Behind =>
              Cardinality(Before(p)) \in 1 .. Cardinality(Before(Behind))
<1>1. BuildsAt \subseteq Nat BY NextItem DEF BuildsAt, Items
<1>2. /\ \A p : p \in Before(Behind) <=> p \in BuildsAt /\ p <= Behind
      /\ \A p : p \in Before(Behind + 1) <=> p \in BuildsAt /\ p <= Behind + 1
  BY DEF Before
<1>3. Behind \in Nat BY NextItem
<1>4. /\ IsFiniteSet(Before(Behind)) /\ Cardinality(Before(Behind)) \in Nat
      /\ Behind + 1 \in BuildsAt =>
           Cardinality(Before(Behind + 1)) = Cardinality(Before(Behind)) + 1
      /\ Behind + 1 \notin BuildsAt => Before(Behind + 1) = Before(Behind)
  BY <1>1, <1>2, <1>3, CountedUpTo
<1>5. ASSUME NEW p \in BuildsAt, p <= Behind
      PROVE  Cardinality(Before(p)) \in 1 .. Cardinality(Before(Behind))
  <2>1. Before(p) \in SUBSET Before(Behind)
    <3>1. p \in Nat BY <1>1
    <3>2. \A q \in BuildsAt : q <= p => q <= Behind BY <1>1, <1>3, <1>5, <3>1
    <3> QED BY <3>2 DEF Before
  <2>2. IsFiniteSet(Before(Behind)) BY <1>4
  <2>3. IsFiniteSet(Before(p)) /\ Cardinality(Before(p)) <= Cardinality(Before(Behind))
    BY <2>1, <2>2, FS_Subset
  <2>4. p \in Before(p) BY <1>1 DEF Before
  <2>5. Cardinality(Before(p)) # 0 BY <2>3, <2>4, FS_EmptySet
  <2>6. Cardinality(Before(p)) \in Nat BY <2>3, FS_CardinalityType
  <2> QED BY <1>4, <2>3, <2>5, <2>6
<1> QED BY <1>4, <1>5

(* Whether the generator stands within a method, after the next item.       *)
LEMMA InsideAfter ==
  ASSUME ListInv, todo # <<>>
  PROVE  /\ Inside(Behind) \in 0 .. 1
         /\ Head(todo).kind = "enter" => Inside(Behind) = 0 /\ Inside(Behind + 1) = 1
         /\ Head(todo).kind = "leave" => Inside(Behind) = 1 /\ Inside(Behind + 1) = 0
         /\ Head(todo).kind = "build" => Inside(Behind) = 1 /\ Inside(Behind + 1) = 1
<1> DEFINE item == Items[Behind + 1]
<1>1. /\ Behind \in Nat /\ Behind + 1 # 0 /\ Head(todo) = item /\ item \in VisitItem
      /\ Behind + 1 \in DOMAIN Items
  BY NextItem DEF RefAt, Items
<1>2. item = Enter <=> (Behind = 0 \/ Items[Behind] = Leave)
  <2>1. \A p \in DOMAIN Items : Items[p] = Enter <=> (p = 1 \/ Items[p - 1] = Leave)
    BY NextItem DEF Nested
  <2>2. PICK p \in DOMAIN Items : p = Behind + 1 BY <1>1
  <2>3. p - 1 = Behind /\ (p = 1 <=> Behind = 0) BY <1>1, <2>2
  <2> HIDE DEF item
  <2>4. Items[p] = Enter <=> (p = 1 \/ Items[p - 1] = Leave) BY <2>1
  <2>5. item = Items[p] BY <2>2 DEF item
  <2> QED BY <2>3, <2>4, <2>5
<1>4. Inside(Behind) = IF item = Enter THEN 0 ELSE 1 BY <1>2 DEF Inside
<1>5. Inside(Behind + 1) = IF item = Leave THEN 0 ELSE 1 BY <1>1 DEF Inside
<1>6. /\ Head(todo).kind = "enter" <=> item = Enter
      /\ Head(todo).kind = "leave" <=> item = Leave
      /\ Enter # Leave /\ Enter.kind # "build" /\ Leave.kind # "build"
      /\ Enter.kind # "leave" /\ Leave.kind # "enter"
  <2>1. Enter.kind = "enter" /\ Leave.kind = "leave" /\ Enter # Leave BY ItemKinds
  <2>2. /\ item.kind = "enter" <=> item = Enter
        /\ item.kind = "leave" <=> item = Leave
    BY <1>1, ItemKinds
  <2> QED BY <1>1, <2>1, <2>2
<1> HIDE DEF item
<1> QED BY <1>4, <1>5, <1>6

LEMMA OutsideAtEnd ==
  ASSUME ListInv, todo = <<>>
  PROVE  Inside(Behind) = 0
<1>1. Behind = Len(Items) /\ Items \in Seq(VisitItem) BY NextItem
<1>2. Items # <<>> => Items[Len(Items)] = Leave BY NextItem DEF Nested
<1>3. Items = <<>> => Len(Items) = 0 OBVIOUS
<1> QED BY <1>1, <1>2, <1>3 DEF Inside

(* The operands of a builder that is there.                                 *)
LEMMA InputsKnown ==
  ASSUME ast \in Asts, NEW p \in BuildsAt, Sound(RefAt(p)), InRange(RefAt(p))
  PROVE  /\ RefAt(p).index \in Nat /\ OpOf(RefAt(p)) \in Op
         /\ OpOf(RefAt(p)).name = RefAt(p).op /\ RefAt(p).op \in OpNames
         /\ OpOf(RefAt(p)) \in ToSet(ast.ops)
         /\ Inputs(RefAt(p)) \in Seq(Operand)
<1> DEFINE ref == RefAt(p)
<1>1. ref \in BuildItem
  <2>1. Visitors(ast) \in Seq(VisitItem) BY VisitorsShape
  <2>2. ref \in VisitItem /\ ref.kind = "build" BY <2>1 DEF BuildsAt, RefAt
  <2> QED BY <2>2, ItemKinds
<1>2. ref.index \in Nat /\ ref.op \in OpNames BY <1>1 DEF BuildItem
<1>3. /\ Found(ast, ref.op) \in 1 .. Len(ast.ops)
      /\ ast.ops[Found(ast, ref.op)] \in Op
      /\ ast.ops[Found(ast, ref.op)].name = ref.op
  BY FoundSound DEF Sound
<1>4. OpOf(ref) \in Op /\ OpOf(ref).name = ref.op BY <1>3 DEF OpOf
<1>5. OpOf(ref) \in ToSet(ast.ops)
  <2>1. ast.ops \in Seq(Op) BY AstAssumption
  <2> QED BY <1>3, <2>1 DEF OpOf, ToSet
<1>6. \A dag \in Dag : Operands(dag) \in Seq(Operand) /\ (dag # NULL => dag \in Seq(Operand))
  BY DEF Dag, Operands, Operand
<1> HIDE DEF ref
<1>7. CASE ref.index = 0
  <2>1. OpOf(ref).results \in Dag /\ OpOf(ref).arguments \in Dag BY <1>4 DEF Op
  <2>2. Operands(OpOf(ref).results) \in Seq(Operand) BY <1>6, <2>1
  <2>3. Operands(OpOf(ref).arguments) \in Seq(Operand) BY <1>6, <2>1
  <2>4. Inputs(ref) = Operands(OpOf(ref).results) \o Operands(OpOf(ref).arguments)
    BY <1>7 DEF Inputs
  <2>5. Inputs(ref) \in Seq(Operand) BY <2>2, <2>3, <2>4, Concatenated
  <2> QED BY <1>2, <1>4, <1>5, <2>5 DEF ref
<1>8. CASE ref.index # 0
  <2>1. OpOf(ref).builders \in Seq(Dag) BY <1>4 DEF Op
  <2>2. ref.index \in 1 .. Len(OpOf(ref).builders) /\ OpOf(ref).builders[ref.index] # NULL
    BY <1>8 DEF InRange, ref
  <2>3. OpOf(ref).builders[ref.index] \in Dag BY <2>1, <2>2
  <2>4. Inputs(ref) = OpOf(ref).builders[ref.index] BY <1>8 DEF Inputs
  <2>5. Inputs(ref) \in Seq(Operand) BY <1>6, <2>2, <2>3, <2>4
  <2> QED BY <1>2, <1>4, <1>5, <2>5 DEF ref
<1> QED BY <1>7, <1>8

LEMMA DefaultInputs ==
  ASSUME ast \in Asts, NEW p \in BuildsAt, Sound(RefAt(p)), RefAt(p).index = 0
  PROVE  LET results == Operands(OpOf(RefAt(p)).results)
             arguments == Operands(OpOf(RefAt(p)).arguments)
             inputs == Inputs(RefAt(p))
         IN  /\ results \in Seq(Operand) /\ arguments \in Seq(Operand)
             /\ Len(inputs) = Len(results) + Len(arguments)
             /\ \A i \in 1 .. Len(results) : inputs[i] = results[i]
             /\ \A i \in 1 .. Len(arguments) : inputs[Len(results) + i] = arguments[i]
<1> DEFINE op0 == OpOf(RefAt(p))
           results == Operands(op0.results)
           arguments == Operands(op0.arguments)
           inputs == Inputs(RefAt(p))
<1>1. InRange(RefAt(p)) BY DEF InRange
<1>2. op0 \in Op BY <1>1, InputsKnown
<1>3. op0.results \in Dag /\ op0.arguments \in Dag BY <1>2 DEF Op
<1>4. results \in Seq(Operand) /\ arguments \in Seq(Operand)
  BY <1>3 DEF Dag, Operands, Operand
<1>5. inputs = results \o arguments BY DEF Inputs
<1> HIDE DEF results, arguments, inputs
<1>6. /\ Len(results) \in Nat /\ Len(arguments) \in Nat
      /\ Len(inputs) = Len(results) + Len(arguments)
  BY <1>4, <1>5, Concatenated
<1>7. \A i \in 1 .. Len(results) + Len(arguments) :
        inputs[i] = IF i <= Len(results) THEN results[i] ELSE arguments[i - Len(results)]
  BY <1>4, <1>5, Concatenated
<1>8. ASSUME NEW i \in 1 .. Len(results) PROVE inputs[i] = results[i] BY <1>6, <1>7
<1>9. ASSUME NEW i \in 1 .. Len(arguments) PROVE inputs[Len(results) + i] = arguments[i]
  <2>1. /\ Len(results) + i \in 1 .. Len(results) + Len(arguments)
        /\ ~(Len(results) + i <= Len(results)) /\ Len(results) + i - Len(results) = i
    BY <1>6
  <2> QED BY <1>7, <2>1
<1> QED BY <1>4, <1>6, <1>8, <1>9 DEF results, arguments, inputs

VisitorInv == /\ ListInv /\ DebtInv /\ FileInv
              /\ BuilderInv /\ OperandInv /\ NameInv /\ StringInv /\ DataInv

LEMMA InitVisitor == Init => VisitorInv
<1> SUFFICES ASSUME Init PROVE VisitorInv OBVIOUS
<1> USE DEF Init
<1>1. Visitors(ast) \in Seq(VisitItem) /\ Len(Visitors(ast)) \in Nat BY VisitorsShape
<1>2. Behind = 0 BY <1>1 DEF Behind, Items
<1>3. ListInv BY <1>1, <1>2 DEF ListInv, Items, Printing
<1>4. BuildsAt \subseteq 1 .. Len(Items) BY <1>1 DEF BuildsAt, Items
<1>5. \A p \in BuildsAt : ~(p <= 0) BY <1>1, <1>4 DEF Items
<1>6. Before(0) = {} /\ Owing(0) = {} BY <1>5 DEF Before, Owing, Owers
<1>7. Cardinality(Before(0)) = 0 /\ Cardinality(Owing(0)) = 0 BY <1>6, FS_EmptySet
<1>8. DebtInv BY <1>2, <1>7 DEF DebtInv, Inside, Printing
<1>9. FileInv BY <1>2, <1>5, <1>7 DEF FileInv
<1>10. BuilderInv /\ OperandInv /\ NameInv /\ StringInv
  BY DEF BuilderInv, OperandInv, NameInv, StringInv, Printing
<1>11. DataInv
  <2>1. /\ opArguments = <<>> /\ left = <<>> /\ block = <<>> /\ created = <<>>
        /\ op = NULL /\ complained = FALSE
    OBVIOUS
  <2>2. /\ tmpStrings \in [size : Nat, capacity : Nat, home : Nat]
        /\ tmpStrings.size <= tmpStrings.capacity
    BY DEF NoStrings
  <2>3. \A i \in DOMAIN opArguments : FALSE BY <2>1
  <2>4. /\ left \in Seq(Operand) /\ block \in Seq(Declaration)
        /\ opArguments \in Seq([text : Text, owner : Int])
        /\ created \in Seq([op : OpNames, block : Seq(Declaration),
                            arguments : Seq(Text)])
    BY <2>1
  <2> QED BY <2>1, <2>2, <2>3, <2>4 DEF DataInv
<1> QED BY <1>3, <1>8, <1>9, <1>10, <1>11 DEF VisitorInv

(* Every step keeps the module, and stays at an item or advances.           *)
LEMMA StepMoves ==
  ASSUME ListInv, Step
  PROVE  /\ ast' = ast /\ (Stays \/ Advances)
         /\ pc' \in Printing => Stays /\ todo # <<>>
         /\ pc' = "done" => Stays /\ todo = <<>>
         /\ pc' \in Printing \cup {"visitors", "done", "undefined"}
<1> USE DEF Printing, Stays, Advances
<1>1. CASE EnterOrLeaveMethod BY <1>1 DEF EnterOrLeaveMethod
<1>2. CASE UndefinedOp BY <1>2 DEF UndefinedOp
<1>3. CASE EmitOp BY <1>3 DEF EmitOp
<1>4. ASSUME NEW type, Declare(type), pc \in Printing
      PROVE  ast' = ast /\ todo' = todo /\ pc' = pc /\ todo # <<>>
  BY <1>4 DEF Declare, ListInv
<1>5. CASE DeclareMapped BY <1>4, <1>5 DEF DeclareMapped, DefaultLoop
<1>6. CASE DeclareAnyUnmapped BY <1>4, <1>6 DEF DeclareAnyUnmapped, DefaultLoop
<1>7. CASE GiveUp BY <1>7 DEF GiveUp, DefaultLoop, ListInv
<1>8. CASE ResultsDone BY <1>8 DEF ResultsDone, ListInv
<1>9. CASE DeclareBuilderOperand BY <1>4, <1>9 DEF DeclareBuilderOperand
<1>10. CASE CreateOp BY <1>10 DEF CreateOp, ListInv
<1>11. CASE CreateUndefined BY <1>11 DEF CreateUndefined
<1>12. CASE ClassDone BY <1>12 DEF ClassDone
<1> QED BY <1>1, <1>2, <1>3, <1>5, <1>6, <1>7, <1>8, <1>9, <1>10, <1>11, <1>12 DEF Step

LEMMA ListPreserved ==
  ASSUME ListInv, Step
  PROVE  ListInv'
<1>1. /\ ast' = ast /\ (Stays \/ Advances)
      /\ pc' \in Printing => Stays /\ todo # <<>>
      /\ pc' = "done" => Stays /\ todo = <<>>
      /\ pc' \in Printing \cup {"visitors", "done", "undefined"}
  BY StepMoves
<1>2. Items' = Items BY <1>1, SameModule
<1>3. CASE Stays
  <2>1. \A i \in 1 .. Len(todo') : todo'[i] = Items[Behind' + i] BY <1>1, <1>3, ListStep
  <2> QED BY <1>1, <1>2, <1>3, <2>1 DEF ListInv, Stays
<1>4. CASE Advances
  <2>1. /\ todo' \in Seq(VisitItem) /\ Len(todo') <= Len(Items)
        /\ \A i \in 1 .. Len(todo') : todo'[i] = Items[Behind' + i]
    BY <1>1, <1>4, ListStep
  <2>2. ~Stays
    <3>1. todo \in Seq(VisitItem) /\ todo # <<>> BY <1>4 DEF ListInv, Advances
    <3>2. Len(Tail(todo)) = Len(todo) - 1 /\ Len(todo) \in Nat BY <3>1
    <3>3. Tail(todo) # todo BY <3>2
    <3> QED BY <1>4, <3>3 DEF Stays, Advances
  <2> QED BY <1>1, <1>2, <2>1, <2>2 DEF ListInv
<1> QED BY <1>1, <1>3, <1>4

(* The operand that the loop is at.                                         *)
LEMMA InputsTyped ==
  ASSUME VisitorInv, pc \in Printing
  PROVE  /\ Inputs(Current) \in Seq(Operand) /\ Len(Inputs(Current)) \in Nat
         /\ Len(block) \in Nat /\ Len(left) \in Nat
         /\ Current.index \in Nat
         /\ Len(block) + Len(left) <= Len(Inputs(Current))
         /\ pc # "results" => Len(block) + Len(left) = Len(Inputs(Current))
         /\ pc = "results" => Len(block) + Len(left) = Len(Operands(op.results))
<1>1. /\ ast \in Asts /\ Behind + 1 \in BuildsAt /\ Sound(Current) /\ InRange(Current)
      /\ op = OpOf(Current) /\ (Current.index = 0 <=> pc # "builder")
  BY DEF VisitorInv, ListInv, BuilderInv
<1>2. Inputs(Current) \in Seq(Operand) /\ Current.index \in Nat
  BY <1>1, InputsKnown DEF Current
<1>3. Len(Inputs(Current)) \in Nat BY <1>2
<1>4. Len(block) \in Nat /\ Len(left) \in Nat BY DEF VisitorInv, DataInv
<1>5. Len(block) + Len(left) = IF pc = "results" THEN Len(Operands(op.results))
                               ELSE Len(Inputs(Current))
  BY DEF VisitorInv, OperandInv
<1>6. pc = "results" => Len(Operands(op.results)) <= Len(Inputs(Current))
  <2> SUFFICES ASSUME pc = "results" PROVE Len(Operands(op.results)) <= Len(Inputs(Current))
    OBVIOUS
  <2>1. /\ Operands(op.results) \in Seq(Operand) /\ Operands(op.arguments) \in Seq(Operand)
        /\ Len(Inputs(Current)) = Len(Operands(op.results)) + Len(Operands(op.arguments))
    BY <1>1, DefaultInputs DEF Current
  <2>2. Len(Operands(op.results)) \in Nat /\ Len(Operands(op.arguments)) \in Nat BY <2>1
  <2> QED BY <2>1, <2>2
<1> QED BY <1>2, <1>3, <1>4, <1>5, <1>6

LEMMA NextOperand ==
  ASSUME VisitorInv, pc \in Printing, left # <<>>
  PROVE  /\ Len(block) + 1 \in 1 .. Len(Inputs(Current))
         /\ Head(left) = Inputs(Current)[Len(block) + 1]
         /\ Head(left) \in Operand /\ Len(left) # 0
<1>1. left \in Seq(Operand) /\ Len(left) \in Nat /\ Len(left) # 0 BY DEF VisitorInv, DataInv
<1>2. Head(left) = left[1] /\ left[1] \in Operand /\ 1 \in 1 .. Len(left) BY <1>1
<1>3. left[1] = Inputs(Current)[Len(block) + 1] BY <1>2 DEF VisitorInv, OperandInv
<1>4. Len(block) + 1 \in 1 .. Len(Inputs(Current)) BY <1>1, InputsTyped
<1> QED BY <1>1, <1>2, <1>3, <1>4

(* The generator gives up on an operand that is not supported, and prints a *)
(* call only when it has met none.                                          *)
LEMMA GivesUpUnsupported ==
  ASSUME VisitorInv, GiveUp
  PROVE  Owes(Behind + 1)
<1>1. /\ pc \in Printing /\ pc # "builder" /\ left # <<>> /\ Head(left).type \in Unsupported
  BY DEF GiveUp, DefaultLoop, Printing, Unsupported
<1>2. Sound(Current) /\ Current.index = 0
  BY <1>1 DEF BuilderInv, VisitorInv
<1>3. /\ Len(block) + 1 \in 1 .. Len(Inputs(Current)) /\ Inputs(Current) \in Seq(Operand)
      /\ Head(left) = Inputs(Current)[Len(block) + 1]
  BY <1>1, NextOperand, InputsTyped
<1>4. Head(left) \in ToSet(Inputs(Current)) BY <1>3 DEF ToSet
<1>5. ~Supported(Current) BY <1>1, <1>2, <1>4 DEF Supported, Unsupported
<1> QED BY <1>2, <1>5 DEF Owes, Current

LEMMA CreatesSupported ==
  ASSUME VisitorInv, CreateOp \/ CreateUndefined
  PROVE  ~Owes(Behind + 1)
<1>1. pc \in {"arguments", "builder"} /\ pc \in Printing /\ left = <<>>
  BY DEF CreateOp, CreateUndefined, Printing
<1>2. pc # "builder" <=> Current.index = 0 BY <1>1 DEF BuilderInv, VisitorInv
<1>3. /\ Inputs(Current) \in Seq(Operand) /\ Current.index \in Nat
      /\ Len(block) + Len(left) = Len(Inputs(Current)) /\ Len(block) \in Nat
  BY <1>1, InputsTyped
<1>4. Len(left) = 0 BY <1>1
<1>5. CASE pc = "builder"
  <2>1. Current.index > 0 BY <1>2, <1>3, <1>5
  <2> QED BY <2>1 DEF Owes, Supported, Current
<1>6. CASE pc # "builder"
  <2>1. \A i \in 1 .. Len(Inputs(Current)) : Inputs(Current)[i].type \notin Unsupported
    BY <1>1, <1>3, <1>4, <1>6 DEF OperandInv, VisitorInv
  <2>2. \A operand \in ToSet(Inputs(Current)) : operand.type \notin Unsupported
    BY <1>3, <2>1 DEF ToSet
  <2> QED BY <2>2 DEF Owes, Supported, Current, Unsupported
<1> QED BY <1>5, <1>6

(* The brace that a builder opens is closed unless the builder gives up.    *)
LEMMA DebtPreserved ==
  ASSUME VisitorInv, Step
  PROVE  DebtInv'
<1> DEFINE owed == Cardinality(Owing(Behind))
           Tally(debt, where) ==
             /\ pc' = "done" => depth' = debt
             /\ pc' = "visitors" => depth' = 1 + where + debt
             /\ pc' \in Printing => depth' = 2 + where + debt
<1>1. ListInv /\ DebtInv /\ BuilderInv /\ OperandInv BY DEF VisitorInv
<1>2. ast' = ast BY <1>1, StepMoves
<1>3. Items' = Items /\ Owers' = Owers BY <1>2, SameModule
<1>4. Cardinality(Owing(Behind))' = Cardinality(Owing(Behind')) /\ Inside(Behind)' = Inside(Behind')
  BY <1>3 DEF Owing, Inside
<1>5. /\ Stays => Behind' = Behind
      /\ Advances => Behind' = Behind + 1
  BY <1>1, <1>2, ListStep
<1>6. owed \in Nat /\ Inside(Behind) \in 0 .. 1
  BY <1>1, OwingCounts, InsideAfter, OutsideAtEnd
<1>7. ASSUME NEW debt, NEW where, depth' \in Nat, Tally(debt, where),
             debt = Cardinality(Owing(Behind')), where = Inside(Behind')
      PROVE  DebtInv'
  <2>1. debt = Cardinality(Owing(Behind))' /\ where = Inside(Behind)' BY <1>4, <1>7
  <2>2. /\ pc' = "done" => depth' = debt
        /\ pc' = "visitors" => depth' = 1 + where + debt
        /\ pc' \in Printing => depth' = 2 + where + debt
    BY <1>7
  <2> QED BY <1>7, <2>1, <2>2 DEF DebtInv, Printing
<1>8. ASSUME Stays, depth' \in Nat, Tally(owed, Inside(Behind)) PROVE DebtInv'
  BY <1>5, <1>7, <1>8
<1>9. ASSUME Advances, Behind + 1 \notin Owers, depth' \in Nat,
             Tally(owed, Inside(Behind + 1))
      PROVE  DebtInv'
  <2>1. Cardinality(Owing(Behind + 1)) = owed
    BY <1>1, <1>6, <1>9, OwingCounts DEF Advances, Owers
  <2> QED BY <1>5, <1>7, <1>9, <2>1
<1>10. ASSUME Advances, Behind + 1 \in Owers, depth' \in Nat,
              Tally(owed + 1, Inside(Behind + 1))
       PROVE  DebtInv'
  <2>1. Cardinality(Owing(Behind + 1)) = owed + 1
    BY <1>1, <1>6, <1>10, OwingCounts DEF Advances, Owers
  <2> QED BY <1>5, <1>7, <1>10, <2>1
<1>11. /\ pc = "visitors" => depth = 1 + Inside(Behind) + owed
       /\ pc \in Printing => depth = 2 + Inside(Behind) + owed
       /\ depth \in Nat
  BY <1>1 DEF DebtInv
<1>12. todo # <<>> => /\ Head(todo) = RefAt(Behind + 1)
                      /\ Head(todo).kind = "build" <=> Behind + 1 \in BuildsAt
  BY <1>1, NextItem
<1>13. Behind + 1 \in Owers <=> Behind + 1 \in BuildsAt /\ Owes(Behind + 1) BY DEF Owers
<1> HIDE DEF owed
<1>14. CASE EnterOrLeaveMethod
  <2>1. Advances /\ pc = "visitors" /\ pc' = "visitors" /\ Head(todo).kind \in {"enter", "leave"}
    BY <1>14 DEF EnterOrLeaveMethod, Advances
  <2>2. Behind + 1 \notin Owers BY <1>12, <1>13, <2>1 DEF Advances
  <2>3. depth' = IF Head(todo).kind = "enter" THEN depth + 1 ELSE depth - 1
    BY <1>14 DEF EnterOrLeaveMethod
  <2>4. /\ Head(todo).kind = "enter" => Inside(Behind) = 0 /\ Inside(Behind + 1) = 1
        /\ Head(todo).kind = "leave" => Inside(Behind) = 1 /\ Inside(Behind + 1) = 0
    BY <1>1, <2>1, InsideAfter DEF Advances
  <2>5. depth' = 1 + Inside(Behind + 1) + owed /\ depth' \in Nat
    BY <1>6, <1>11, <2>1, <2>3, <2>4
  <2> QED BY <1>6, <1>9, <2>1, <2>2, <2>5 DEF Printing
<1>15. CASE UndefinedOp
  <2>1. /\ Advances /\ pc = "visitors" /\ pc' = "visitors" /\ Head(todo).kind = "build"
        /\ depth' = depth /\ Found(ast, Head(todo).op) = 0
    BY <1>15 DEF UndefinedOp, Advances
  <2>2. ~Owes(Behind + 1) BY <1>12, <2>1 DEF Owes, Sound, Advances
  <2>3. Inside(Behind) = 1 /\ Inside(Behind + 1) = 1
    BY <1>1, <2>1, InsideAfter DEF Advances
  <2> QED BY <1>6, <1>9, <1>11, <1>13, <2>1, <2>2, <2>3 DEF Printing
<1>16. CASE EmitOp
  <2>1. /\ Stays /\ pc = "visitors" /\ pc' \in Printing \cup {"undefined"}
        /\ depth' = IF pc' = "undefined" THEN depth ELSE depth + 1
    BY <1>16 DEF EmitOp, Stays, Printing
  <2>2. depth' \in Nat BY <1>11, <2>1
  <2> QED BY <1>6, <1>8, <1>11, <2>1, <2>2 DEF Printing
<1>17. ASSUME Stays, pc \in Printing, pc' \in Printing \cup {"undefined"}, depth' = depth
       PROVE  DebtInv'
  BY <1>6, <1>8, <1>11, <1>17 DEF Printing
<1>18. ASSUME NEW type, Declare(type), pc \in Printing PROVE DebtInv'
  BY <1>17, <1>18 DEF Declare, Stays
<1>19. CASE DeclareMapped BY <1>18, <1>19 DEF DeclareMapped, DefaultLoop, Printing
<1>20. CASE DeclareAnyUnmapped BY <1>18, <1>20 DEF DeclareAnyUnmapped, DefaultLoop, Printing
<1>21. CASE ResultsDone BY <1>17, <1>21 DEF ResultsDone, Stays, Printing
<1>22. CASE DeclareBuilderOperand BY <1>18, <1>22 DEF DeclareBuilderOperand, Printing
<1>23. CASE CreateUndefined BY <1>17, <1>23 DEF CreateUndefined, Stays, Printing
<1>24. CASE ClassDone
  <2>1. Stays /\ todo = <<>> /\ pc = "visitors" /\ pc' = "done" /\ depth' = depth - 1
    BY <1>24 DEF ClassDone, Stays
  <2>2. Inside(Behind) = 0 BY <1>1, <2>1, OutsideAtEnd
  <2>3. depth' = owed BY <1>6, <1>11, <2>1, <2>2
  <2> QED BY <1>6, <1>8, <2>1, <2>3 DEF Printing
<1>25. ASSUME pc \in Printing
       PROVE  /\ todo # <<>> /\ Behind + 1 \in BuildsAt /\ Sound(Current)
              /\ Inside(Behind) = 1 /\ Inside(Behind + 1) = 1
  <2>1. todo # <<>> /\ Behind + 1 \in BuildsAt /\ Sound(Current)
    BY <1>1, <1>25 DEF ListInv, BuilderInv
  <2>2. Head(todo).kind = "build" BY <1>12, <2>1
  <2> QED BY <1>1, <2>1, <2>2, InsideAfter
<1>26. CASE GiveUp
  <2>1. Advances /\ pc \in Printing /\ pc # "builder" /\ pc' = "visitors" /\ depth' = depth
    BY <1>25, <1>26 DEF GiveUp, DefaultLoop, Advances, Printing
  <2>2. Behind + 1 \in Owers BY <1>13, <1>25, <1>26, <2>1, GivesUpUnsupported
  <2> QED BY <1>6, <1>10, <1>11, <1>25, <2>1, <2>2 DEF Printing
<1>27. CASE CreateOp
  <2>1. Advances /\ pc \in Printing /\ pc' = "visitors" /\ depth' = depth - 1
    BY <1>25, <1>27 DEF CreateOp, Advances, Printing
  <2>2. Behind + 1 \notin Owers BY <1>13, <1>27, CreatesSupported
  <2> QED BY <1>6, <1>9, <1>11, <1>25, <2>1, <2>2 DEF Printing
<1> QED BY <1>14, <1>15, <1>16, <1>19, <1>20, <1>21, <1>22, <1>23, <1>24, <1>26, <1>27 DEF Step

LEMMA SameBuilder ==
  ASSUME ListInv, ast' = ast, Stays
  PROVE  /\ Behind' = Behind /\ Current' = Current /\ BuildsAt' = BuildsAt
         /\ Sound(Current)' = Sound(Current) /\ OpOf(Current)' = OpOf(Current)
         /\ InRange(Current)' = InRange(Current) /\ Inputs(Current)' = Inputs(Current)
         /\ NamesOf(Current)' = NamesOf(Current) /\ Undeclared(Current)' = Undeclared(Current)
         /\ \A k : Nameless(k)' = Nameless(k)
<1>1. Behind' = Behind /\ BuildsAt' = BuildsAt BY ListStep, SameModule
<1>2. Current' = Current BY <1>1 DEF Current, RefAt
<1>3. Sound(Current)' = Sound(Current) /\ OpOf(Current)' = OpOf(Current)
  BY <1>2 DEF Sound, OpOf
<1>4. InRange(Current)' = InRange(Current) /\ Inputs(Current)' = Inputs(Current)
  BY <1>2, <1>3 DEF InRange, Inputs
<1>5. NamesOf(Current)' = NamesOf(Current) BY <1>2, <1>3, <1>4 DEF NamesOf
<1>6. Undeclared(Current)' = Undeclared(Current) BY <1>2, <1>4 DEF Undeclared
<1>7. \A k : Nameless(k)' = Nameless(k) BY <1>4 DEF Nameless
<1> QED BY <1>1, <1>2, <1>3, <1>4, <1>5, <1>6, <1>7

(* The builder that emitOp starts.                                          *)
LEMMA BuilderFound ==
  ASSUME VisitorInv, EmitOp, pc' \in Printing
  PROVE  /\ Stays /\ ast' = ast /\ Behind + 1 \in BuildsAt /\ Sound(Current)
         /\ op' = OpOf(Current) /\ InRange(Current) /\ Current.index \in Nat
         /\ Current.index = 0 <=> pc' = "results"
         /\ Current.index # 0 <=> pc' = "builder"
         /\ pc' = "results" => left' = Operands(op'.results)
         /\ pc' = "builder" => left' = Inputs(Current)
<1>1. /\ Stays /\ ast' = ast /\ todo # <<>> /\ Head(todo).kind = "build"
      /\ Found(ast, Head(todo).op) # 0
  BY DEF EmitOp, Stays
<1>2. Head(todo) = Current /\ Behind + 1 \in BuildsAt /\ Current \in VisitItem
  BY <1>1, NextItem DEF VisitorInv, Current
<1>3. Sound(Current) BY <1>1, <1>2 DEF Sound
<1>4. Current \in BuildItem BY <1>1, <1>2, ItemKinds
<1>5. Current.index \in Nat BY <1>4 DEF BuildItem
<1>6. op' = OpOf(Current) BY <1>2 DEF EmitOp, OpOf
<1>7. \/ Current.index = 0 /\ left' = Operands(op'.results) /\ pc' = "results"
      \/ /\ Current.index > 0 /\ HasBuilder(OpOf(Current), Current.index)
         /\ left' = OpOf(Current).builders[Current.index] /\ pc' = "builder"
  BY <1>2, <1>6 DEF EmitOp, OpOf, Printing
<1>8. ASSUME Current.index > 0, HasBuilder(OpOf(Current), Current.index)
      PROVE  InRange(Current)
  <2>1. InRange(Current) BY <1>5, <1>8 DEF InRange, HasBuilder
  <2> QED BY <2>1
<1>9. Current.index = 0 => InRange(Current) BY DEF InRange
<1>10. Current.index # 0 => Inputs(Current) = OpOf(Current).builders[Current.index]
  BY DEF Inputs
<1> QED BY <1>1, <1>2, <1>3, <1>5, <1>6, <1>7, <1>8, <1>9, <1>10

LEMMA BuilderPreserved ==
  ASSUME VisitorInv, Step
  PROVE  BuilderInv'
<1> SUFFICES ASSUME pc' \in Printing PROVE BuilderInv' BY DEF BuilderInv
<1>1. ListInv /\ ast' = ast /\ Stays BY StepMoves DEF VisitorInv
<1>2. /\ Behind' = Behind /\ Current' = Current /\ BuildsAt' = BuildsAt
      /\ Sound(Current)' = Sound(Current) /\ OpOf(Current)' = OpOf(Current)
      /\ InRange(Current)' = InRange(Current)
  BY <1>1, SameBuilder
<1>3. ASSUME pc \in Printing, op' = op, pc' = "builder" <=> pc = "builder" PROVE BuilderInv'
  BY <1>2, <1>3 DEF BuilderInv, VisitorInv
<1>4. CASE EmitOp
  <2>1. /\ Behind + 1 \in BuildsAt /\ Sound(Current) /\ op' = OpOf(Current) /\ InRange(Current)
        /\ Current.index = 0 <=> pc' # "builder"
    BY <1>4, BuilderFound
  <2> QED BY <1>2, <2>1 DEF BuilderInv
<1>5. ASSUME NEW type, Declare(type), pc \in Printing PROVE BuilderInv'
  BY <1>3, <1>5 DEF Declare
<1>6. CASE DeclareMapped BY <1>5, <1>6 DEF DeclareMapped, DefaultLoop, Printing
<1>7. CASE DeclareAnyUnmapped BY <1>5, <1>7 DEF DeclareAnyUnmapped, DefaultLoop, Printing
<1>8. CASE ResultsDone BY <1>3, <1>8 DEF ResultsDone, Printing
<1>9. CASE DeclareBuilderOperand BY <1>5, <1>9 DEF DeclareBuilderOperand, Printing
<1>11. ~(EnterOrLeaveMethod \/ UndefinedOp \/ GiveUp \/ CreateOp \/ CreateUndefined \/ ClassDone)
  BY DEF EnterOrLeaveMethod, UndefinedOp, GiveUp, CreateOp, CreateUndefined,
         ClassDone, Printing
<1> QED BY <1>4, <1>6, <1>7, <1>8, <1>9, <1>11 DEF Step

(* The names of the operands, one by one.                                   *)
LEMMA NameAt ==
  ASSUME NEW ref, NEW i \in DOMAIN Inputs(ref)
  PROVE  LET first == IF ref.index = 0 THEN Len(Operands(OpOf(ref).results)) ELSE 0
             name == Inputs(ref)[i].name
         IN  NamesOf(ref)[i] = IF name # NoName THEN name
                               ELSE IF i <= first THEN <<"res", i - 1>>
                               ELSE <<"arg", i - 1 - first>>
BY DEF NamesOf

LEMMA OneUnnamed ==
  ASSUME NEW ref, Inputs(ref) \in Seq(Operand), Lonely(ref),
         NEW i \in 1 .. Len(Inputs(ref)), NEW j \in 1 .. Len(Inputs(ref)),
         Inputs(ref)[i].name = NoName, Inputs(ref)[j].name = NoName
  PROVE  i = j
<1> SUFFICES ASSUME i # j PROVE FALSE OBVIOUS
<1> DEFINE n == Len(Inputs(ref))
<1>1. n \in Nat /\ DOMAIN Inputs(ref) = 1 .. n OBVIOUS
<1>2. Unnamed(ref) \in SUBSET (1 .. n) BY <1>1 DEF Unnamed
<1>3. IsFiniteSet(1 .. n) BY <1>1, FS_Interval
<1>4. IsFiniteSet(Unnamed(ref)) BY <1>2, <1>3, FS_Subset
<1>5. PICK S : S = {i} OBVIOUS
<1>6. S \cup {j} \in SUBSET Unnamed(ref) BY <1>1, <1>5 DEF Unnamed
<1>7. Cardinality(S \cup {j}) <= Cardinality(Unnamed(ref)) BY <1>4, <1>6, FS_Subset
<1>8. IsFiniteSet(S) /\ Cardinality(S) = 1 /\ j \notin S BY <1>5, FS_Singleton
<1>9. Cardinality(S \cup {j}) = 1 + 1 BY <1>8, FS_AddElement
<1>10. Cardinality(Unnamed(ref)) \in Nat BY <1>4, FS_CardinalityType
<1>11. Cardinality(Unnamed(ref)) <= 1 BY DEF Lonely
<1> HIDE DEF n
<1> QED BY <1>7, <1>9, <1>10, <1>11

LEMMA OperandPreserved ==
  ASSUME VisitorInv, Step
  PROVE  OperandInv'
<1> SUFFICES ASSUME pc' \in Printing PROVE OperandInv' BY DEF OperandInv
<1>1. ListInv /\ ast' = ast /\ Stays BY StepMoves DEF VisitorInv
<1>2. Inputs(Current)' = Inputs(Current) BY <1>1, SameBuilder
<1>3. ASSUME NEW type, Declare(type), pc \in Printing, left # <<>>,
             pc # "builder" => Head(left).type \notin Unsupported
      PROVE  OperandInv'
  <2> DEFINE n == Len(block)
             inputs == Inputs(Current)
  <2>1. /\ n \in Nat /\ n + 1 \in 1 .. Len(inputs) /\ Head(left) = inputs[n + 1]
        /\ Len(left) \in Nat /\ Len(left) # 0
    BY <1>3, NextOperand, InputsTyped
  <2>2. /\ block \in Seq(Declaration) /\ left \in Seq(Operand) BY DEF VisitorInv, DataInv
  <2>3. /\ pc' = pc /\ op' = op /\ left' = Tail(left)
        /\ Len(block') = n + 1
    BY <1>3, <2>2 DEF Declare
  <2>4. Len(left') = Len(left) - 1 /\ \A i \in 1 .. Len(left') : left'[i] = left[i + 1]
    BY <2>1, <2>2, <2>3
  <2>5. /\ n + Len(left) = IF pc = "results" THEN Len(Operands(op.results)) ELSE Len(inputs)
        /\ \A i \in 1 .. Len(left) : left[i] = inputs[n + i]
        /\ pc = "arguments" => Len(left) <= Len(Operands(op.arguments))
        /\ pc # "builder" => \A i \in 1 .. n : inputs[i].type \notin Unsupported
    BY <1>3 DEF VisitorInv, OperandInv
  <2> HIDE DEF n, inputs
  <2>6. n + 1 + Len(left') = n + Len(left) BY <2>1, <2>4
  <2>7. \A i \in 1 .. Len(left') : left'[i] = inputs[n + 1 + i]
    <3> SUFFICES ASSUME NEW i \in 1 .. Len(left') PROVE left'[i] = inputs[n + 1 + i] OBVIOUS
    <3>1. i + 1 \in 1 .. Len(left) /\ n + (i + 1) = n + 1 + i BY <2>1, <2>4
    <3> QED BY <2>4, <2>5, <3>1
  <2>8. pc' # "builder" => \A i \in 1 .. n + 1 : inputs[i].type \notin Unsupported
    <3> SUFFICES ASSUME pc # "builder", NEW i \in 1 .. n + 1
                 PROVE  inputs[i].type \notin Unsupported
      BY <2>3
    <3>1. CASE i = n + 1 BY <1>3, <2>1, <3>1
    <3>2. CASE i # n + 1
      <4>1. i \in 1 .. n BY <2>1, <3>2
      <4> QED BY <2>5, <4>1
    <3> QED BY <3>1, <3>2
  <2>9. pc' = "arguments" => Len(left') <= Len(Operands(op.arguments))
    <3>1. Len(Operands(op.arguments)) \in Nat \/ pc # "arguments"
      <4> SUFFICES ASSUME pc = "arguments" PROVE Len(Operands(op.arguments)) \in Nat OBVIOUS
      <4>1. /\ ast \in Asts /\ Behind + 1 \in BuildsAt /\ Sound(Current)
            /\ op = OpOf(Current) /\ Current.index = 0
        BY <1>3 DEF VisitorInv, ListInv, BuilderInv
      <4>2. Operands(op.arguments) \in Seq(Operand) BY <4>1, DefaultInputs DEF Current
      <4> QED BY <4>2
    <3> QED BY <2>1, <2>3, <2>4, <2>5, <3>1
  <2> QED BY <1>2, <2>3, <2>5, <2>6, <2>7, <2>8, <2>9 DEF OperandInv, inputs
<1>4. CASE EmitOp
  <2>1. /\ Behind + 1 \in BuildsAt /\ Sound(Current) /\ op' = OpOf(Current) /\ InRange(Current)
        /\ Current.index = 0 <=> pc' = "results"
        /\ Current.index # 0 <=> pc' = "builder"
        /\ pc' = "results" => left' = Operands(op'.results)
        /\ pc' = "builder" => left' = Inputs(Current)
    BY <1>4, BuilderFound
  <2>2. block' = <<>> /\ Len(block') = 0 BY <1>4 DEF EmitOp
  <2>3. Inputs(Current) \in Seq(Operand)
    BY <1>1, <2>1, InputsKnown DEF ListInv, Current
  <2>4. CASE pc' = "builder"
    <3>1. left' = Inputs(Current) /\ Len(left') \in Nat BY <2>1, <2>3, <2>4
    <3> QED BY <1>2, <2>2, <2>4, <3>1 DEF OperandInv
  <2>5. CASE pc' = "results"
    <3>1. /\ left' = Operands(op'.results) /\ left' \in Seq(Operand)
          /\ \A i \in 1 .. Len(left') : Inputs(Current)[i] = left'[i]
      BY <1>1, <2>1, <2>5, DefaultInputs DEF ListInv, Current
    <3>2. Len(left') \in Nat BY <3>1
    <3>3. \A i \in 1 .. Len(left') : left'[i] = Inputs(Current)[0 + i] BY <3>1, <3>2
    <3> QED BY <1>2, <2>2, <2>5, <3>1, <3>2, <3>3 DEF OperandInv
  <2> QED BY <2>1, <2>4, <2>5
<1>5. CASE DeclareMapped
  BY <1>3, <1>5 DEF DeclareMapped, DefaultLoop, Printing, Unsupported
<1>6. CASE DeclareAnyUnmapped
  BY <1>3, <1>6 DEF DeclareAnyUnmapped, DefaultLoop, Printing, Unsupported
<1>7. CASE DeclareBuilderOperand BY <1>3, <1>7 DEF DeclareBuilderOperand, Printing
<1>8. CASE ResultsDone
  <2>1. /\ pc = "results" /\ pc' = "arguments" /\ op' = op /\ block' = block
        /\ left = <<>> /\ left' = Operands(op.arguments)
    BY <1>8 DEF ResultsDone, scratch
  <2>2. /\ ast \in Asts /\ Behind + 1 \in BuildsAt /\ Sound(Current)
        /\ op = OpOf(Current) /\ Current.index = 0
    BY <2>1 DEF VisitorInv, ListInv, BuilderInv, Printing
  <2>3. /\ Len(Inputs(Current)) = Len(Operands(op.results)) + Len(Operands(op.arguments))
        /\ \A i \in 1 .. Len(Operands(op.arguments)) :
             Inputs(Current)[Len(Operands(op.results)) + i] = Operands(op.arguments)[i]
        /\ Operands(op.arguments) \in Seq(Operand)
    BY <2>2, DefaultInputs DEF Current
  <2>4. Len(block) = Len(Operands(op.results))
    <3>1. Len(block) \in Nat /\ Len(block) + Len(left) = Len(Operands(op.results))
      BY <2>1, InputsTyped DEF Printing
    <3> QED BY <2>1, <3>1
  <2>5. \A i \in 1 .. Len(block) : Inputs(Current)[i].type \notin Unsupported
    BY <2>1 DEF VisitorInv, OperandInv, Printing
  <2>6. Len(Operands(op.arguments)) \in Nat BY <2>3
  <2> QED BY <1>2, <2>1, <2>3, <2>4, <2>5, <2>6 DEF OperandInv
<1>9. ~(EnterOrLeaveMethod \/ UndefinedOp \/ GiveUp \/ CreateOp \/ CreateUndefined \/ ClassDone)
  BY DEF EnterOrLeaveMethod, UndefinedOp, GiveUp, CreateOp, CreateUndefined,
         ClassDone, Printing
<1> QED BY <1>4, <1>5, <1>6, <1>7, <1>8, <1>9 DEF Step

(* The name a declaration is printed under is the one NamesOf expects.      *)
LEMMA DeclaredText ==
  ASSUME VisitorInv, pc \in Printing, left # <<>>
  PROVE  LET text == IF Head(left).name = NoName THEN <<Prefix, Position>>
                     ELSE Head(left).name
         IN  text = NamesOf(Current)[Len(block) + 1] /\ text \in Text
<1> DEFINE i == Len(block) + 1
           inputs == Inputs(Current)
           first == IF Current.index = 0 THEN Len(Operands(OpOf(Current).results)) ELSE 0
<1>1. /\ i \in 1 .. Len(inputs) /\ Head(left) = inputs[i] /\ Head(left) \in Operand
      /\ Len(left) # 0 /\ Len(block) \in Nat /\ Len(left) \in Nat /\ Len(inputs) \in Nat
      /\ inputs \in Seq(Operand) /\ Current.index \in Nat
      /\ pc # "results" => Len(block) + Len(left) = Len(inputs)
      /\ pc = "results" => Len(block) + Len(left) = Len(Operands(op.results))
  BY NextOperand, InputsTyped
<1>2. /\ Behind + 1 \in BuildsAt /\ Sound(Current) /\ op = OpOf(Current) /\ ast \in Asts
      /\ Current.index = 0 <=> pc # "builder"
  BY DEF VisitorInv, BuilderInv, ListInv
<1>3. i \in DOMAIN inputs BY <1>1
<1>4. NamesOf(Current)[i] = IF inputs[i].name # NoName THEN inputs[i].name
                            ELSE IF i <= first THEN <<"res", i - 1>>
                            ELSE <<"arg", i - 1 - first>>
  BY <1>3, NameAt
<1>5. Head(left).name \in OperandNames BY <1>1 DEF Operand
<1> HIDE DEF inputs, i
<1>6. CASE Head(left).name # NoName BY <1>1, <1>4, <1>5, <1>6 DEF Text, i
<1>7. CASE Head(left).name = NoName
  <2>1. ASSUME pc # "builder"
        PROVE  /\ first = Len(Operands(op.results)) /\ first \in Nat
               /\ Len(Operands(op.arguments)) \in Nat
               /\ Len(inputs) = first + Len(Operands(op.arguments))
    <3>1. /\ Operands(op.results) \in Seq(Operand) /\ Operands(op.arguments) \in Seq(Operand)
          /\ Len(inputs) = Len(Operands(op.results)) + Len(Operands(op.arguments))
      BY <1>2, <2>1, DefaultInputs DEF Current, inputs
    <3>2. Len(Operands(op.results)) \in Nat /\ Len(Operands(op.arguments)) \in Nat BY <3>1
    <3>3. first = Len(Operands(op.results)) BY <1>2, <2>1
    <3> HIDE DEF first
    <3> QED BY <3>1, <3>2, <3>3
  <2>2. CASE pc = "results"
    <3>1. Position = i - 1 /\ i <= first /\ Prefix = "res"
      BY <1>1, <2>1, <2>2 DEF Position, Prefix, i
    <3>2. NamesOf(Current)[i] = <<Prefix, Position>> /\ Position \in Int
      BY <1>1, <1>4, <1>7, <3>1 DEF i
    <3> QED BY <1>7, <3>1, <3>2 DEF Text, i
  <2>3. CASE pc = "arguments"
    <3>1. Len(left) <= Len(Operands(op.arguments)) BY <2>3 DEF VisitorInv, OperandInv, Printing
    <3>2. Position = i - 1 - first /\ ~(i <= first) /\ Prefix = "arg"
      <4>1. Position = Len(Operands(op.arguments)) - Len(left) /\ Prefix = "arg"
        BY <2>3 DEF Position, Prefix
      <4> HIDE DEF first
      <4> QED BY <1>1, <2>1, <2>3, <3>1, <4>1 DEF i
    <3>3. NamesOf(Current)[i] = <<Prefix, Position>> /\ Position \in Int
      BY <1>1, <1>4, <1>7, <2>1, <2>3, <3>2 DEF i
    <3> QED BY <1>7, <3>2, <3>3 DEF Text, i
  <2>4. CASE pc = "builder"
    <3>1. first = 0 BY <1>2, <2>4
    <3>2. Position = i - 1 - first /\ ~(i <= first) /\ Prefix = "arg"
      BY <1>1, <2>4, <3>1 DEF Position, Prefix, i
    <3>3. NamesOf(Current)[i] = <<Prefix, Position>> /\ Position \in Int
      BY <1>1, <1>4, <1>7, <3>1, <3>2 DEF i
    <3> QED BY <1>7, <3>2, <3>3 DEF Text, i
  <2> QED BY <2>2, <2>3, <2>4 DEF Printing
<1> QED BY <1>6, <1>7

(* One declaration: what it adds to the block, the arguments and strings.   *)
LEMMA DeclareEffect ==
  ASSUME VisitorInv, pc \in Printing, left # <<>>, NEW type \in LineTypes,
         Declare(type)
  PROVE  \E text \in Text, ref \in [text : Text, owner : Int] :
           /\ text = NamesOf(Current)[Len(block) + 1] /\ ref.text = text
           /\ block' = Append(block, [type |-> type, name |-> text])
           /\ opArguments' = Append(opArguments, ref)
           /\ [type |-> type, name |-> text] \in Declaration
           /\ ref.owner \in Source .. tmpStrings'.home
           /\ tmpStrings.home <= tmpStrings'.home
           /\ tmpStrings' \in [size : Nat, capacity : Nat, home : Nat]
           /\ tmpStrings'.size <= tmpStrings'.capacity
           /\ left' \in Seq(Operand)
<1> DEFINE name == Head(left).name
           text == IF name = NoName THEN <<Prefix, Position>> ELSE name
           strings == IF name = NoName THEN Emplaced(tmpStrings) ELSE tmpStrings
           ref == IF name = NoName THEN Computed(text, strings) ELSE Named(text)
<1>1. text = NamesOf(Current)[Len(block) + 1] /\ text \in Text BY DeclaredText
<1>2. /\ block' = Append(block, [type |-> type, name |-> text])
      /\ opArguments' = Append(opArguments, ref)
      /\ tmpStrings' = strings /\ left' = Tail(left)
  BY DEF Declare
<1> HIDE DEF text
<1>3. /\ tmpStrings \in [size : Nat, capacity : Nat, home : Nat]
      /\ tmpStrings.size <= tmpStrings.capacity /\ left \in Seq(Operand)
  BY DEF VisitorInv, DataInv
<1>4. /\ strings \in [size : Nat, capacity : Nat, home : Nat]
      /\ strings.size <= strings.capacity /\ tmpStrings.home <= strings.home
  <2>1. CASE name # NoName BY <1>3, <2>1
  <2>2. CASE name = NoName
    <3>1. CASE tmpStrings.size < tmpStrings.capacity
      <4>1. strings = [tmpStrings EXCEPT !.size = @ + 1] BY <2>2, <3>1 DEF Emplaced
      <4> HIDE DEF strings
      <4> QED BY <1>3, <3>1, <4>1
    <3>2. CASE ~(tmpStrings.size < tmpStrings.capacity)
      <4>1. strings = [size |-> tmpStrings.size + 1, capacity |-> 2 * tmpStrings.capacity + 1,
                       home |-> tmpStrings.home + 1]
        BY <2>2, <3>2 DEF Emplaced
      <4> HIDE DEF strings
      <4> QED BY <1>3, <3>2, <4>1
    <3> QED BY <3>1, <3>2
  <2> QED BY <2>1, <2>2
<1> HIDE DEF strings
<1>5. ref \in [text : Text, owner : Int] /\ ref.text = text /\ ref.owner \in Source .. strings.home
  BY <1>1, <1>4 DEF Computed, Named, Source
<1>6. [type |-> type, name |-> text] \in Declaration BY <1>1 DEF Declaration
<1>7. left' \in Seq(Operand) BY <1>2, <1>3
<1> HIDE DEF ref
<1> QED BY <1>1, <1>2, <1>3, <1>4, <1>5, <1>6, <1>7

LEMMA DeclareData ==
  ASSUME VisitorInv, pc \in Printing, left # <<>>, NEW type \in LineTypes,
         Declare(type), complained' \in BOOLEAN
  PROVE  DataInv'
<1>1. PICK text \in Text, ref \in [text : Text, owner : Int] :
        /\ block' = Append(block, [type |-> type, name |-> text])
        /\ opArguments' = Append(opArguments, ref)
        /\ [type |-> type, name |-> text] \in Declaration
        /\ ref.owner \in Source .. tmpStrings'.home
        /\ tmpStrings.home <= tmpStrings'.home
        /\ tmpStrings' \in [size : Nat, capacity : Nat, home : Nat]
        /\ tmpStrings'.size <= tmpStrings'.capacity
        /\ left' \in Seq(Operand)
  BY DeclareEffect
<1>2. /\ ast' = ast /\ op' = op /\ created' = created BY DEF Declare
<1> USE DEF VisitorInv, DataInv
<1>3. block' \in Seq(Declaration) BY <1>1
<1>4. opArguments' \in Seq([text : Text, owner : Int]) BY <1>1
<1>5. \A i \in DOMAIN opArguments' : opArguments'[i].owner \in Source .. tmpStrings'.home
  <2> SUFFICES ASSUME NEW i \in DOMAIN opArguments'
               PROVE  opArguments'[i].owner \in Source .. tmpStrings'.home
    OBVIOUS
  <2>1. /\ opArguments \in Seq([text : Text, owner : Int])
        /\ tmpStrings.home \in Nat /\ tmpStrings'.home \in Nat
    BY <1>1
  <2>0. /\ DOMAIN opArguments = 1 .. Len(opArguments) /\ Len(opArguments) \in Nat
        /\ DOMAIN opArguments' = 1 .. Len(opArguments) + 1
        /\ opArguments'[Len(opArguments) + 1] = ref
        /\ \A j \in 1 .. Len(opArguments) : opArguments'[j] = opArguments[j]
    BY <1>1, <2>1, Appended
  <2>2. CASE i = Len(opArguments) + 1 BY <1>1, <2>0, <2>2
  <2>3. CASE i # Len(opArguments) + 1
    <3>1. i \in DOMAIN opArguments /\ opArguments'[i] = opArguments[i] BY <2>0, <2>3
    <3>2. opArguments[i].owner \in Source .. tmpStrings.home BY <3>1
    <3>3. tmpStrings.home <= tmpStrings'.home BY <1>1
    <3>4. \A owner \in Source .. tmpStrings.home : owner \in Source .. tmpStrings'.home
      BY <2>1, <3>3 DEF Source
    <3> QED BY <3>1, <3>2, <3>4
  <2> QED BY <2>2, <2>3
<1>6. /\ op' = NULL \/ op' \in ToSet(ast'.ops)
      /\ created' \in Seq([op : OpNames, block : Seq(Declaration),
                           arguments : Seq(Text)])
  BY <1>2
<1> QED BY <1>1, <1>3, <1>4, <1>5, <1>6

Call == [op : OpNames, block : Seq(Declaration), arguments : Seq(Text)]

(* The call that is printed for a builder.                                  *)
LEMMA CallPrinted ==
  ASSUME VisitorInv, CreateOp
  PROVE  \E call \in Call :
           /\ created' = Append(created, call) /\ call.op = op.name /\ call.block = block
           /\ call.arguments = [i \in DOMAIN opArguments |-> opArguments[i].text]
<1> DEFINE arguments == [i \in DOMAIN opArguments |-> opArguments[i].text]
           call == [op |-> op.name, block |-> block, arguments |-> arguments]
<1>1. pc \in Printing BY DEF CreateOp, Printing
<1>2. /\ ast \in Asts /\ Behind + 1 \in BuildsAt /\ Sound(Current) /\ InRange(Current)
      /\ op = OpOf(Current)
  BY <1>1 DEF VisitorInv, BuilderInv, ListInv
<1>3. op.name \in OpNames BY <1>2, InputsKnown DEF Current
<1>4. block \in Seq(Declaration) /\ opArguments \in Seq([text : Text, owner : Int])
  BY DEF VisitorInv, DataInv
<1>5. /\ Len(opArguments) \in Nat /\ DOMAIN opArguments = 1 .. Len(opArguments)
      /\ \A i \in DOMAIN opArguments : opArguments[i] \in [text : Text, owner : Int]
  <2>1. \A S : \A s \in Seq(S) : /\ Len(s) \in Nat /\ DOMAIN s = 1 .. Len(s)
                                /\ \A i \in DOMAIN s : s[i] \in S
    OBVIOUS
  <2> QED BY <1>4, <2>1, Zenon
<1>6. \A i \in DOMAIN opArguments : opArguments[i].text \in Text BY <1>5
<1>7. arguments \in [1 .. Len(opArguments) -> Text] BY <1>5, <1>6
<1>8. arguments \in Seq(Text)
  <2> HIDE DEF arguments
  <2> QED BY <1>5, <1>7, SeqDef
<1>9. created' = Append(created, call) BY DEF CreateOp
<1> HIDE DEF arguments
<1>10. call \in Call BY <1>3, <1>4, <1>8 DEF Call
<1>11. call.op = op.name /\ call.block = block /\ call.arguments = arguments OBVIOUS
<1> HIDE DEF call
<1> QED BY <1>9, <1>10, <1>11 DEF arguments

LEMMA DataPreserved ==
  ASSUME VisitorInv, Step
  PROVE  DataInv'
<1>1. ast' = ast BY StepMoves DEF VisitorInv
<1>2. DataInv BY DEF VisitorInv
<1> DEFINE Scratch == /\ block' \in Seq(Declaration)
                      /\ opArguments' \in Seq([text : Text, owner : Int])
                      /\ \A i \in DOMAIN opArguments' :
                           opArguments'[i].owner \in Source .. tmpStrings'.home
                      /\ tmpStrings' \in [size : Nat, capacity : Nat, home : Nat]
                      /\ tmpStrings'.size <= tmpStrings'.capacity
<1>3. UNCHANGED scratch => Scratch BY <1>2 DEF scratch, DataInv
<1>4. ASSUME Scratch, op' = NULL \/ op' \in ToSet(ast.ops), left' \in Seq(Operand),
             created' \in Seq(Call), complained' \in BOOLEAN
      PROVE  DataInv'
  BY <1>1, <1>4 DEF DataInv, Call
<1>5. /\ op = NULL \/ op \in ToSet(ast.ops)
      /\ left \in Seq(Operand) /\ created \in Seq(Call) /\ complained \in BOOLEAN
  BY <1>2 DEF DataInv, Call
<1>6. <<>> \in Seq(Operand) OBVIOUS
<1> HIDE DEF Scratch
<1>7. CASE EnterOrLeaveMethod BY <1>3, <1>4, <1>5, <1>7 DEF EnterOrLeaveMethod
<1>8. CASE UndefinedOp BY <1>3, <1>4, <1>5, <1>8 DEF UndefinedOp
<1>9. CASE EmitOp
  <2>1. /\ created' = created /\ complained' = complained
        /\ opArguments' = <<>> /\ tmpStrings' = NoStrings /\ block' = <<>>
    BY <1>9 DEF EmitOp
  <2>2. Scratch
    <3>1. \A i \in DOMAIN opArguments' : FALSE BY <2>1
    <3>2. /\ tmpStrings' \in [size : Nat, capacity : Nat, home : Nat]
          /\ tmpStrings'.size <= tmpStrings'.capacity
      BY <2>1 DEF NoStrings
    <3>3. /\ block' \in Seq(Declaration) /\ opArguments' \in Seq([text : Text, owner : Int])
      BY <2>1
    <3> QED BY <3>1, <3>2, <3>3 DEF Scratch
  <2> DEFINE found == Found(ast, Head(todo).op)
  <2>3. ast \in Asts /\ found # 0 BY <1>9 DEF EmitOp, VisitorInv, ListInv
  <2>4. found \in 1 .. Len(ast.ops) /\ ast.ops \in Seq(Op) BY <2>3, FoundSound, AstAssumption
  <2>5. op' = ast.ops[found] BY <1>9 DEF EmitOp
  <2> HIDE DEF found
  <2>6. op' \in ToSet(ast.ops) BY <2>4, <2>5 DEF ToSet
  <2>7. left' \in Seq(Operand)
    <3>1. CASE pc' \in Printing
      <4>1. /\ Behind + 1 \in BuildsAt /\ Sound(Current) /\ InRange(Current)
            /\ op' = OpOf(Current) /\ (Current.index = 0 <=> pc' = "results")
            /\ pc' = "results" => left' = Operands(op'.results)
            /\ pc' = "builder" => left' = Inputs(Current)
            /\ pc' = "results" \/ pc' = "builder"
        BY <1>9, <3>1, BuilderFound
      <4>2. Inputs(Current) \in Seq(Operand) BY <2>3, <4>1, InputsKnown DEF Current
      <4>3. Current.index = 0 => Operands(op'.results) \in Seq(Operand)
        BY <2>3, <4>1, DefaultInputs DEF Current
      <4> QED BY <4>1, <4>2, <4>3
    <3>2. CASE pc' \notin Printing
      <4>1. left' = <<>> BY <1>9, <3>2 DEF EmitOp, Printing
      <4> QED BY <4>1
    <3> QED BY <3>1, <3>2
  <2> QED BY <1>4, <1>5, <2>1, <2>2, <2>6, <2>7
<1>10. CASE DeclareMapped
  <2>1. pc \in Printing /\ left # <<>> /\ Declare("type") /\ complained' = complained
    BY <1>10 DEF DeclareMapped, DefaultLoop, Printing
  <2> QED BY <1>5, <2>1, DeclareData DEF LineTypes
<1>11. CASE DeclareAnyUnmapped
  <2>1. pc \in Printing /\ left # <<>> /\ complained' = TRUE
    BY <1>11 DEF DeclareAnyUnmapped, DefaultLoop, Printing
  <2>2. PICK type \in LineTypes : Declare(type) BY <1>11 DEF DeclareAnyUnmapped, LineTypes
  <2> QED BY <2>1, <2>2, DeclareData
<1>12. CASE GiveUp
  <2>1. complained' \in BOOLEAN BY <1>5, <1>12 DEF GiveUp
  <2> QED BY <1>3, <1>4, <1>5, <1>6, <1>12, <2>1 DEF GiveUp
<1>13. CASE ResultsDone
  <2>1. pc = "results" /\ left' = Operands(op.arguments) BY <1>13 DEF ResultsDone
  <2>2. /\ ast \in Asts /\ Behind + 1 \in BuildsAt /\ Sound(Current)
        /\ op = OpOf(Current) /\ Current.index = 0
    BY <2>1 DEF VisitorInv, ListInv, BuilderInv, Printing
  <2>3. left' \in Seq(Operand) BY <2>1, <2>2, DefaultInputs DEF Current
  <2> QED BY <1>3, <1>4, <1>5, <1>13, <2>3 DEF ResultsDone
<1>14. CASE DeclareBuilderOperand
  <2>1. pc \in Printing /\ left # <<>> /\ complained' = complained
    BY <1>14 DEF DeclareBuilderOperand, Printing
  <2>2. PICK type \in LineTypes : Declare(type)
    BY <1>14 DEF DeclareBuilderOperand, LineTypes
  <2> QED BY <1>5, <2>1, <2>2, DeclareData
<1>15. CASE CreateOp
  <2>0. PICK call \in Call : created' = Append(created, call) BY <1>15, CallPrinted
  <2>1. created' \in Seq(Call) BY <1>5, <2>0, Appended
  <2> QED BY <1>3, <1>4, <1>5, <1>15, <2>1 DEF CreateOp
<1>16. CASE CreateUndefined BY <1>3, <1>4, <1>5, <1>16 DEF CreateUndefined
<1>17. CASE ClassDone BY <1>3, <1>4, <1>5, <1>17 DEF ClassDone
<1> QED BY <1>7, <1>8, <1>9, <1>10, <1>11, <1>12, <1>13, <1>14, <1>15, <1>16, <1>17 DEF Step

LEMMA NamePreserved ==
  ASSUME VisitorInv, Step
  PROVE  NameInv'
<1> SUFFICES ASSUME pc' \in Printing PROVE NameInv' BY DEF NameInv
<1>1. ListInv /\ ast' = ast /\ Stays BY StepMoves DEF VisitorInv
<1>2. /\ NamesOf(Current)' = NamesOf(Current) /\ Undeclared(Current)' = Undeclared(Current)
  BY <1>1, SameBuilder
<1>3. ASSUME pc \in Printing, left # <<>>, NEW type \in LineTypes, Declare(type),
             type = "type" <=> Len(block) + 1 \notin Undeclared(Current)
      PROVE  NameInv'
  <2> DEFINE n == Len(block)
             names == NamesOf(Current)
             hidden == Undeclared(Current)
  <2>1. PICK text \in Text, ref \in [text : Text, owner : Int] :
          /\ text = names[n + 1] /\ ref.text = text
          /\ block' = Append(block, [type |-> type, name |-> text])
          /\ opArguments' = Append(opArguments, ref)
          /\ [type |-> type, name |-> text] \in Declaration
    BY <1>3, DeclareEffect
  <2>2. /\ block \in Seq(Declaration) /\ opArguments \in Seq([text : Text, owner : Int])
        /\ Len(opArguments) = n
        /\ \A i \in 1 .. n : /\ block[i].name = names[i]
                             /\ opArguments[i].text = block[i].name
                             /\ block[i].type = "type" <=> i \notin hidden
    BY <1>3 DEF VisitorInv, DataInv, NameInv
  <2>3. /\ Len(block') = n + 1 /\ n \in Nat /\ block'[n + 1] = [type |-> type, name |-> text]
        /\ \A j \in 1 .. n : block'[j] = block[j]
    BY <2>1, <2>2, Appended
  <2>4. /\ Len(opArguments') = n + 1 /\ opArguments'[n + 1] = ref
        /\ \A j \in 1 .. n : opArguments'[j] = opArguments[j]
    BY <2>1, <2>2, Appended
  <2>0. type = "type" <=> n + 1 \notin hidden BY <1>3
  <2> HIDE DEF n, names, hidden
  <2>5. ASSUME NEW i \in 1 .. n + 1
        PROVE  /\ block'[i].name = names[i] /\ opArguments'[i].text = block'[i].name
               /\ block'[i].type = "type" <=> i \notin hidden
    <3>1. CASE i = n + 1 BY <2>0, <2>1, <2>3, <2>4, <3>1
    <3>2. CASE i # n + 1
      <4>1. i \in 1 .. n BY <2>3, <3>2
      <4> QED BY <2>2, <2>3, <2>4, <4>1
    <3> QED BY <3>1, <3>2
  <2> QED BY <1>2, <2>3, <2>4, <2>5 DEF NameInv, names, hidden
<1>4. CASE EmitOp
  <2>1. Len(block') = 0 /\ Len(opArguments') = 0 BY <1>4 DEF EmitOp
  <2>2. \A i \in 1 .. Len(block') : FALSE BY <2>1
  <2> QED BY <2>1, <2>2 DEF NameInv
<1>10. ASSUME pc \in Printing, left # <<>>
       PROVE  /\ Current.index = 0 <=> pc # "builder"
              /\ Len(block) + 1 \in Undeclared(Current) <=>
                   IF pc = "builder" THEN Head(left).name = NoName
                   ELSE Head(left).type = "anyLastUnmapped"
  <2>1. Current.index = 0 <=> pc # "builder" BY <1>10 DEF VisitorInv, BuilderInv
  <2>2. /\ Len(block) + 1 \in DOMAIN Inputs(Current)
        /\ Head(left) = Inputs(Current)[Len(block) + 1]
    BY <1>10, NextOperand, InputsTyped
  <2> QED BY <2>1, <2>2 DEF Undeclared
<1>5. CASE DeclareMapped
  <2>1. /\ pc \in Printing /\ pc # "builder" /\ left # <<>> /\ Declare("type")
        /\ Head(left).type # "anyLastUnmapped"
    BY <1>5 DEF DeclareMapped, DefaultLoop, Printing
  <2> QED BY <1>3, <1>10, <2>1 DEF LineTypes
<1>6. CASE DeclareAnyUnmapped
  <2>1. /\ pc \in Printing /\ pc # "builder" /\ left # <<>>
        /\ Declare(IF Head(left).type = "anyLastUnmapped" THEN "nothing" ELSE "type")
    BY <1>6 DEF DeclareAnyUnmapped, DefaultLoop, Printing
  <2> QED BY <1>3, <1>10, <2>1 DEF LineTypes
<1>7. CASE DeclareBuilderOperand
  <2>1. /\ pc \in Printing /\ pc = "builder" /\ left # <<>>
        /\ Declare(IF Head(left).name = NoName THEN "joined" ELSE "type")
    BY <1>7 DEF DeclareBuilderOperand, Printing
  <2> QED BY <1>3, <1>10, <2>1 DEF LineTypes
<1>8. CASE ResultsDone
  <2>1. pc \in Printing /\ block' = block /\ opArguments' = opArguments /\ tmpStrings' = tmpStrings
    BY <1>8 DEF ResultsDone, scratch, Printing
  <2> QED BY <1>2, <2>1 DEF NameInv, VisitorInv
<1>9. ~(EnterOrLeaveMethod \/ UndefinedOp \/ GiveUp \/ CreateOp \/ CreateUndefined \/ ClassDone)
  BY DEF EnterOrLeaveMethod, UndefinedOp, GiveUp, CreateOp, CreateUndefined,
         ClassDone, Printing
<1> QED BY <1>4, <1>5, <1>6, <1>7, <1>8, <1>9 DEF Step

LEMMA StringPreserved ==
  ASSUME VisitorInv, Step
  PROVE  StringInv'
<1> SUFFICES ASSUME pc' \in Printing PROVE StringInv' BY DEF StringInv
<1>1. ListInv /\ ast' = ast /\ Stays BY StepMoves DEF VisitorInv
<1>2. \A k : Nameless(k)' = Nameless(k) BY <1>1, SameBuilder
<1>3. ASSUME NEW nameless, nameless = Nameless(Len(block')),
             tmpStrings'.home = 0 =>
               tmpStrings'.capacity = 1 /\ (tmpStrings'.size = 0 <=> nameless = {}),
             tmpStrings'.home = 0 <=> \A i, j \in nameless : i = j,
             nameless # {} => \E i \in 1 .. Len(opArguments') : opArguments'[i].owner = 0
      PROVE  StringInv'
  <2>1. Nameless(Len(block))' = nameless BY <1>2, <1>3 DEF Nameless
  <2> QED BY <1>3, <2>1 DEF StringInv
<1>4. ASSUME pc \in Printing, left # <<>>, NEW type \in LineTypes, Declare(type)
      PROVE  StringInv'
  <2> DEFINE n == Len(block)
             before == Nameless(n)
             after == Nameless(n + 1)
  <2>1. /\ tmpStrings.home = 0 =>
             tmpStrings.capacity = 1 /\ (tmpStrings.size = 0 <=> before = {})
        /\ tmpStrings.home = 0 <=> \A i, j \in before : i = j
        /\ before # {} => \E i \in 1 .. Len(opArguments) : opArguments[i].owner = 0
    BY <1>4 DEF VisitorInv, StringInv
  <2>2. /\ tmpStrings \in [size : Nat, capacity : Nat, home : Nat]
        /\ tmpStrings.size <= tmpStrings.capacity
        /\ opArguments \in Seq([text : Text, owner : Int]) /\ block \in Seq(Declaration)
    BY DEF VisitorInv, DataInv
  <2>3. PICK text \in Text, ref \in [text : Text, owner : Int] :
          /\ block' = Append(block, [type |-> type, name |-> text])
          /\ opArguments' = Append(opArguments, ref)
          /\ [type |-> type, name |-> text] \in Declaration
    BY <1>4, DeclareEffect
  <2>4. Len(block') = n + 1 /\ n \in Nat BY <2>2, <2>3, Appended
  <2>5. /\ Len(opArguments) \in Nat /\ Len(opArguments') = Len(opArguments) + 1
        /\ opArguments'[Len(opArguments) + 1] = ref
        /\ \A i \in 1 .. Len(opArguments) : opArguments'[i] = opArguments[i]
    BY <2>2, <2>3, Appended
  <2>6. Head(left) = Inputs(Current)[n + 1] BY <1>4, NextOperand
  <2>7. /\ Head(left).name # NoName => after = before
        /\ Head(left).name = NoName => after = before \cup {n + 1} /\ n + 1 \notin before
    BY <2>4, <2>6 DEF Nameless
  <2>8. before # {} => \E i \in 1 .. Len(opArguments') : opArguments'[i].owner = 0
    <3> SUFFICES ASSUME before # {}
                 PROVE  \E i \in 1 .. Len(opArguments') : opArguments'[i].owner = 0
      OBVIOUS
    <3>1. PICK i \in 1 .. Len(opArguments) : opArguments[i].owner = 0 BY <2>1
    <3>2. i \in 1 .. Len(opArguments') /\ opArguments'[i] = opArguments[i] BY <2>5, <3>1
    <3> QED BY <3>1, <3>2
  <2>9. CASE Head(left).name # NoName
    <3>1. tmpStrings' = tmpStrings BY <1>4, <2>9 DEF Declare
    <3> HIDE DEF before, after, n
    <3> QED BY <1>3, <2>1, <2>4, <2>7, <2>8, <2>9, <3>1 DEF after
  <2>10. CASE Head(left).name = NoName
    <3>1. /\ tmpStrings' = Emplaced(tmpStrings)
          /\ \E each : /\ opArguments' = Append(opArguments, each)
                       /\ each.owner = Emplaced(tmpStrings).home
      BY <1>4, <2>10 DEF Declare, Computed
    <3>2. after = before \cup {n + 1} /\ n + 1 \notin before /\ after # {} BY <2>7, <2>10
    <3>3. CASE before = {}
      <4>1. tmpStrings.home = 0 /\ tmpStrings.capacity = 1 /\ tmpStrings.size = 0
        BY <2>1, <3>3
      <4>2. /\ tmpStrings'.home = 0 /\ tmpStrings'.capacity = 1 /\ tmpStrings'.size = 1
        BY <2>2, <3>1, <4>1 DEF Emplaced
      <4>3. \E i \in 1 .. Len(opArguments') : opArguments'[i].owner = 0
        <5>1. PICK each : /\ opArguments' = Append(opArguments, each)
                          /\ each.owner = Emplaced(tmpStrings).home
          BY <3>1
        <5>2. opArguments'[Len(opArguments) + 1] = each BY <2>2, <5>1, Appended
        <5>3. each.owner = 0 BY <3>1, <4>2, <5>1
        <5> QED BY <2>5, <5>2, <5>3
      <4>4. \A i, j \in after : i = j BY <3>2, <3>3
      <4> HIDE DEF before, after, n
      <4> QED BY <1>3, <2>4, <3>2, <4>2, <4>3, <4>4 DEF after
    <3>4. CASE before # {}
      <4>1. ~ \A i, j \in after : i = j
        <5>1. PICK i \in before : TRUE BY <3>4
        <5>2. i \in after /\ n + 1 \in after /\ i # n + 1 BY <3>2
        <5> QED BY <5>2
      <4>2. tmpStrings'.home # 0
        <5>1. CASE tmpStrings.home = 0
          <6>1. tmpStrings.capacity = 1 /\ tmpStrings.size # 0 BY <2>1, <3>4, <5>1
          <6>2. ~(tmpStrings.size < tmpStrings.capacity) BY <2>2, <6>1
          <6> QED BY <2>2, <3>1, <5>1, <6>2 DEF Emplaced
        <5>2. CASE tmpStrings.home # 0
          <6>1. tmpStrings'.home \in {tmpStrings.home, tmpStrings.home + 1}
            BY <2>2, <3>1 DEF Emplaced
          <6> QED BY <2>2, <5>2, <6>1
        <5> QED BY <5>1, <5>2
      <4> HIDE DEF before, after, n
      <4> QED BY <1>3, <2>4, <2>8, <3>4, <4>1, <4>2 DEF after
    <3> QED BY <3>3, <3>4
  <2> QED BY <2>9, <2>10
<1>5. CASE EmitOp
  <2>1. Len(block') = 0 /\ tmpStrings' = NoStrings BY <1>5 DEF EmitOp
  <2>2. Nameless(Len(block')) = {}
    <3>1. \A i \in 1 .. Len(block') : FALSE BY <2>1
    <3> QED BY <3>1 DEF Nameless
  <2> QED BY <1>3, <2>1, <2>2 DEF NoStrings
<1>6. CASE DeclareMapped
  BY <1>4, <1>6 DEF DeclareMapped, DefaultLoop, Printing, LineTypes
<1>7. CASE DeclareAnyUnmapped
  <2>1. pc \in Printing /\ left # <<>> BY <1>7 DEF DeclareAnyUnmapped, DefaultLoop, Printing
  <2>2. PICK type \in LineTypes : Declare(type) BY <1>7 DEF DeclareAnyUnmapped, LineTypes
  <2> QED BY <1>4, <2>1, <2>2
<1>8. CASE DeclareBuilderOperand
  <2>1. pc \in Printing /\ left # <<>> BY <1>8 DEF DeclareBuilderOperand, Printing
  <2>2. PICK type \in LineTypes : Declare(type)
    BY <1>8 DEF DeclareBuilderOperand, LineTypes
  <2> QED BY <1>4, <2>1, <2>2
<1>9. CASE ResultsDone
  <2>1. /\ pc \in Printing /\ block' = block /\ opArguments' = opArguments
        /\ tmpStrings' = tmpStrings
    BY <1>9 DEF ResultsDone, scratch, Printing
  <2> QED BY <1>2, <2>1 DEF StringInv, VisitorInv
<1>10. ~(EnterOrLeaveMethod \/ UndefinedOp \/ GiveUp \/ CreateOp \/ CreateUndefined \/ ClassDone)
  BY DEF EnterOrLeaveMethod, UndefinedOp, GiveUp, CreateOp, CreateUndefined,
         ClassDone, Printing
<1> QED BY <1>5, <1>6, <1>7, <1>8, <1>9, <1>10 DEF Step

(* At the call of create, the StringRefs all point to where the strings are *)
(* unless two names had to be computed for the builder.                     *)
LEMMA RefsValid ==
  ASSUME VisitorInv, pc \in {"arguments", "builder"}, left = <<>>
  PROVE  /\ (\A i \in DOMAIN opArguments : Valid(opArguments[i])) <=> Lonely(Current)
         /\ Cardinality(Unnamed(Current)) \in Nat
<1> DEFINE nameless == Nameless(Len(block))
<1>0. pc \in Printing BY DEF Printing
<1>1. /\ Inputs(Current) \in Seq(Operand) /\ Len(Inputs(Current)) \in Nat
      /\ Len(block) \in Nat /\ Len(block) + Len(left) = Len(Inputs(Current))
  BY <1>0, InputsTyped
<1>2. Len(block) = Len(Inputs(Current)) BY <1>1
<1>3. nameless = Unnamed(Current) BY <1>1, <1>2 DEF Nameless, Unnamed
<1>4. /\ tmpStrings.home = 0 <=> \A i, j \in nameless : i = j
      /\ nameless # {} => \E i \in 1 .. Len(opArguments) : opArguments[i].owner = 0
  BY <1>0 DEF VisitorInv, StringInv
<1>5. /\ opArguments \in Seq([text : Text, owner : Int]) /\ tmpStrings.home \in Nat
      /\ \A i \in DOMAIN opArguments : opArguments[i].owner \in Source .. tmpStrings.home
  BY DEF VisitorInv, DataInv
<1>6. DOMAIN opArguments = 1 .. Len(opArguments) BY <1>5
<1> HIDE DEF nameless
<1>7. tmpStrings.home = 0 => \A i \in DOMAIN opArguments : Valid(opArguments[i])
  BY <1>5 DEF Valid, Source
<1>8. tmpStrings.home # 0 => \E i \in DOMAIN opArguments : ~Valid(opArguments[i])
  <2> SUFFICES ASSUME tmpStrings.home # 0
               PROVE  \E i \in DOMAIN opArguments : ~Valid(opArguments[i])
    OBVIOUS
  <2>1. PICK i \in 1 .. Len(opArguments) : opArguments[i].owner = 0 BY <1>4
  <2> QED BY <1>6, <2>1 DEF Valid, Source
<1>9. IsFiniteSet(Unnamed(Current)) /\ Cardinality(Unnamed(Current)) \in Nat
  <2>1. Unnamed(Current) \in SUBSET (1 .. Len(Inputs(Current))) BY <1>1 DEF Unnamed
  <2>2. IsFiniteSet(1 .. Len(Inputs(Current))) BY <1>1, FS_Interval
  <2> QED BY <2>1, <2>2, FS_Subset, FS_CardinalityType
<1>10. Lonely(Current) => \A i, j \in nameless : i = j
  <2> SUFFICES ASSUME Lonely(Current), NEW i \in nameless, NEW j \in nameless PROVE i = j
    OBVIOUS
  <2>1. /\ i \in 1 .. Len(Inputs(Current)) /\ Inputs(Current)[i].name = NoName
        /\ j \in 1 .. Len(Inputs(Current)) /\ Inputs(Current)[j].name = NoName
    BY <1>1, <1>3 DEF Unnamed
  <2> QED BY <1>1, <2>1, OneUnnamed
<1>11. (\A i, j \in nameless : i = j) => Lonely(Current)
  <2> SUFFICES ASSUME \A i, j \in nameless : i = j PROVE Lonely(Current) OBVIOUS
  <2>1. CASE nameless = {} BY <1>3, <2>1, FS_EmptySet DEF Lonely
  <2>2. CASE nameless # {}
    <3>1. PICK i \in nameless : TRUE BY <2>2
    <3>2. nameless = {i} BY <3>1
    <3>3. Cardinality(nameless) = 1 BY <3>2, FS_Singleton
    <3> QED BY <1>3, <3>3 DEF Lonely
  <2> QED BY <2>1, <2>2
<1> QED BY <1>4, <1>7, <1>8, <1>9, <1>10, <1>11

(* The call printed at the end of a block is the one the module asks for.   *)
LEMMA CallAsked ==
  ASSUME VisitorInv, CreateOp
  PROVE  \E call \in Call : created' = Append(created, call) /\ Fits(call, Current)
<1>1. PICK call \in Call :
        /\ created' = Append(created, call) /\ call.op = op.name /\ call.block = block
        /\ call.arguments = [i \in DOMAIN opArguments |-> opArguments[i].text]
  BY CallPrinted
<1>2. pc \in {"arguments", "builder"} /\ pc \in Printing /\ left = <<>> BY DEF CreateOp, Printing
<1>3. /\ ast \in Asts /\ Behind + 1 \in BuildsAt /\ Sound(Current) /\ InRange(Current)
      /\ op = OpOf(Current)
  BY <1>2 DEF VisitorInv, BuilderInv, ListInv
<1>4. op.name = Current.op BY <1>3, InputsKnown DEF Current
<1>5. /\ Len(block) \in Nat /\ Len(block) + Len(left) = Len(Inputs(Current))
      /\ Inputs(Current) \in Seq(Operand)
  BY <1>2, InputsTyped
<1>6. Len(block) = Len(Inputs(Current)) /\ DOMAIN Inputs(Current) = 1 .. Len(block)
  BY <1>2, <1>5
<1>7. /\ block \in Seq(Declaration) /\ opArguments \in Seq([text : Text, owner : Int])
      /\ Len(opArguments) = Len(block)
      /\ \A i \in 1 .. Len(block) :
           /\ block[i].name = NamesOf(Current)[i] /\ opArguments[i].text = block[i].name
           /\ block[i].type = "type" <=> i \notin Undeclared(Current)
  BY <1>2 DEF VisitorInv, DataInv, NameInv
<1>8. /\ DOMAIN block = 1 .. Len(block) /\ DOMAIN opArguments = 1 .. Len(block)
      /\ \A i \in 1 .. Len(block) : block[i] \in Declaration
  BY <1>7
<1>9. /\ DOMAIN call.arguments = 1 .. Len(block)
      /\ \A i \in 1 .. Len(block) : call.arguments[i] = NamesOf(Current)[i]
  BY <1>1, <1>7, <1>8
<1>10. call.arguments = NamesOf(Current)
  <2> DEFINE inputs == Inputs(Current)
  <2>1. DOMAIN NamesOf(Current) = 1 .. Len(block) BY <1>6 DEF NamesOf
  <2>2. NamesOf(Current) = [i \in DOMAIN NamesOf(Current) |-> NamesOf(Current)[i]]
    BY DEF NamesOf
  <2>3. call.arguments = [i \in DOMAIN call.arguments |-> call.arguments[i]]
    BY <1>1
  <2> QED BY <1>9, <2>1, <2>2, <2>3
<1>11. \A i \in 1 .. Len(block) :
         call.block[i] = [type |-> "type", name |-> call.arguments[i]]
           <=> i \notin Undeclared(Current)
  <2> SUFFICES ASSUME NEW i \in 1 .. Len(block)
               PROVE  call.block[i] = [type |-> "type", name |-> call.arguments[i]]
                        <=> i \notin Undeclared(Current)
    OBVIOUS
  <2>1. call.block[i] = block[i] /\ block[i] \in Declaration BY <1>1, <1>8
  <2>2. block[i] = [type |-> block[i].type, name |-> block[i].name] BY <2>1 DEF Declaration
  <2>3. call.arguments[i] = block[i].name BY <1>7, <1>9
  <2> QED BY <1>7, <2>1, <2>2, <2>3
<1>12. Declared(call) = DOMAIN call.arguments \ Undeclared(Current)
  BY <1>1, <1>8, <1>9, <1>11 DEF Declared
<1> QED BY <1>1, <1>4, <1>10, <1>12 DEF Fits

LEMMA FilePreserved ==
  ASSUME VisitorInv, Step
  PROVE  FileInv'
<1>1. ListInv BY DEF VisitorInv
<1>2. ast' = ast BY <1>1, StepMoves
<1>3. /\ Items' = Items /\ BuildsAt' = BuildsAt /\ Fine' = Fine
      /\ \A p : RefAt(p)' = RefAt(p) /\ Before(p)' = Before(p)
      /\ \A ref : NamesOf(ref)' = NamesOf(ref)
  BY <1>2, SameModule
<1> SUFFICES ASSUME Fine PROVE FileInv' BY <1>3 DEF FileInv
<1>4. /\ Len(created) = Cardinality(Before(Behind))
      /\ \A p \in BuildsAt : p <= Behind => Matches(p)
      /\ created \in Seq(Call)
  BY DEF VisitorInv, FileInv, DataInv, Call
<1> DEFINE MatchesNow(p) ==
             Fits(created'[Cardinality(Before(p))], RefAt(p))
<1>5. \A p : Matches(p)' = MatchesNow(p)
  <2>1. \A p : NamesOf(RefAt(p))' = NamesOf(RefAt(p))
    BY <1>2 DEF NamesOf, RefAt, Inputs, OpOf
  <2>2. \A p : Cardinality(Before(p))' = Cardinality(Before(p)) BY <1>3
  <2>3. \A p : Undeclared(RefAt(p))' = Undeclared(RefAt(p))
    BY <1>2 DEF Undeclared, RefAt, Inputs, OpOf
  <2> QED BY <1>3, <2>1, <2>2, <2>3 DEF Matches, Fits, Declared
<1>6. Cardinality(Before(Behind))' = Cardinality(Before(Behind')) BY <1>3 DEF Before
<1>7. ASSUME Len(created') = Cardinality(Before(Behind')),
             \A p \in BuildsAt : p <= Behind' => MatchesNow(p)
      PROVE  FileInv'
  BY <1>3, <1>5, <1>6, <1>7 DEF FileInv
<1>8. created' = created => \A p : MatchesNow(p) = Matches(p) BY DEF Matches
<1> HIDE DEF MatchesNow
<1>9. ASSUME Stays, created' = created PROVE FileInv'
  <2>1. Behind' = Behind BY <1>1, <1>2, <1>9, ListStep
  <2> QED BY <1>4, <1>7, <1>8, <1>9, <2>1
<1>10. ASSUME Advances PROVE Behind' = Behind + 1 /\ Behind \in Nat /\ todo # <<>>
  BY <1>1, <1>2, <1>10, ListStep, NextItem DEF Advances
<1>11. BuildsAt \subseteq Nat BY <1>1, NextItem DEF BuildsAt, Items
<1>12. ASSUME Advances, created' = created, Behind + 1 \notin BuildsAt PROVE FileInv'
  <2>1. Cardinality(Before(Behind')) = Cardinality(Before(Behind))
    BY <1>1, <1>10, <1>12, BeforeCounts
  <2>2. \A p \in BuildsAt : p <= Behind' => p <= Behind BY <1>10, <1>11, <1>12
  <2> QED BY <1>4, <1>7, <1>8, <1>12, <2>1, <2>2
<1>13. CASE EnterOrLeaveMethod
  <2>1. Advances /\ created' = created /\ Head(todo).kind \in {"enter", "leave"}
    BY <1>13 DEF EnterOrLeaveMethod, Advances
  <2>2. Behind + 1 \notin BuildsAt BY <1>1, <2>1, NextItem DEF Advances
  <2> QED BY <1>12, <2>1, <2>2
<1>14. CASE UndefinedOp
  <2>1. todo # <<>> /\ Head(todo).kind = "build" /\ Found(ast, Head(todo).op) = 0
    BY <1>14 DEF UndefinedOp
  <2>2. Head(todo) = RefAt(Behind + 1) /\ Behind + 1 \in BuildsAt BY <1>1, <2>1, NextItem
  <2>3. Sound(RefAt(Behind + 1)) BY <2>2 DEF Fine
  <2> QED BY <2>1, <2>2, <2>3 DEF Sound
<1>15. CASE EmitOp BY <1>9, <1>15 DEF EmitOp, Stays
<1>16. ASSUME NEW type, Declare(type) PROVE FileInv' BY <1>9, <1>16 DEF Declare, Stays
<1>17. CASE DeclareMapped BY <1>16, <1>17 DEF DeclareMapped
<1>18. CASE DeclareAnyUnmapped BY <1>16, <1>18 DEF DeclareAnyUnmapped
<1>19. CASE GiveUp
  <2>1. Behind + 1 \in BuildsAt /\ pc \in Printing
    BY <1>19 DEF GiveUp, DefaultLoop, Printing, VisitorInv, BuilderInv
  <2>2. Supported(RefAt(Behind + 1)) BY <2>1 DEF Fine
  <2> QED BY <1>19, <2>2, GivesUpUnsupported DEF Owes
<1>20. CASE ResultsDone BY <1>9, <1>20 DEF ResultsDone, Stays
<1>21. CASE DeclareBuilderOperand BY <1>16, <1>21 DEF DeclareBuilderOperand
<1>22. CASE CreateOp
  <2>1. pc \in Printing /\ todo' = Tail(todo) BY <1>22 DEF CreateOp, Printing
  <2>2. Advances /\ Behind + 1 \in BuildsAt
    BY <2>1 DEF VisitorInv, ListInv, BuilderInv, Advances
  <2>3. PICK call \in Call : created' = Append(created, call) /\ Fits(call, Current)
    BY <1>22, CallAsked
  <2>4. /\ Len(created) \in Nat /\ Len(created') = Len(created) + 1
        /\ created'[Len(created) + 1] = call
        /\ \A j \in 1 .. Len(created) : created'[j] = created[j]
    BY <1>4, <2>3, Appended
  <2>5. Cardinality(Before(Behind + 1)) = Cardinality(Before(Behind)) + 1
    BY <1>1, <1>10, <2>2, BeforeCounts
  <2>6. MatchesNow(Behind + 1)
    <3>1. created'[Cardinality(Before(Behind + 1))] = call BY <1>4, <2>4, <2>5
    <3> QED BY <2>3, <3>1 DEF MatchesNow, Current
  <2>7. ASSUME NEW p \in BuildsAt, p <= Behind PROVE MatchesNow(p)
    <3>1. Cardinality(Before(p)) \in 1 .. Cardinality(Before(Behind))
      BY <1>1, <2>7, BeforeCounts
    <3>2. created'[Cardinality(Before(p))] = created[Cardinality(Before(p))]
      BY <1>4, <2>4, <3>1
    <3>3. Matches(p) BY <1>4, <2>7
    <3> QED BY <3>2, <3>3 DEF MatchesNow, Matches
  <2>8. \A p \in BuildsAt : p <= Behind' => p <= Behind \/ p = Behind + 1
    BY <1>10, <1>11, <2>2
  <2>9. \A p \in BuildsAt : p <= Behind' => MatchesNow(p) BY <2>6, <2>7, <2>8
  <2>10. Len(created') = Cardinality(Before(Behind')) BY <1>4, <1>10, <2>2, <2>4, <2>5
  <2> QED BY <1>7, <2>9, <2>10
<1>23. CASE CreateUndefined BY <1>9, <1>23 DEF CreateUndefined, Stays
<1>24. CASE ClassDone BY <1>9, <1>24 DEF ClassDone, Stays
<1> QED BY <1>13, <1>14, <1>15, <1>17, <1>18, <1>19, <1>20, <1>21, <1>22, <1>23, <1>24 DEF Step

LEMMA StepVisitor == VisitorInv /\ [Next]_vars => VisitorInv'
<1> SUFFICES ASSUME VisitorInv, [Next]_vars PROVE VisitorInv' OBVIOUS
<1>1. CASE Step
  <2>1. ListInv' BY <1>1, ListPreserved DEF VisitorInv
  <2>2. DebtInv' BY <1>1, DebtPreserved
  <2>3. FileInv' BY <1>1, FilePreserved
  <2>4. BuilderInv' BY <1>1, BuilderPreserved
  <2>5. OperandInv' BY <1>1, OperandPreserved
  <2>6. NameInv' BY <1>1, NamePreserved
  <2>7. DataInv' BY <1>1, DataPreserved
  <2>8. StringInv' BY <1>1, StringPreserved
  <2> QED BY <2>1, <2>2, <2>3, <2>4, <2>5, <2>6, <2>7, <2>8 DEF VisitorInv
<1>2. CASE UNCHANGED vars
  <2>1. /\ ast' = ast /\ todo' = todo /\ pc' = pc /\ op' = op /\ left' = left
        /\ opArguments' = opArguments /\ tmpStrings' = tmpStrings /\ depth' = depth
        /\ block' = block /\ created' = created /\ complained' = complained
    BY <1>2 DEF vars
  <2>2. Items' = Items /\ Behind' = Behind BY <2>1 DEF Items, Behind
  <2>3. ListInv' BY <2>1, <2>2 DEF ListInv, VisitorInv
  <2>4. ListInv BY DEF VisitorInv
  <2>5. Owers' = Owers BY <2>1, SameModule
  <2>6. DebtInv' = DebtInv BY <2>1, <2>2, <2>5 DEF DebtInv, Owing, Inside
  <2>7. /\ Current' = Current /\ BuildsAt' = BuildsAt /\ Fine' = Fine
        /\ Sound(Current)' = Sound(Current) /\ OpOf(Current)' = OpOf(Current)
        /\ InRange(Current)' = InRange(Current) /\ Inputs(Current)' = Inputs(Current)
        /\ NamesOf(Current)' = NamesOf(Current) /\ Undeclared(Current)' = Undeclared(Current)
        /\ \A k : Nameless(k)' = Nameless(k)
    BY <2>1, <2>4, SameBuilder, SameModule DEF Stays
  <2>8. BuilderInv' = BuilderInv BY <2>1, <2>2, <2>7 DEF BuilderInv
  <2>9. OperandInv' = OperandInv BY <2>1, <2>2, <2>7 DEF OperandInv
  <2>10. NameInv' = NameInv BY <2>1, <2>2, <2>7 DEF NameInv
  <2>11. FileInv' = FileInv
    <3>1. \A p : Matches(p)' = Matches(p)
      BY <2>1 DEF Matches, Fits, Declared, Undeclared, RefAt, Before, BuildsAt, NamesOf,
                  Inputs, OpOf
    <3>2. Before(Behind)' = Before(Behind) BY <2>2, <2>7 DEF Before
    <3> QED BY <2>1, <2>2, <2>7, <3>1, <3>2 DEF FileInv
  <2>12. DataInv' = DataInv BY <2>1 DEF DataInv
  <2>13. StringInv' = StringInv
    <3>1. Nameless(Len(block))' = Nameless(Len(block)) BY <2>1, <2>7 DEF Nameless
    <3> QED BY <2>1, <3>1 DEF StringInv
  <2> QED BY <2>3, <2>6, <2>8, <2>9, <2>10, <2>11, <2>12, <2>13 DEF VisitorInv
<1> QED BY <1>1, <1>2 DEF Next

(* What is still to print always is the end of the module's visitors, and   *)
(* what emitOp is at is one of its operands: so no name is read past the    *)
(* strings, and no item, operand or op is met that the module has not.      *)
THEOREM VisitorTyped == Spec => []TypeOK
<1>1. VisitorInv => TypeOK
  <2> SUFFICES ASSUME VisitorInv PROVE TypeOK OBVIOUS
  <2>1. ListInv /\ DebtInv /\ DataInv BY DEF VisitorInv
  <2>2. todo \in Seq({Enter, Leave} \cup {RefAt(p) : p \in BuildsAt})
    <3> DEFINE Here == {Enter, Leave} \cup {RefAt(p) : p \in BuildsAt}
    <3>1. ASSUME NEW i \in 1 .. Len(todo) PROVE todo[i] \in Here
      <4>1. todo[i] = RefAt(Behind + i) BY <2>1 DEF ListInv, RefAt, Items
      <4>2. todo[i] \in VisitItem BY <2>1 DEF ListInv
      <4>3. Behind + i \in DOMAIN Items
        <5>1. Len(todo) \in Nat /\ Len(Items) \in Nat /\ Len(todo) <= Len(Items)
          BY <2>1, NextItem DEF ListInv
        <5>2. Behind + i \in 1 .. Len(Items) BY <5>1 DEF Behind
        <5> QED BY <2>1, <5>2, NextItem
      <4>4. CASE todo[i] \in BuildItem
        <5>1. todo[i].kind = "build" BY <4>4, ItemKinds
        <5>2. Behind + i \in BuildsAt BY <4>1, <4>3, <5>1 DEF BuildsAt, RefAt, Items
        <5> QED BY <4>1, <5>2
      <4>5. CASE todo[i] \notin BuildItem BY <4>2, <4>5 DEF VisitItem
      <4> QED BY <4>4, <4>5
    <3>2. todo \in Seq(VisitItem) /\ Len(todo) \in Nat BY <2>1 DEF ListInv
    <3>3. todo \in [1 .. Len(todo) -> VisitItem] BY <3>2
    <3> HIDE DEF Here
    <3>4. todo \in [1 .. Len(todo) -> Here] BY <3>1, <3>3
    <3>5. todo \in Seq(Here) BY <3>2, <3>4, SeqDef
    <3> QED BY <3>5 DEF Here
  <2>3. \A operand \in ToSet(left) : operand.type \in Types
    <3>1. left \in Seq(Operand) BY <2>1 DEF DataInv
    <3>2. \A operand \in ToSet(left) : operand \in Operand BY <3>1 DEF ToSet
    <3> QED BY <3>2 DEF Operand
  <2>4. \A ref \in ToSet(opArguments) : ref.owner \in Source .. tmpStrings.home
    BY <2>1 DEF DataInv, ToSet
  <2>5. tmpStrings.size \in 0 .. tmpStrings.capacity BY <2>1 DEF DataInv
  <2> QED BY <2>1, <2>2, <2>3, <2>4, <2>5 DEF TypeOK, ListInv, DebtInv, DataInv, Printing
<1> QED BY <1>1, InitVisitor, StepVisitor, PTL DEF Spec

(* Undefined behaviour is met at the first builder that Fatal names.        *)
LEMMA FatalStep == VisitorInv /\ UndefinedExactly /\ [Next]_vars => UndefinedExactly'
<1> SUFFICES ASSUME VisitorInv, UndefinedExactly, [Next]_vars PROVE UndefinedExactly' OBVIOUS
<1>1. ListInv BY DEF VisitorInv
<1>2. Fatal \subseteq BuildsAt /\ BuildsAt \subseteq Nat /\ Behind \in Nat
  BY <1>1, NextItem DEF Fatal, BuildsAt, Items
<1>3. CASE UNCHANGED vars
  <2>1. ast' = ast /\ todo' = todo /\ pc' = pc BY <1>3 DEF vars
  <2>2. Fatal' = Fatal /\ Behind' = Behind BY <2>1, <1>1, SameModule, ListStep DEF Stays
  <2> QED BY <2>1, <2>2 DEF UndefinedExactly
<1>4. CASE Step
  <2>1. ast' = ast BY <1>1, <1>4, StepMoves
  <2>2. Fatal' = Fatal BY <2>1, SameModule
  <2>3. /\ Stays => Behind' = Behind
        /\ Advances => Behind' = Behind + 1
    BY <1>1, <2>1, ListStep
  <2>4. ASSUME Stays, pc' # "undefined" PROVE UndefinedExactly'
    BY <2>2, <2>3, <2>4 DEF UndefinedExactly
  <2>5. ASSUME Stays, Behind + 1 \in Fatal PROVE UndefinedExactly'
    BY <2>2, <2>3, <2>5 DEF UndefinedExactly
  <2>6. ASSUME Advances, Behind + 1 \notin Fatal, pc' # "undefined" PROVE UndefinedExactly'
    <3>1. \A p \in Fatal : p > Behind + 1 BY <1>2, <2>6 DEF UndefinedExactly
    <3> QED BY <2>2, <2>3, <2>6, <3>1 DEF UndefinedExactly
  <2>7. ASSUME todo # <<>>
        PROVE  /\ Head(todo) = Current /\ Current \in VisitItem
               /\ Head(todo).kind = "build" <=> Behind + 1 \in BuildsAt
    BY <1>1, <2>7, NextItem DEF Current
  <2>8. ASSUME pc \in Printing
        PROVE  /\ Behind + 1 \in BuildsAt /\ Sound(Current) /\ InRange(Current)
               /\ todo # <<>>
    BY <2>8 DEF VisitorInv, BuilderInv, ListInv
  <2>9. CASE EnterOrLeaveMethod
    <3>1. Advances /\ Head(todo).kind # "build" /\ pc' = "visitors"
      BY <2>9 DEF EnterOrLeaveMethod, Advances
    <3>2. Behind + 1 \notin Fatal BY <1>2, <2>7, <3>1 DEF Advances
    <3> QED BY <2>6, <3>1, <3>2
  <2>10. CASE UndefinedOp
    <3>1. Advances /\ Found(ast, Head(todo).op) = 0 /\ pc' = "visitors"
      BY <2>10 DEF UndefinedOp, Advances
    <3>2. ~Sound(Current) BY <2>7, <3>1 DEF Sound, Advances
    <3>3. Behind + 1 \notin Fatal BY <3>2 DEF Fatal, Current
    <3> QED BY <2>6, <3>1, <3>3
  <2>11. CASE EmitOp
    <3>1. Stays /\ todo # <<>> /\ Head(todo).kind = "build" /\ Found(ast, Head(todo).op) # 0
      BY <2>11 DEF EmitOp, Stays
    <3>2. CASE pc' = "undefined"
      <4>1. Current.index > 0 /\ ~HasBuilder(OpOf(Current), Current.index)
        BY <2>7, <2>11, <3>1, <3>2 DEF EmitOp, OpOf
      <4>2. Sound(Current) /\ Behind + 1 \in BuildsAt BY <2>7, <3>1 DEF Sound
      <4>3. Current \in BuildItem BY <2>7, <3>1, ItemKinds
      <4>4. Current.index \in Nat BY <4>3 DEF BuildItem
      <4>5. ~InRange(Current) BY <4>1, <4>4 DEF InRange, HasBuilder
      <4>6. Behind + 1 \in Fatal BY <4>2, <4>5 DEF Fatal, Current
      <4> QED BY <2>5, <3>1, <4>6
    <3>3. CASE pc' # "undefined" BY <2>4, <3>1, <3>3
    <3> QED BY <3>2, <3>3
  <2>12. ASSUME NEW type, Declare(type), pc \in Printing PROVE UndefinedExactly'
    BY <2>4, <2>12 DEF Declare, Stays, Printing
  <2>13. CASE DeclareMapped BY <2>12, <2>13 DEF DeclareMapped, DefaultLoop, Printing
  <2>14. CASE DeclareAnyUnmapped BY <2>12, <2>14 DEF DeclareAnyUnmapped, DefaultLoop, Printing
  <2>15. CASE DeclareBuilderOperand BY <2>12, <2>15 DEF DeclareBuilderOperand, Printing
  <2>16. CASE GiveUp
    <3>1. pc \in Printing /\ todo' = Tail(todo) /\ pc' = "visitors"
      BY <2>16 DEF GiveUp, DefaultLoop, Printing
    <3>2. ~Supported(RefAt(Behind + 1)) BY <2>16, GivesUpUnsupported DEF Owes
    <3>3. InRange(RefAt(Behind + 1)) BY <2>8, <3>1 DEF Current
    <3>4. Behind + 1 \notin Fatal BY <3>2, <3>3 DEF Fatal
    <3> QED BY <2>6, <2>8, <3>1, <3>4 DEF Advances
  <2>17. CASE ResultsDone BY <2>4, <2>17 DEF ResultsDone, Stays
  <2>18. ASSUME CreateOp \/ CreateUndefined
         PROVE  /\ pc \in Printing
                /\ Supported(RefAt(Behind + 1)) /\ InRange(RefAt(Behind + 1))
                /\ Behind + 1 \in BuildsAt /\ Sound(RefAt(Behind + 1))
                /\ (\A i \in DOMAIN opArguments : Valid(opArguments[i]))
                     <=> Cardinality(Unnamed(RefAt(Behind + 1))) <= 1
                /\ Cardinality(Unnamed(RefAt(Behind + 1))) \in Nat
    <3>1. pc \in {"arguments", "builder"} /\ left = <<>> /\ pc \in Printing
      BY <2>18 DEF CreateOp, CreateUndefined, Printing
    <3>2. /\ (\A i \in DOMAIN opArguments : Valid(opArguments[i])) <=> Lonely(Current)
          /\ Cardinality(Unnamed(Current)) \in Nat
      BY <3>1, RefsValid
    <3>3. ~Owes(Behind + 1) BY <2>18, CreatesSupported
    <3> QED BY <2>8, <3>1, <3>2, <3>3 DEF Current, Lonely, Owes
  <2>19. CASE CreateOp
    <3>1. /\ todo' = Tail(todo) /\ pc' = "visitors" /\ ast.dialect = "named"
          /\ \A i \in DOMAIN opArguments : Valid(opArguments[i])
      BY <2>19 DEF CreateOp
    <3>2. Behind + 1 \notin Fatal BY <2>18, <2>19, <3>1 DEF Fatal
    <3> QED BY <2>6, <2>8, <2>18, <2>19, <3>1, <3>2 DEF Advances
  <2>20. CASE CreateUndefined
    <3>1. /\ Stays
          /\ \/ ast.dialect # "named"
             \/ ~ \A i \in DOMAIN opArguments : Valid(opArguments[i])
      BY <2>20 DEF CreateUndefined, Stays
    <3>2. Behind + 1 \in Fatal BY <2>18, <2>20, <3>1 DEF Fatal
    <3> QED BY <2>5, <3>1, <3>2
  <2>21. CASE ClassDone BY <2>4, <2>21 DEF ClassDone, Stays
  <2> QED BY <1>4, <2>9, <2>10, <2>11, <2>13, <2>14, <2>15, <2>16, <2>17, <2>19, <2>20, <2>21
          DEF Step
<1> QED BY <1>3, <1>4 DEF Next

(* For every module, the printing of its visitors is defined up to the      *)
(* first builder that its op has not, or whose call of create would name    *)
(* a namespace the module lacks or read a name that emitOp has moved, and   *)
(* only there does it become undefined: the operands and ops met before it, *)
(* whatever they are, follow no null pointer and no dangling StringRef.     *)
THEOREM UndefinedOnlyThere == Spec => []UndefinedExactly
<1>1. Init => UndefinedExactly
  <2> SUFFICES ASSUME Init PROVE UndefinedExactly OBVIOUS
  <2>1. ListInv BY InitVisitor DEF VisitorInv
  <2>2. Fatal \subseteq 1 .. Len(Items) BY <2>1, NextItem DEF Fatal, BuildsAt, Items
  <2>3. Visitors(ast) \in Seq(VisitItem) BY <2>1, NextItem DEF Items
  <2>4. Behind = 0 BY <2>3 DEF Init, Behind, Items
  <2> QED BY <2>2, <2>4, <2>1, NextItem DEF UndefinedExactly, Init
<1> QED BY <1>1, InitVisitor, StepVisitor, FatalStep, PTL DEF Spec

(* For every module, the file that emitMLIRVisitor has finished has one     *)
(* brace open for each builder of an op with an operand type that is not    *)
(* supported, and no other.                                                 *)
THEOREM BracesOwed == Spec => []BraceDebt
<1>1. VisitorInv => BraceDebt
  <2> SUFFICES ASSUME VisitorInv, pc = "done" PROVE depth = Cardinality(Owers)
    BY DEF BraceDebt, Owers, Owes
  <2>1. todo = <<>> /\ depth = Cardinality(Owing(Behind))
    BY DEF VisitorInv, ListInv, DebtInv
  <2>2. /\ Behind = Len(Items) /\ Len(Items) \in Nat /\ DOMAIN Items = 1 .. Len(Items)
    BY <2>1, NextItem DEF VisitorInv
  <2>3. \A p \in Owers : p <= Behind BY <2>2 DEF Owers, BuildsAt, Items
  <2>4. Owing(Behind) = Owers BY <2>3 DEF Owing
  <2> QED BY <2>1, <2>4
<1> QED BY <1>1, InitVisitor, StepVisitor, PTL DEF Spec

(* For every module whose builders are all defined and supported, the       *)
(* finished file holds one call of create per builder, in their order, with *)
(* the names of its operands.  Each name is declared in the block, but for  *)
(* an operand of a custom builder without a name, and one of a default      *)
(* builder whose AnyTypeOf ends in a type that is not in the map.           *)
THEOREM CallsComplete == Spec => []FileComplete
<1>1. VisitorInv => FileComplete
  <2> SUFFICES ASSUME VisitorInv, pc = "done", Fine
               PROVE  /\ Len(created) = Cardinality(BuildsAt)
                      /\ \A p \in BuildsAt : Matches(p)
    BY DEF FileComplete, Fine, Matches, Fits
  <2>1. todo = <<>> BY DEF VisitorInv, ListInv
  <2>2. /\ Behind = Len(Items) /\ Len(Items) \in Nat /\ DOMAIN Items = 1 .. Len(Items)
    BY <2>1, NextItem DEF VisitorInv
  <2>3. \A p \in BuildsAt : p <= Behind BY <2>2 DEF BuildsAt, Items
  <2>4. Before(Behind) = BuildsAt BY <2>3 DEF Before
  <2>5. /\ Len(created) = Cardinality(Before(Behind))
        /\ \A p \in BuildsAt : p <= Behind => Matches(p)
    BY DEF VisitorInv, FileInv
  <2> QED BY <2>3, <2>4, <2>5
<1> QED BY <1>1, InitVisitor, StepVisitor, PTL DEF Spec
=============================================================================
