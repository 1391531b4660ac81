------------------------ MODULE FrontendDriverProofs ------------------------
(****************************************************************************)
(* Proofs about the driver.  Every object made is held by the tree or by a  *)
(* local of the parser, class by class, until a diagnostic or a second      *)
(* declaration loses it: RulesAccounted, DialectAccounted and OpsAccounted  *)
(* say so, and with the type and the text parsed they make the inductive    *)
(* invariant ParserInv.  DriverInv is what emit() has done so far.          *)
(* WordsKnown is about the words of the grammar.                            *)
(****************************************************************************)
EXTENDS FrontendDriver, FrontendParserProofs, DataLemmas

-----------------------------------------------------------------------------
LEMMA TotalIsSum ==
  ASSUME NEW counts \in Seq(Nat)
  PROVE  Total(counts) = (CHOOSE sums : Sums(sums, Len(counts), counts))[1 .. Len(counts)]
<1>1. DOMAIN counts = 1 .. Len(counts) OBVIOUS
<1> QED BY <1>1, Zenon DEF Total, FoldLeft, MapThenFoldSet, Sums

(* What the sum of a sequence is, and what one number more adds to it.      *)
LEMMA TotalEmpty == Total(<<>>) = 0
<1> DEFINE s == <<>>
           g == CHOOSE g : Sums(g, Len(s), s)
<1>1. s \in Seq(Nat) /\ Len(s) = 0 OBVIOUS
<1> HIDE DEF s
<1>2. Sums(g, Len(s), s) BY <1>1, SumsExist
<1>3. Total(s) = g[1 .. Len(s)] BY <1>1, TotalIsSum
<1> HIDE DEF g
<1>4. g[1 .. 0] = 0 BY <1>1, <1>2, FirstSums
<1>5. Total(s) = 0 BY <1>1, <1>3, <1>4
<1> QED BY <1>5 DEF s

LEMMA TotalGrows ==
  ASSUME NEW n \in Nat, NEW a \in [1 .. n -> Nat], NEW b \in [1 .. n + 1 -> Nat],
         \A i \in 1 .. n : a[i] = b[i]
  PROVE  Total(a) \in Nat /\ Total(b) = Total(a) + b[n + 1]
<1> DEFINE g == CHOOSE g : Sums(g, Len(a), a)
           h == CHOOSE h : Sums(h, Len(b), b)
<1>1. a \in Seq(Nat) /\ Len(a) = n /\ b \in Seq(Nat) /\ Len(b) = n + 1
  <2>1. ASSUME NEW k \in Nat, NEW s \in [1 .. k -> Nat] PROVE s \in Seq(Nat) /\ Len(s) = k
    <3>1. s \in Seq(Nat) BY SeqDef
    <3> QED BY <3>1
  <2> QED BY <2>1
<1>7. n + 1 \in Nat OBVIOUS
<1>2. (\E x : Sums(x, n, a)) /\ (\E x : Sums(x, n + 1, b)) BY <1>7, SumsExist, Zenon
<1>3. Sums(g, n, a) /\ Sums(h, n + 1, b) BY <1>1, <1>2, Zenon
<1>4. Total(a) = g[1 .. n] /\ Total(b) = h[1 .. n + 1] BY <1>1, TotalIsSum
<1> HIDE DEF g, h
<1>5. g[1 .. n] = h[1 .. n] /\ g[1 .. n] \in Nat
  <2>1. \A i \in 1 .. n : a[i] = b[i] /\ a[i] \in Nat OBVIOUS
  <2>2. \A j \in 0 .. n : g[1 .. j] = h[1 .. j] /\ g[1 .. j] \in Nat
    BY <1>3, <2>1, SumsAgree
  <2> QED BY <2>2
<1>6. h[1 .. n + 1] = h[1 .. n] + b[n + 1]
  <2>1. Sums(h, n + 1, b) /\ n + 1 \in Nat BY <1>3
  <2>2. \A j \in 1 .. n + 1 : h[1 .. j] = h[1 .. j - 1] + b[j] BY <2>1, FirstSums
  <2>3. n + 1 \in 1 .. n + 1 /\ (n + 1) - 1 = n OBVIOUS
  <2> QED BY <2>2, <2>3
<1> QED BY <1>4, <1>5, <1>6

(* A sum over the elements of a sequence grows by what the new one counts.  *)
LEMMA TotalOfAppend ==
  ASSUME NEW S, NEW s \in Seq(S), NEW e \in S, NEW count \in [S -> Nat]
  PROVE  /\ Total([i \in DOMAIN s |-> count[s[i]]]) \in Nat
         /\ Total([i \in DOMAIN Append(s, e) |-> count[Append(s, e)[i]]])
              = Total([i \in DOMAIN s |-> count[s[i]]]) + count[e]
<1> DEFINE n == Len(s)
           a == [i \in DOMAIN s |-> count[s[i]]]
           b == [i \in DOMAIN Append(s, e) |-> count[Append(s, e)[i]]]
<1>1. /\ n \in Nat /\ DOMAIN s = 1 .. n /\ DOMAIN Append(s, e) = 1 .. n + 1
      /\ Append(s, e)[n + 1] = e /\ \A j \in 1 .. n : Append(s, e)[j] = s[j]
  BY Appended
<1>2. \A j \in 1 .. n : s[j] \in S OBVIOUS
<1> HIDE DEF n
<1>3. a \in [1 .. n -> Nat] BY <1>1, <1>2
<1>4. b \in [1 .. n + 1 -> Nat]
  <2>1. \A j \in 1 .. n + 1 : Append(s, e)[j] \in S BY <1>1, <1>2
  <2> QED BY <1>1, <2>1
<1>5. \A j \in 1 .. n : a[j] = b[j] BY <1>1
<1>6. b[n + 1] = count[e] BY <1>1
<1> HIDE DEF a, b
<1>7. Total(a) \in Nat /\ Total(b) = Total(a) + b[n + 1]
  BY <1>1, <1>3, <1>4, <1>5, TotalGrows, Zenon
<1> QED BY <1>6, <1>7 DEF a, b

-----------------------------------------------------------------------------
(* What a node pushed to its vector adds to the counts of emit().           *)
LEMMA NothingCounted ==
  /\ AlternativesIn(<<>>) = 0 /\ ElementsOf(<<>>) = 0 /\ ElementsIn(<<>>) = 0
  /\ DagsIn(<<>>) = 0 /\ BuildersIn(<<>>) = 0
<1>1. \A f : f = [i \in DOMAIN <<>> |-> f[i]] => f = <<>> BY SMT
<1> QED BY <1>1, TotalEmpty DEF AlternativesIn, ElementsOf, ElementsIn, DagsIn, BuildersIn

LEMMA ElementsCounted ==
  ASSUME NEW alternatives \in Seq(Alternatives), NEW alternative \in Alternatives
  PROVE  /\ ElementsOf(alternatives) \in Nat /\ Len(alternative.elements) \in Nat
         /\ ElementsOf(Append(alternatives, alternative))
              = ElementsOf(alternatives) + Len(alternative.elements)
<1> DEFINE count == [x \in Alternatives |-> Len(x.elements)]
           longer == Append(alternatives, alternative)
<1>1. count \in [Alternatives -> Nat] BY DEF Alternatives
<1>2. longer \in Seq(Alternatives) OBVIOUS
<1>3. \A s \in Seq(Alternatives) :
        [a \in DOMAIN s |-> Len(s[a].elements)] = [a \in DOMAIN s |-> count[s[a]]]
  OBVIOUS
<1>4. ElementsOf(alternatives) = Total([a \in DOMAIN alternatives |-> count[alternatives[a]]])
  BY <1>3, Zenon DEF ElementsOf
<1>5. ElementsOf(longer) = Total([a \in DOMAIN longer |-> count[longer[a]]])
  BY <1>2, <1>3, Zenon DEF ElementsOf
<1>6. count[alternative] = Len(alternative.elements) OBVIOUS
<1> HIDE DEF count
<1>7. /\ Total([a \in DOMAIN alternatives |-> count[alternatives[a]]]) \in Nat
      /\ Total([a \in DOMAIN longer |-> count[longer[a]]])
           = Total([a \in DOMAIN alternatives |-> count[alternatives[a]]]) + count[alternative]
  BY <1>1, TotalOfAppend, ZenonT(60)
<1> QED BY <1>1, <1>4, <1>5, <1>6, <1>7

LEMMA RulesCounted ==
  ASSUME NEW rules \in Seq(Rules), NEW rule \in Rules
  PROVE  /\ AlternativesIn(rules) \in Nat /\ Len(rule.alternatives) \in Nat
         /\ AlternativesIn(Append(rules, rule))
              = AlternativesIn(rules) + Len(rule.alternatives)
         /\ ElementsIn(rules) \in Nat /\ ElementsOf(rule.alternatives) \in Nat
         /\ ElementsIn(Append(rules, rule)) = ElementsIn(rules) + ElementsOf(rule.alternatives)
<1> DEFINE long == [x \in Rules |-> Len(x.alternatives)]
           wide == [x \in Rules |-> ElementsOf(x.alternatives)]
           longer == Append(rules, rule)
<1>a. \A x \in Rules : ElementsOf(x.alternatives) \in Nat
  <2>1. \A x \in Rules : x.alternatives \in Seq(Alternatives) BY DEF Rules
  <2>2. NoAlternative \in Alternatives BY BlankTyped
  <2> QED BY <2>1, <2>2, ElementsCounted
<1>1. long \in [Rules -> Nat] /\ wide \in [Rules -> Nat] BY <1>a DEF Rules
<1>2. longer \in Seq(Rules) OBVIOUS
<1>3. \A s \in Seq(Rules) :
        /\ [r \in DOMAIN s |-> Len(s[r].alternatives)] = [r \in DOMAIN s |-> long[s[r]]]
        /\ [r \in DOMAIN s |-> ElementsOf(s[r].alternatives)] = [r \in DOMAIN s |-> wide[s[r]]]
  OBVIOUS
<1>4. /\ AlternativesIn(rules) = Total([r \in DOMAIN rules |-> long[rules[r]]])
      /\ ElementsIn(rules) = Total([r \in DOMAIN rules |-> wide[rules[r]]])
  BY <1>3, Zenon DEF AlternativesIn, ElementsIn
<1>5. /\ AlternativesIn(longer) = Total([r \in DOMAIN longer |-> long[longer[r]]])
      /\ ElementsIn(longer) = Total([r \in DOMAIN longer |-> wide[longer[r]]])
  BY <1>2, <1>3, Zenon DEF AlternativesIn, ElementsIn
<1>6. long[rule] = Len(rule.alternatives) /\ wide[rule] = ElementsOf(rule.alternatives)
  OBVIOUS
<1> HIDE DEF long, wide
<1>7. /\ Total([r \in DOMAIN rules |-> long[rules[r]]]) \in Nat
      /\ Total([r \in DOMAIN longer |-> long[longer[r]]])
           = Total([r \in DOMAIN rules |-> long[rules[r]]]) + long[rule]
  BY <1>1, TotalOfAppend, ZenonT(60)
<1>8. /\ Total([r \in DOMAIN rules |-> wide[rules[r]]]) \in Nat
      /\ Total([r \in DOMAIN longer |-> wide[longer[r]]])
           = Total([r \in DOMAIN rules |-> wide[rules[r]]]) + wide[rule]
  BY <1>1, TotalOfAppend, ZenonT(60)
<1> QED BY <1>1, <1>4, <1>5, <1>6, <1>7, <1>8

LEMMA OneIsSmall == \A pointer : One(pointer) \in Nat /\ One(pointer) <= 1
BY DEF One

(* The dags of an op, by the pointer that holds them.                       *)
DagsOfBuilders(builders) == Total([b \in DOMAIN builders |-> One(builders[b])])

LEMMA DagsOfOp ==
  \A node : DagsOf(node) = One(node.arguments) + One(node.results)
                           + DagsOfBuilders(node.builders)
BY DEF DagsOf, DagsOfBuilders

LEMMA BuilderDagsCounted ==
  ASSUME NEW builders \in Seq(Dags \cup {NULL}), NEW dag \in Dags \cup {NULL}
  PROVE  /\ DagsOfBuilders(builders) \in Nat /\ DagsOfBuilders(<<>>) = 0
         /\ DagsOfBuilders(Append(builders, dag)) = DagsOfBuilders(builders) + One(dag)
<1> DEFINE S == Dags \cup {NULL}
           count == [x \in S |-> One(x)]
           longer == Append(builders, dag)
<1>1. count \in [S -> Nat] BY OneIsSmall
<1>2. longer \in Seq(S) OBVIOUS
<1>3. \A s \in Seq(S) : [b \in DOMAIN s |-> One(s[b])] = [b \in DOMAIN s |-> count[s[b]]]
  OBVIOUS
<1>4. DagsOfBuilders(builders) = Total([b \in DOMAIN builders |-> count[builders[b]]])
  BY <1>3, Zenon DEF DagsOfBuilders
<1>5. DagsOfBuilders(longer) = Total([b \in DOMAIN longer |-> count[longer[b]]])
  BY <1>2, <1>3, Zenon DEF DagsOfBuilders
<1>6. count[dag] = One(dag) OBVIOUS
<1>7. DagsOfBuilders(<<>>) = 0
  <2>1. [b \in DOMAIN <<>> |-> One(<<>>[b])] = <<>> BY SMT
  <2> QED BY <2>1, TotalEmpty DEF DagsOfBuilders
<1>8. builders \in Seq(S) /\ dag \in S OBVIOUS
<1> HIDE DEF count, S
<1>9. /\ Total([b \in DOMAIN builders |-> count[builders[b]]]) \in Nat
      /\ Total([b \in DOMAIN longer |-> count[longer[b]]])
           = Total([b \in DOMAIN builders |-> count[builders[b]]]) + count[dag]
  BY <1>1, <1>8, TotalOfAppend, ZenonT(60)
<1>10. DagsOfBuilders(builders) \in Nat BY <1>4, <1>9, Zenon
<1>11. DagsOfBuilders(longer) = DagsOfBuilders(builders) + One(dag)
  BY <1>4, <1>5, <1>6, <1>9, Zenon
<1> QED BY <1>7, <1>10, <1>11, Zenon

LEMMA OpsCounted ==
  ASSUME NEW ops \in Seq(Ops), NEW op \in Ops
  PROVE  /\ DagsIn(ops) \in Nat /\ DagsOf(op) \in Nat
         /\ DagsIn(Append(ops, op)) = DagsIn(ops) + DagsOf(op)
         /\ BuildersIn(ops) \in Nat /\ Len(op.builders) \in Nat
         /\ BuildersIn(Append(ops, op)) = BuildersIn(ops) + Len(op.builders)
<1> DEFINE dags == [x \in Ops |-> DagsOf(x)]
           long == [x \in Ops |-> Len(x.builders)]
           longer == Append(ops, op)
<1>a. \A x \in Ops : DagsOf(x) \in Nat
  <2>1. \A x \in Ops : x.builders \in Seq(Dags \cup {NULL}) BY DEF Ops
  <2>2. \A x \in Ops : DagsOfBuilders(x.builders) \in Nat BY <2>1, BuilderDagsCounted
  <2> QED BY <2>2, DagsOfOp, OneIsSmall
<1>1. dags \in [Ops -> Nat] /\ long \in [Ops -> Nat] BY <1>a DEF Ops
<1>2. longer \in Seq(Ops) OBVIOUS
<1>3. \A s \in Seq(Ops) :
        /\ [o \in DOMAIN s |-> DagsOf(s[o])] = [o \in DOMAIN s |-> dags[s[o]]]
        /\ [o \in DOMAIN s |-> Len(s[o].builders)] = [o \in DOMAIN s |-> long[s[o]]]
  OBVIOUS
<1>4. /\ DagsIn(ops) = Total([o \in DOMAIN ops |-> dags[ops[o]]])
      /\ BuildersIn(ops) = Total([o \in DOMAIN ops |-> long[ops[o]]])
  BY <1>3, Zenon DEF DagsIn, BuildersIn
<1>5. /\ DagsIn(longer) = Total([o \in DOMAIN longer |-> dags[longer[o]]])
      /\ BuildersIn(longer) = Total([o \in DOMAIN longer |-> long[longer[o]]])
  BY <1>2, <1>3, Zenon DEF DagsIn, BuildersIn
<1>6. dags[op] = DagsOf(op) /\ long[op] = Len(op.builders)
  OBVIOUS
<1> HIDE DEF dags, long
<1>7. /\ Total([o \in DOMAIN ops |-> dags[ops[o]]]) \in Nat
      /\ Total([o \in DOMAIN longer |-> dags[longer[o]]])
           = Total([o \in DOMAIN ops |-> dags[ops[o]]]) + dags[op]
  BY <1>1, TotalOfAppend, ZenonT(60)
<1>8. /\ Total([o \in DOMAIN ops |-> long[ops[o]]]) \in Nat
      /\ Total([o \in DOMAIN longer |-> long[longer[o]]])
           = Total([o \in DOMAIN ops |-> long[ops[o]]]) + long[op]
  BY <1>1, TotalOfAppend, ZenonT(60)
<1> QED BY <1>1, <1>4, <1>5, <1>6, <1>7, <1>8

-----------------------------------------------------------------------------
(* What the parser holds of the objects it made, in the tree or in its      *)
(* local variables, class by class.                                         *)
InGenerator == InAlternative \ {"aborted"}
InRule == InGenerator \cup {"ruleColon", "ruleAlternative"}

Within(labels) == IF pc \in labels THEN 1 ELSE 0

RulesHeld == Len(tree.rules) + Within(InRule)
AlternativesHeld == AlternativesIn(tree.rules) + Len(local.alternatives) + Within(InGenerator)
ElementsHeld == ElementsIn(tree.rules) + ElementsOf(local.alternatives)
                + Len(local.alternative.elements)
OpsHeld == Len(tree.ops)
DagAside == IF pc \in BuilderRead THEN One(local.builderDag) ELSE 0
DagsHeld == DagsIn(tree.ops) + DagsOf(local.op) + DagAside
BuildersHeld == BuildersIn(tree.ops) + Len(local.op.builders)

(* No more is held than was made; as much while nothing was reported, but   *)
(* for the classes of which a pointer was overwritten.                      *)
Intact == ~reported /\ pc \notin {"aborted", "overrun"}
Balanced(class, held) ==
  /\ held <= allocated[class]
  /\ Intact /\ class \notin redeclared => held = allocated[class]

RulesAccounted == /\ Balanced("rule", RulesHeld)
                  /\ Balanced("alternative", AlternativesHeld)
                  /\ Balanced("element", ElementsHeld)
DialectAccounted == Balanced("dialect", One(tree.dialect))
OpsAccounted == /\ Balanced("op", OpsHeld) /\ Balanced("dag", DagsHeld)
                /\ Balanced("builder", BuildersHeld)

LEMMA IntactStays == ASSUME [Next]_vars, Intact' PROVE Intact
<1> USE DEF Goto, Read, Stay, Fail, Consume, Optional, At
<1>0. pc' \notin {"aborted", "overrun"} /\ ~reported BY ReportStays DEF Intact
<1> SUFFICES ASSUME pc \in {"aborted", "overrun"} PROVE FALSE
  BY <1>0 DEF Intact
<1>1. CASE EngineStep
  BY <1>1
  DEF EngineStep, Construct, RuleKeyword, DialectKeyword, OpKeyword, EndOfText, OtherToken,
      NameMissing
<1>2. CASE RuleStep
  BY <1>2
  DEF RuleStep, RuleName, RuleSemi, RuleColonMissing, OpenAlternative, CloseAlternative,
      AlternativeUnfinished, FillRule
<1>3. CASE GeneratorStep
  BY <1>3
  DEF GeneratorStep, Identifier, PBExpression, OpenQuoteOrBrace, Quoted, QuoteEnd, Brace,
      RefsEqual, BuilderRef, BadBuilderRef, RefsComma, SetBuilders
<1>4. CASE DialectStep
  BY <1>4
  DEF DialectStep, DialectName, DialectColon, DialectAttr, DialectEqual, DialectNext,
      DialectDone
<1>5. CASE OpStep
  BY <1>5
  DEF OpStep, OpName, OpColon, OpFails, OpDone, OpElement, OpEqual, AfterElement
<1>6. CASE DagStep
  BY <1>6
  DEF DagStep, DagOpen, DagOperator, DagDone, OperandType, ScannedType, TypeNext,
      AnyTypeFails, TemplateType, TemplateClose, CArgType, CArgValue, OperandColon,
      OperandName, AddOperand
<1>7. CASE BuilderStep
  BY <1>7
  DEF BuilderStep, BuildersEqual, BuildersOpen, OpBuilder, BuilderAngle, BuilderFails,
      BuilderCode, AddBuilder, BuilderComma, BuildersDone
<1>8. CASE Overrun
  BY <1>8
  DEF Overrun
<1>9. CASE UNCHANGED vars
  BY <1>9, <1>0 DEF vars
<1> QED
  BY <1>1, <1>2, <1>3, <1>4, <1>5, <1>6, <1>7, <1>8, <1>9, <1>0 DEF Next, Step, Halted

(* Between two states the class gains what the step makes, or less when the *)
(* parse is not intact any more or a pointer of the class was overwritten.  *)
Follows(class, before, after) ==
  /\ before \in Nat /\ after \in Nat
  /\ after - before <= allocated'[class] - allocated[class]
  /\ Intact' /\ class \notin redeclared' =>
       after - before = allocated'[class] - allocated[class]

LEMMA Followed ==
  ASSUME TypeOK, [Next]_vars, NEW class \in Classes, NEW before, NEW after,
         Follows(class, before, after), Balanced(class, before),
         class \notin redeclared' => class \notin redeclared
  PROVE  /\ after <= allocated'[class]
         /\ Intact' /\ class \notin redeclared' => after = allocated'[class]
<1>1. allocated[class] \in Nat /\ allocated'[class] \in Nat BY TypeStep DEF TypeOK
<1>2. Intact' => Intact BY IntactStays
<1> QED BY <1>1, <1>2 DEF Follows, Balanced

(* The rules.                                                               *)
RulesKept ==
  /\ tree'.rules = tree.rules /\ local'.alternatives = local.alternatives
  /\ local'.alternative.elements = local.alternative.elements
  /\ \A class \in {"rule", "alternative", "element"} : allocated'[class] = allocated[class]
  /\ pc' \in InRule => pc \in InRule
  /\ pc' \in InGenerator => pc \in InGenerator
  /\ Intact' => /\ pc \in InRule => pc' \in InRule
                /\ pc \in InGenerator => pc' \in InGenerator

LEMMA RulesCountable ==
  ASSUME TypeOK
  PROVE  /\ Len(tree.rules) \in Nat /\ AlternativesIn(tree.rules) \in Nat
         /\ ElementsIn(tree.rules) \in Nat /\ Len(local.alternatives) \in Nat
         /\ ElementsOf(local.alternatives) \in Nat /\ Len(local.alternative.elements) \in Nat
         /\ \A class \in Classes : allocated[class] \in Nat
         /\ {"rule", "alternative", "element", "op", "builder"} \cap redeclared = {}
<1>1. /\ tree.rules \in Seq(Rules) /\ local.alternatives \in Seq(Alternatives)
      /\ local.alternative \in Alternatives /\ local.alternative.elements \in Seq(Elements)
  BY DEF TypeOK, Modules, Locals, Alternatives
<1>2. NoRule \in Rules BY BlankTyped
<1>3. AlternativesIn(tree.rules) \in Nat /\ ElementsIn(tree.rules) \in Nat
  BY <1>1, <1>2, RulesCounted
<1>4. ElementsOf(local.alternatives) \in Nat BY <1>1, ElementsCounted
<1> QED BY <1>1, <1>3, <1>4 DEF TypeOK

RulesFollow ==
  /\ Follows("rule", RulesHeld, RulesHeld')
  /\ Follows("alternative", AlternativesHeld, AlternativesHeld')
  /\ Follows("element", ElementsHeld, ElementsHeld')

LEMMA RulesFollowed ==
  ASSUME TypeOK, RulesAccounted, RulesFollow, [Next]_vars PROVE RulesAccounted'
<1>1. {"rule", "alternative", "element"} \cap redeclared = {} BY RulesCountable
<1> QED BY <1>1, Followed DEF RulesFollow, RulesAccounted, Balanced, Classes

LEMMA RulesKeptFollow ==
  ASSUME TypeOK, RulesKept PROVE RulesFollow
<1>1. /\ Len(tree'.rules) = Len(tree.rules) /\ Len(tree.rules) \in Nat
      /\ AlternativesIn(tree.rules)' = AlternativesIn(tree.rules)
      /\ ElementsIn(tree.rules)' = ElementsIn(tree.rules)
      /\ Len(local'.alternatives) = Len(local.alternatives)
      /\ ElementsOf(local.alternatives)' = ElementsOf(local.alternatives)
      /\ Len(local'.alternative.elements) = Len(local.alternative.elements)
  BY RulesCountable DEF RulesKept
<1>2. /\ Within(InRule) \in {0, 1} /\ Within(InRule)' \in {0, 1}
      /\ Within(InGenerator) \in {0, 1} /\ Within(InGenerator)' \in {0, 1}
      /\ Within(InRule)' <= Within(InRule) /\ Within(InGenerator)' <= Within(InGenerator)
      /\ Intact' => /\ Within(InRule)' = Within(InRule)
                    /\ Within(InGenerator)' = Within(InGenerator)
  BY DEF RulesKept, Within
<1>3. /\ allocated'["rule"] = allocated["rule"] /\ allocated["rule"] \in Nat
      /\ allocated'["alternative"] = allocated["alternative"]
      /\ allocated["alternative"] \in Nat
      /\ allocated'["element"] = allocated["element"] /\ allocated["element"] \in Nat
  BY RulesCountable DEF RulesKept, Classes
<1>4. Follows("rule", RulesHeld, RulesHeld')
  <2>1. /\ RulesHeld \in Nat /\ RulesHeld' \in Nat /\ RulesHeld' <= RulesHeld
        /\ Intact' => RulesHeld' = RulesHeld
    BY <1>1, <1>2, RulesCountable DEF RulesHeld
  <2> QED BY <1>3, <2>1 DEF Follows
<1>5. Follows("alternative", AlternativesHeld, AlternativesHeld')
  <2>1. /\ AlternativesHeld \in Nat /\ AlternativesHeld' \in Nat
        /\ AlternativesHeld' <= AlternativesHeld
        /\ Intact' => AlternativesHeld' = AlternativesHeld
    BY <1>1, <1>2, RulesCountable DEF AlternativesHeld
  <2> QED BY <1>3, <2>1 DEF Follows
<1>6. Follows("element", ElementsHeld, ElementsHeld')
  <2>1. ElementsHeld \in Nat /\ ElementsHeld' = ElementsHeld
    BY <1>1, RulesCountable DEF ElementsHeld
  <2> QED BY <1>3, <2>1 DEF Follows
<1> QED BY <1>4, <1>5, <1>6 DEF RulesFollow

LEMMA RulesPushed ==
  ASSUME TypeOK, NEW alternatives \in Seq(Alternatives), PushRule(alternatives),
         pc \in InRule, pc' = "ruleSemi",
         Intact' => alternatives = local.alternatives /\ local.alternative.elements = <<>>
                    /\ pc \notin InGenerator,
         alternatives \in {<<>>, local.alternatives}
  PROVE  RulesFollow
<1> DEFINE rule == [local.rule EXCEPT !.alternatives = alternatives]
<1>a. tree \in Modules /\ local \in Locals BY DEF TypeOK
<1>1. rule \in Rules /\ rule.alternatives = alternatives /\ tree.rules \in Seq(Rules)
  BY <1>a DEF Locals, Rules, Modules
<1>2. /\ tree'.rules = Append(tree.rules, rule) /\ local'.alternatives = <<>>
      /\ local'.alternative.elements = <<>> /\ allocated' = allocated
  BY <1>a DEF PushRule, Modules, Locals, NoAlternative, heap
<1> HIDE DEF rule
<1>3. /\ Len(tree'.rules) = Len(tree.rules) + 1
      /\ AlternativesIn(tree.rules)' = AlternativesIn(tree.rules) + Len(alternatives)
      /\ ElementsIn(tree.rules)' = ElementsIn(tree.rules) + ElementsOf(alternatives)
  BY <1>1, <1>2, RulesCounted
<1>4. /\ Len(local'.alternatives) = 0 /\ ElementsOf(local.alternatives)' = 0
      /\ Len(local'.alternative.elements) = 0
  BY <1>2, NothingCounted
<1>5. /\ Within(InRule) = 1 /\ Within(InRule)' = 0 /\ Within(InGenerator)' = 0
      /\ Within(InGenerator) \in {0, 1} /\ (Intact' => Within(InGenerator) = 0)
  BY DEF Within, InRule, InGenerator, InAlternative
<1>6. /\ Len(alternatives) \in Nat /\ Len(alternatives) <= Len(local.alternatives)
      /\ ElementsOf(alternatives) \in Nat
      /\ ElementsOf(alternatives) <= ElementsOf(local.alternatives)
      /\ Intact' => /\ Len(alternatives) = Len(local.alternatives)
                    /\ ElementsOf(alternatives) = ElementsOf(local.alternatives)
                    /\ Len(local.alternative.elements) = 0
  BY RulesCountable, NothingCounted
<1>7. \A class \in Classes : allocated[class] \in Nat /\ allocated'[class] = allocated[class]
  BY <1>2, RulesCountable
<1>8. RulesHeld \in Nat /\ RulesHeld' = RulesHeld
  BY <1>3, <1>5, RulesCountable DEF RulesHeld
<1>9. /\ AlternativesHeld \in Nat /\ AlternativesHeld' \in Nat
      /\ AlternativesHeld' <= AlternativesHeld
      /\ Intact' => AlternativesHeld' = AlternativesHeld
  <2>1. /\ AlternativesHeld = AlternativesIn(tree.rules) + Len(local.alternatives)
                              + Within(InGenerator)
        /\ AlternativesHeld' = AlternativesIn(tree.rules)' + Len(local'.alternatives)
                               + Within(InGenerator)'
    BY DEF AlternativesHeld
  <2>2. AlternativesHeld' = AlternativesIn(tree.rules) + Len(alternatives)
    BY <1>3, <1>4, <1>5, <1>6, <2>1, RulesCountable
  <2>3. Within(InGenerator) \in Nat BY <1>5
  <2>4. /\ AlternativesIn(tree.rules) \in Nat /\ Len(local.alternatives) \in Nat
        /\ Len(alternatives) \in Nat
        /\ Within(InGenerator) \in Nat /\ Len(alternatives) <= Len(local.alternatives)
    BY <1>5, <2>3, <1>6, RulesCountable
  <2>5. LET all == AlternativesIn(tree.rules) + Len(local.alternatives) + Within(InGenerator)
            rest == AlternativesIn(tree.rules) + Len(alternatives)
        IN  all \in Nat /\ rest \in Nat /\ rest <= all
            /\ (Len(alternatives) = Len(local.alternatives) /\ Within(InGenerator) = 0
                  => rest = all)
    BY <2>4
  <2> QED BY <1>5, <2>3, <1>6, <2>1, <2>2, <2>5
<1>10. /\ ElementsHeld \in Nat /\ ElementsHeld' \in Nat /\ ElementsHeld' <= ElementsHeld
       /\ Intact' => ElementsHeld' = ElementsHeld
  <2>1. /\ ElementsHeld = ElementsIn(tree.rules) + ElementsOf(local.alternatives)
                          + Len(local.alternative.elements)
        /\ ElementsHeld' = ElementsIn(tree.rules)' + ElementsOf(local.alternatives)'
                           + Len(local'.alternative.elements)
    BY DEF ElementsHeld
  <2>2. ElementsHeld' = ElementsIn(tree.rules) + ElementsOf(alternatives)
    BY <1>3, <1>4, <1>6, <2>1, RulesCountable
  <2>4. /\ ElementsIn(tree.rules) \in Nat /\ ElementsOf(local.alternatives) \in Nat
        /\ ElementsOf(alternatives) \in Nat /\ Len(local.alternative.elements) \in Nat
        /\ ElementsOf(alternatives) <= ElementsOf(local.alternatives)
    BY <1>6, RulesCountable
  <2>5. LET all == ElementsIn(tree.rules) + ElementsOf(local.alternatives)
                     + Len(local.alternative.elements)
            rest == ElementsIn(tree.rules) + ElementsOf(alternatives)
        IN  all \in Nat /\ rest \in Nat /\ rest <= all
            /\ (ElementsOf(alternatives) = ElementsOf(local.alternatives)
                  /\ Len(local.alternative.elements) = 0 => rest = all)
    BY <2>4
  <2> QED BY <1>6, <2>1, <2>2, <2>5
<1> HIDE DEF RulesHeld, AlternativesHeld, ElementsHeld, Intact
<1>11. /\ "rule" \in Classes /\ "alternative" \in Classes /\ "element" \in Classes
  BY DEF Classes
<1>12. ASSUME NEW class \in Classes, NEW before \in Nat, NEW after \in Nat,
              after <= before, Intact' => after = before
       PROVE  Follows(class, before, after)
  <2>1. /\ allocated[class] \in Nat
        /\ allocated'[class] - allocated[class] = 0
    BY <1>7
  <2>2. after - before <= 0 /\ (Intact' => after - before = 0) BY <1>12
  <2> QED BY <1>12, <2>1, <2>2 DEF Follows
<1>13. Follows("rule", RulesHeld, RulesHeld')
  <2>1. RulesHeld' \in Nat /\ RulesHeld' <= RulesHeld BY <1>8
  <2> QED BY <1>8, <1>11, <1>12, <2>1
<1>14. Follows("alternative", AlternativesHeld, AlternativesHeld') BY <1>9, <1>11, <1>12
<1>15. Follows("element", ElementsHeld, ElementsHeld') BY <1>10, <1>11, <1>12
<1> QED BY <1>13, <1>14, <1>15 DEF RulesFollow

LEMMA ElementAdded ==
  ASSUME TypeOK, NEW kind \in {"rule", "terminator", "pbexpression"}, AddElement(kind),
         pc \in InGenerator, pc' \in InGenerator
  PROVE  RulesFollow
<1> DEFINE element == [kind |-> kind, name |-> Spelling]
<1>a. tree \in Modules /\ local \in Locals /\ allocated \in [Classes -> Nat]
      /\ Spelling \in Spellings
  BY DEF TypeOK, StreamTypeOK, Tokens, Spelling, Spellings
<1>1. element \in Elements /\ local.alternative.elements \in Seq(Elements)
  BY <1>a DEF Elements, Locals, Alternatives
<1>2. /\ tree' = tree /\ local'.alternatives = local.alternatives
      /\ local'.alternative.elements = Append(local.alternative.elements, element)
  BY <1>a DEF AddElement, Locals, Alternatives
<1>3. /\ allocated'["rule"] = allocated["rule"] /\ allocated["rule"] \in Nat
      /\ allocated'["alternative"] = allocated["alternative"]
      /\ allocated["alternative"] \in Nat
      /\ allocated'["element"] = allocated["element"] + 1 /\ allocated["element"] \in Nat
  BY <1>a DEF AddElement, New, Classes
<1> HIDE DEF element
<1>4. Len(local'.alternative.elements) = Len(local.alternative.elements) + 1
  BY <1>1, <1>2
<1>5. /\ Within(InRule) = 1 /\ Within(InRule)' = 1
      /\ Within(InGenerator) = 1 /\ Within(InGenerator)' = 1
  BY DEF Within, InRule
<1>9. /\ AlternativesIn(tree.rules)' = AlternativesIn(tree.rules)
      /\ ElementsIn(tree.rules)' = ElementsIn(tree.rules)
      /\ ElementsOf(local.alternatives)' = ElementsOf(local.alternatives)
  BY <1>2
<1>6. RulesHeld \in Nat /\ RulesHeld' = RulesHeld
  BY <1>2, <1>5, RulesCountable DEF RulesHeld
<1>7. AlternativesHeld \in Nat /\ AlternativesHeld' = AlternativesHeld
  BY <1>2, <1>5, <1>9, RulesCountable DEF AlternativesHeld
<1>8. ElementsHeld \in Nat /\ ElementsHeld' = ElementsHeld + 1
  BY <1>4, <1>9, RulesCountable DEF ElementsHeld
<1> QED BY <1>3, <1>6, <1>7, <1>8 DEF RulesFollow, Follows

LEMMA RulesAccountedStep ==
  ASSUME TypeOK, CustomSoFar, RulesAccounted, [Next]_vars PROVE RulesAccounted'
<1> SUFFICES RulesFollow BY RulesFollowed
<1>a. tree \in Modules /\ local \in Locals /\ allocated \in [Classes -> Nat]
  BY DEF TypeOK
<1>b. Intact' =>
        /\ pc \notin InAlternative => local.alternative.elements = <<>>
        /\ pc \notin InAlternative \cup {"ruleAlternative"} => local.alternatives = <<>>
  BY IntactStays DEF CustomSoFar, Intact
<1>c. RulesKept => RulesFollow BY RulesKeptFollow
<1> USE DEF Goto, Quiet, Report, Read, Stay, Fail, Expect, Consume, Optional, At, Kind
<1>1. CASE RuleName
  <2>1. /\ tree' = tree /\ local'.alternatives = <<>> /\ pc = "ruleName"
        /\ local'.alternative.elements = local.alternative.elements /\ pc' = "ruleColon"
    BY <1>1, <1>a DEF RuleName, Locals
  <2>2. /\ allocated'["rule"] = allocated["rule"] + 1 /\ allocated["rule"] \in Nat
        /\ allocated'["alternative"] = allocated["alternative"]
        /\ allocated["alternative"] \in Nat
        /\ allocated'["element"] = allocated["element"] /\ allocated["element"] \in Nat
    BY <1>1, <1>a DEF RuleName, New, Classes
  <2>3. /\ Within(InRule) = 0 /\ Within(InRule)' = 1
        /\ Within(InGenerator) = 0 /\ Within(InGenerator)' = 0
    BY <2>1 DEF Within, InRule, InGenerator, InAlternative
  <2>4. Intact' => local.alternatives = <<>>
    BY <1>b, <2>1 DEF InAlternative
  <2>5. RulesHeld \in Nat /\ RulesHeld' = RulesHeld + 1
    BY <2>1, <2>3, RulesCountable DEF RulesHeld
  <2>6. /\ AlternativesHeld \in Nat /\ AlternativesHeld' \in Nat
        /\ AlternativesHeld' <= AlternativesHeld
        /\ Intact' => AlternativesHeld' = AlternativesHeld
    <3>1. Len(local'.alternatives) = 0 /\ (Intact' => Len(local.alternatives) = 0)
      BY <2>1, <2>4
    <3> QED BY <2>1, <2>3, <3>1, RulesCountable DEF AlternativesHeld
  <2>7. /\ ElementsHeld \in Nat /\ ElementsHeld' \in Nat /\ ElementsHeld' <= ElementsHeld
        /\ Intact' => ElementsHeld' = ElementsHeld
    <3>1. ElementsOf(local.alternatives)' = 0
          /\ (Intact' => ElementsOf(local.alternatives) = 0)
      BY <2>1, <2>4, NothingCounted
    <3> QED BY <2>1, <3>1, RulesCountable DEF ElementsHeld
  <2> QED BY <2>2, <2>5, <2>6, <2>7 DEF RulesFollow, Follows
<1>2. CASE RuleColonMissing \/ AlternativeUnfinished
  <2>1. PushRule(<<>>) /\ pc \in InRule /\ pc' = "ruleSemi" /\ ~Intact'
    BY <1>2 DEF RuleColonMissing, AlternativeUnfinished, Intact, InRule, InGenerator,
                InAlternative
  <2> QED BY <2>1, BlankTyped, RulesPushed
<1>3. CASE FillRule
  <2>1. /\ PushRule(local.alternatives) /\ pc = "ruleAlternative" /\ pc' = "ruleSemi"
    BY <1>3 DEF FillRule
  <2>2. pc \in InRule /\ pc \notin InAlternative /\ pc \notin InGenerator
    BY <2>1 DEF InRule, InGenerator, InAlternative
  <2>3. local.alternatives \in Seq(Alternatives) BY <1>a DEF Locals
  <2>4. Intact' => local.alternative.elements = <<>> BY <1>b, <2>2
  <2> QED BY <2>1, <2>2, <2>3, <2>4, RulesPushed
<1>4. CASE OpenAlternative
  <2>1. /\ tree' = tree /\ local'.alternatives = local.alternatives
        /\ local'.alternative.elements = <<>> /\ pc \in {"ruleColon", "ruleAlternative"}
        /\ pc' = "generator"
    BY <1>4, <1>a DEF OpenAlternative, Locals, NoAlternative
  <2>2. /\ allocated'["rule"] = allocated["rule"] /\ allocated["rule"] \in Nat
        /\ allocated'["alternative"] = allocated["alternative"] + 1
        /\ allocated["alternative"] \in Nat
        /\ allocated'["element"] = allocated["element"] /\ allocated["element"] \in Nat
    BY <1>4, <1>a DEF OpenAlternative, New, Classes
  <2>3. /\ Within(InRule) = 1 /\ Within(InRule)' = 1
        /\ Within(InGenerator) = 0 /\ Within(InGenerator)' = 1
    BY <2>1 DEF Within, InRule, InGenerator, InAlternative
  <2>4. Intact' => Len(local.alternative.elements) = 0
    BY <1>b, <2>1 DEF InAlternative
  <2>5. RulesHeld \in Nat /\ RulesHeld' = RulesHeld
    BY <2>1, <2>3, RulesCountable DEF RulesHeld
  <2>6. AlternativesHeld \in Nat /\ AlternativesHeld' = AlternativesHeld + 1
    BY <2>1, <2>3, RulesCountable DEF AlternativesHeld
  <2>7. /\ ElementsHeld \in Nat /\ ElementsHeld' \in Nat /\ ElementsHeld' <= ElementsHeld
        /\ Intact' => ElementsHeld' = ElementsHeld
    <3>1. Len(local'.alternative.elements) = 0 BY <2>1
    <3>2. /\ ElementsIn(tree.rules)' = ElementsIn(tree.rules)
          /\ ElementsOf(local.alternatives)' = ElementsOf(local.alternatives)
      BY <2>1
    <3> QED BY <2>4, <3>1, <3>2, RulesCountable DEF ElementsHeld
  <2> QED BY <2>2, <2>5, <2>6, <2>7 DEF RulesFollow, Follows
<1>5. CASE CloseAlternative
  <2>1. /\ tree' = tree /\ allocated' = allocated
        /\ local'.alternatives = Append(local.alternatives, local.alternative)
        /\ local'.alternative.elements = <<>> /\ pc = "generator" /\ pc' = "ruleAlternative"
    BY <1>5, <1>a DEF CloseAlternative, Locals, NoAlternative, shared, heap
  <2>2. /\ Within(InRule) = 1 /\ Within(InRule)' = 1
        /\ Within(InGenerator) = 1 /\ Within(InGenerator)' = 0
    BY <2>1 DEF Within, InRule, InGenerator, InAlternative
  <2>3. local.alternatives \in Seq(Alternatives) /\ local.alternative \in Alternatives
    BY <1>a DEF Locals
  <2>4. /\ Len(local'.alternatives) = Len(local.alternatives) + 1
        /\ ElementsOf(local.alternatives)'
             = ElementsOf(local.alternatives) + Len(local.alternative.elements)
        /\ Len(local'.alternative.elements) = 0
        /\ AlternativesIn(tree.rules)' = AlternativesIn(tree.rules)
        /\ ElementsIn(tree.rules)' = ElementsIn(tree.rules)
    BY <2>1, <2>3, ElementsCounted
  <2>5. RulesHeld \in Nat /\ RulesHeld' = RulesHeld
    BY <2>1, <2>2, RulesCountable DEF RulesHeld
  <2>6. AlternativesHeld \in Nat /\ AlternativesHeld' = AlternativesHeld
    BY <2>2, <2>4, RulesCountable DEF AlternativesHeld
  <2>7. ElementsHeld \in Nat /\ ElementsHeld' = ElementsHeld
    BY <2>4, RulesCountable DEF ElementsHeld
  <2>8. \A class \in Classes : allocated[class] \in Nat /\ allocated'[class] = allocated[class]
    BY <2>1, <1>a
  <2> QED BY <2>5, <2>6, <2>7, <2>8 DEF RulesFollow, Follows, Classes
<1>6. CASE Identifier \/ PBExpression \/ Quoted
  <2>1. pc \in InGenerator /\ pc' \in InGenerator
    BY <1>6 DEF Identifier, PBExpression, Quoted, InGenerator, InAlternative
  <2> QED BY <1>6, <2>1, ElementAdded DEF Identifier, PBExpression, Quoted
<1>7. CASE EngineStep
  <2>1. RulesKept
    BY <1>7, <1>a
    DEF EngineStep, Construct, RuleKeyword, DialectKeyword, OpKeyword, EndOfText, OtherToken,
        NameMissing, ActOnModule, data, shared, heap, RulesKept, InRule, InGenerator,
        InAlternative, Intact, Classes, Modules, Locals, Alternatives
  <2> QED BY <2>1, <1>c
<1>8. CASE RuleStep /\ ~RuleName /\ ~RuleColonMissing /\ ~OpenAlternative
            /\ ~CloseAlternative /\ ~AlternativeUnfinished /\ ~FillRule
  <2>1. RulesKept
    BY <1>8, <1>a
    DEF RuleStep, RuleSemi, PushRule, data, shared, heap, New, RulesKept, InRule, InGenerator,
        InAlternative, Intact, Classes, Modules, Locals, Alternatives
  <2> QED BY <2>1, <1>c
<1>9. CASE GeneratorStep /\ ~Identifier /\ ~PBExpression /\ ~Quoted /\ ~SetBuilders
  <2>1. RulesKept
    BY <1>9, <1>a
    DEF GeneratorStep, OpenQuoteOrBrace, QuoteEnd, Brace, RefsEqual, BuilderRef,
        BadBuilderRef, RefsComma, AddElement, data, shared, heap, New, RulesKept,
        InRule, InGenerator, InAlternative, Intact, Classes, Modules, Locals,
        Alternatives
  <2> QED BY <2>1, <1>c
<1>10. CASE DialectStep
  <2>1. RulesKept
    BY <1>10, <1>a
    DEF DialectStep, DialectName, DialectColon, DialectAttr, DialectEqual, DialectNext,
        DialectDone, data, shared, heap, New, Overwrite, RulesKept, InRule,
        InGenerator, InAlternative, Intact, Classes, Modules, Locals, Alternatives
  <2> QED BY <2>1, <1>c
<1>11. CASE OpStep
  <2>1. RulesKept
    BY <1>11, <1>a
    DEF OpStep, OpName, OpColon, OpFails, OpDone, OpElement, OpEqual, AfterElement,
        ActOnModule, data, shared, heap, New, RulesKept, InRule, InGenerator,
        InAlternative, Intact, Classes, Modules, Locals, Alternatives
  <2> QED BY <2>1, <1>c
<1>12. CASE DagStep
  <2>1. RulesKept
    BY <1>12, <1>a
    DEF DagStep, DagOpen, DagOperator, DagDone, OperandType, ScannedType, TypeNext,
        AnyTypeFails, TemplateType, TemplateClose, CArgType, CArgValue, OperandColon,
        OperandName, AddOperand, SetOperand, Returned, data, shared, heap, New,
        Overwrite, RulesKept, InRule, InGenerator, InAlternative, Intact, Classes,
        Modules, Locals, Alternatives
  <2> QED BY <2>1, <1>c
<1>13. CASE BuilderStep
  <2>1. RulesKept
    BY <1>13, <1>a
    DEF BuilderStep, BuildersEqual, BuildersOpen, OpBuilder, BuilderAngle, BuilderFails,
        BuilderCode, AddBuilder, BuilderComma, BuildersDone, data, shared, heap, New,
        RulesKept, InRule, InGenerator, InAlternative, Intact, Classes, Modules,
        Locals, Alternatives
  <2> QED BY <2>1, <1>c
<1>14. CASE Overrun
  <2>1. RulesKept
    BY <1>14, <1>a
    DEF Overrun, data, shared, heap, RulesKept, InRule, InGenerator, InAlternative, Intact,
        Classes, Modules, Locals, Alternatives
  <2> QED BY <2>1, <1>c
<1>16. CASE SetBuilders
  <2>1. /\ tree' = tree /\ allocated' = allocated
        /\ local'.alternatives = local.alternatives
        /\ local'.alternative.elements = local.alternative.elements
    BY <1>16, <1>a DEF SetBuilders, Locals, Alternatives, shared, heap
  <2>2. pc = "refs" /\ pc' = "generator"
    BY <1>16 DEF SetBuilders
  <2> QED BY <2>1, <2>2, <1>c DEF RulesKept, InRule, InGenerator, InAlternative
<1>15. CASE UNCHANGED vars
  <2>1. RulesKept
    BY <1>15 DEF vars, data, shared, heap, RulesKept
  <2> QED BY <2>1, <1>c
<1> QED
  BY <1>1, <1>2, <1>3, <1>4, <1>5, <1>6, <1>7, <1>8, <1>9, <1>10, <1>11, <1>12, <1>13,
     <1>14, <1>15, <1>16
  DEF Next, Step, Halted

-----------------------------------------------------------------------------
(* The pointers: none is written over an object that is still held, and the *)
(* module is handed over once, at the end.                                  *)
InDialect == {"dialectColon", "dialectAttr", "dialectEqual", "dialectNext"}
InDag == {"dagOpen", "dagOperator", "operand", "typeNext", "anyOpen", "templateOpen",
          "templateSquare", "templateType", "templateUnsquare", "templateClose", "cargOpen",
          "cargComma", "cargValue", "cargEnd", "cargClose", "operandColon", "operandDollar",
          "operandName", "operandEnd"}
InOp == {"opColon", "opElement", "opEqual", "buildersEqual", "afterElement", "buildersOpen",
         "builder", "builderAngle", "builderComma"} \cup InDag \cup BuilderRead

PointersFresh ==
  /\ pc = "builderAngle" \/ (pc \in InDag /\ local.target = "builder") =>
       local.builderDag = NULL
  /\ pc = "opEqual" => local.target # "builder"
  /\ pc \in InDialect => tree.dialect # NULL
  /\ Intact /\ pc \notin InOp => /\ local.op.arguments = NULL /\ local.op.results = NULL
                                 /\ local.op.builders = <<>>
  /\ module \in {tree, NoModule} /\ (pc # "done" => module = NoModule)

LEMMA PointersStep == ASSUME TypeOK, PointersFresh, [Next]_vars PROVE PointersFresh'
<1>a. tree \in Modules /\ local \in Locals BY DEF TypeOK
<1>b. Intact' => Intact BY IntactStays
<1>c. NoDialect # NULL /\ local.fields # NULL
  BY <1>a, BlankTyped, NullAssumption DEF Locals
<1> USE DEF Goto, Quiet, Report, Read, Stay, Fail, Expect, Consume, Optional, At, Kind
<1>1. CASE EngineStep
  BY <1>1, <1>a, <1>b
  DEF EngineStep, Construct, RuleKeyword, DialectKeyword, OpKeyword, EndOfText, OtherToken,
      NameMissing, ActOnModule, data, shared, heap, PointersFresh, Intact,
      InDialect, InDag, InOp, BuilderRead, Modules, Locals, Ops, NoOp, NoDialect
<1>2. CASE RuleStep
  BY <1>2, <1>a, <1>b
  DEF RuleStep, RuleName, RuleSemi, RuleColonMissing, OpenAlternative, CloseAlternative,
      AlternativeUnfinished, FillRule, PushRule, data, shared, heap, New,
      PointersFresh, Intact, InDialect, InDag, InOp, BuilderRead, Modules, Locals,
      Ops, NoOp, NoDialect
<1>3. CASE GeneratorStep
  BY <1>3, <1>a, <1>b
  DEF GeneratorStep, Identifier, PBExpression, OpenQuoteOrBrace, Quoted, QuoteEnd, Brace,
      RefsEqual, BuilderRef, BadBuilderRef, RefsComma, SetBuilders, AddElement,
      data, shared, heap, New, PointersFresh, Intact, InDialect, InDag, InOp,
      BuilderRead, Modules, Locals, Ops, NoOp, NoDialect
<1>4. CASE DialectStep
  BY <1>4, <1>a, <1>b, <1>c
  DEF DialectStep, DialectName, DialectColon, DialectAttr, DialectEqual, DialectNext,
      DialectDone, data, shared, heap, New, Overwrite, PointersFresh, Intact,
      InDialect, InDag, InOp, BuilderRead, Modules, Locals, Ops, NoOp, NoDialect
<1>5. CASE OpName \/ OpColon \/ OpFails \/ AfterElement
  BY <1>5, <1>a, <1>b
  DEF OpName, OpColon, OpFails, AfterElement, ActOnModule, data, shared, heap, New,
      PointersFresh, Intact, InDialect, InDag, InOp, BuilderRead, Modules, Locals, Ops, NoOp
<1>6. CASE OpDone
  BY <1>6, <1>a, <1>b
  DEF OpDone, shared, heap, New, PointersFresh, Intact, InDialect, InDag, InOp, BuilderRead,
      Modules, Locals, Ops, NoOp
<1>7. CASE OpElement
  BY <1>7, <1>a, <1>b
  DEF OpElement, shared, heap, New, PointersFresh, Intact, InDialect, InDag, InOp, BuilderRead,
      Modules, Locals, Ops, NoOp
<1>8. CASE OpEqual
  BY <1>8, <1>a, <1>b
  DEF OpEqual, shared, heap, New, PointersFresh, Intact, InDialect, InDag, InOp, BuilderRead,
      Modules, Locals, Ops, NoOp
<1>9. CASE DagStep
  BY <1>9, <1>a, <1>b
  DEF DagStep, DagOpen, DagOperator, DagDone, OperandType, ScannedType, TypeNext,
      AnyTypeFails, TemplateType, TemplateClose, CArgType, CArgValue, OperandColon,
      OperandName, AddOperand, SetOperand, Returned, data, shared, heap, New,
      Overwrite, PointersFresh, Intact, InDialect, InDag, InOp, BuilderRead,
      Modules, Locals, Ops, NoOp, NoDialect
<1>10. CASE BuilderStep
  BY <1>10, <1>a, <1>b
  DEF BuilderStep, BuildersEqual, BuildersOpen, OpBuilder, BuilderAngle, BuilderFails,
      BuilderCode, AddBuilder, BuilderComma, BuildersDone, data, shared, heap, New,
      PointersFresh, Intact, InDialect, InDag, InOp, BuilderRead, Modules, Locals,
      Ops, NoOp, NoDialect
<1>11. CASE Overrun
  BY <1>11, <1>a, <1>b
  DEF Overrun, data, shared, heap, PointersFresh, Intact, InDialect, InDag, InOp,
      BuilderRead, Modules, Locals, Ops, NoOp, NoDialect
<1>12. CASE UNCHANGED vars
  BY <1>12 DEF vars, data, shared, PointersFresh, Intact
<1> QED
  BY <1>1, <1>2, <1>3, <1>4, <1>5, <1>6, <1>7, <1>8, <1>9, <1>10, <1>11, <1>12
  DEF Next, Step, OpStep, Halted

-----------------------------------------------------------------------------
(* The dialect, the ops and their dags.                                     *)
LEMMA RedeclaredStays == ASSUME [Next]_vars PROVE redeclared \subseteq redeclared'
<1>1. CASE EngineStep
  BY <1>1
  DEF EngineStep, Construct, RuleKeyword, DialectKeyword, OpKeyword, EndOfText, OtherToken,
      NameMissing, ActOnModule, data, shared, heap
<1>2. CASE RuleStep
  BY <1>2
  DEF RuleStep, RuleName, RuleSemi, RuleColonMissing, OpenAlternative, CloseAlternative,
      AlternativeUnfinished, FillRule, PushRule, data, shared, heap, New
<1>3. CASE GeneratorStep
  BY <1>3
  DEF GeneratorStep, Identifier, PBExpression, OpenQuoteOrBrace, Quoted, QuoteEnd, Brace,
      RefsEqual, BuilderRef, BadBuilderRef, RefsComma, SetBuilders, AddElement,
      data, shared, heap, New
<1>4. CASE DialectStep
  BY <1>4
  DEF DialectStep, DialectName, DialectColon, DialectAttr, DialectEqual, DialectNext,
      DialectDone, data, shared, heap, New, Overwrite
<1>5. CASE OpStep
  BY <1>5
  DEF OpStep, OpName, OpColon, OpFails, OpDone, OpElement, OpEqual, AfterElement,
      ActOnModule, data, shared, heap, New
<1>6. CASE DagStep
  BY <1>6
  DEF DagStep, DagOpen, DagOperator, DagDone, OperandType, ScannedType, TypeNext,
      AnyTypeFails, TemplateType, TemplateClose, CArgType, CArgValue, OperandColon,
      OperandName, AddOperand, SetOperand, Returned, data, shared, heap, New,
      Overwrite
<1>7. CASE BuilderStep
  BY <1>7
  DEF BuilderStep, BuildersEqual, BuildersOpen, OpBuilder, BuilderAngle, BuilderFails,
      BuilderCode, AddBuilder, BuilderComma, BuildersDone, data, shared, heap, New
<1>8. CASE Overrun
  BY <1>8
  DEF Overrun, data, shared, heap
<1>9. CASE UNCHANGED vars
  BY <1>9 DEF vars, data, shared, heap
<1> QED
  BY <1>1, <1>2, <1>3, <1>4, <1>5, <1>6, <1>7, <1>8, <1>9 DEF Next, Step, Halted

LEMMA DialectAccountedStep ==
  ASSUME TypeOK, PointersFresh, DialectAccounted, [Next]_vars PROVE DialectAccounted'
<1> DEFINE Kept == /\ tree'.dialect = tree.dialect
                   /\ allocated'["dialect"] = allocated["dialect"]
           Fresh == Follows("dialect", One(tree.dialect), One(tree.dialect)')
<1>a. tree \in Modules /\ local \in Locals /\ allocated \in [Classes -> Nat]
      /\ "dialect" \in Classes /\ allocated["dialect"] \in Nat
  BY DEF TypeOK, Classes
<1>b. One(tree.dialect) \in Nat /\ One(tree.dialect)' \in Nat BY OneIsSmall
<1>c. Kept => Fresh
  <2>1. Kept => One(tree.dialect)' = One(tree.dialect) OBVIOUS
  <2> QED BY <2>1, <1>a, <1>b DEF Follows
<1> SUFFICES Fresh
  <2>1. "dialect" \notin redeclared' => "dialect" \notin redeclared BY RedeclaredStays
  <2> QED BY <2>1, <1>a, Followed DEF DialectAccounted, Balanced
<1>d. NoDialect # NULL /\ local.fields # NULL
  BY <1>a, BlankTyped, NullAssumption DEF Locals
<1> USE DEF Goto, Quiet, Report, Read, Stay, Fail, Expect, Consume, Optional, At, Kind
<1>1. CASE EngineStep
  <2>1. Kept
    BY <1>1, <1>a
    DEF EngineStep, Construct, RuleKeyword, DialectKeyword, OpKeyword, EndOfText, OtherToken,
        NameMissing, ActOnModule, data, shared, heap, Classes, Modules
  <2> QED BY <2>1, <1>c
<1>2. CASE RuleStep
  <2>1. Kept
    BY <1>2, <1>a
    DEF RuleStep, RuleName, RuleSemi, RuleColonMissing, OpenAlternative, CloseAlternative,
        AlternativeUnfinished, FillRule, PushRule, data, shared, heap, New, Classes,
        Modules
  <2> QED BY <2>1, <1>c
<1>3. CASE GeneratorStep
  <2>1. Kept
    BY <1>3, <1>a
    DEF GeneratorStep, Identifier, PBExpression, OpenQuoteOrBrace, Quoted, QuoteEnd, Brace,
        RefsEqual, BuilderRef, BadBuilderRef, RefsComma, SetBuilders, AddElement,
        data, shared, heap, New, Classes, Modules
  <2> QED BY <2>1, <1>c
<1>4. CASE DialectStep /\ ~DialectName /\ ~DialectDone
  <2>1. Kept
    BY <1>4, <1>a
    DEF DialectStep, DialectColon, DialectAttr, DialectEqual, DialectNext, data, shared, heap,
        New, Overwrite, Classes, Modules
  <2> QED BY <2>1, <1>c
<1>5. CASE OpStep
  <2>1. Kept
    BY <1>5, <1>a
    DEF OpStep, OpName, OpColon, OpFails, OpDone, OpElement, OpEqual, AfterElement,
        ActOnModule, data, shared, heap, New, Classes, Modules
  <2> QED BY <2>1, <1>c
<1>6. CASE DagStep
  <2>1. Kept
    BY <1>6, <1>a
    DEF DagStep, DagOpen, DagOperator, DagDone, OperandType, ScannedType, TypeNext,
        AnyTypeFails, TemplateType, TemplateClose, CArgType, CArgValue, OperandColon,
        OperandName, AddOperand, SetOperand, Returned, data, shared, heap, New,
        Overwrite, Classes, Modules
  <2> QED BY <2>1, <1>c
<1>7. CASE BuilderStep
  <2>1. Kept
    BY <1>7, <1>a
    DEF BuilderStep, BuildersEqual, BuildersOpen, OpBuilder, BuilderAngle, BuilderFails,
        BuilderCode, AddBuilder, BuilderComma, BuildersDone, data, shared, heap, New,
        Classes, Modules
  <2> QED BY <2>1, <1>c
<1>8. CASE Overrun
  <2>1. Kept
    BY <1>8, <1>a
    DEF Overrun, data, shared, heap, Classes, Modules
  <2> QED BY <2>1, <1>c
<1>9. CASE DialectName
  <2>1. /\ tree'.dialect = NoDialect /\ allocated'["dialect"] = allocated["dialect"] + 1
        /\ redeclared' = IF tree.dialect = NULL THEN redeclared
                         ELSE redeclared \cup {"dialect"}
    BY <1>9, <1>a DEF DialectName, New, Overwrite, Modules, Classes
  <2>2. One(tree.dialect)' = 1 BY <1>d, <2>1 DEF One
  <2>3. "dialect" \notin redeclared' => One(tree.dialect) = 0 BY <2>1 DEF One
  <2> QED BY <1>a, <1>b, <2>1, <2>2, <2>3, OneIsSmall DEF Follows
<1>10. CASE DialectDone
  <2>1. /\ tree'.dialect = local.fields /\ allocated' = allocated /\ pc = "dialectColon"
    BY <1>10, <1>a DEF DialectDone, Modules, heap
  <2>2. One(tree.dialect)' = 1 BY <1>d, <2>1 DEF One
  <2>3. tree.dialect # NULL BY <2>1 DEF PointersFresh, InDialect
  <2>4. One(tree.dialect) = 1 BY <2>3 DEF One
  <2>5. allocated'["dialect"] = allocated["dialect"] BY <2>1
  <2> QED BY <1>a, <2>2, <2>4, <2>5 DEF Follows
<1>11. CASE UNCHANGED vars
  <2>1. Kept BY <1>11 DEF vars, data, shared, heap
  <2> QED BY <2>1, <1>c
<1> QED
  BY <1>1, <1>2, <1>3, <1>4, <1>5, <1>6, <1>7, <1>8, <1>9, <1>10, <1>11
  DEF Next, Step, Halted

OpsKept ==
  /\ tree'.ops = tree.ops /\ local'.op.arguments = local.op.arguments
  /\ local'.op.results = local.op.results /\ local'.op.builders = local.op.builders
  /\ pc' \in BuilderRead => pc \in BuilderRead /\ local'.builderDag = local.builderDag
  /\ Intact' /\ pc \in BuilderRead => pc' \in BuilderRead
  /\ \A class \in {"op", "dag", "builder"} : allocated'[class] = allocated[class]

LEMMA OpsCountable ==
  ASSUME TypeOK
  PROVE  /\ Len(tree.ops) \in Nat /\ DagsIn(tree.ops) \in Nat /\ BuildersIn(tree.ops) \in Nat
         /\ DagsOf(local.op) \in Nat /\ Len(local.op.builders) \in Nat
         /\ DagAside \in Nat /\ DagAside' \in Nat
         /\ allocated["op"] \in Nat /\ allocated["dag"] \in Nat /\ allocated["builder"] \in Nat
<1>1. tree.ops \in Seq(Ops) /\ local.op \in Ops BY DEF TypeOK, Modules, Locals
<1>2. DagAside \in Nat /\ DagAside' \in Nat BY OneIsSmall DEF DagAside
<1>3. /\ DagsIn(tree.ops) \in Nat /\ BuildersIn(tree.ops) \in Nat
      /\ DagsOf(local.op) \in Nat /\ Len(local.op.builders) \in Nat
  BY <1>1, OpsCounted
<1>4. Len(tree.ops) \in Nat BY <1>1
<1>5. /\ allocated["op"] \in Nat /\ allocated["dag"] \in Nat /\ allocated["builder"] \in Nat
  BY DEF TypeOK, Classes
<1> QED BY <1>2, <1>3, <1>4, <1>5

LEMMA BlankOp ==
  ASSUME NEW node, node.arguments = NULL, node.results = NULL, node.builders = <<>>
  PROVE  DagsOf(node) = 0 /\ Len(node.builders) = 0
<1>1. DagsOfBuilders(node.builders) = 0
  <2>1. <<>> \in Seq(Dags \cup {NULL}) /\ NULL \in Dags \cup {NULL} OBVIOUS
  <2> QED BY <2>1, BuilderDagsCounted
<1>2. One(node.arguments) = 0 /\ One(node.results) = 0 BY DEF One
<1>3. DagsOf(node) = 0 BY <1>1, <1>2, DagsOfOp
<1> QED BY <1>3

OpsFollow == /\ Follows("op", OpsHeld, OpsHeld') /\ Follows("dag", DagsHeld, DagsHeld')
             /\ Follows("builder", BuildersHeld, BuildersHeld')

LEMMA OpsFollowed ==
  ASSUME TypeOK, OpsAccounted, OpsFollow, [Next]_vars PROVE OpsAccounted'
BY RedeclaredStays, Followed DEF OpsFollow, OpsAccounted, Balanced, Classes

LEMMA OpsKeptFollow == ASSUME TypeOK, OpsKept PROVE OpsFollow
<1>1. /\ Len(tree'.ops) = Len(tree.ops) /\ DagsIn(tree.ops)' = DagsIn(tree.ops)
      /\ BuildersIn(tree.ops)' = BuildersIn(tree.ops)
      /\ Len(local'.op.builders) = Len(local.op.builders)
  BY DEF OpsKept
<1>2. DagsOf(local.op)' = DagsOf(local.op)
  <2>1. /\ DagsOf(local.op) = One(local.op.arguments) + One(local.op.results)
                              + DagsOfBuilders(local.op.builders)
        /\ DagsOf(local.op)' = One(local'.op.arguments) + One(local'.op.results)
                               + DagsOfBuilders(local'.op.builders)
    BY DagsOfOp
  <2> QED BY <2>1 DEF OpsKept
<1>3. DagAside' <= DagAside /\ (Intact' => DagAside' = DagAside)
  BY OneIsSmall DEF OpsKept, DagAside
<1>4. /\ allocated'["op"] = allocated["op"] /\ allocated'["dag"] = allocated["dag"]
      /\ allocated'["builder"] = allocated["builder"]
  BY DEF OpsKept
<1>5. OpsHeld \in Nat /\ OpsHeld' = OpsHeld BY <1>1, OpsCountable DEF OpsHeld
<1>6. /\ DagsHeld \in Nat /\ DagsHeld' \in Nat /\ DagsHeld' <= DagsHeld
      /\ Intact' => DagsHeld' = DagsHeld
  <2>1. /\ DagsHeld = DagsIn(tree.ops) + DagsOf(local.op) + DagAside
        /\ DagsHeld' = DagsIn(tree.ops) + DagsOf(local.op) + DagAside'
    BY <1>1, <1>2 DEF DagsHeld
  <2>2. /\ DagsIn(tree.ops) \in Nat /\ DagsOf(local.op) \in Nat
        /\ DagAside \in Nat /\ DagAside' \in Nat
    BY OpsCountable
  <2> QED BY <1>3, <2>1, <2>2
<1>7. BuildersHeld \in Nat /\ BuildersHeld' = BuildersHeld
  <2>1. BuildersHeld' = BuildersHeld BY <1>1, Zenon DEF BuildersHeld
  <2>2. BuildersIn(tree.ops) \in Nat /\ Len(local.op.builders) \in Nat BY OpsCountable
  <2>3. BuildersHeld \in Nat BY <2>2 DEF BuildersHeld
  <2> QED BY <2>1, <2>3
<1> QED BY <1>4, <1>5, <1>6, <1>7, OpsCountable DEF OpsFollow, Follows

LEMMA OpsAccountedStep ==
  ASSUME TypeOK, PointersFresh, OpsAccounted, [Next]_vars PROVE OpsAccounted'
<1> SUFFICES OpsFollow BY OpsFollowed
<1>a. tree \in Modules /\ local \in Locals /\ allocated \in [Classes -> Nat]
      /\ tree.ops \in Seq(Ops) /\ local.op \in Ops /\ local.op.builders \in Seq(Dags \cup {NULL})
      /\ local.builderDag \in Dags \cup {NULL}
  BY DEF TypeOK, Modules, Locals, Ops
<1>b. Intact' /\ pc \notin InOp => DagsOf(local.op) = 0 /\ Len(local.op.builders) = 0
  BY IntactStays, BlankOp DEF PointersFresh
<1>c. OpsKept => OpsFollow BY OpsKeptFollow
<1>d. {"op", "dag", "builder"} \subseteq Classes BY DEF Classes
<1> USE DEF Goto, Quiet, Report, Read, Stay, Fail, Expect, Consume, Optional, At, Kind
<1>1. CASE OpName
  <2>1. /\ tree' = tree /\ allocated' = allocated /\ pc = "opName" /\ pc' = "opColon"
        /\ local'.op.arguments = NULL /\ local'.op.results = NULL /\ local'.op.builders = <<>>
    BY <1>1, <1>a DEF OpName, shared, heap, Locals, NoOp
  <2>2. /\ DagAside = 0 /\ DagAside' = 0 /\ DagsIn(tree.ops)' = DagsIn(tree.ops)
        /\ BuildersIn(tree.ops)' = BuildersIn(tree.ops) /\ Len(tree'.ops) = Len(tree.ops)
    BY <2>1 DEF DagAside, BuilderRead
  <2>3. DagsOf(local.op)' = 0 /\ Len(local'.op.builders) = 0 BY <2>1, BlankOp
  <2>4. Intact' => DagsOf(local.op) = 0 /\ Len(local.op.builders) = 0
    BY <1>b, <2>1 DEF InOp, InDag, BuilderRead
  <2>5. OpsHeld \in Nat /\ OpsHeld' = OpsHeld BY <2>2, OpsCountable DEF OpsHeld
  <2>6. /\ DagsHeld \in Nat /\ DagsHeld' \in Nat /\ DagsHeld' <= DagsHeld
        /\ Intact' => DagsHeld' = DagsHeld
    BY <2>2, <2>3, <2>4, OpsCountable DEF DagsHeld
  <2>7. /\ BuildersHeld \in Nat /\ BuildersHeld' \in Nat /\ BuildersHeld' <= BuildersHeld
        /\ Intact' => BuildersHeld' = BuildersHeld
    BY <2>2, <2>3, <2>4, OpsCountable DEF BuildersHeld
  <2>8. /\ allocated'["op"] = allocated["op"] /\ allocated'["dag"] = allocated["dag"]
        /\ allocated'["builder"] = allocated["builder"]
    BY <2>1
  <2>9. Follows("op", OpsHeld, OpsHeld') BY <2>5, <2>8, OpsCountable DEF Follows
  <2>10. Follows("dag", DagsHeld, DagsHeld') BY <2>6, <2>8, OpsCountable DEF Follows
  <2>11. Follows("builder", BuildersHeld, BuildersHeld')
    BY <2>7, <2>8, OpsCountable DEF Follows
  <2> QED BY <2>9, <2>10, <2>11 DEF OpsFollow
<1>2. CASE OpDone
  <2>1. /\ tree'.ops = Append(tree.ops, local.op) /\ pc = "opColon" /\ pc' = "top"
        /\ local'.op.arguments = NULL /\ local'.op.results = NULL /\ local'.op.builders = <<>>
    BY <1>2, <1>a DEF OpDone, Modules, Locals, NoOp
  <2>2. /\ allocated'["op"] = allocated["op"] + 1 /\ allocated'["dag"] = allocated["dag"]
        /\ allocated'["builder"] = allocated["builder"]
    BY <1>2, <1>a, <1>d DEF OpDone, New
  <2>3. /\ DagAside = 0 /\ DagAside' = 0 /\ Len(tree'.ops) = Len(tree.ops) + 1
    BY <1>a, <2>1 DEF DagAside, BuilderRead
  <2>4. /\ DagsIn(tree.ops)' = DagsIn(tree.ops) + DagsOf(local.op)
        /\ BuildersIn(tree.ops)' = BuildersIn(tree.ops) + Len(local.op.builders)
    BY <1>a, <2>1, OpsCounted
  <2>5. DagsOf(local.op)' = 0 /\ Len(local'.op.builders) = 0 BY <2>1, BlankOp
  <2>6. OpsHeld \in Nat /\ OpsHeld' = OpsHeld + 1 BY <2>3, OpsCountable DEF OpsHeld
  <2>7. DagsHeld \in Nat /\ DagsHeld' = DagsHeld
    BY <2>3, <2>4, <2>5, OpsCountable DEF DagsHeld
  <2>8. BuildersHeld \in Nat /\ BuildersHeld' = BuildersHeld
    BY <2>4, <2>5, OpsCountable DEF BuildersHeld
  <2>9. Follows("op", OpsHeld, OpsHeld') BY <2>2, <2>6, OpsCountable DEF Follows
  <2>10. Follows("dag", DagsHeld, DagsHeld') BY <2>2, <2>7, OpsCountable DEF Follows
  <2>11. Follows("builder", BuildersHeld, BuildersHeld')
    BY <2>2, <2>8, OpsCountable DEF Follows
  <2> QED BY <2>9, <2>10, <2>11 DEF OpsFollow
<1>3. CASE AddBuilder
  <2>1. /\ tree' = tree /\ pc = "builderClose" /\ pc' = "builderComma"
        /\ local'.op.arguments = local.op.arguments /\ local'.op.results = local.op.results
        /\ local'.op.builders = Append(local.op.builders, local.builderDag)
    BY <1>3, <1>a DEF AddBuilder, Locals, Ops
  <2>2. /\ allocated'["op"] = allocated["op"] /\ allocated'["dag"] = allocated["dag"]
        /\ allocated'["builder"] = allocated["builder"] + 1
    BY <1>3, <1>a, <1>d DEF AddBuilder, New
  <2>3. /\ DagAside = One(local.builderDag) /\ DagAside' = 0
        /\ DagsIn(tree.ops)' = DagsIn(tree.ops) /\ BuildersIn(tree.ops)' = BuildersIn(tree.ops)
        /\ Len(tree'.ops) = Len(tree.ops)
    BY <2>1 DEF DagAside, BuilderRead
  <2>4. Len(local'.op.builders) = Len(local.op.builders) + 1 BY <1>a, <2>1
  <2>5. DagsOf(local.op)' = DagsOf(local.op) + One(local.builderDag)
    <3>1. /\ DagsOf(local.op) = One(local.op.arguments) + One(local.op.results)
                                + DagsOfBuilders(local.op.builders)
          /\ DagsOf(local.op)' = One(local'.op.arguments) + One(local'.op.results)
                                 + DagsOfBuilders(local'.op.builders)
      BY DagsOfOp
    <3>2. /\ DagsOfBuilders(local.op.builders) \in Nat
          /\ DagsOfBuilders(local'.op.builders)
               = DagsOfBuilders(local.op.builders) + One(local.builderDag)
      BY <1>a, <2>1, BuilderDagsCounted
    <3> QED BY <2>1, <3>1, <3>2, OneIsSmall
  <2>6. OpsHeld \in Nat /\ OpsHeld' = OpsHeld BY <2>3, OpsCountable DEF OpsHeld
  <2>7. DagsHeld \in Nat /\ DagsHeld' = DagsHeld
    BY <2>3, <2>5, OpsCountable, OneIsSmall DEF DagsHeld
  <2>8. BuildersHeld \in Nat /\ BuildersHeld' = BuildersHeld + 1
    <3>1. /\ BuildersHeld = BuildersIn(tree.ops) + Len(local.op.builders)
          /\ BuildersHeld' = BuildersIn(tree.ops) + (Len(local.op.builders) + 1)
      BY <2>3, <2>4 DEF BuildersHeld
    <3>2. BuildersIn(tree.ops) \in Nat /\ Len(local.op.builders) \in Nat BY OpsCountable
    <3> QED BY <3>1, <3>2
  <2> QED BY <2>2, <2>6, <2>7, <2>8, OpsCountable DEF OpsFollow, Follows
<1>4. CASE DagDone
  <2>1. /\ tree' = tree /\ pc = "operand" /\ pc' = Returned
        /\ allocated'["op"] = allocated["op"] /\ allocated'["dag"] = allocated["dag"] + 1
        /\ allocated'["builder"] = allocated["builder"]
    BY <1>4, <1>a, <1>d DEF DagDone, New
  <2>2. /\ DagAside = 0 /\ DagsIn(tree.ops)' = DagsIn(tree.ops)
        /\ BuildersIn(tree.ops)' = BuildersIn(tree.ops) /\ Len(tree'.ops) = Len(tree.ops)
    BY <2>1 DEF DagAside, BuilderRead
  <2>3. local.dag # NULL BY <1>a, NullAssumption DEF Locals
  <2>4. OpsHeld \in Nat /\ OpsHeld' = OpsHeld BY <2>2, OpsCountable DEF OpsHeld
  <2>5. CASE local.target = "builder"
    <3>1. local'.op = local.op /\ local'.builderDag = local.dag
      BY <1>4, <1>a, <2>5 DEF DagDone, Locals
    <3>2. /\ DagsOf(local.op)' = DagsOf(local.op)
          /\ Len(local'.op.builders) = Len(local.op.builders)
      BY <3>1
    <3>3. DagAside' = 1
      BY <2>1, <2>3, <2>5, <3>1 DEF DagAside, Returned, BuilderRead, One
    <3>4. DagsHeld \in Nat /\ DagsHeld' = DagsHeld + 1
      BY <2>2, <3>2, <3>3, OpsCountable DEF DagsHeld
    <3>5. BuildersHeld \in Nat /\ BuildersHeld' = BuildersHeld
      BY <2>2, <3>2, OpsCountable DEF BuildersHeld
    <3> QED BY <2>1, <2>4, <3>4, <3>5, OpsCountable DEF OpsFollow, Follows
  <2>6. CASE local.target # "builder"
    <3> DEFINE t == local.target
    <3>1. t \in {"arguments", "results"} BY <1>a, <2>6 DEF Locals
    <3>2. /\ local'.op = [local.op EXCEPT ![t] = local.dag]
          /\ redeclared' = IF local.op[t] = NULL THEN redeclared ELSE redeclared \cup {"dag"}
      BY <1>4, <1>a, <2>6 DEF DagDone, Locals, Overwrite
    <3>3. DagAside' = 0 BY <2>1, <2>6 DEF DagAside, Returned, BuilderRead
    <3>4. /\ "dag" \notin redeclared' => One(local.op[t]) = 0
          /\ One(local.dag) = 1
      BY <2>3, <3>2 DEF One
    <3>5. DagsOf(local.op)' = DagsOf(local.op) + 1 - One(local.op[t])
          /\ Len(local'.op.builders) = Len(local.op.builders)
      <4>1. /\ DagsOf(local.op) = One(local.op.arguments) + One(local.op.results)
                                  + DagsOfBuilders(local.op.builders)
            /\ DagsOf(local.op)' = One(local'.op.arguments) + One(local'.op.results)
                                   + DagsOfBuilders(local'.op.builders)
        BY DagsOfOp
      <4>2. local'.op.builders = local.op.builders BY <1>a, <3>1, <3>2 DEF Ops
      <4>3. DagsOfBuilders(local.op.builders) \in Nat BY <1>a, BuilderDagsCounted
      <4>4. CASE t = "arguments"
        <5>1. local'.op.arguments = local.dag /\ local'.op.results = local.op.results
          BY <1>a, <3>2, <4>4 DEF Ops
        <5>2. local.op[t] = local.op.arguments BY <4>4
        <5> HIDE DEF t
        <5> QED BY <3>4, <4>1, <4>2, <4>3, <5>1, <5>2, OneIsSmall
      <4>5. CASE t = "results"
        <5>1. local'.op.arguments = local.op.arguments /\ local'.op.results = local.dag
          BY <1>a, <3>2, <4>5 DEF Ops
        <5>2. local.op[t] = local.op.results BY <4>5
        <5> HIDE DEF t
        <5> QED BY <3>4, <4>1, <4>2, <4>3, <5>1, <5>2, OneIsSmall
      <4> QED BY <3>1, <4>4, <4>5
    <3> HIDE DEF t
    <3>6. One(local.op[t]) \in {0, 1} BY OneIsSmall DEF One
    <3>7. /\ DagsHeld \in Nat /\ DagsHeld' \in Nat /\ DagsHeld' <= DagsHeld + 1
          /\ "dag" \notin redeclared' => DagsHeld' = DagsHeld + 1
      BY <2>2, <3>3, <3>4, <3>5, <3>6, OpsCountable DEF DagsHeld
    <3>8. BuildersHeld \in Nat /\ BuildersHeld' = BuildersHeld
      BY <2>2, <3>5, OpsCountable DEF BuildersHeld
    <3>9. Follows("op", OpsHeld, OpsHeld') BY <2>1, <2>4, OpsCountable DEF Follows
    <3>10. Follows("dag", DagsHeld, DagsHeld')
      <4>1. allocated'["dag"] = allocated["dag"] + 1 /\ allocated["dag"] \in Nat
        BY <2>1, OpsCountable
      <4> QED BY <4>1, <3>7 DEF Follows
    <3>11. Follows("builder", BuildersHeld, BuildersHeld')
      BY <2>1, <3>8, OpsCountable DEF Follows
    <3> QED BY <3>9, <3>10, <3>11 DEF OpsFollow
  <2> QED BY <2>5, <2>6
<1>5. CASE AnyTypeFails
  <2>1. /\ tree' = tree /\ pc = "anyOpen" /\ pc' = Returned /\ reported'
        /\ allocated' = allocated /\ local'.op = local.op
        /\ local'.builderDag = local.builderDag
    BY <1>5, <1>a DEF AnyTypeFails, shared, heap, Locals
  <2>2. DagAside = 0 BY <2>1 DEF DagAside, BuilderRead
  <2>3. DagAside' = 0
    <3>1. CASE local.target = "builder"
      <4>1. local.builderDag = NULL BY <2>1, <3>1 DEF PointersFresh, InDag
      <4> QED BY <2>1, <4>1 DEF DagAside, One
    <3>2. CASE local.target # "builder"
      BY <2>1, <3>2 DEF DagAside, Returned, BuilderRead
    <3> QED BY <3>1, <3>2
  <2>4. /\ DagsIn(tree.ops)' = DagsIn(tree.ops) /\ DagsOf(local.op)' = DagsOf(local.op)
        /\ BuildersIn(tree.ops)' = BuildersIn(tree.ops) /\ Len(tree'.ops) = Len(tree.ops)
        /\ Len(local'.op.builders) = Len(local.op.builders)
    BY <2>1
  <2>5. OpsHeld \in Nat /\ OpsHeld' = OpsHeld BY <2>4, OpsCountable DEF OpsHeld
  <2>6. DagsHeld \in Nat /\ DagsHeld' = DagsHeld
    BY <2>2, <2>3, <2>4, OpsCountable DEF DagsHeld
  <2>7. BuildersHeld \in Nat /\ BuildersHeld' = BuildersHeld
    BY <2>4, OpsCountable DEF BuildersHeld
  <2> QED BY <2>1, <2>5, <2>6, <2>7, OpsCountable DEF OpsFollow, Follows
<1>6. CASE EngineStep
  <2>1. OpsKept
    BY <1>6, <1>a
    DEF EngineStep, Construct, RuleKeyword, DialectKeyword, OpKeyword, EndOfText, OtherToken,
        NameMissing, ActOnModule, data, shared, heap, OpsKept, Intact, BuilderRead,
        Classes, Modules, Locals, Ops
  <2> QED BY <2>1, <1>c
<1>7. CASE RuleStep
  <2>1. OpsKept
    BY <1>7, <1>a
    DEF RuleStep, RuleName, RuleSemi, RuleColonMissing, OpenAlternative, CloseAlternative,
        AlternativeUnfinished, FillRule, PushRule, data, shared, heap, New, OpsKept,
        Intact, BuilderRead, Classes, Modules, Locals, Ops
  <2> QED BY <2>1, <1>c
<1>8. CASE GeneratorStep
  <2>1. OpsKept
    BY <1>8, <1>a
    DEF GeneratorStep, Identifier, PBExpression, OpenQuoteOrBrace, Quoted, QuoteEnd, Brace,
        RefsEqual, BuilderRef, BadBuilderRef, RefsComma, SetBuilders, AddElement,
        data, shared, heap, New, OpsKept, Intact, BuilderRead, Classes, Modules,
        Locals, Ops
  <2> QED BY <2>1, <1>c
<1>9. CASE DialectStep
  <2>1. OpsKept
    BY <1>9, <1>a
    DEF DialectStep, DialectName, DialectColon, DialectAttr, DialectEqual, DialectNext,
        DialectDone, data, shared, heap, New, Overwrite, OpsKept, Intact, BuilderRead,
        Classes, Modules, Locals, Ops
  <2> QED BY <2>1, <1>c
<1>10. CASE OpStep /\ ~OpName /\ ~OpDone
  <2>1. OpsKept
    BY <1>10, <1>a
    DEF OpStep, OpColon, OpFails, OpElement, OpEqual, AfterElement, ActOnModule, data, shared,
        heap, New, OpsKept, Intact, BuilderRead, Classes, Modules, Locals, Ops
  <2> QED BY <2>1, <1>c
<1>11. CASE DagStep /\ ~DagDone /\ ~AnyTypeFails
  <2>1. OpsKept
    BY <1>11, <1>a
    DEF DagStep, DagOpen, DagOperator, OperandType, ScannedType, TypeNext, TemplateType,
        TemplateClose, CArgType, CArgValue, OperandColon, OperandName, AddOperand,
        SetOperand, Returned, data, shared, heap, New, Overwrite, OpsKept, Intact,
        BuilderRead, Classes, Modules, Locals, Ops
  <2> QED BY <2>1, <1>c
<1>12. CASE BuilderStep /\ ~AddBuilder
  <2>1. OpsKept
    BY <1>12, <1>a
    DEF BuilderStep, BuildersEqual, BuildersOpen, OpBuilder, BuilderAngle, BuilderFails,
        BuilderCode, BuilderComma, BuildersDone, data, shared, heap, New, OpsKept,
        Intact, BuilderRead, Classes, Modules, Locals, Ops
  <2> QED BY <2>1, <1>c
<1>13. CASE Overrun
  <2>1. OpsKept
    BY <1>13, <1>a
    DEF Overrun, data, shared, heap, OpsKept, Intact, BuilderRead, Classes, Modules, Locals,
        Ops
  <2> QED BY <2>1, <1>c
<1>14. CASE UNCHANGED vars
  <2>1. OpsKept BY <1>14 DEF vars, data, shared, heap, OpsKept
  <2> QED BY <2>1, <1>c
<1> QED
  BY <1>1, <1>2, <1>3, <1>4, <1>5, <1>6, <1>7, <1>8, <1>9, <1>10, <1>11, <1>12, <1>13, <1>14
  DEF Next, Step, Halted

-----------------------------------------------------------------------------
(* The driver.  The parser takes its steps first, and none once it has      *)
(* ended: what emit() reads does not change under it.                       *)
LEMMA StepBeforeEnd == Step => pc \notin Ended
<1> USE DEF Goto, Read, Stay, Fail, Consume, Optional, At, Ended
<1>1. CASE EngineStep
  BY <1>1
  DEF EngineStep, Construct, RuleKeyword, DialectKeyword, OpKeyword, EndOfText, OtherToken,
      NameMissing
<1>2. CASE RuleStep
  BY <1>2
  DEF RuleStep, RuleName, RuleSemi, RuleColonMissing, OpenAlternative, CloseAlternative,
      AlternativeUnfinished, FillRule
<1>3. CASE GeneratorStep
  BY <1>3
  DEF GeneratorStep, Identifier, PBExpression, OpenQuoteOrBrace, Quoted, QuoteEnd, Brace,
      RefsEqual, BuilderRef, BadBuilderRef, RefsComma, SetBuilders
<1>4. CASE DialectStep
  BY <1>4
  DEF DialectStep, DialectName, DialectColon, DialectAttr, DialectEqual, DialectNext,
      DialectDone
<1>5. CASE OpStep
  BY <1>5
  DEF OpStep, OpName, OpColon, OpFails, OpDone, OpElement, OpEqual, AfterElement
<1>6. CASE DagStep
  BY <1>6
  DEF DagStep, DagOpen, DagOperator, DagDone, OperandType, ScannedType, TypeNext,
      AnyTypeFails, TemplateType, TemplateClose, CArgType, CArgValue, OperandColon,
      OperandName, AddOperand
<1>7. CASE BuilderStep
  BY <1>7
  DEF BuilderStep, BuildersEqual, BuildersOpen, OpBuilder, BuilderAngle, BuilderFails,
      BuilderCode, AddBuilder, BuilderComma, BuildersDone
<1>8. CASE Overrun
  BY <1>8
  DEF Overrun
<1> QED BY <1>1, <1>2, <1>3, <1>4, <1>5, <1>6, <1>7, <1>8 DEF Step

LEMMA DriverMoves ==
  ASSUME [DriverNext]_allVars
  PROVE  [Next]_vars /\ (pc = "done" => UNCHANGED vars)
<1>1. CASE Parse
  <2>1. Step BY <1>1 DEF Parse
  <2> QED BY <2>1, StepBeforeEnd DEF Next, Ended
<1>2. CASE UNCHANGED vars BY <1>2
<1> QED BY <1>1, <1>2 DEF DriverNext, Emit, Antlr, NoAntlr, Visitor, Free, allVars

(* What the parser's steps keep.                                            *)
ParserInv == /\ TypeOK /\ WholeTextParsed /\ CustomSoFar /\ PointersFresh
             /\ RulesAccounted /\ DialectAccounted /\ OpsAccounted

LEMMA ParserInvInit == Init => ParserInv
<1> SUFFICES ASSUME Init PROVE ParserInv OBVIOUS
<1>1. TypeOK BY InitTyped
<1>2. WholeTextParsed /\ CustomSoFar
  BY ToSetEmpty DEF Init, WholeTextParsed, Clean, CustomSoFar, NoAlternative
<1>3. PointersFresh
  BY DEF Init, PointersFresh, InDag, InDialect, NoModule, NoOp
<1>4. /\ tree = NoModule /\ pc = "construct" /\ allocated = [class \in Classes |-> 0]
      /\ local.alternatives = <<>> /\ local.alternative = NoAlternative /\ local.op = NoOp
  BY DEF Init
<1>5. RulesHeld = 0 /\ AlternativesHeld = 0 /\ ElementsHeld = 0 /\ One(tree.dialect) = 0
  BY <1>4, NothingCounted
  DEF RulesHeld, AlternativesHeld, ElementsHeld, Within, InRule, InGenerator, InAlternative,
      NoModule, NoAlternative, One
<1>6. OpsHeld = 0 /\ DagsHeld = 0 /\ BuildersHeld = 0
  <2>1. DagsOf(local.op) = 0 /\ Len(local.op.builders) = 0 BY <1>4, BlankOp DEF NoOp
  <2>2. DagAside = 0 BY <1>4 DEF DagAside, BuilderRead
  <2> QED BY <1>4, <2>1, <2>2, NothingCounted DEF OpsHeld, DagsHeld, BuildersHeld, NoModule
<1>7. \A class \in Classes : allocated[class] = 0 BY <1>4
<1> QED
  BY <1>1, <1>2, <1>3, <1>5, <1>6, <1>7
  DEF ParserInv, RulesAccounted, DialectAccounted, OpsAccounted, Balanced, Classes

LEMMA ParserInvStep == ASSUME ParserInv, [DriverNext]_allVars PROVE ParserInv'
<1>1. [Next]_vars BY DriverMoves
<1> QED
  BY <1>1, TypeStep, WholeTextStep, CustomStep, PointersStep, RulesAccountedStep,
     DialectAccountedStep, OpsAccountedStep
  DEF ParserInv

(* The nodes in the tree are among those held, and all of those when a      *)
(* parse comes to its end without a diagnostic.                             *)
LEMMA ReachedCounted ==
  ASSUME TypeOK
  PROVE  /\ Reached(tree) \in [Classes -> Nat]
         /\ Reached(NoModule) = [class \in Classes |-> 0]
<1>1. /\ Len(tree.rules) \in Nat /\ AlternativesIn(tree.rules) \in Nat
      /\ ElementsIn(tree.rules) \in Nat
  BY RulesCountable
<1>2. Len(tree.ops) \in Nat /\ DagsIn(tree.ops) \in Nat /\ BuildersIn(tree.ops) \in Nat
  BY OpsCountable
<1>3. One(tree.dialect) \in Nat BY OneIsSmall
<1>4. Reached(tree) \in [Classes -> Nat] BY <1>1, <1>2, <1>3 DEF Reached, Classes
<1>5. /\ Len(<<>>) = 0 /\ AlternativesIn(<<>>) = 0 /\ ElementsIn(<<>>) = 0
      /\ DagsIn(<<>>) = 0 /\ BuildersIn(<<>>) = 0 /\ One(NULL) = 0
  BY NothingCounted DEF One
<1>6. Reached(NoModule) = [class \in Classes |-> 0]
  BY <1>5 DEF Reached, NoModule, Classes
<1> QED BY <1>4, <1>6

LEMMA ReachedHeld ==
  ASSUME ParserInv
  PROVE  \A class \in Classes :
           /\ Reached(tree)[class] <= allocated[class]
           /\ Clean /\ class \notin redeclared => Reached(tree)[class] = allocated[class]
<1>1. /\ Len(tree.rules) \in Nat /\ AlternativesIn(tree.rules) \in Nat
      /\ ElementsIn(tree.rules) \in Nat /\ Len(local.alternatives) \in Nat
      /\ ElementsOf(local.alternatives) \in Nat /\ Len(local.alternative.elements) \in Nat
  BY RulesCountable DEF ParserInv
<1>2. /\ Len(tree.ops) \in Nat /\ DagsIn(tree.ops) \in Nat /\ BuildersIn(tree.ops) \in Nat
      /\ DagsOf(local.op) \in Nat /\ Len(local.op.builders) \in Nat /\ DagAside \in Nat
  BY OpsCountable DEF ParserInv
<1>3. \A class \in Classes : allocated[class] \in Nat BY DEF ParserInv, TypeOK
<1>4. /\ Within(InRule) \in {0, 1} /\ Within(InGenerator) \in {0, 1}
      /\ Clean => Within(InRule) = 0 /\ Within(InGenerator) = 0 /\ DagAside = 0
  BY DEF Within, Clean, InRule, InGenerator, InAlternative, DagAside, BuilderRead
<1>5. Clean => /\ Len(local.alternatives) = 0 /\ ElementsOf(local.alternatives) = 0
               /\ Len(local.alternative.elements) = 0
  BY NothingCounted DEF ParserInv, CustomSoFar, Clean, InAlternative
<1>6. Clean => DagsOf(local.op) = 0 /\ Len(local.op.builders) = 0
  BY BlankOp DEF ParserInv, PointersFresh, Clean, Intact, InOp, InDag, BuilderRead
<1>7. Clean => Intact BY DEF Clean, Intact
<1>8. /\ Len(tree.rules) <= RulesHeld /\ RulesHeld \in Nat
      /\ Clean => RulesHeld = Len(tree.rules)
  BY <1>1, <1>4 DEF RulesHeld
<1>9. /\ AlternativesIn(tree.rules) <= AlternativesHeld /\ AlternativesHeld \in Nat
      /\ Clean => AlternativesHeld = AlternativesIn(tree.rules)
  <2>1. AlternativesHeld = AlternativesIn(tree.rules) + Len(local.alternatives)
                           + Within(InGenerator)
    BY DEF AlternativesHeld
  <2> QED BY <1>1, <1>4, <1>5, <2>1
<1>10. /\ ElementsIn(tree.rules) <= ElementsHeld /\ ElementsHeld \in Nat
       /\ Clean => ElementsHeld = ElementsIn(tree.rules)
  <2>1. ElementsHeld = ElementsIn(tree.rules) + ElementsOf(local.alternatives)
                       + Len(local.alternative.elements)
    BY DEF ElementsHeld
  <2> QED BY <1>1, <1>5, <2>1
<1>11. /\ Len(tree.ops) = OpsHeld
       /\ DagsIn(tree.ops) <= DagsHeld /\ (Clean => DagsHeld = DagsIn(tree.ops))
       /\ BuildersIn(tree.ops) <= BuildersHeld
       /\ Clean => BuildersHeld = BuildersIn(tree.ops)
       /\ DagsHeld \in Nat /\ BuildersHeld \in Nat
  BY <1>2, <1>4, <1>6 DEF OpsHeld, DagsHeld, BuildersHeld
<1>12. One(tree.dialect) \in Nat BY OneIsSmall
<1>13. /\ Balanced("rule", RulesHeld) /\ Balanced("alternative", AlternativesHeld)
       /\ Balanced("element", ElementsHeld) /\ Balanced("dialect", One(tree.dialect))
       /\ Balanced("op", OpsHeld) /\ Balanced("dag", DagsHeld)
       /\ Balanced("builder", BuildersHeld)
  BY DEF ParserInv, RulesAccounted, DialectAccounted, OpsAccounted
<1>14. ASSUME NEW class \in Classes, NEW count \in Nat, NEW held \in Nat, count <= held,
              Clean => held = count, Balanced(class, held)
       PROVE  /\ count <= allocated[class]
              /\ Clean /\ class \notin redeclared => count = allocated[class]
  BY <1>3, <1>7, <1>14 DEF Balanced
<1> DEFINE Counted(class, count) ==
             /\ count <= allocated[class]
             /\ Clean /\ class \notin redeclared => count = allocated[class]
<1>15. Counted("rule", Len(tree.rules))
  <2>1. "rule" \in Classes BY DEF Classes
  <2>2. /\ Balanced("rule", RulesHeld)
        /\ Len(tree.rules) \in Nat /\ RulesHeld \in Nat
        /\ Len(tree.rules) <= RulesHeld /\ (Clean => RulesHeld = Len(tree.rules))
    BY <1>1, <1>8, <1>13
  <2> QED BY <2>1, <2>2, <1>14
<1>16. Counted("alternative", AlternativesIn(tree.rules))
  <2>1. "alternative" \in Classes BY DEF Classes
  <2>2. /\ Balanced("alternative", AlternativesHeld)
        /\ AlternativesIn(tree.rules) \in Nat /\ AlternativesHeld \in Nat
        /\ AlternativesIn(tree.rules) <= AlternativesHeld
        /\ (Clean => AlternativesHeld = AlternativesIn(tree.rules))
    BY <1>1, <1>9, <1>13
  <2> QED BY <2>1, <2>2, <1>14
<1>17. Counted("element", ElementsIn(tree.rules))
  <2>1. "element" \in Classes BY DEF Classes
  <2>2. /\ Balanced("element", ElementsHeld)
        /\ ElementsIn(tree.rules) \in Nat /\ ElementsHeld \in Nat
        /\ ElementsIn(tree.rules) <= ElementsHeld
        /\ (Clean => ElementsHeld = ElementsIn(tree.rules))
    BY <1>1, <1>10, <1>13
  <2> QED BY <2>1, <2>2, <1>14
<1>18. Counted("dialect", One(tree.dialect))
  <2>1. "dialect" \in Classes BY DEF Classes
  <2>2. /\ Balanced("dialect", One(tree.dialect))
        /\ One(tree.dialect) \in Nat /\ One(tree.dialect) \in Nat
        /\ One(tree.dialect) <= One(tree.dialect) /\ (Clean => One(tree.dialect) = One(tree.dialect))
    BY <1>12, <1>13
  <2> QED BY <2>1, <2>2, <1>14
<1>19. Counted("op", Len(tree.ops))
  <2>1. "op" \in Classes BY DEF Classes
  <2>2. /\ Balanced("op", OpsHeld)
        /\ Len(tree.ops) \in Nat /\ OpsHeld \in Nat
        /\ Len(tree.ops) <= OpsHeld /\ (Clean => OpsHeld = Len(tree.ops))
    BY <1>2, <1>11, <1>13
  <2> QED BY <2>1, <2>2, <1>14
<1>20. Counted("dag", DagsIn(tree.ops))
  <2>1. "dag" \in Classes BY DEF Classes
  <2>2. /\ Balanced("dag", DagsHeld)
        /\ DagsIn(tree.ops) \in Nat /\ DagsHeld \in Nat
        /\ DagsIn(tree.ops) <= DagsHeld /\ (Clean => DagsHeld = DagsIn(tree.ops))
    BY <1>2, <1>11, <1>13
  <2> QED BY <2>1, <2>2, <1>14
<1>21. Counted("builder", BuildersIn(tree.ops))
  <2>1. "builder" \in Classes BY DEF Classes
  <2>2. /\ Balanced("builder", BuildersHeld)
        /\ BuildersIn(tree.ops) \in Nat /\ BuildersHeld \in Nat
        /\ BuildersIn(tree.ops) <= BuildersHeld /\ (Clean => BuildersHeld = BuildersIn(tree.ops))
    BY <1>2, <1>11, <1>13
  <2> QED BY <2>1, <2>2, <1>14
<1> QED BY <1>15, <1>16, <1>17, <1>18, <1>19, <1>20, <1>21 DEF Reached, Classes

(* What emit() has done so far.                                             *)
DriverInv ==
  /\ emitAction \in EmitActions \cup {"none"} /\ grammarName \in GrammarNames \cup {""}
  /\ stage \in {"parse", "antlr", "visitor", "free", "exit", "crashed"}
  /\ files \subseteq {"g4", "visitor"}
  /\ stage # "parse" => pc = "done"
  /\ grammar = NoGrammar \/ (stage # "parse" /\ grammar \in Grammars)
  /\ "g4" \in files => stage # "parse" /\ grammar \in Grammars
  /\ stage \in {"visitor", "free"} => (EmitAntlr => grammarName # "")
  /\ \/ /\ freed = [class \in Classes |-> 0]
        /\ stage = "exit" => EmitAntlr /\ grammarName = ""
     \/ stage = "exit" /\ freed = Reached(module)

LEMMA DriverInvInit == DriverInit => DriverInv
BY DEF DriverInit, DriverInv, EmitAntlr

LEMMA DriverInvStep == ASSUME DriverInv, [DriverNext]_allVars PROVE DriverInv'
<1>a. pc = "done" => UNCHANGED vars BY DriverMoves
<1>b. UNCHANGED vars => Grammars' = Grammars /\ Reached(module)' = Reached(module)
  BY DEF vars, data, shared, Grammars
<1>1. CASE Parse
  <2>1. stage = "parse" /\ UNCHANGED driverVars
    BY <1>1, StepBeforeEnd DEF Parse, Ended, DriverInv
  <2> QED BY <2>1 DEF DriverInv, driverVars, EmitAntlr
<1>2. CASE Emit
  BY <1>2, <1>b DEF Emit, DriverInv, EmitAntlr, vars
<1>3. CASE Antlr
  <2>1. stage' = "visitor" /\ files' = files \cup {"g4"} /\ grammar' \in Grammars'
    BY <1>3, <1>b DEF Antlr
  <2> QED BY <1>3, <2>1 DEF Antlr, DriverInv, EmitAntlr, vars
<1>4. CASE NoAntlr
  BY <1>4, <1>b DEF NoAntlr, DriverInv, EmitAntlr, vars
<1>5. CASE Visitor
  BY <1>5, <1>b DEF Visitor, DriverInv, EmitAntlr, vars
<1>6. CASE Free
  BY <1>6, <1>b DEF Free, DriverInv, EmitAntlr, vars
<1>7. CASE UNCHANGED allVars
  <2>1. UNCHANGED vars /\ UNCHANGED driverVars BY <1>7 DEF allVars
  <2> QED BY <2>1, <1>b DEF DriverInv, EmitAntlr, vars, driverVars
<1> QED BY <1>1, <1>2, <1>3, <1>4, <1>5, <1>6, <1>7 DEF DriverNext

LEMMA DriverTyped ==
  ASSUME TypeOK, DriverInv, module \in {tree, NoModule} PROVE DriverTypeOK
<1>1. \A g \in Grammars : Len(g.productions) = Len(module.rules)
  <2>1. module.rules \in Seq(Rules) BY DEF TypeOK, Modules
  <2>2. Len([i \in DOMAIN module.rules |-> PrintedRule(module.rules[i])]) = Len(module.rules)
    BY <2>1
  <2> QED BY <2>2 DEF Grammars
<1>2. Len(grammar.productions) \in {0, Len(module.rules)}
  <2>1. CASE grammar = NoGrammar
    <3>1. Len(grammar.productions) = 0 BY <2>1 DEF NoGrammar
    <3> QED BY <3>1
  <2>2. CASE grammar \in Grammars BY <1>1, <2>2
  <2> QED BY <2>1, <2>2 DEF DriverInv
<1>3. freed \in [Classes -> Nat]
  <2>1. Reached(module) \in [Classes -> Nat]
    <3>1. [class \in Classes |-> 0] \in [Classes -> Nat] OBVIOUS
    <3> QED BY <3>1, ReachedCounted
  <2>2. [class \in Classes |-> 0] \in [Classes -> Nat] OBVIOUS
  <2>3. freed = [class \in Classes |-> 0] \/ freed = Reached(module) BY DEF DriverInv
  <2> QED BY <2>1, <2>2, <2>3, Zenon
<1> QED BY <1>2, <1>3 DEF DriverTypeOK, DriverInv

-----------------------------------------------------------------------------
(* Main runs the parser of FrontendParser: what holds of its executions     *)
(* holds of the parser's part of the driver's.                              *)
THEOREM DriverRunsParser == DriverSpec => Init /\ [][Next]_vars
<1>1. DriverInit => Init BY DEF DriverInit
<1>2. [DriverNext]_allVars => [Next]_vars BY DriverMoves
<1> QED BY <1>1, <1>2, PTL DEF DriverSpec

LEMMA DriverInvariant == DriverSpec => [](ParserInv /\ DriverInv)
<1>1. DriverInit => ParserInv /\ DriverInv
  BY ParserInvInit, DriverInvInit DEF DriverInit
<1>2. (ParserInv /\ DriverInv) /\ [DriverNext]_allVars => (ParserInv /\ DriverInv)'
  BY ParserInvStep, DriverInvStep
<1> QED BY <1>1, <1>2, PTL DEF DriverSpec

(* The type invariant of the driver.                                        *)
THEOREM DriverTypeCorrect == DriverSpec => []DriverTypeOK
<1>1. ParserInv /\ DriverInv => DriverTypeOK
  BY DriverTyped DEF ParserInv, PointersFresh
<1> QED BY <1>1, DriverInvariant, PTL

(* Nothing is deleted twice, whatever the text and whatever was reported.   *)
THEOREM NothingFreedTwice == DriverSpec => []FreedOnce
<1>1. ASSUME ParserInv, DriverInv, NEW class \in Classes
      PROVE  freed[class] <= allocated[class]
  <2>1. allocated[class] \in Nat BY <1>1 DEF ParserInv, TypeOK
  <2>2. CASE freed = [c \in Classes |-> 0] BY <2>1, <2>2
  <2>3. CASE freed = Reached(module)
    <3>1. module = tree \/ module = NoModule BY <1>1 DEF ParserInv, PointersFresh
    <3>2. CASE module = tree BY <1>1, <2>3, <3>2, ReachedHeld
    <3>3. CASE module = NoModule
      BY <1>1, <2>1, <2>3, <3>3, ReachedCounted DEF ParserInv
    <3> QED BY <3>1, <3>2, <3>3
  <2> QED BY <1>1, <2>2, <2>3 DEF DriverInv
<1>2. ParserInv /\ DriverInv => FreedOnce BY <1>1 DEF FreedOnce
<1> QED BY <1>2, DriverInvariant, PTL

(* All that a clean parse made is deleted, but for the objects whose        *)
(* pointer a second declaration overwrote.                                  *)
THEOREM CleanRunsFreeAll == DriverSpec => []NoSilentLeak
<1>1. ASSUME ParserInv, DriverInv, stage = "exit", Clean, EmitAntlr => grammarName # "",
             NEW class \in Classes, class \notin redeclared
      PROVE  freed[class] = allocated[class]
  <2>1. freed = Reached(module) BY <1>1 DEF DriverInv
  <2>2. module = tree BY <1>1 DEF ParserInv, WholeTextParsed
  <2> QED BY <1>1, <2>1, <2>2, ReachedHeld
<1>2. ParserInv /\ DriverInv => NoSilentLeak BY <1>1 DEF NoSilentLeak
<1> QED BY <1>2, DriverInvariant, PTL

-----------------------------------------------------------------------------
(* The words of the grammar.  Every element printed as a name is an         *)
(* identifier or a terminator known to one of the two tables when it was    *)
(* added, and neither table forgets.                                        *)
NamedElements ==
  {element \in Elements :
     /\ element.kind = "rule" => element.name \in Idents
     /\ element.kind = "terminator" =>
          element.name \in custom \/ (element.name \in Idents /\ IsTerminator(element.name))}
NamedAlternatives == [elements : Seq(NamedElements), builders : Seq(BuilderRefs)]
NamedRules == [name : Names, alternatives : Seq(NamedAlternatives)]

IdentifierRead == token.kind = "identifier" => token.text \in Idents
WordsKnown ==
  /\ IsFiniteSet(custom) /\ IdentifierRead
  /\ tree.rules \in Seq(NamedRules)
  /\ local.alternatives \in Seq(NamedAlternatives) /\ local.alternative \in NamedAlternatives

LEMMA IdentifierStep == ASSUME TypeOK, IdentifierRead, [Next]_vars PROVE IdentifierRead'
<1>1. CASE Advance
  <2>1. PICK lexeme \in Upcoming :
          token' = IF lexeme \in Ends THEN [token EXCEPT !.kind = lexeme]
                   ELSE [kind |-> KindOf(lexeme), text |-> lexeme]
    BY <1>1 DEF Advance
  <2>2. CASE lexeme \in Ends
    <3>1. token' = [token EXCEPT !.kind = lexeme] BY <2>1, <2>2
    <3> QED BY <2>2, <3>1 DEF Ends, IdentifierRead
  <2>3. CASE lexeme \notin Ends
    <3>1. token'.kind = KindOf(lexeme) /\ token'.text = lexeme BY <2>1, <2>3
    <3>2. lexeme \in Texts
      BY LexemeAssumption, <2>3 DEF Upcoming, Ends, TypeOK, StreamTypeOK
    <3>3. "identifier" \notin Keywords \cup Punctuators \cup Numbers
      BY Zenon DEF Keywords, Punctuators, Numbers
    <3> QED BY <3>1, <3>2, <3>3 DEF KindOf, IdentifierRead, Texts
  <2> QED BY <2>2, <2>3
<1>2. CASE UNCHANGED token BY <1>2 DEF IdentifierRead
<1> QED
  BY <1>1, <1>2, StreamMoves
  DEF Next, Halted, StreamMove, stream, vars, NoMark, Marked, EndFound

LEMMA WordsGrow ==
  ASSUME custom \subseteq custom'
  PROVE  /\ NamedElements \subseteq NamedElements'
         /\ Seq(NamedElements) \subseteq Seq(NamedElements')
         /\ NamedAlternatives \subseteq NamedAlternatives'
         /\ Seq(NamedAlternatives) \subseteq Seq(NamedAlternatives')
         /\ Seq(NamedRules) \subseteq Seq(NamedRules')
<1>1. NamedElements \subseteq NamedElements' BY DEF NamedElements, IsTerminator
<1>2. \A S, T : S \subseteq T => Seq(S) \subseteq Seq(T) OBVIOUS
<1>3. Seq(NamedElements) \subseteq Seq(NamedElements') BY <1>1, <1>2
<1>4. NamedAlternatives \subseteq NamedAlternatives' BY <1>3 DEF NamedAlternatives
<1>5. Seq(NamedAlternatives) \subseteq Seq(NamedAlternatives') BY <1>2, <1>4
<1>6. NamedRules \subseteq NamedRules' BY <1>5 DEF NamedRules
<1>7. Seq(NamedRules) \subseteq Seq(NamedRules') BY <1>2, <1>6
<1> QED BY <1>1, <1>3, <1>4, <1>5, <1>7

LEMMA BlankNamed ==
  /\ <<>> \in Seq(NamedRules) /\ <<>> \in Seq(NamedAlternatives)
  /\ NoAlternative \in NamedAlternatives
  /\ <<>> \in Seq(NamedAlternatives)' /\ NoAlternative \in NamedAlternatives'
BY DEF NoAlternative, NamedAlternatives

WordsSafe ==
  /\ IsFiniteSet(custom') /\ tree'.rules \in Seq(NamedRules)'
  /\ local'.alternatives \in Seq(NamedAlternatives)'
  /\ local'.alternative \in NamedAlternatives'

LEMMA PushNamed ==
  ASSUME TypeOK, WordsKnown, NEW alternatives \in Seq(NamedAlternatives),
         PushRule(alternatives)
  PROVE  WordsSafe
<1>a. tree \in Modules /\ local \in Locals BY DEF TypeOK
<1>1. [local.rule EXCEPT !.alternatives = alternatives] \in NamedRules
  BY <1>a DEF Locals, Rules, NamedRules
<1>2. /\ tree'.rules = Append(tree.rules, [local.rule EXCEPT !.alternatives = alternatives])
      /\ local'.alternatives = <<>> /\ local'.alternative = NoAlternative /\ custom' = custom
  BY <1>a DEF PushRule, Modules, Locals
<1>3. tree'.rules \in Seq(NamedRules) BY <1>1, <1>2 DEF WordsKnown
<1> QED BY <1>2, <1>3, WordsGrow, BlankNamed DEF WordsKnown, WordsSafe

LEMMA AddNamed ==
  ASSUME TypeOK, WordsKnown, NEW kind, AddElement(kind), custom \subseteq custom',
         IsFiniteSet(custom'), [kind |-> kind, name |-> Spelling] \in NamedElements'
  PROVE  WordsSafe
<1>a. local \in Locals BY DEF TypeOK
<1>1. /\ tree' = tree /\ local'.alternatives = local.alternatives
      /\ local'.alternative = [local.alternative EXCEPT !.elements =
                                 Append(@, [kind |-> kind, name |-> Spelling])]
  BY <1>a DEF AddElement, Locals
<1>2. local.alternative \in NamedAlternatives' BY WordsGrow DEF WordsKnown
<1>3. local'.alternative \in NamedAlternatives'
  <2>1. local.alternative.elements \in Seq(NamedElements)' BY <1>2 DEF NamedAlternatives
  <2>2. Append(local.alternative.elements, [kind |-> kind, name |-> Spelling])
          \in Seq(NamedElements)'
    BY <2>1
  <2> QED BY <1>1, <1>2, <2>2 DEF NamedAlternatives
<1> QED BY <1>1, <1>3, WordsGrow DEF WordsKnown, WordsSafe

LEMMA WordsStep == ASSUME TypeOK, WordsKnown, [Next]_vars PROVE WordsKnown'
<1> DEFINE Kept == /\ custom' = custom /\ tree'.rules = tree.rules
                   /\ local'.alternatives = local.alternatives
                   /\ local'.alternative = local.alternative
<1> SUFFICES WordsSafe
  <2>1. IdentifierRead' BY IdentifierStep DEF WordsKnown
  <2> QED BY <2>1 DEF WordsSafe, WordsKnown
<1>a. tree \in Modules /\ local \in Locals BY DEF TypeOK
<1>b. Kept => WordsSafe BY WordsGrow DEF WordsKnown, WordsSafe
<1>c. Spelling \in Spellings
  BY DEF TypeOK, StreamTypeOK, Tokens, Spelling, Spellings
<1> USE DEF Goto, Quiet, Report, Read, Stay, Fail, Expect, Consume, Optional, At, Kind
<1>1. CASE RuleName
  <2>1. /\ custom' = custom /\ tree' = tree /\ local'.alternatives = <<>>
        /\ local'.alternative = local.alternative
    BY <1>1, <1>a DEF RuleName, Locals
  <2> QED BY <2>1, WordsGrow, BlankNamed DEF WordsKnown, WordsSafe
<1>2. CASE RuleColonMissing \/ AlternativeUnfinished
  BY <1>2, BlankNamed, PushNamed DEF RuleColonMissing, AlternativeUnfinished
<1>3. CASE FillRule
  <2>1. PushRule(local.alternatives) BY <1>3 DEF FillRule
  <2> QED BY <2>1, PushNamed DEF WordsKnown
<1>4. CASE OpenAlternative
  <2>1. /\ custom' = custom /\ tree' = tree /\ local'.alternatives = local.alternatives
        /\ local'.alternative = NoAlternative
    BY <1>4, <1>a DEF OpenAlternative, Locals
  <2> QED BY <2>1, WordsGrow, BlankNamed DEF WordsKnown, WordsSafe
<1>5. CASE CloseAlternative
  <2>1. /\ custom' = custom /\ tree' = tree /\ local'.alternative = NoAlternative
        /\ local'.alternatives = Append(local.alternatives, local.alternative)
    BY <1>5, <1>a DEF CloseAlternative, Locals, shared
  <2>2. local'.alternatives \in Seq(NamedAlternatives) BY <2>1 DEF WordsKnown
  <2> QED BY <2>1, <2>2, WordsGrow, BlankNamed DEF WordsKnown, WordsSafe
<1>6. CASE Identifier
  <2> DEFINE kind == IF IsTerminator(token.text) THEN "terminator" ELSE "rule"
  <2>1. AddElement(kind) /\ custom' = custom /\ token.kind = "identifier"
    BY <1>6 DEF Identifier
  <2>2. Spelling = token.text /\ token.text \in Idents
    BY <2>1 DEF Spelling, AtEnd, Ends, WordsKnown, IdentifierRead
  <2>3. [kind |-> kind, name |-> Spelling] \in NamedElements'
    BY <1>c, <2>1, <2>2 DEF NamedElements, Elements, IsTerminator
  <2> HIDE DEF kind
  <2> QED BY <2>1, <2>3, AddNamed DEF WordsKnown
<1>7. CASE PBExpression
  <2>1. AddElement("pbexpression") /\ custom' = custom BY <1>7 DEF PBExpression
  <2>2. [kind |-> "pbexpression", name |-> Spelling] \in NamedElements'
    BY <1>c DEF NamedElements, Elements
  <2> QED BY <2>1, <2>2, AddNamed DEF WordsKnown
<1>8. CASE Quoted
  <2>1. AddElement("terminator") /\ custom' = custom \cup {Spelling} BY <1>8 DEF Quoted
  <2>2. [kind |-> "terminator", name |-> Spelling] \in NamedElements'
    BY <1>c, <2>1 DEF NamedElements, Elements
  <2>3. IsFiniteSet(custom') BY <2>1, FS_AddElement DEF WordsKnown
  <2> QED BY <2>1, <2>2, <2>3, AddNamed
<1>9. CASE SetBuilders
  <2>1. /\ custom' = custom /\ tree' = tree /\ local'.alternatives = local.alternatives
        /\ local'.alternative = [local.alternative EXCEPT !.builders = local.refs]
    BY <1>9, <1>a DEF SetBuilders, Locals, shared
  <2>2. local'.alternative \in NamedAlternatives
    BY <1>a, <2>1 DEF WordsKnown, NamedAlternatives, Locals
  <2> QED BY <2>1, <2>2, WordsGrow DEF WordsKnown, WordsSafe
<1>10. CASE EngineStep
  <2>1. Kept
    BY <1>10, <1>a
    DEF EngineStep, Construct, RuleKeyword, DialectKeyword, OpKeyword, EndOfText, OtherToken,
        NameMissing, ActOnModule, data, shared, heap, Modules, Locals
  <2> QED BY <2>1, <1>b
<1>11. CASE RuleStep /\ ~RuleName /\ ~RuleColonMissing /\ ~AlternativeUnfinished
            /\ ~FillRule /\ ~OpenAlternative /\ ~CloseAlternative
  <2>1. Kept
    BY <1>11, <1>a
    DEF RuleStep, RuleSemi, data, shared, heap, Modules, Locals
  <2> QED BY <2>1, <1>b
<1>12. CASE GeneratorStep /\ ~Identifier /\ ~PBExpression /\ ~Quoted /\ ~SetBuilders
  <2>1. Kept
    BY <1>12, <1>a
    DEF GeneratorStep, OpenQuoteOrBrace, QuoteEnd, Brace, RefsEqual, BuilderRef,
        BadBuilderRef, RefsComma, data, shared, heap, Modules, Locals
  <2> QED BY <2>1, <1>b
<1>13. CASE DialectStep
  <2>1. Kept
    BY <1>13, <1>a
    DEF DialectStep, DialectName, DialectColon, DialectAttr, DialectEqual, DialectNext,
        DialectDone, data, shared, heap, New, Overwrite, Modules, Locals
  <2> QED BY <2>1, <1>b
<1>14. CASE OpStep
  <2>1. Kept
    BY <1>14, <1>a
    DEF OpStep, OpName, OpColon, OpFails, OpDone, OpElement, OpEqual, AfterElement,
        ActOnModule, data, shared, heap, New, Modules, Locals
  <2> QED BY <2>1, <1>b
<1>15. CASE DagStep
  <2>1. Kept
    BY <1>15, <1>a
    DEF DagStep, DagOpen, DagOperator, DagDone, OperandType, ScannedType, TypeNext,
        AnyTypeFails, TemplateType, TemplateClose, CArgType, CArgValue, OperandColon,
        OperandName, AddOperand, SetOperand, Returned, data, shared, heap, New,
        Overwrite, Modules, Locals
  <2> QED BY <2>1, <1>b
<1>16. CASE BuilderStep
  <2>1. Kept
    BY <1>16, <1>a
    DEF BuilderStep, BuildersEqual, BuildersOpen, OpBuilder, BuilderAngle, BuilderFails,
        BuilderCode, AddBuilder, BuilderComma, BuildersDone, data, shared, heap, New,
        Modules, Locals
  <2> QED BY <2>1, <1>b
<1>17. CASE Overrun
  <2>1. Kept
    BY <1>17, <1>a
    DEF Overrun, data, shared, heap, Modules, Locals
  <2> QED BY <2>1, <1>b
<1>18. CASE UNCHANGED vars
  <2>1. Kept BY <1>18 DEF vars, data, shared
  <2> QED BY <2>1, <1>b
<1> QED
  BY <1>1, <1>2, <1>3, <1>4, <1>5, <1>6, <1>7, <1>8, <1>9, <1>10, <1>11, <1>12, <1>13,
     <1>14, <1>15, <1>16, <1>17, <1>18
  DEF Next, Step, Halted

-----------------------------------------------------------------------------
(* The table of tokens that the grammar defines.                            *)
LEMMA Enumerated ==
  ASSUME NEW S, IsFiniteSet(S), NEW order \in SetToSeqs(S)
  PROVE  /\ Cardinality(S) \in Nat /\ order \in [1 .. Cardinality(S) -> S]
         /\ \A i, j \in 1 .. Cardinality(S) : order[i] = order[j] => i = j
         /\ \A x \in S : \E i \in 1 .. Cardinality(S) : order[i] = x
<1> DEFINE D == 1 .. Cardinality(S)
<1>1. Cardinality(S) \in Nat BY FS_CardinalityType
<1>2. order \in [D -> S] /\ \A i, j \in D : i # j => order[i] # order[j]
  BY Zenon DEF SetToSeqs
<1>3. order \in Injection(D, S) BY <1>2 DEF Injection, IsInjective
<1>4. Cardinality(D) = Cardinality(S)
  <2>1. 1 \in Int /\ Cardinality(S) \in Int BY <1>1
  <2>2. Cardinality(D) = IF 1 > Cardinality(S) THEN 0 ELSE Cardinality(S) - 1 + 1
    BY <2>1, FS_Interval
  <2> QED BY <1>1, <2>2
<1>5. order \in Surjection(D, S) BY <1>3, <1>4, FS_Injection
<1> QED BY <1>1, <1>2, <1>5 DEF Surjection

LEMMA TokenTable ==
  ASSUME IsFiniteSet(custom), NEW customOrder \in SetToSeqs(custom),
         NEW builtinOrder \in SetToSeqs(Builtin)
  PROVE  LET tokens == Definitions(customOrder, builtinOrder)
             n == Cardinality(custom)
             m == Cardinality(Builtin)
         IN  /\ n \in Nat /\ m \in Nat /\ DOMAIN tokens = 1 .. n + m + 3
             /\ \A i \in 1 .. n : tokens[i] = CustomDefinition(customOrder[i])
             /\ \A i \in 1 .. m : tokens[n + i] = BuiltinDefinition(builtinOrder[i])
<1> DEFINE n == Cardinality(custom)
           m == Cardinality(Builtin)
           first == [i \in DOMAIN customOrder |-> CustomDefinition(customOrder[i])]
           second == [i \in DOMAIN builtinOrder |-> BuiltinDefinition(builtinOrder[i])]
           S == {CustomDefinition(word) : word \in custom}
                  \cup {BuiltinDefinition(name) : name \in Builtin}
                  \cup {TailDefinitions[1], TailDefinitions[2], TailDefinitions[3]}
<1>1. n \in Nat /\ customOrder \in [1 .. n -> custom] BY Enumerated
<1>2. m \in Nat /\ builtinOrder \in [1 .. m -> Builtin]
  BY LetterAssumption, Enumerated DEF LetterAssumption
<1>3. first \in [1 .. n -> S] /\ second \in [1 .. m -> S] BY <1>1, <1>2
<1>4. TailDefinitions \in Seq(S) /\ Len(TailDefinitions) = 3
  BY DEF TailDefinitions
<1>5. /\ \A i \in 1 .. n : first[i] = CustomDefinition(customOrder[i])
      /\ \A i \in 1 .. m : second[i] = BuiltinDefinition(builtinOrder[i])
  BY <1>1, <1>2
<1>6. Definitions(customOrder, builtinOrder) = (first \o second) \o TailDefinitions
  BY DEF Definitions
<1> HIDE DEF first, second, S, n, m
<1>7. /\ first \in Seq(S) /\ Len(first) = n /\ second \in Seq(S) /\ Len(second) = m
  <2>1. ASSUME NEW k \in Nat, NEW s \in [1 .. k -> S] PROVE s \in Seq(S) /\ Len(s) = k
    <3>1. s \in Seq(S) BY SeqDef
    <3> QED BY <3>1
  <2> QED BY <1>1, <1>2, <1>3, <2>1
<1> DEFINE both == first \o second
<1>8. /\ both \in Seq(S) /\ Len(both) = n + m
      /\ \A p \in 1 .. n + m : both[p] = IF p <= n THEN first[p] ELSE second[p - n]
  BY <1>7, Concatenated
<1> HIDE DEF both
<1> DEFINE tail == TailDefinitions
           tokens == both \o tail
<1>12. tail \in Seq(S) /\ Len(tail) = 3 BY <1>4
<1> HIDE DEF tail
<1>9. /\ DOMAIN tokens = 1 .. n + m + 3
      /\ \A p \in 1 .. n + m + 3 :
           tokens[p] = IF p <= n + m THEN both[p] ELSE tail[p - (n + m)]
  <2>1. both \in Seq(S) /\ tail \in Seq(S) BY <1>8, <1>12
  <2>2. /\ DOMAIN tokens = 1 .. Len(both) + Len(tail)
        /\ \A p \in 1 .. Len(both) + Len(tail) :
             tokens[p] = IF p <= Len(both) THEN both[p] ELSE tail[p - Len(both)]
    BY <2>1, Concatenated
  <2>3. Len(both) = n + m /\ Len(tail) = 3 BY <1>8, <1>12
  <2> HIDE DEF tokens
  <2> QED BY <2>2, <2>3, Zenon
<1> HIDE DEF tokens
<1>10. ASSUME NEW i \in 1 .. n PROVE tokens[i] = CustomDefinition(customOrder[i])
  <2>1. i \in 1 .. n + m + 3 /\ i \in 1 .. n + m /\ i <= n /\ i <= n + m BY <1>1, <1>2
  <2> QED BY <1>5, <1>8, <1>9, <2>1
<1>11. ASSUME NEW i \in 1 .. m PROVE tokens[n + i] = BuiltinDefinition(builtinOrder[i])
  <2>1. /\ n + i \in 1 .. n + m + 3 /\ n + i \in 1 .. n + m /\ ~(n + i <= n)
        /\ n + i <= n + m /\ (n + i) - n = i
    BY <1>1, <1>2
  <2> QED BY <1>5, <1>8, <1>9, <2>1
<1> QED BY <1>1, <1>2, <1>6, <1>9, <1>10, <1>11 DEF both, tail, tokens, n, m

(* The word a terminator is printed as is the name of a definition.         *)
LEMMA NamesDefined ==
  ASSUME custom \subseteq Spellings, IsFiniteSet(custom),
         NEW customOrder \in SetToSeqs(custom),
         NEW builtinOrder \in SetToSeqs(Builtin), NEW element \in NamedElements,
         TerminatorByTable(element)
  PROVE  LET tokens == Definitions(customOrder, builtinOrder)
         IN  \E i \in DOMAIN tokens : tokens[i].name = Printed(element)
<1> DEFINE tokens == Definitions(customOrder, builtinOrder)
           n == Cardinality(custom)
           m == Cardinality(Builtin)
<1> SUFFICES \E i \in DOMAIN tokens : tokens[i].name = Printed(element) OBVIOUS
<1>1. /\ n \in Nat /\ m \in Nat /\ DOMAIN tokens = 1 .. n + m + 3
      /\ \A i \in 1 .. n : tokens[i] = CustomDefinition(customOrder[i])
      /\ \A i \in 1 .. m : tokens[n + i] = BuiltinDefinition(builtinOrder[i])
  BY TokenTable
<1> HIDE DEF tokens
<1>2. ASSUME NEW word \in custom
      PROVE  \E i \in DOMAIN tokens : tokens[i].name = Capitalised(word)
  <2>1. PICK i \in 1 .. n : customOrder[i] = word BY Enumerated
  <2>2. i \in 1 .. n + m + 3 /\ tokens[i] = CustomDefinition(word) BY <1>1, <2>1
  <2>3. tokens[i].name = Capitalised(word) BY <2>2 DEF CustomDefinition
  <2> QED BY <1>1, <2>2, <2>3
<1>3. ASSUME NEW name \in Builtin PROVE \E i \in DOMAIN tokens : tokens[i].name = name
  <2>1. PICK i \in 1 .. m : builtinOrder[i] = name
    BY LetterAssumption, Enumerated DEF LetterAssumption
  <2>2. n + i \in 1 .. n + m + 3 /\ tokens[n + i] = BuiltinDefinition(name) BY <1>1, <2>1
  <2>3. tokens[n + i].name = name BY <2>2 DEF BuiltinDefinition
  <2> QED BY <1>1, <2>2, <2>3
<1> HIDE DEF n, m
<1>4. CASE element.kind = "terminator" /\ element.name \in custom
  BY <1>2, <1>4 DEF Printed
<1>5. CASE element.name \in Idents /\ IsTerminator(element.name)
  <2>1. CASE LowerFirst[element.name] \in custom
    <3>1. LowerFirst[element.name] \in Spellings
      BY <2>1, LetterAssumption DEF LetterAssumption
    <3>2. /\ Capitalised(LowerFirst[element.name]) = element.name
          /\ Capitalised(element.name) = element.name
      BY <1>5, <3>1, LetterAssumption DEF LetterAssumption, Capitalised
    <3> QED BY <1>2, <2>1, <3>2 DEF Printed
  <2>2. CASE element.name \in Builtin
    <3>1. Capitalised(element.name) = element.name
      BY <2>2, LetterAssumption DEF LetterAssumption, Capitalised
    <3> QED BY <1>3, <2>2, <3>1 DEF Printed
  <2> QED BY <1>5, <2>1, <2>2 DEF IsTerminator
<1> QED BY <1>4, <1>5 DEF TerminatorByTable, NamedElements

(* A quoted word is taken by its own definition.                            *)
LEMMA QuotedFound ==
  ASSUME IsFiniteSet(custom), NEW customOrder \in SetToSeqs(custom),
         NEW builtinOrder \in SetToSeqs(Builtin), NEW word \in custom
  PROVE  LexedAs(Definitions(customOrder, builtinOrder), word) = Capitalised(word)
<1> DEFINE tokens == Definitions(customOrder, builtinOrder)
           n == Cardinality(custom)
           m == Cardinality(Builtin)
           Takes(i) == /\ word \in tokens[i].words
                       /\ \A j \in 1 .. i - 1 : word \notin tokens[j].words
<1>1. /\ n \in Nat /\ m \in Nat /\ DOMAIN tokens = 1 .. n + m + 3
      /\ \A i \in 1 .. n : tokens[i] = CustomDefinition(customOrder[i])
  BY TokenTable
<1>2. \A i, j \in 1 .. n : customOrder[i] = customOrder[j] => i = j BY Enumerated
<1>3. PICK k \in 1 .. n : customOrder[k] = word BY Enumerated
<1> HIDE DEF tokens, n, m
<1>4. ASSUME NEW i \in 1 .. n
      PROVE  tokens[i].words = {customOrder[i]} /\ tokens[i].name = Capitalised(customOrder[i])
  <2>1. tokens[i] = CustomDefinition(customOrder[i]) BY <1>1
  <2> QED BY <2>1 DEF CustomDefinition
<1>5. \A i \in 1 .. n : word \in tokens[i].words <=> i = k BY <1>2, <1>3, <1>4
<1>6. k \in DOMAIN tokens /\ Takes(k)
  <2>1. \A j \in 1 .. k - 1 : j \in 1 .. n /\ j # k BY <1>1
  <2> QED BY <1>1, <1>5, <2>1
<1>7. ASSUME NEW i \in DOMAIN tokens, Takes(i) PROVE i = k
  <2>1. CASE i < k
    <3>1. i \in 1 .. n BY <1>1, <2>1
    <3> QED BY <1>5, <1>7, <3>1
  <2>2. CASE i > k
    <3>1. k \in 1 .. i - 1 BY <1>1, <2>2
    <3> QED BY <1>5, <1>7, <3>1
  <2> QED BY <1>1, <2>1, <2>2
<1>8. (CHOOSE i \in DOMAIN tokens : Takes(i)) = k BY <1>6, <1>7, Zenon
<1>9. LexedAs(tokens, word) = tokens[k].name
  <2>1. LexedAs(tokens, word) = tokens[CHOOSE i \in DOMAIN tokens : Takes(i)].name
    BY DEF LexedAs
  <2> HIDE DEF Takes
  <2> QED BY <1>8, <2>1
<1> QED BY <1>3, <1>4, <1>9 DEF tokens

-----------------------------------------------------------------------------
(* What the grammar file says of the words of the module.                   *)
LEMMA WordsKnownInit == Init => WordsKnown
<1> SUFFICES ASSUME Init PROVE WordsKnown OBVIOUS
<1>1. IsFiniteSet(custom) BY FS_EmptySet DEF Init
<1>2. tree.rules = <<>> /\ local.alternatives = <<>> /\ local.alternative = NoAlternative
  BY DEF Init, NoModule
<1>3. IdentifierRead BY DEF Init, StreamInit, IdentifierRead, Unread
<1> QED BY <1>1, <1>2, <1>3, BlankNamed DEF WordsKnown

LEMMA WordsKnownInvariant == DriverSpec => []WordsKnown
<1>1. DriverInit => WordsKnown BY WordsKnownInit DEF DriverInit
<1>2. ParserInv /\ WordsKnown /\ [DriverNext]_allVars => WordsKnown'
  BY DriverMoves, WordsStep DEF ParserInv
<1> QED BY <1>1, <1>2, DriverInvariant, PTL DEF DriverSpec

(* A grammar file written after a clean parse prints the elements of the    *)
(* tree, and has the table of tokens in some order of its entries.          *)
LEMMA WrittenGrammar ==
  ASSUME ParserInv, DriverInv, WordsKnown, GrammarWritten, NEW pair \in PrintedElements
  PROVE  /\ pair[1] \in NamedElements /\ pair[2] = Printed(pair[1])
         /\ \E customOrder \in SetToSeqs(custom), builtinOrder \in SetToSeqs(Builtin) :
              grammar.tokens = Definitions(customOrder, builtinOrder)
<1>1. module = tree /\ module.rules \in Seq(NamedRules)
  BY DEF ParserInv, WholeTextParsed, GrammarWritten, WordsKnown
<1>2. PICK customOrder \in SetToSeqs(custom), builtinOrder \in SetToSeqs(Builtin) :
        grammar = [productions |-> [i \in DOMAIN module.rules |-> PrintedRule(module.rules[i])],
                   tokens |-> Definitions(customOrder, builtinOrder)]
  <2>1. grammar \in Grammars BY DEF DriverInv, GrammarWritten
  <2> DEFINE productions == [i \in DOMAIN module.rules |-> PrintedRule(module.rules[i])]
  <2>2. Grammars = {[productions |-> productions, tokens |-> Definitions(c, b)] :
                      c \in SetToSeqs(custom), b \in SetToSeqs(Builtin)}
    BY DEF Grammars
  <2> HIDE DEF productions
  <2>3. \E c \in SetToSeqs(custom), b \in SetToSeqs(Builtin) :
          grammar = [productions |-> productions, tokens |-> Definitions(c, b)]
    BY <2>1, <2>2
  <2> QED BY <2>3, Zenon DEF productions
<1>3. PICK r \in DOMAIN module.rules :
        pair \in UNION {{<<module.rules[r].alternatives[a].elements[e],
                           grammar.productions[r][a][e]>> :
                           e \in DOMAIN module.rules[r].alternatives[a].elements} :
                          a \in DOMAIN module.rules[r].alternatives}
  BY Zenon DEF PrintedElements
<1> DEFINE node == module.rules[r]
<1>4. PICK a \in DOMAIN node.alternatives :
        pair \in {<<node.alternatives[a].elements[e], grammar.productions[r][a][e]>> :
                    e \in DOMAIN node.alternatives[a].elements}
  BY <1>3, Zenon
<1>5. PICK e \in DOMAIN node.alternatives[a].elements :
        pair = <<node.alternatives[a].elements[e], grammar.productions[r][a][e]>>
  BY <1>4, Zenon
<1> DEFINE element == node.alternatives[a].elements[e]
<1>6. element \in NamedElements
  <2>1. node \in NamedRules BY <1>1
  <2>2. node.alternatives \in Seq(NamedAlternatives) BY <2>1 DEF NamedRules
  <2>3. node.alternatives[a] \in NamedAlternatives BY <2>2
  <2>4. node.alternatives[a].elements \in Seq(NamedElements) BY <2>3 DEF NamedAlternatives
  <2> HIDE DEF node
  <2> QED BY <2>4
<1>7. grammar.productions[r][a][e] = Printed(element)
  <2>1. grammar.productions[r] = PrintedRule(node) BY <1>2
  <2>2. PrintedRule(node)[a] = PrintedAlternative(node.alternatives[a]) BY DEF PrintedRule
  <2>3. PrintedAlternative(node.alternatives[a])[e] = Printed(element)
    BY DEF PrintedAlternative
  <2> HIDE DEF node
  <2> QED BY <2>1, <2>2, <2>3
<1>8. pair[1] = element /\ pair[2] = Printed(element) BY <1>5, <1>7
<1>9. grammar.tokens = Definitions(customOrder, builtinOrder) BY <1>2
<1> HIDE DEF element
<1> QED BY <1>2, <1>6, <1>8, <1>9

(* Every name that the grammar prints for a terminator is defined by it,    *)
(* whatever the order in which the terminators were quoted and used.        *)
THEOREM TerminatorNamesDefined == DriverSpec => []TerminatorsDefined
<1>1. ASSUME ParserInv, DriverInv, WordsKnown, GrammarWritten,
             NEW pair \in PrintedElements, TerminatorByTable(pair[1])
      PROVE  pair[2] \in {grammar.tokens[i].name : i \in DOMAIN grammar.tokens}
  <2>1. pair[1] \in NamedElements /\ pair[2] = Printed(pair[1]) BY <1>1, WrittenGrammar
  <2>2. PICK customOrder \in SetToSeqs(custom), builtinOrder \in SetToSeqs(Builtin) :
          grammar.tokens = Definitions(customOrder, builtinOrder)
    BY <1>1, WrittenGrammar
  <2>3. custom \subseteq Spellings /\ IsFiniteSet(custom)
    BY <1>1 DEF ParserInv, TypeOK, WordsKnown
  <2>4. \E i \in DOMAIN grammar.tokens : grammar.tokens[i].name = Printed(pair[1])
    BY <1>1, <2>1, <2>2, <2>3, NamesDefined
  <2> QED BY <2>1, <2>4
<1>2. ParserInv /\ DriverInv /\ WordsKnown => TerminatorsDefined
  BY <1>1 DEF TerminatorsDefined
<1> QED BY <1>2, DriverInvariant, WordsKnownInvariant, PTL

(* A quoted word is lexed as the terminator that the productions name.      *)
THEOREM QuotedWordsTaken == DriverSpec => []QuotedWordsLexed
<1>1. ASSUME ParserInv, DriverInv, WordsKnown, GrammarWritten,
             NEW pair \in PrintedElements, pair[1].kind = "terminator",
             pair[1].name \in custom
      PROVE  LexedAs(grammar.tokens, pair[1].name) = pair[2]
  <2>1. pair[2] = Capitalised(pair[1].name) BY <1>1, WrittenGrammar DEF Printed
  <2>2. PICK customOrder \in SetToSeqs(custom), builtinOrder \in SetToSeqs(Builtin) :
          grammar.tokens = Definitions(customOrder, builtinOrder)
    BY <1>1, WrittenGrammar
  <2>3. IsFiniteSet(custom) BY <1>1 DEF WordsKnown
  <2>4. LexedAs(Definitions(customOrder, builtinOrder), pair[1].name)
          = Capitalised(pair[1].name)
    BY <1>1, <2>3, QuotedFound
  <2> QED BY <2>1, <2>2, <2>4
<1>2. ParserInv /\ DriverInv /\ WordsKnown => QuotedWordsLexed
  BY <1>1 DEF QuotedWordsLexed
<1> QED BY <1>2, DriverInvariant, WordsKnownInvariant, PTL

=============================================================================
