--------------------------- MODULE FrontendParser ---------------------------
(***************************************************************************)
(* FrontendGen's Parser with the Sema actions, the Terminators table and    *)
(* the report-once DiagnosticEngine it drives.  One action per stretch of   *)
(* code between two reads of the lexer; `pc` names the stretch.             *)
(***************************************************************************)
EXTENDS TokenStream, SequencesExt

CONSTANTS
  BuilderRefs,   \* identifiers <op>_<n> whose part after '_' std::stoi reads
  Underscored,   \* identifiers with a '_' in them
  Builtin,       \* terminators of Terminator.def, such as Return
  LowerFirst,    \* an identifier with 32 added to its first character
  NULL           \* the null pointer

Words == {"name", "cppNamespace", "arguments", "results", "builders",
          "OpBuilder", "builder", "CArg", "AnyTypeOf"}

(* Stored texts.  Names of rules, ops, operands and types are told apart     *)
(* only by whether they are there and belong to the token they were read at. *)
Text == "text"
Empty == "empty"      \* an empty StringRef
Stale == "stale"      \* the text of an earlier token

ASSUME WordAssumption ==
  /\ BuilderRefs \subseteq Underscored /\ Underscored \subseteq Idents
  /\ Builtin \subseteq Idents
  /\ {Text, Empty, Stale} \cap (Texts \cup {Uninit}) = {}

(* The nodes of AST.h.  Each is owned by one place, so it stands for its    *)
(* pointer; `allocated` counts the objects made with new.                   *)
Names == {Text, Empty, Stale}
Spellings == Texts \cup {Uninit, Stale}
Elements == [kind : {"rule", "terminator", "pbexpression"}, name : Spellings]
Alternatives == [elements : Seq(Elements), builders : Seq(BuilderRefs)]
Rules == [name : Names, alternatives : Seq(Alternatives)]
Operands == [type : Names, name : Names]
Dags == [operator : Names, operands : Seq(Operands)]
Dialects == [defName : Names, name : Names, cppNamespace : Names]
Ops == [name : Names, arguments : Dags \cup {NULL}, results : Dags \cup {NULL},
        builders : Seq(Dags \cup {NULL})]
Modules == [rules : Seq(Rules), dialect : Dialects \cup {NULL}, ops : Seq(Ops)]
Classes == {"rule", "alternative", "element", "dialect", "dag", "builder", "op"}

NoRule == [name |-> Empty, alternatives |-> <<>>]
NoAlternative == [elements |-> <<>>, builders |-> <<>>]
NoDialect == [defName |-> Empty, name |-> Empty, cppNamespace |-> Empty]
NoOp == [name |-> Empty, arguments |-> NULL, results |-> NULL, builders |-> <<>>]
NoDag == [operator |-> Empty, operands |-> <<>>]
NoOperand == [type |-> Empty, name |-> Empty]
NoModule == [rules |-> <<>>, dialect |-> NULL, ops |-> <<>>]

ASSUME NullAssumption == NULL \notin Dags \cup Dialects

VARIABLES
  pc,         \* the stretch of code to run, or how the parser ended
  reported,   \* DiagnosticEngine::hasReport
  tree,       \* rules, dialect and ops of compilEngine
  module,     \* the Module that parser() returns
  custom,     \* Terminators::customTerminators
  local,      \* the local variables of the procedures
  allocated,  \* objects made with new, by class
  redeclared  \* classes of which a pointer to an object was overwritten

Locals == [rule : Rules, alternatives : Seq(Alternatives), alternative : Alternatives,
           refs : Seq(BuilderRefs),
           fields : Dialects, attr : {"name", "cppNamespace"},
           op : Ops, target : {"arguments", "results", "builder"},
           dag : Dags, operand : Operands, builderDag : Dags \cup {NULL}]

heap == <<allocated, redeclared>>
shared == <<tree, module, custom, heap>>
data == <<shared, local>>
vars == <<stream, pc, reported, data>>

Ended == {"done", "aborted", "overrun"}

-----------------------------------------------------------------------------
(* Steps shared by the procedures.                                          *)

At(from) == pc = from
Goto(to) == pc' = to
Report == reported' = TRUE
Quiet == UNCHANGED reported
Kind(kind) == token.kind = kind
Content == IF AtEnd THEN Stale ELSE Text

(* Variants.  An operator introduced by "Variant:" is not part of Spec: it   *)
(* is a definition as a slip in the code would have made it.                 *)
(* Variant: the name of the token's kind in place of its content.            *)
KindAsSpelling == token.kind
Spelling == IF AtEnd THEN Stale ELSE token.text

Read(to) == Advance /\ Goto(to) /\ Quiet
Stay(to) == Goto(to) /\ UNCHANGED stream
Fail(to) == Report /\ Stay(to)

(* consumeNoAdvance: complain about another kind, stay where we are.        *)
Expect(kind) == reported' = (reported \/ ~Kind(kind))

(* consume: read on after the expected kind, complain otherwise.            *)
Consume(kind, to) == IF Kind(kind) THEN Read(to) ELSE Fail(to)

(* if (token.is(kind)) advance();                                           *)
Optional(kind, to) == IF Kind(kind) THEN Read(to) ELSE Stay(to) /\ Quiet

New(class) == allocated' = [allocated EXCEPT ![class] = @ + 1]
Overwrite(class, pointer) ==
  redeclared' = IF pointer = NULL THEN redeclared ELSE redeclared \cup {class}

(* Sema::actOnModule: what compilEngine hands over when it ends.            *)
ActOnModule == module' = tree /\ UNCHANGED <<tree, custom, heap, local>>

Init ==
  /\ StreamInit
  /\ pc = "construct" /\ reported = FALSE
  /\ tree = NoModule /\ module = NoModule /\ custom = {}
  /\ local = [rule |-> NoRule, alternatives |-> <<>>, alternative |-> NoAlternative,
              refs |-> <<>>, fields |-> NoDialect, attr |-> "name",
              op |-> NoOp, target |-> "arguments",
              dag |-> NoDag, operand |-> NoOperand, builderDag |-> NULL]
  /\ allocated = [class \in Classes |-> 0] /\ redeclared = {}

(* The constructor reads the first token.                                   *)
Construct == At("construct") /\ Read("top") /\ UNCHANGED data

-----------------------------------------------------------------------------
(* compilEngine                                                             *)

RuleKeyword == At("top") /\ Kind("rule") /\ Read("ruleName") /\ UNCHANGED data
DialectKeyword == At("top") /\ Kind("dialect") /\ Read("dialectName") /\ UNCHANGED data
OpKeyword == At("top") /\ Kind("op") /\ Read("opName") /\ UNCHANGED data
EndOfText == At("top") /\ Kind("eof") /\ Quiet /\ Stay("done") /\ ActOnModule

(* Another token.  When it is the very first one and no lexeme starts there *)
(* the diagnostic gets a location that was never initialized, which         *)
(* SourceMgr may or may not survive.                                        *)
OtherToken ==
  /\ At("top") /\ token.kind \notin Keywords \cup {"eof"}
  /\ \/ Fail("done") /\ ActOnModule
     \/ token.text = Uninit /\ Fail("aborted") /\ UNCHANGED data

(* Variant: the missing name is not reported.                               *)
NameMissingQuietly ==
  /\ pc \in {"ruleName", "dialectName"} /\ ~Kind("identifier")
  /\ Quiet /\ Stay("done") /\ UNCHANGED data

(* A rule or a dialect without a name ends compilEngine before actOnModule. *)
NameMissing ==
  /\ pc \in {"ruleName", "dialectName"} /\ ~Kind("identifier")
  /\ Fail("done") /\ UNCHANGED data

RuleName ==
  /\ At("ruleName") /\ Kind("identifier") /\ Read("ruleColon")
  /\ local' = [local EXCEPT !.rule = [name |-> Content, alternatives |-> <<>>],
                            !.alternatives = <<>>]
  /\ New("rule") /\ UNCHANGED <<tree, module, custom, redeclared>>

(* rules.push_back once parserRules is back, whatever it made of the rule.  *)
PushRule(alternatives) ==
  /\ tree' = [tree EXCEPT !.rules =
                Append(@, [local.rule EXCEPT !.alternatives = alternatives])]
  /\ local' = [local EXCEPT !.rule = NoRule, !.alternatives = <<>>,
                            !.alternative = NoAlternative]
  /\ UNCHANGED <<module, custom, heap>>

RuleSemi == At("ruleSemi") /\ Consume(";", "top") /\ UNCHANGED data

-----------------------------------------------------------------------------
(* parserRules                                                              *)

(* Variant: the missing colon is not reported.                              *)
RuleColonOptional ==
  At("ruleColon") /\ ~Kind(":") /\ Quiet /\ Stay("ruleSemi") /\ PushRule(<<>>)

RuleColonMissing ==
  At("ruleColon") /\ ~Kind(":") /\ Fail("ruleSemi") /\ PushRule(<<>>)

(* A colon opens the first alternative and every later one.                 *)
OpenAlternative ==
  /\ pc \in {"ruleColon", "ruleAlternative"} /\ Kind(":") /\ Read("generator")
  /\ local' = [local EXCEPT !.alternative = NoAlternative]
  /\ New("alternative") /\ UNCHANGED <<tree, module, custom, redeclared>>

(* parserGenerator is back: the alternative is complete.  Neither a colon   *)
(* nor a semicolon after it ends parserRules without Sema::actOnRule, so    *)
(* the rule is pushed with no alternative at all.                           *)
GeneratorTokens == {"identifier", "'", "+", "*", "(", ")", "?", "{"}

(* Variant: an alternative is stored when the next one opens.               *)
CloseAlternativeAtColon ==
  /\ At("generator") /\ token.kind \in {":", ";"} /\ Quiet /\ Stay("ruleAlternative")
  /\ local' = [local EXCEPT
       !.alternatives = IF Kind(":") THEN Append(@, local.alternative) ELSE @,
       !.alternative = NoAlternative]
  /\ UNCHANGED shared

CloseAlternative ==
  /\ At("generator") /\ token.kind \in {":", ";"} /\ Quiet /\ Stay("ruleAlternative")
  /\ local' = [local EXCEPT !.alternatives = Append(@, local.alternative),
                            !.alternative = NoAlternative]
  /\ UNCHANGED shared

AlternativeUnfinished ==
  /\ At("generator") /\ token.kind \notin GeneratorTokens \cup {":", ";"}
  /\ Fail("ruleSemi") /\ PushRule(<<>>)

FillRule ==
  /\ At("ruleAlternative") /\ Kind(";") /\ Quiet /\ Stay("ruleSemi")
  /\ PushRule(local.alternatives)

-----------------------------------------------------------------------------
(* parserGenerator and the procedures it calls                              *)

AddElement(kind) ==
  /\ local' = [local EXCEPT !.alternative.elements =
                 Append(@, [kind |-> kind, name |-> Spelling])]
  /\ New("element") /\ UNCHANGED <<tree, module, redeclared>>

(* getAntlrBaseKind: a terminator quoted earlier, spelt with a capital, or  *)
(* one of Terminator.def; a rule otherwise.                                 *)
IsTerminator(name) == LowerFirst[name] \in custom \/ name \in Builtin

Identifier ==
  /\ At("generator") /\ Kind("identifier") /\ Read("generator")
  /\ AddElement(IF IsTerminator(token.text) THEN "terminator" ELSE "rule")
  /\ UNCHANGED custom

PBExpression ==
  /\ At("generator") /\ token.kind \in {"+", "*", "(", ")", "?"} /\ Read("generator")
  /\ AddElement("pbexpression") /\ UNCHANGED custom

(* The procedures for a quote and for a brace begin with advance().         *)
OpenQuoteOrBrace ==
  /\ At("generator")
  /\ \/ Kind("'") /\ Read("quoted")
     \/ Kind("{") /\ Read("brace")
  /\ UNCHANGED data

(* parserTerminator takes any token as the text of the terminator.          *)
Quoted ==
  /\ At("quoted") /\ Read("quoteEnd")
  /\ AddElement("terminator") /\ custom' = custom \cup {Spelling}

QuoteEnd == At("quoteEnd") /\ Consume("'", "generator") /\ UNCHANGED data

(* parserCurlyBracketOpen                                                   *)
Brace ==
  /\ At("brace")
  /\ IF token.text = "builder" THEN Read("refsEqual") ELSE Fail("generator")
  /\ local' = [local EXCEPT !.refs = <<>>] /\ UNCHANGED shared

RefsEqual ==
  /\ At("refsEqual") /\ UNCHANGED data
  /\ IF Kind("=") THEN Read("refs") ELSE Fail("generator")

(* A reference whose index std::stoi reads ...                              *)
BuilderRef ==
  /\ At("refs") /\ Kind("identifier") /\ token.text \in BuilderRefs
  /\ Read("refsComma")
  /\ local' = [local EXCEPT !.refs = Append(@, token.text)] /\ UNCHANGED shared

(* ... and any other identifier: stoi throws, and nothing catches.          *)
BadBuilderRef ==
  /\ At("refs") /\ Kind("identifier") /\ token.text \notin BuilderRefs
  /\ reported' = (reported \/ token.text \notin Underscored)
  /\ Stay("aborted") /\ UNCHANGED data

RefsComma == At("refsComma") /\ Optional(",", "refs") /\ UNCHANGED data

(* setbuilderNames and setbuilderIdxs, then the closing brace.              *)
SetBuilders ==
  /\ At("refs") /\ ~Kind("identifier") /\ Consume("}", "generator")
  /\ local' = [local EXCEPT !.alternative.builders = local.refs, !.refs = <<>>]
  /\ UNCHANGED shared

-----------------------------------------------------------------------------
(* parserDialect                                                            *)

(* `dialect = new Dialect()` takes the place of an earlier dialect.         *)
DialectName ==
  /\ At("dialectName") /\ Kind("identifier") /\ Read("dialectColon")
  /\ local' = [local EXCEPT !.fields = [NoDialect EXCEPT !.defName = Content]]
  /\ tree' = [tree EXCEPT !.dialect = NoDialect]
  /\ New("dialect") /\ Overwrite("dialect", tree.dialect)
  /\ UNCHANGED <<module, custom>>

DialectColon ==
  At("dialectColon") /\ Kind(":") /\ Read("dialectAttr") /\ UNCHANGED data

(* Variant: the loop over the attributes waits for one it knows.            *)
DialectAttrWaits ==
  /\ At("dialectAttr") /\ UNCHANGED shared
  /\ IF token.text \in {"name", "cppNamespace"}
     THEN Read("dialectEqual") /\ local' = [local EXCEPT !.attr = token.text]
     ELSE Stay("dialectAttr") /\ Quiet /\ UNCHANGED local

(* An attribute of another name is skipped without a word.                  *)
DialectAttr ==
  /\ At("dialectAttr") /\ UNCHANGED shared
  /\ IF token.text \in {"name", "cppNamespace"}
     THEN Read("dialectEqual") /\ local' = [local EXCEPT !.attr = token.text]
     ELSE Stay("dialectColon") /\ Quiet /\ UNCHANGED local

DialectEqual ==
  /\ At("dialectEqual") /\ Expect("=") /\ Goto("dialectNext") /\ UNCHANGED shared
  /\ \E content \in {Empty, Text} :
       /\ IF content = Empty THEN NoMark("\"") ELSE Marked("\"")
       /\ local' = [local EXCEPT !.fields[local.attr] = content]

DialectNext == At("dialectNext") /\ Read("dialectColon") /\ UNCHANGED data

(* Sema::actOnDialect, then advance() over a token nobody looks at.         *)
DialectDone ==
  /\ At("dialectColon") /\ ~Kind(":") /\ Read("top")
  /\ tree' = [tree EXCEPT !.dialect = local.fields]
  /\ local' = [local EXCEPT !.fields = NoDialect]
  /\ UNCHANGED <<module, custom, heap>>

-----------------------------------------------------------------------------
(* parserOp                                                                 *)

OpName ==
  /\ At("opName") /\ Read("opColon")
  /\ local' = [local EXCEPT !.op = [NoOp EXCEPT !.name = Content]]
  /\ UNCHANGED shared

OpColon == At("opColon") /\ Kind(":") /\ Read("opElement") /\ UNCHANGED data

(* parserOp returns false: the op is forgotten, the rest is handed over.    *)
OpFails ==
  /\ \/ At("opElement") /\ token.text \notin {"arguments", "results", "builders"}
     \/ pc \in {"opEqual", "buildersEqual"} /\ ~Kind("=")
     \/ At("opColon") /\ token.kind \notin {":", ";"}
  /\ Fail("done") /\ ActOnModule

(* Variant: the semicolon is skipped when it is there, not required.        *)
OpDoneAnyway ==
  /\ At("opColon") /\ ~Kind(":") /\ Optional(";", "top")
  /\ tree' = [tree EXCEPT !.ops = Append(@, local.op)]
  /\ local' = [local EXCEPT !.op = NoOp]
  /\ New("op") /\ UNCHANGED <<module, custom, redeclared>>

(* consume(semi), Sema::actOnOps.                                           *)
OpDone ==
  /\ At("opColon") /\ Kind(";") /\ Read("top")
  /\ tree' = [tree EXCEPT !.ops = Append(@, local.op)]
  /\ local' = [local EXCEPT !.op = NoOp]
  /\ New("op") /\ UNCHANGED <<module, custom, redeclared>>

OpElement ==
  /\ At("opElement") /\ UNCHANGED shared
  /\ \/ /\ token.text \in {"arguments", "results"} /\ Read("opEqual")
        /\ local' = [local EXCEPT !.target = token.text]
     \/ token.text = "builders" /\ Read("buildersEqual") /\ UNCHANGED local

(* The call of parserDAG, whose first statement is advance().               *)
OpEqual ==
  /\ At("opEqual") /\ Kind("=") /\ Read("dagOpen")
  /\ local' = [local EXCEPT !.dag = NoDag] /\ UNCHANGED shared

(* The advance() after parserDAG or parserBuilders is back.                 *)
AfterElement == At("afterElement") /\ Read("opColon") /\ UNCHANGED data

-----------------------------------------------------------------------------
(* parserDAG, called for `arguments`, for `results` and for a builder       *)

Returned == IF local.target = "builder" THEN "afterBuilderDag" ELSE "afterElement"

DagOpen == At("dagOpen") /\ Consume("(", "dagOperator") /\ UNCHANGED data

DagOperator ==
  /\ At("dagOperator") /\ Read("operand")
  /\ local' = [local EXCEPT !.dag.operator = Content] /\ UNCHANGED shared

(* Variant: the loop over the operands runs up to the parenthesis.          *)
DagDoneAtParenthesis ==
  /\ At("operand") /\ token.kind \notin {"identifier", "\""}
  /\ \/ ~Kind(")") /\ Fail("operand") /\ UNCHANGED data
     \/ /\ Kind(")") /\ Quiet /\ Stay(Returned)
        /\ IF local.target = "builder"
           THEN /\ local' = [local EXCEPT !.builderDag = local.dag, !.dag = NoDag]
                /\ UNCHANGED redeclared
           ELSE /\ local' = [local EXCEPT !.op[local.target] = local.dag, !.dag = NoDag]
                /\ Overwrite("dag", local.op[local.target])
        /\ New("dag") /\ UNCHANGED <<tree, module, custom>>

(* Sema::actOnDag, over whatever the pointer held.                          *)
DagDone ==
  /\ At("operand") /\ token.kind \notin {"identifier", "\""}
  /\ Expect(")") /\ Stay(Returned)
  /\ IF local.target = "builder"
     THEN /\ local' = [local EXCEPT !.builderDag = local.dag, !.dag = NoDag]
          /\ UNCHANGED redeclared
     ELSE /\ local' = [local EXCEPT !.op[local.target] = local.dag, !.dag = NoDag]
          /\ Overwrite("dag", local.op[local.target])
  /\ New("dag") /\ UNCHANGED <<tree, module, custom>>

SetOperand(type) == local' = [local EXCEPT !.operand.type = type] /\ UNCHANGED shared

(* The operand's type: each form starts with a token of its own.            *)
OperandType ==
  /\ At("operand") /\ Kind("identifier") /\ SetOperand(Content)
  /\ Read(CASE token.text = "CArg" -> "cargOpen"
            [] token.text = "AnyTypeOf" -> "anyOpen"
            [] OTHER -> "templateOpen")

(* getEndChContent over a type in quotes, or over AnyTypeOf's list.         *)
ScannedType ==
  /\ \/ At("operand") /\ Kind("\"") /\ SetOperand(Text)
     \/ At("anyOpen") /\ Kind("<") /\ SetOperand(Text)
  /\ EndFound /\ Goto("typeNext") /\ Quiet

TypeNext == At("typeNext") /\ Read("operandColon") /\ UNCHANGED data

(* Variant: leaves parserDAG without a diagnostic.                          *)
AnyTypeFailsQuietly ==
  /\ At("anyOpen") /\ ~Kind("<") /\ Quiet /\ Stay(Returned)
  /\ local' = [local EXCEPT !.dag = NoDag, !.operand = NoOperand]
  /\ UNCHANGED shared

(* AnyTypeOf without '<' leaves parserDAG: what was read is dropped and the *)
(* caller's pointer is not written.                                         *)
AnyTypeFails ==
  /\ At("anyOpen") /\ ~Kind("<") /\ Fail(Returned)
  /\ local' = [local EXCEPT !.dag = NoDag, !.operand = NoOperand]
  /\ UNCHANGED shared

(* Type, Type<T> or Type<[T]>.                                              *)
TemplateType ==
  /\ \/ At("templateOpen") /\ Kind("<") /\ Read("templateSquare")
     \/ At("templateOpen") /\ ~Kind("<") /\ Stay("operandColon") /\ Quiet
     \/ At("templateSquare") /\ Optional("[", "templateType")
     \/ At("templateType") /\ Read("templateUnsquare")
     \/ At("templateUnsquare") /\ Optional("]", "templateClose")
  /\ UNCHANGED data

TemplateClose ==
  /\ pc \in {"templateClose", "cargClose"} /\ Consume(">", "operandColon")
  /\ UNCHANGED data

(* parserCArg: two marked texts, each followed by advance().                *)
CArgType ==
  /\ At("cargOpen") /\ Expect("<") /\ Goto("cargComma")
  /\ \/ NoMark("\"") /\ SetOperand(Empty)
     \/ Marked("\"") /\ SetOperand(Text)

CArgValue ==
  /\ \/ At("cargComma") /\ Read("cargValue")
     \/ At("cargValue") /\ Goto("cargEnd") /\ (NoMark("\"") \/ Marked("\"")) /\ Quiet
     \/ At("cargEnd") /\ Read("cargClose")
  /\ UNCHANGED data

(* ": $name": the token between the colon and the name is not looked at.    *)
OperandColon ==
  /\ \/ At("operandColon") /\ Kind(":") /\ Read("operandDollar")
     \/ At("operandColon") /\ ~Kind(":") /\ Quiet /\ Stay("operandEnd")
     \/ At("operandDollar") /\ Read("operandName")
  /\ UNCHANGED data

OperandName ==
  /\ At("operandName") /\ Read("operandEnd")
  /\ local' = [local EXCEPT !.operand.name = Content] /\ UNCHANGED shared

AddOperand ==
  /\ At("operandEnd") /\ Optional(",", "operand")
  /\ local' = [local EXCEPT !.dag.operands = Append(@, local.operand),
                            !.operand = NoOperand]
  /\ UNCHANGED shared

-----------------------------------------------------------------------------
(* parserBuilders                                                           *)

BuildersEqual ==
  At("buildersEqual") /\ Kind("=") /\ Read("buildersOpen") /\ UNCHANGED data

BuildersOpen ==
  /\ At("buildersOpen") /\ UNCHANGED data
  /\ IF Kind("[") THEN Read("builder") ELSE Fail("afterElement")

(* Variant: the dag pointer is declared outside the loop over the builders. *)
OpBuilderKeepsDag ==
  /\ At("builder") /\ token.text = "OpBuilder" /\ Read("builderAngle")
  /\ UNCHANGED data

OpBuilder ==
  /\ At("builder") /\ token.text = "OpBuilder" /\ Read("builderAngle")
  /\ local' = [local EXCEPT !.builderDag = NULL] /\ UNCHANGED shared

BuilderAngle ==
  /\ At("builderAngle") /\ Kind("<") /\ Read("dagOpen")
  /\ local' = [local EXCEPT !.dag = NoDag, !.target = "builder"]
  /\ UNCHANGED shared

(* Variant: the loop over the builders continues where it should return.    *)
BuilderFailsLoops ==
  /\ \/ At("builderAngle") /\ ~Kind("<")
     \/ At("builderClose") /\ ~Kind(">")
  /\ Fail("builder") /\ UNCHANGED data

(* parserBuilders returns early: the builder being read is lost, its dag    *)
(* with it.                                                                 *)
BuilderFails ==
  /\ \/ At("builderAngle") /\ ~Kind("<")
     \/ At("builderClose") /\ ~Kind(">")
  /\ Fail("afterElement") /\ UNCHANGED data

(* A comma after the dag announces the builder's code, kept in brackets.    *)
BuilderCode ==
  /\ \/ At("afterBuilderDag") /\ Read("builderCode")
     \/ At("builderCode") /\ ~Kind(",") /\ Stay("builderClose") /\ Quiet
     \/ At("builderCode") /\ Kind(",") /\ Goto("afterCode") /\ Quiet
        /\ (NoMark("[") \/ Marked("["))
     \/ At("afterCode") /\ Read("builderClose")
  /\ UNCHANGED data

AddBuilder ==
  /\ At("builderClose") /\ Kind(">") /\ Read("builderComma")
  /\ local' = [local EXCEPT !.op.builders = Append(@, local.builderDag)]
  /\ New("builder") /\ UNCHANGED <<tree, module, custom, redeclared>>

BuilderComma == At("builderComma") /\ Optional(",", "builder") /\ UNCHANGED data

BuildersDone ==
  /\ At("builder") /\ token.text # "OpBuilder" /\ Expect("]") /\ Stay("afterElement")
  /\ UNCHANGED data

(* A scan whose closing mark is missing runs past the end of the buffer.    *)
(* Nothing is claimed of the program after that.                            *)
Overrun ==
  /\ \/ pc \in {"dialectEqual", "cargOpen", "cargValue"} /\ MayOverrun("\"")
     \/ At("builderCode") /\ Kind(",") /\ MayOverrun("[")
     \/ At("operand") /\ Kind("\"")
     \/ At("anyOpen") /\ Kind("<")
  /\ Quiet /\ Stay("overrun") /\ UNCHANGED data

-----------------------------------------------------------------------------
EngineStep == \/ Construct \/ RuleKeyword \/ DialectKeyword \/ OpKeyword
              \/ EndOfText \/ OtherToken \/ NameMissing
RuleStep == \/ RuleName \/ RuleSemi \/ RuleColonMissing \/ OpenAlternative
            \/ CloseAlternative \/ AlternativeUnfinished \/ FillRule
GeneratorStep == \/ Identifier \/ PBExpression \/ OpenQuoteOrBrace \/ Quoted
                 \/ QuoteEnd \/ Brace \/ RefsEqual \/ BuilderRef
                 \/ BadBuilderRef \/ RefsComma \/ SetBuilders
DialectStep == \/ DialectName \/ DialectColon \/ DialectAttr \/ DialectEqual
               \/ DialectNext \/ DialectDone
OpStep == \/ OpName \/ OpColon \/ OpFails \/ OpDone \/ OpElement \/ OpEqual
          \/ AfterElement
DagStep == \/ DagOpen \/ DagOperator \/ DagDone \/ OperandType \/ ScannedType
           \/ TypeNext \/ AnyTypeFails \/ TemplateType \/ TemplateClose \/ CArgType \/ CArgValue
           \/ OperandColon \/ OperandName \/ AddOperand
BuilderStep == \/ BuildersEqual \/ BuildersOpen \/ OpBuilder \/ BuilderAngle
               \/ BuilderFails \/ BuilderCode \/ AddBuilder \/ BuilderComma
               \/ BuildersDone

Step == EngineStep \/ RuleStep \/ GeneratorStep \/ DialectStep \/ OpStep
        \/ DagStep \/ BuilderStep \/ Overrun

Halted == pc \in Ended /\ UNCHANGED vars

(* main calls parser() and nothing else runs: the parser's next step is     *)
(* taken.                                                                   *)
Next == Step \/ Halted
Spec == Init /\ [][Next]_vars /\ WF_vars(Step)

-----------------------------------------------------------------------------
(* Every variable keeps the type its declaration in the source gives it,    *)
(* and the parser is at one of its stretches of code or has ended.          *)
Labels == {"construct", "top", "ruleName", "dialectName", "opName", "ruleColon",
  "ruleAlternative", "ruleSemi", "generator", "quoted", "quoteEnd", "brace",
  "refsEqual", "refs", "refsComma", "dialectColon", "dialectAttr", "dialectEqual",
  "dialectNext", "opColon", "opElement", "opEqual", "buildersEqual",
  "afterElement", "dagOpen", "dagOperator", "operand", "typeNext", "anyOpen",
  "templateOpen", "templateSquare", "templateType", "templateUnsquare",
  "templateClose", "cargOpen", "cargComma", "cargValue", "cargEnd", "cargClose",
  "operandColon", "operandDollar", "operandName", "operandEnd", "buildersOpen",
  "builder", "builderAngle", "afterBuilderDag", "builderCode", "afterCode",
  "builderClose", "builderComma"}

TypeOK ==
  /\ StreamTypeOK
  /\ pc \in Labels \cup Ended /\ reported \in BOOLEAN
  /\ tree \in Modules /\ module \in Modules /\ custom \subseteq Spellings
  /\ local \in Locals
  /\ allocated \in [Classes -> Nat] /\ redeclared \subseteq {"dialect", "dag"}

Clean == pc = "done" /\ ~reported

(* Every way out of compilEngine but the end of the text reports, so a run  *)
(* without a diagnostic has parsed the whole text and hands over all of it. *)
WholeTextParsed == Clean => token.kind = "eof" /\ module = tree

(* The texts a node stores.                                                 *)
RuleTexts(node) ==
  {node.name} \cup UNION {{element.name : element \in ToSet(alternative.elements)} :
                           alternative \in ToSet(node.alternatives)}
DagTexts(node) ==
  IF node = NULL THEN {}
  ELSE {node.operator} \cup UNION {{each.type, each.name} : each \in ToSet(node.operands)}
OpTexts(node) ==
  {node.name} \cup DagTexts(node.arguments) \cup DagTexts(node.results)
    \cup UNION {DagTexts(each) : each \in ToSet(node.builders)}
TextsOf(tree_) == (UNION {RuleTexts(node) : node \in ToSet(tree_.rules)})
                  \cup (UNION {OpTexts(node) : node \in ToSet(tree_.ops)})

(* parserTerminator, parserOp and parserDAG store the content of a token    *)
(* they did not check.  At the end of the text and at an unknown character  *)
(* that content is an older token's; no such text reaches the module unless *)
(* a diagnostic was reported.                                               *)
StaleReported == pc = "done" /\ Stale \in TextsOf(module) => reported

(* parserDAG may return without writing its caller's pointer, and           *)
(* parserBuilders pushes the builder all the same; emitOp dereferences the  *)
(* dag of a builder.  No builder without a dag comes out of a clean parse.  *)
BuilderDagsPresent ==
  Clean => \A node \in ToSet(module.ops) : NULL \notin ToSet(node.builders)

(* A rule is pushed even when parserRules gave up on it: a rule without     *)
(* alternatives in a clean module would be printed as an empty production.  *)
RulesFilled == Clean => \A node \in ToSet(module.rules) : node.alternatives # <<>>

(* emitCustomTerminators defines every custom terminator.  The set outlives *)
(* the rules it came from; after a clean parse each is used by some rule.   *)
CustomTerminatorsUsed ==
  Clean => custom \subseteq UNION {RuleTexts(node) : node \in ToSet(module.rules)}

(* Every loop of the parser ends on every text, the sticky answers of the   *)
(* lexer at its end and at an unknown character included, and the loop of   *)
(* parserBuilders, which tests a content that may be stale.                 *)
Terminates == <>(pc \in Ended)

(* What the text has left to give: lexemes not revealed, one that a scan    *)
(* has looked at, and a token that is not the end.                          *)
Unspent == 4 * (MaxLexemes + 1 - used) + (IF ahead \in Lexemes THEN 2 ELSE 0)
             + (IF AtEnd THEN 0 ELSE 1)

(* How far the stretches of code are from the parser's end when the lexer   *)
(* gives nothing more.                                                      *)
Rank == [label \in Labels \cup Ended |->
  CASE label \in Ended -> 0
    [] label \in {"construct", "top", "ruleName", "dialectName", "opColon", "opEqual",
                  "buildersEqual", "typeNext"} -> 1
    [] label \in {"ruleSemi", "dialectColon", "opName", "opElement", "afterElement"} -> 2
    [] label \in {"ruleColon", "ruleAlternative", "dialectNext", "buildersOpen",
                  "builderAngle", "builderClose"} -> 3
    [] label \in {"generator", "dialectEqual", "builder", "afterCode"} -> 4
    [] label \in {"quoteEnd", "refs", "refsEqual", "dialectAttr", "builderCode",
                  "builderComma"} -> 5
    [] label \in {"quoted", "refsComma", "brace", "afterBuilderDag"} -> 6
    [] label \in {"operand", "anyOpen"} -> 7
    [] label \in {"operandEnd", "dagOperator"} -> 8
    [] label \in {"operandColon", "operandName", "dagOpen"} -> 9
    [] label \in {"templateOpen", "templateClose", "cargClose", "operandDollar"} -> 10
    [] label \in {"templateUnsquare", "cargEnd"} -> 11
    [] label \in {"templateType", "cargValue"} -> 12
    [] label \in {"templateSquare", "cargComma"} -> 13
    [] label = "cargOpen" -> 14]

(* No loop of the parser turns without reading on: a step that spends none  *)
(* of the text brings the parser nearer to its end, at a sticky token too,  *)
(* where advance() changes nothing and the loops test what is stale.        *)
Progress == \/ Unspent' < Unspent
            \/ Unspent' = Unspent /\ Rank[pc'] < Rank[pc]
NoIdleLoop == [][Progress]_vars
=============================================================================
