------------------------ MODULE FrontendParserProofs ------------------------
(***************************************************************************)
(* Theorems about FrontendParser.                                           *)
(***************************************************************************)
EXTENDS FrontendParser, SequenceTheorems, TLAPS

-----------------------------------------------------------------------------
(* The stream.                                                              *)

LEMMA AdvanceTyped ==
  ASSUME StreamTypeOK, Advance PROVE StreamTypeOK'
<1> USE LexemeAssumption
<1>1. PICK lexeme \in Upcoming :
        /\ token' = IF lexeme \in Ends THEN [token EXCEPT !.kind = lexeme]
                    ELSE [kind |-> KindOf(lexeme), text |-> lexeme]
        /\ ahead' = IF lexeme \in Ends THEN lexeme ELSE Unread
        /\ Reveal
  BY DEF Advance
<1>2. lexeme \in Lexemes \cup Ends
  BY DEF Upcoming, StreamTypeOK, Ends
<1>3. used' \in Nat
  BY <1>1 DEF Reveal, StreamTypeOK
<1>4. ahead' \in Lexemes \cup Ends \cup {Unread}
  BY <1>1
<1>5. token' \in Tokens
  <2>1. CASE lexeme \in Ends
    BY <1>1, <2>1 DEF Tokens, Kinds, StreamTypeOK
  <2>2. CASE lexeme \notin Ends
    <3>1. lexeme \in Texts BY <1>2, <2>2
    <3>2. KindOf(lexeme) \in Kinds BY <3>1 DEF KindOf, Texts, Kinds
    <3> QED BY <1>1, <2>2, <3>1, <3>2 DEF Tokens
  <2> QED BY <2>1, <2>2
<1> QED BY <1>3, <1>4, <1>5 DEF StreamTypeOK

LEMMA ScanTyped ==
  ASSUME NEW open, StreamTypeOK, NoMark(open) \/ Marked(open) \/ EndFound
  PROVE  StreamTypeOK'
<1>1. CASE EndFound BY <1>1 DEF EndFound, StreamTypeOK
<1>2. CASE Marked(open) BY <1>2 DEF Marked, Reveal, StreamTypeOK
<1>3. CASE NoMark(open)
  BY <1>3 DEF NoMark, Upcoming, Reveal, StreamTypeOK, Ends
<1> QED BY <1>1, <1>2, <1>3

LEMMA InitTyped == Init => TypeOK
<1> SUFFICES ASSUME Init PROVE TypeOK OBVIOUS
<1>1. StreamTypeOK
  BY DEF Init, StreamInit, StreamTypeOK, Tokens, Kinds, Ends
<1>2. NoRule \in Rules /\ NoAlternative \in Alternatives /\ NoDialect \in Dialects
      /\ NoOp \in Ops /\ NoDag \in Dags /\ NoOperand \in Operands /\ NoModule \in Modules
  BY DEF NoRule, NoAlternative, NoDialect, NoOp, NoDag, NoOperand, NoModule,
         Rules, Alternatives, Dialects, Ops, Dags, Operands, Modules, Names
<1>3. local \in Locals
  BY <1>2 DEF Init, Locals
<1> QED BY <1>1, <1>2, <1>3 DEF Init, TypeOK, Labels

-----------------------------------------------------------------------------
(* Control: the stream, the stretch of code and the diagnostic.             *)

ControlTyped == StreamTypeOK /\ pc \in Labels \cup Ended /\ reported \in BOOLEAN

LEMMA ControlStep == ASSUME ControlTyped, Step PROVE ControlTyped'
<1> USE DEF Goto, Quiet, Report, Read, Stay, Fail, Expect, Consume, Optional
<1>a. StreamTypeOK /\ pc \in Labels \cup Ended /\ reported \in BOOLEAN
  BY DEF ControlTyped
<1>b. UNCHANGED stream => StreamTypeOK'
  BY <1>a DEF stream, StreamTypeOK
<1>1. CASE EngineStep
  <2>1. StreamTypeOK'
    BY <1>1, <1>a, <1>b, AdvanceTyped, ScanTyped
    DEF EngineStep, Construct, RuleKeyword, DialectKeyword, OpKeyword,
        EndOfText, OtherToken, NameMissing
  <2>2. pc' \in Labels \cup Ended
    BY <1>1, <1>a
    DEF Labels, Ended, At, Returned, EngineStep, Construct, RuleKeyword,
        DialectKeyword, OpKeyword, EndOfText, OtherToken, NameMissing
  <2>3. reported' \in BOOLEAN
    BY <1>1, <1>a, Zenon
    DEF EngineStep, Construct, RuleKeyword, DialectKeyword, OpKeyword,
        EndOfText, OtherToken, NameMissing
  <2> QED BY <2>1, <2>2, <2>3 DEF ControlTyped
<1>2. CASE RuleStep
  <2>1. StreamTypeOK'
    BY <1>2, <1>a, <1>b, AdvanceTyped, ScanTyped
    DEF RuleStep, RuleName, RuleSemi, RuleColonMissing, OpenAlternative,
        CloseAlternative, AlternativeUnfinished, FillRule
  <2>2. pc' \in Labels \cup Ended
    BY <1>2, <1>a
    DEF Labels, Ended, At, Returned, RuleStep, RuleName, RuleSemi,
        RuleColonMissing, OpenAlternative, CloseAlternative,
        AlternativeUnfinished, FillRule
  <2>3. reported' \in BOOLEAN
    BY <1>2, <1>a, Zenon
    DEF RuleStep, RuleName, RuleSemi, RuleColonMissing, OpenAlternative,
        CloseAlternative, AlternativeUnfinished, FillRule
  <2> QED BY <2>1, <2>2, <2>3 DEF ControlTyped
<1>3. CASE GeneratorStep
  <2>1. StreamTypeOK'
    BY <1>3, <1>a, <1>b, AdvanceTyped, ScanTyped
    DEF GeneratorStep, Identifier, PBExpression, OpenQuoteOrBrace, Quoted,
        QuoteEnd, Brace, RefsEqual, BuilderRef, BadBuilderRef, RefsComma,
        SetBuilders
  <2>2. pc' \in Labels \cup Ended
    BY <1>3, <1>a
    DEF Labels, Ended, At, Returned, GeneratorStep, Identifier, PBExpression,
        OpenQuoteOrBrace, Quoted, QuoteEnd, Brace, RefsEqual, BuilderRef,
        BadBuilderRef, RefsComma, SetBuilders
  <2>3. reported' \in BOOLEAN
    BY <1>3, <1>a, Zenon
    DEF GeneratorStep, Identifier, PBExpression, OpenQuoteOrBrace, Quoted,
        QuoteEnd, Brace, RefsEqual, BuilderRef, BadBuilderRef, RefsComma,
        SetBuilders
  <2> QED BY <2>1, <2>2, <2>3 DEF ControlTyped
<1>4. CASE DialectStep
  <2>1. StreamTypeOK'
    BY <1>4, <1>a, <1>b, AdvanceTyped, ScanTyped
    DEF DialectStep, DialectName, DialectColon, DialectAttr, DialectEqual,
        DialectNext, DialectDone
  <2>2. pc' \in Labels \cup Ended
    BY <1>4, <1>a
    DEF Labels, Ended, At, Returned, DialectStep, DialectName, DialectColon,
        DialectAttr, DialectEqual, DialectNext, DialectDone
  <2>3. reported' \in BOOLEAN
    BY <1>4, <1>a, Zenon
    DEF DialectStep, DialectName, DialectColon, DialectAttr, DialectEqual,
        DialectNext, DialectDone
  <2> QED BY <2>1, <2>2, <2>3 DEF ControlTyped
<1>5. CASE OpStep
  <2>1. StreamTypeOK'
    BY <1>5, <1>a, <1>b, AdvanceTyped, ScanTyped
    DEF OpStep, OpName, OpColon, OpFails, OpDone, OpElement, OpEqual,
        AfterElement
  <2>2. pc' \in Labels \cup Ended
    BY <1>5, <1>a
    DEF Labels, Ended, At, Returned, OpStep, OpName, OpColon, OpFails, OpDone,
        OpElement, OpEqual, AfterElement
  <2>3. reported' \in BOOLEAN
    BY <1>5, <1>a, Zenon
    DEF OpStep, OpName, OpColon, OpFails, OpDone, OpElement, OpEqual,
        AfterElement
  <2> QED BY <2>1, <2>2, <2>3 DEF ControlTyped
<1>6. CASE DagStep
  <2>1. StreamTypeOK'
    BY <1>6, <1>a, <1>b, AdvanceTyped, ScanTyped
    DEF DagStep, DagOpen, DagOperator, DagDone, OperandType, ScannedType,
        TypeNext, AnyTypeFails, TemplateType, TemplateClose, CArgType,
        CArgValue, OperandColon, OperandName, AddOperand
  <2>2. pc' \in Labels \cup Ended
    BY <1>6, <1>a
    DEF Labels, Ended, At, Returned, DagStep, DagOpen, DagOperator, DagDone,
        OperandType, ScannedType, TypeNext, AnyTypeFails, TemplateType,
        TemplateClose, CArgType, CArgValue, OperandColon, OperandName,
        AddOperand
  <2>3. reported' \in BOOLEAN
    BY <1>6, <1>a, Zenon
    DEF DagStep, DagOpen, DagOperator, DagDone, OperandType, ScannedType,
        TypeNext, AnyTypeFails, TemplateType, TemplateClose, CArgType,
        CArgValue, OperandColon, OperandName, AddOperand
  <2> QED BY <2>1, <2>2, <2>3 DEF ControlTyped
<1>7. CASE BuilderStep
  <2>1. StreamTypeOK'
    BY <1>7, <1>a, <1>b, AdvanceTyped, ScanTyped
    DEF BuilderStep, BuildersEqual, BuildersOpen, OpBuilder, BuilderAngle,
        BuilderFails, BuilderCode, AddBuilder, BuilderComma, BuildersDone
  <2>2. pc' \in Labels \cup Ended
    BY <1>7, <1>a
    DEF Labels, Ended, At, Returned, BuilderStep, BuildersEqual, BuildersOpen,
        OpBuilder, BuilderAngle, BuilderFails, BuilderCode, AddBuilder,
        BuilderComma, BuildersDone
  <2>3. reported' \in BOOLEAN
    BY <1>7, <1>a, Zenon
    DEF BuilderStep, BuildersEqual, BuildersOpen, OpBuilder, BuilderAngle,
        BuilderFails, BuilderCode, AddBuilder, BuilderComma, BuildersDone
  <2> QED BY <2>1, <2>2, <2>3 DEF ControlTyped
<1>8. CASE Overrun
  <2>1. StreamTypeOK'
    BY <1>8, <1>a, <1>b, AdvanceTyped, ScanTyped
    DEF Overrun
  <2>2. pc' \in Labels \cup Ended
    BY <1>8, <1>a
    DEF Labels, Ended, At, Returned, Overrun
  <2>3. reported' \in BOOLEAN
    BY <1>8, <1>a, Zenon
    DEF Overrun
  <2> QED BY <2>1, <2>2, <2>3 DEF ControlTyped
<1> QED BY <1>1, <1>2, <1>3, <1>4, <1>5, <1>6, <1>7, <1>8 DEF Step
-----------------------------------------------------------------------------
(* Data: the tree, the tables and the local variables.                      *)

DataTyped ==
  /\ tree \in Modules /\ module \in Modules /\ custom \subseteq Spellings
  /\ local \in Locals
  /\ allocated \in [Classes -> Nat] /\ redeclared \subseteq {"dialect", "dag"}

LEMMA BlankTyped ==
  /\ NoRule \in Rules /\ NoAlternative \in Alternatives /\ NoDialect \in Dialects
  /\ NoOp \in Ops /\ NoDag \in Dags /\ NoOperand \in Operands /\ NoModule \in Modules
  /\ <<>> \in Seq(Alternatives) /\ <<>> \in Seq(BuilderRefs)
BY DEF NoRule, NoAlternative, NoDialect, NoOp, NoDag, NoOperand, NoModule,
       Rules, Alternatives, Dialects, Ops, Dags, Operands, Modules, Names

LEMMA ContentTyped == Content \in Names
BY DEF Content, Names

LEMMA DataUnchanged == ASSUME DataTyped, UNCHANGED data PROVE DataTyped'
BY DEF DataTyped, data, shared, heap

LEMMA SharedUnchanged ==
  ASSUME DataTyped, UNCHANGED shared, local' \in Locals PROVE DataTyped'
BY DEF DataTyped, shared, heap

LEMMA NewTyped ==
  ASSUME NEW class \in Classes, allocated \in [Classes -> Nat], New(class)
  PROVE  allocated' \in [Classes -> Nat]
BY DEF New

LEMMA RuleNameTyped == ASSUME DataTyped, RuleName PROVE DataTyped'
<1>1. [name |-> Content, alternatives |-> <<>>] \in Rules
  BY ContentTyped DEF Rules
<1>2. local' \in Locals
  BY <1>1, BlankTyped DEF DataTyped, RuleName, Locals
<1> QED BY <1>2, NewTyped DEF DataTyped, RuleName, Classes

LEMMA PushRuleTyped ==
  ASSUME NEW alternatives \in Seq(Alternatives), DataTyped, PushRule(alternatives)
  PROVE  DataTyped'
<1>1. [local.rule EXCEPT !.alternatives = alternatives] \in Rules
  BY DEF DataTyped, Locals, Rules
<1>2. Append(tree.rules, [local.rule EXCEPT !.alternatives = alternatives]) \in Seq(Rules)
  BY <1>1, AppendProperties DEF DataTyped, Modules
<1>3. tree' \in Modules
  BY <1>2 DEF PushRule, DataTyped, Modules
<1>4. local' \in Locals
  BY BlankTyped DEF DataTyped, PushRule, Locals
<1> QED BY <1>3, <1>4 DEF DataTyped, PushRule, heap

LEMMA AddElementTyped ==
  ASSUME NEW kind \in {"rule", "terminator", "pbexpression"},
         StreamTypeOK, DataTyped, AddElement(kind)
  PROVE  Spelling \in Spellings /\ local' \in Locals /\ allocated' \in [Classes -> Nat]
<1>1. Spelling \in Spellings
  BY DEF Spelling, Spellings, StreamTypeOK, Tokens
<1>2. [kind |-> kind, name |-> Spelling] \in Elements
  BY <1>1 DEF Elements
<1>3. Append(local.alternative.elements, [kind |-> kind, name |-> Spelling]) \in Seq(Elements)
  BY <1>2, AppendProperties DEF DataTyped, Locals, Alternatives
<1>4. local' \in Locals
  BY <1>3 DEF AddElement, DataTyped, Locals, Alternatives
<1> QED BY <1>1, <1>4, NewTyped DEF AddElement, DataTyped, Classes

LEMMA OpDoneTyped == ASSUME DataTyped, OpDone PROVE DataTyped'
<1>1. Append(tree.ops, local.op) \in Seq(Ops)
  BY AppendProperties DEF DataTyped, Modules, Locals
<1>2. tree' \in Modules
  BY <1>1 DEF DataTyped, OpDone, Modules
<1>3. local' \in Locals
  BY BlankTyped DEF DataTyped, OpDone, Locals
<1> QED BY <1>2, <1>3, NewTyped DEF DataTyped, OpDone, Classes

LEMMA DagDoneTyped == ASSUME DataTyped, DagDone PROVE DataTyped'
<1>1. CASE local.target = "builder"
  <2>1. local' \in Locals
    BY <1>1, BlankTyped DEF DataTyped, DagDone, Locals
  <2> QED BY <1>1, <2>1, NewTyped DEF DataTyped, DagDone, Classes
<1>2. CASE local.target # "builder"
  <2>1. local.target \in {"arguments", "results"}
    BY <1>2 DEF DataTyped, Locals
  <2>2. [local.op EXCEPT ![local.target] = local.dag] \in Ops
    BY <2>1 DEF DataTyped, Locals, Ops
  <2>3. local' \in Locals
    BY <1>2, <2>2, BlankTyped DEF DataTyped, DagDone, Locals
  <2>4. redeclared' \subseteq {"dialect", "dag"}
    BY <1>2 DEF DataTyped, DagDone, Overwrite
  <2> QED BY <2>3, <2>4, NewTyped DEF DataTyped, DagDone, Classes
<1> QED BY <1>1, <1>2

LEMMA DialectEqualTyped == ASSUME DataTyped, DialectEqual PROVE DataTyped'
<1>1. PICK content \in {Empty, Text} : local' = [local EXCEPT !.fields[local.attr] = content]
  BY DEF DialectEqual
<1>2. [local.fields EXCEPT ![local.attr] = content] \in Dialects
  BY DEF DataTyped, Locals, Dialects, Names
<1>3. local' \in Locals
  BY <1>1, <1>2 DEF DataTyped, Locals
<1> QED BY <1>3, SharedUnchanged DEF DialectEqual

LEMMA AddOperandTyped == ASSUME DataTyped, AddOperand PROVE DataTyped'
<1>1. Append(local.dag.operands, local.operand) \in Seq(Operands)
  BY AppendProperties DEF DataTyped, Locals, Dags
<1>2. local' \in Locals
  BY <1>1, BlankTyped DEF DataTyped, AddOperand, Locals, Dags
<1> QED BY <1>2, SharedUnchanged DEF AddOperand

LEMMA DataStep == ASSUME StreamTypeOK, DataTyped, Step PROVE DataTyped'
<1> USE DataUnchanged, SharedUnchanged, BlankTyped, ContentTyped
<1>1. CASE EngineStep
  <2>1. ActOnModule => DataTyped'
    BY DEF ActOnModule, DataTyped, heap
  <2> QED BY <1>1, <2>1
      DEF EngineStep, Construct, RuleKeyword, DialectKeyword, OpKeyword, EndOfText,
          OtherToken, NameMissing
<1>2. CASE RuleStep
  <2>1. CASE RuleName BY <2>1, RuleNameTyped
  <2>2. CASE RuleColonMissing BY <2>2, PushRuleTyped DEF RuleColonMissing
  <2>3. CASE OpenAlternative
    <3>1. local' \in Locals BY <2>3 DEF OpenAlternative, DataTyped, Locals
    <3> QED BY <2>3, <3>1, NewTyped DEF OpenAlternative, DataTyped, Classes
  <2>4. CASE CloseAlternative
    <3>1. Append(local.alternatives, local.alternative) \in Seq(Alternatives)
      BY AppendProperties DEF DataTyped, Locals
    <3>2. local' \in Locals BY <2>4, <3>1 DEF CloseAlternative, DataTyped, Locals
    <3> QED BY <2>4, <3>2 DEF CloseAlternative
  <2>5. CASE AlternativeUnfinished BY <2>5, PushRuleTyped DEF AlternativeUnfinished
  <2>6. CASE FillRule
    <3>1. local.alternatives \in Seq(Alternatives) BY DEF DataTyped, Locals
    <3> QED BY <2>6, <3>1, PushRuleTyped DEF FillRule
  <2>7. CASE RuleSemi BY <2>7 DEF RuleSemi
  <2> QED BY <1>2, <2>1, <2>2, <2>3, <2>4, <2>5, <2>6, <2>7 DEF RuleStep
<1>3. CASE GeneratorStep
  <2>1. CASE Identifier
    BY <2>1, AddElementTyped DEF Identifier, AddElement, DataTyped
  <2>2. CASE PBExpression
    BY <2>2, AddElementTyped DEF PBExpression, AddElement, DataTyped
  <2>3. CASE Quoted
    BY <2>3, AddElementTyped DEF Quoted, AddElement, DataTyped
  <2>4. CASE Brace
    <3>1. local' \in Locals BY <2>4 DEF Brace, DataTyped, Locals
    <3> QED BY <2>4, <3>1 DEF Brace
  <2>5. CASE BuilderRef
    <3>1. Append(local.refs, token.text) \in Seq(BuilderRefs)
      BY <2>5, AppendProperties DEF BuilderRef, DataTyped, Locals
    <3>2. local' \in Locals BY <2>5, <3>1 DEF BuilderRef, DataTyped, Locals
    <3> QED BY <2>5, <3>2 DEF BuilderRef
  <2>6. CASE SetBuilders
    <3>1. [local.alternative EXCEPT !.builders = local.refs] \in Alternatives
      BY DEF DataTyped, Locals, Alternatives
    <3>2. local' \in Locals BY <2>6, <3>1 DEF SetBuilders, DataTyped, Locals
    <3> QED BY <2>6, <3>2 DEF SetBuilders
  <2> QED BY <1>3, <2>1, <2>2, <2>3, <2>4, <2>5, <2>6
      DEF GeneratorStep, OpenQuoteOrBrace, QuoteEnd, RefsEqual, BadBuilderRef, RefsComma
<1>4. CASE DialectStep
  <2>1. CASE DialectName
    <3>1. [NoDialect EXCEPT !.defName = Content] \in Dialects
      BY DEF NoDialect, Dialects
    <3>2. local' \in Locals BY <2>1, <3>1 DEF DialectName, DataTyped, Locals
    <3>3. tree' \in Modules BY <2>1 DEF DialectName, DataTyped, Modules
    <3> QED BY <2>1, <3>2, <3>3, NewTyped DEF DialectName, Overwrite, DataTyped, Classes
  <2>2. CASE DialectAttr
    <3>1. local' \in Locals BY <2>2 DEF DialectAttr, DataTyped, Locals
    <3> QED BY <2>2, <3>1 DEF DialectAttr
  <2>3. CASE DialectEqual BY <2>3, DialectEqualTyped
  <2>4. CASE DialectDone
    <3>1. local' \in Locals BY <2>4 DEF DialectDone, DataTyped, Locals
    <3>2. tree' \in Modules BY <2>4 DEF DialectDone, DataTyped, Modules, Locals
    <3> QED BY <2>4, <3>1, <3>2 DEF DialectDone, DataTyped, heap
  <2> QED BY <1>4, <2>1, <2>2, <2>3, <2>4 DEF DialectStep, DialectColon, DialectNext
<1>5. CASE OpStep
  <2>1. CASE OpName
    <3>1. [NoOp EXCEPT !.name = Content] \in Ops BY DEF NoOp, Ops
    <3>2. local' \in Locals BY <2>1, <3>1 DEF OpName, DataTyped, Locals
    <3> QED BY <2>1, <3>2 DEF OpName
  <2>2. CASE OpDone BY <2>2, OpDoneTyped
  <2>3. CASE OpElement
    <3>1. local' \in Locals BY <2>3 DEF OpElement, DataTyped, Locals
    <3> QED BY <2>3, <3>1 DEF OpElement
  <2>4. CASE OpEqual
    <3>1. local' \in Locals BY <2>4 DEF OpEqual, DataTyped, Locals
    <3> QED BY <2>4, <3>1 DEF OpEqual
  <2>5. CASE OpFails BY <2>5 DEF OpFails, ActOnModule, DataTyped, heap
  <2> QED BY <1>5, <2>1, <2>2, <2>3, <2>4, <2>5 DEF OpStep, OpColon, AfterElement
<1>6. CASE DagStep
  <2>1. CASE DagOperator
    <3>1. local' \in Locals BY <2>1 DEF DagOperator, DataTyped, Locals, Dags
    <3> QED BY <2>1, <3>1 DEF DagOperator
  <2>2. CASE DagDone BY <2>2, DagDoneTyped
  <2>3. ASSUME NEW type \in Names, SetOperand(type) PROVE DataTyped'
    <3>1. local' \in Locals BY <2>3 DEF SetOperand, DataTyped, Locals, Operands
    <3> QED BY <2>3, <3>1 DEF SetOperand
  <2>4. CASE OperandType \/ ScannedType \/ CArgType
    BY <2>3, <2>4 DEF OperandType, ScannedType, CArgType, Names
  <2>5. CASE AnyTypeFails
    <3>1. local' \in Locals BY <2>5 DEF AnyTypeFails, DataTyped, Locals
    <3> QED BY <2>5, <3>1 DEF AnyTypeFails
  <2>6. CASE OperandName
    <3>1. local' \in Locals BY <2>6 DEF OperandName, DataTyped, Locals, Operands
    <3> QED BY <2>6, <3>1 DEF OperandName
  <2>7. CASE AddOperand BY <2>7, AddOperandTyped
  <2> QED BY <1>6, <2>1, <2>2, <2>4, <2>5, <2>6, <2>7
      DEF DagStep, DagOpen, TypeNext, TemplateType, TemplateClose, CArgValue, OperandColon
<1>7. CASE BuilderStep
  <2>1. CASE OpBuilder \/ BuilderAngle
    <3>1. local' \in Locals BY <2>1 DEF OpBuilder, BuilderAngle, DataTyped, Locals
    <3> QED BY <2>1, <3>1 DEF OpBuilder, BuilderAngle
  <2>2. CASE AddBuilder
    <3>1. Append(local.op.builders, local.builderDag) \in Seq(Dags \cup {NULL})
      BY AppendProperties DEF DataTyped, Locals, Ops
    <3>2. local' \in Locals BY <2>2, <3>1 DEF AddBuilder, DataTyped, Locals, Ops
    <3> QED BY <2>2, <3>2, NewTyped DEF AddBuilder, DataTyped, Classes
  <2> QED BY <1>7, <2>1, <2>2
      DEF BuilderStep, BuildersEqual, BuildersOpen, BuilderFails, BuilderCode,
          BuilderComma, BuildersDone
<1>8. CASE Overrun BY <1>8 DEF Overrun
<1> QED BY <1>1, <1>2, <1>3, <1>4, <1>5, <1>6, <1>7, <1>8 DEF Step

-----------------------------------------------------------------------------
(* The type invariant is inductive.                                         *)
LEMMA TypeStep == ASSUME TypeOK, [Next]_vars PROVE TypeOK'
<1>1. TypeOK <=> ControlTyped /\ DataTyped
  BY DEF TypeOK, ControlTyped, DataTyped
<1>2. TypeOK' <=> ControlTyped' /\ DataTyped'
  BY DEF TypeOK, ControlTyped, DataTyped
<1>3. ASSUME Step PROVE TypeOK'
  BY <1>1, <1>2, <1>3, ControlStep, DataStep DEF ControlTyped
<1>4. ASSUME UNCHANGED vars PROVE TypeOK'
  BY <1>2, <1>4, DataUnchanged, <1>1 DEF vars, stream, ControlTyped, StreamTypeOK
<1> QED BY <1>3, <1>4 DEF Next, Halted

(* The type invariant: every variable keeps the type its declaration gives  *)
(* it, for every vocabulary, every text and every length of it.             *)
THEOREM TypeCorrect == Spec => []TypeOK
<1>1. Init => TypeOK
  BY InitTyped
<1>2. TypeOK /\ [Next]_vars => TypeOK'
  BY TypeStep
<1> QED BY <1>1, <1>2, PTL DEF Spec
-----------------------------------------------------------------------------
(* Every step to "done" but EndOfText reports, so the invariant is         *)
(* inductive as it stands.                                                  *)
LEMMA WholeTextStep == ASSUME WholeTextParsed, [Next]_vars PROVE WholeTextParsed'
<1> USE DEF WholeTextParsed, Clean, Goto, Quiet, Report, Read, Stay, Fail, Expect, Consume,
            Optional, At, Kind
<1> SUFFICES ASSUME WholeTextParsed, [Next]_vars, pc' = "done", ~reported'
             PROVE  token'.kind = "eof" /\ module' = tree'
  OBVIOUS
<1>1. CASE EngineStep
  BY <1>1 DEF EngineStep, Construct, RuleKeyword, DialectKeyword, OpKeyword, EndOfText,
     OtherToken, NameMissing, ActOnModule, stream
<1>2. CASE RuleStep
  BY <1>2 DEF RuleStep, RuleName, RuleSemi, RuleColonMissing, OpenAlternative,
     CloseAlternative, AlternativeUnfinished, FillRule
<1>3. CASE GeneratorStep
  BY <1>3 DEF GeneratorStep, Identifier, PBExpression, OpenQuoteOrBrace, Quoted, QuoteEnd,
     Brace, RefsEqual, BuilderRef, BadBuilderRef, RefsComma, SetBuilders
<1>4. CASE DialectStep
  BY <1>4 DEF DialectStep, DialectName, DialectColon, DialectAttr, DialectEqual,
     DialectNext, DialectDone
<1>5. CASE OpStep
  BY <1>5 DEF OpStep, OpName, OpColon, OpFails, OpDone, OpElement, OpEqual, AfterElement
<1>6. CASE DagStep
  BY <1>6 DEF DagStep, DagOpen, DagOperator, DagDone, OperandType, ScannedType, TypeNext,
     AnyTypeFails, TemplateType, TemplateClose, CArgType, CArgValue, OperandColon,
     OperandName, AddOperand, Returned
<1>7. CASE BuilderStep
  BY <1>7 DEF BuilderStep, BuildersEqual, BuildersOpen, OpBuilder, BuilderAngle,
     BuilderFails, BuilderCode, AddBuilder, BuilderComma, BuildersDone
<1>8. CASE Overrun
  BY <1>8 DEF Overrun
<1>9. CASE UNCHANGED vars
  BY <1>9 DEF vars, stream, data, shared
<1> QED
  BY <1>1, <1>2, <1>3, <1>4, <1>5, <1>6, <1>7, <1>8, <1>9 DEF Next, Step, Halted

(* A run without a diagnostic has parsed the whole text and hands over all  *)
(* of it.                                                                   *)
THEOREM SilentRunsParseAll == Spec => []WholeTextParsed
<1>1. Init => WholeTextParsed
  BY DEF Init, WholeTextParsed, Clean
<1>2. WholeTextParsed /\ [Next]_vars => WholeTextParsed'
  BY WholeTextStep
<1> QED BY <1>1, <1>2, PTL DEF Spec
-----------------------------------------------------------------------------
(* What is shared by the invariants below: a diagnostic is never taken back,*)
(* so a run without one has had none at any earlier point.                  *)
LEMMA ReportStays == ASSUME [Next]_vars, ~reported' PROVE ~reported
<1> USE DEF Goto, Quiet, Report, Read, Stay, Fail, Expect, Consume, Optional, At, Kind
<1>1. CASE EngineStep
  BY <1>1, Zenon
  DEF EngineStep, Construct, RuleKeyword, DialectKeyword, OpKeyword, EndOfText,
      OtherToken, NameMissing
<1>2. CASE RuleStep
  BY <1>2, Zenon
  DEF RuleStep, RuleName, RuleSemi, RuleColonMissing, OpenAlternative, CloseAlternative,
      AlternativeUnfinished, FillRule
<1>3. CASE GeneratorStep
  BY <1>3, Zenon
  DEF GeneratorStep, Identifier, PBExpression, OpenQuoteOrBrace, Quoted, QuoteEnd,
      Brace, RefsEqual, BuilderRef, BadBuilderRef, RefsComma, SetBuilders, AddElement
<1>4. CASE DialectStep
  BY <1>4, Zenon
  DEF DialectStep, DialectName, DialectColon, DialectAttr, DialectEqual, DialectNext,
      DialectDone
<1>5. CASE OpStep
  BY <1>5, Zenon
  DEF OpStep, OpName, OpColon, OpFails, OpDone, OpElement, OpEqual, AfterElement
<1>6. CASE DagStep
  BY <1>6, Zenon
  DEF DagStep, DagOpen, DagOperator, DagDone, OperandType, ScannedType, TypeNext,
      AnyTypeFails, TemplateType, TemplateClose, CArgType, CArgValue, OperandColon,
      OperandName, AddOperand
<1>7. CASE BuilderStep
  BY <1>7, Zenon
  DEF BuilderStep, BuildersEqual, BuildersOpen, OpBuilder, BuilderAngle, BuilderFails,
      BuilderCode, AddBuilder, BuilderComma, BuildersDone
<1>8. CASE Overrun
  BY <1>8, Zenon
  DEF Overrun
<1>9. CASE UNCHANGED vars
  BY <1>9 DEF vars
<1> QED
  BY <1>1, <1>2, <1>3, <1>4, <1>5, <1>6, <1>7, <1>8, <1>9 DEF Next, Step, Halted

-----------------------------------------------------------------------------
(* No rule is empty.  As long as nothing is reported the rules pushed are   *)
(* filled, and parserRules gets to its end with an alternative in hand.     *)
FilledSoFar ==
  ~reported => /\ \A i \in DOMAIN tree.rules : tree.rules[i].alternatives # <<>>
               /\ pc = "ruleAlternative" => local.alternatives # <<>>

LEMMA FilledStep ==
  ASSUME TypeOK, FilledSoFar, [Next]_vars PROVE FilledSoFar'
<1> SUFFICES ASSUME ~reported'
             PROVE  /\ \A i \in DOMAIN tree'.rules : tree'.rules[i].alternatives # <<>>
                    /\ pc' = "ruleAlternative" => local'.alternatives # <<>>
  BY DEF FilledSoFar
<1>a. /\ \A i \in DOMAIN tree.rules : tree.rules[i].alternatives # <<>>
      /\ pc = "ruleAlternative" => local.alternatives # <<>>
  BY ReportStays DEF FilledSoFar
<1>b. tree \in Modules /\ local \in Locals
  BY DEF TypeOK
<1> USE DEF Goto, Quiet, Report, Read, Stay, Fail, Expect, Consume, Optional, At, Kind
<1>1. CASE FillRule
  <2> DEFINE rule == [local.rule EXCEPT !.alternatives = local.alternatives]
  <2>1. rule.alternatives # <<>> /\ rule \in Rules
    BY <1>1, <1>a, <1>b DEF FillRule, Locals, Rules
  <2>2. tree'.rules = Append(tree.rules, rule) /\ pc' # "ruleAlternative"
    BY <1>1, <1>b DEF FillRule, PushRule, Modules
  <2>3. tree.rules \in Seq(Rules)
    BY <1>b DEF Modules
  <2> HIDE DEF rule
  <2> QED BY <2>1, <2>2, <2>3, <1>a
<1>2. CASE CloseAlternative
  <2>1. local.alternatives \in Seq(Alternatives) /\ local.alternative \in Alternatives
    BY <1>b DEF Locals
  <2>2. Append(local.alternatives, local.alternative) # <<>>
    BY <2>1, AppendProperties
  <2>3. local'.alternatives = Append(local.alternatives, local.alternative)
    BY <1>2, <1>b DEF CloseAlternative, Locals
  <2> QED BY <1>2, <2>2, <2>3, <1>a DEF CloseAlternative, shared
<1>3. CASE EngineStep
  <2>1. tree'.rules = tree.rules /\ pc' # "ruleAlternative"
    BY <1>3, <1>b
    DEF EngineStep, Construct, RuleKeyword, DialectKeyword, OpKeyword, EndOfText,
        OtherToken, NameMissing, ActOnModule, data, shared
  <2> QED BY <2>1, <1>a
<1>4. CASE RuleStep /\ ~FillRule /\ ~CloseAlternative
  <2>1. tree'.rules = tree.rules /\ pc' # "ruleAlternative"
    BY <1>4, <1>b
    DEF RuleStep, RuleName, RuleSemi, RuleColonMissing, OpenAlternative,
        AlternativeUnfinished, data, shared
  <2> QED BY <2>1, <1>a
<1>5. CASE GeneratorStep
  <2>1. tree'.rules = tree.rules /\ pc' # "ruleAlternative"
    BY <1>5, <1>b
    DEF GeneratorStep, Identifier, PBExpression, OpenQuoteOrBrace, Quoted, QuoteEnd,
        Brace, RefsEqual, BuilderRef, BadBuilderRef, RefsComma, SetBuilders, data,
        shared, AddElement
  <2> QED BY <2>1, <1>a
<1>6. CASE DialectStep
  <2>1. tree'.rules = tree.rules /\ pc' # "ruleAlternative"
    BY <1>6, <1>b
    DEF DialectStep, DialectName, DialectColon, DialectAttr, DialectEqual, DialectNext,
        DialectDone, data, shared, Modules
  <2> QED BY <2>1, <1>a
<1>7. CASE OpStep
  <2>1. tree'.rules = tree.rules /\ pc' # "ruleAlternative"
    BY <1>7, <1>b
    DEF OpStep, OpName, OpColon, OpFails, OpDone, OpElement, OpEqual, AfterElement,
        data, shared, ActOnModule, Modules
  <2> QED BY <2>1, <1>a
<1>8. CASE DagStep
  <2>1. tree'.rules = tree.rules /\ pc' # "ruleAlternative"
    BY <1>8, <1>b
    DEF DagStep, DagOpen, DagOperator, DagDone, OperandType, ScannedType, TypeNext,
        AnyTypeFails, TemplateType, TemplateClose, CArgType, CArgValue, OperandColon,
        OperandName, AddOperand, data, shared, SetOperand, Returned
  <2> QED BY <2>1, <1>a
<1>9. CASE BuilderStep
  <2>1. tree'.rules = tree.rules /\ pc' # "ruleAlternative"
    BY <1>9, <1>b
    DEF BuilderStep, BuildersEqual, BuildersOpen, OpBuilder, BuilderAngle, BuilderFails,
        BuilderCode, AddBuilder, BuilderComma, BuildersDone, data, shared
  <2> QED BY <2>1, <1>a
<1>10. CASE Overrun
  <2>1. tree'.rules = tree.rules /\ pc' # "ruleAlternative"
    BY <1>10, <1>b
    DEF Overrun, data, shared
  <2> QED BY <2>1, <1>a
<1>11. CASE UNCHANGED vars
  BY <1>11, <1>a DEF vars, data, shared
<1> QED
  BY <1>1, <1>2, <1>3, <1>4, <1>5, <1>6, <1>7, <1>8, <1>9, <1>10, <1>11 DEF Next, Step, Halted

(* No rule of a clean module is without alternatives.                       *)
THEOREM NoEmptyRule == Spec => []RulesFilled
<1>1. Init => FilledSoFar
  BY DEF Init, FilledSoFar, NoModule
<1>2. TypeOK /\ FilledSoFar /\ [Next]_vars => FilledSoFar'
  BY FilledStep
<1>3. FilledSoFar /\ WholeTextParsed => RulesFilled
  BY DEF FilledSoFar, WholeTextParsed, RulesFilled, Clean, ToSet
<1> QED BY <1>1, <1>2, <1>3, TypeCorrect, SilentRunsParseAll, PTL DEF Spec
-----------------------------------------------------------------------------
(* No builder without a dag.  As long as nothing is reported the builders   *)
(* stored have a dag, and so has the one being read once parserDAG is back. *)
LEMMA ToSetAppend ==
  ASSUME NEW S, NEW seq \in Seq(S), NEW elt \in S
  PROVE  ToSet(Append(seq, elt)) = ToSet(seq) \cup {elt}
<1>1. /\ Append(seq, elt) \in Seq(S) /\ Len(Append(seq, elt)) = Len(seq) + 1
      /\ \A i \in 1 .. Len(seq) : Append(seq, elt)[i] = seq[i]
      /\ Append(seq, elt)[Len(seq) + 1] = elt
  BY AppendProperties
<1>2. DOMAIN seq = 1 .. Len(seq) /\ Len(seq) \in Nat
  BY LenProperties
<1>3. DOMAIN Append(seq, elt) = 1 .. Len(seq) + 1
  BY <1>1, LenProperties
<1> QED BY <1>1, <1>2, <1>3 DEF ToSet

LEMMA ToSetEmpty == ToSet(<<>>) = {}
BY DEF ToSet

BuilderRead == {"afterBuilderDag", "builderCode", "afterCode", "builderClose"}

DagsSoFar ==
  ~reported => /\ \A i \in DOMAIN tree.ops : NULL \notin ToSet(tree.ops[i].builders)
               /\ NULL \notin ToSet(local.op.builders)
               /\ pc \in BuilderRead => local.builderDag # NULL

LEMMA DagsStep ==
  ASSUME TypeOK, DagsSoFar, [Next]_vars PROVE DagsSoFar'
<1> SUFFICES ASSUME ~reported'
             PROVE  /\ \A i \in DOMAIN tree'.ops : NULL \notin ToSet(tree'.ops[i].builders)
                    /\ NULL \notin ToSet(local'.op.builders)
                    /\ pc' \in BuilderRead => local'.builderDag # NULL
  BY DEF DagsSoFar
<1>a. /\ \A i \in DOMAIN tree.ops : NULL \notin ToSet(tree.ops[i].builders)
      /\ NULL \notin ToSet(local.op.builders)
      /\ pc \in BuilderRead => local.builderDag # NULL
  BY ReportStays DEF DagsSoFar
<1>b. tree \in Modules /\ local \in Locals
  BY DEF TypeOK
<1> USE DEF Goto, Quiet, Report, Read, Stay, Fail, Expect, Consume, Optional, At, Kind,
            BuilderRead
<1>1. CASE OpName
  <2>1. local'.op.builders = <<>>
    BY <1>1, <1>b DEF OpName, Locals, NoOp
  <2> QED BY <1>1, <2>1, <1>a, ToSetEmpty DEF OpName, shared
<1>2. CASE OpDone
  <2>1. local.op \in Ops /\ tree.ops \in Seq(Ops)
    BY <1>b DEF Modules, Locals
  <2>2. tree'.ops = Append(tree.ops, local.op)
    BY <1>2, <1>b DEF OpDone, Modules
  <2>3. \A i \in DOMAIN tree'.ops : NULL \notin ToSet(tree'.ops[i].builders)
    BY <2>1, <2>2, <1>a
  <2>4. local'.op.builders = <<>>
    BY <1>2, <1>b DEF OpDone, Locals, NoOp
  <2> QED BY <1>2, <2>3, <2>4, ToSetEmpty DEF OpDone
<1>3. CASE DagDone
  <2>1. local'.op.builders = local.op.builders
    <3>1. CASE local.target = "builder"
      BY <1>3, <1>b, <3>1 DEF DagDone, Locals
    <3>2. CASE local.target # "builder"
      <4>1. local.target \in {"arguments", "results"} /\ local.op \in Ops
        BY <1>b, <3>2 DEF Locals
      <4>2. local'.op = [local.op EXCEPT ![local.target] = local.dag]
        BY <1>3, <1>b, <3>2 DEF DagDone, Locals
      <4> QED BY <4>1, <4>2 DEF Ops
    <3> QED BY <3>1, <3>2
  <2>2. local.target = "builder" => local'.builderDag = local.dag
    BY <1>3, <1>b DEF DagDone, Locals
  <2>3. local.dag # NULL
    BY <1>b, NullAssumption DEF Locals
  <2> QED BY <1>3, <2>1, <2>2, <2>3, <1>a DEF DagDone, Returned
<1>4. CASE AddBuilder
  <2>1. local.op.builders \in Seq(Dags \cup {NULL}) /\ local.builderDag \in Dags
    BY <1>4, <1>a, <1>b DEF AddBuilder, Locals, Ops
  <2>2. local'.op.builders = Append(local.op.builders, local.builderDag)
    BY <1>4, <1>b DEF AddBuilder, Locals, Ops
  <2>3. ToSet(local'.op.builders) = ToSet(local.op.builders) \cup {local.builderDag}
    BY <2>1, <2>2, ToSetAppend
  <2> QED BY <1>4, <2>1, <2>3, <1>a, NullAssumption DEF AddBuilder
<1>5. CASE OpBuilder
  <2>1. local'.op.builders = local.op.builders
    BY <1>5, <1>b DEF OpBuilder, Locals
  <2> QED BY <1>5, <2>1, <1>a DEF OpBuilder, shared
<1>6. CASE EngineStep
  <2>1. /\ tree'.ops = tree.ops /\ local'.op.builders = local.op.builders
        /\ pc' \in BuilderRead => pc \in BuilderRead /\ local'.builderDag = local.builderDag
    BY <1>6, <1>b
    DEF EngineStep, Construct, RuleKeyword, DialectKeyword, OpKeyword, EndOfText,
        OtherToken, NameMissing, ActOnModule, data, shared
  <2> QED BY <2>1, <1>a
<1>7. CASE RuleStep
  <2>1. /\ tree'.ops = tree.ops /\ local'.op.builders = local.op.builders
        /\ pc' \in BuilderRead => pc \in BuilderRead /\ local'.builderDag = local.builderDag
    BY <1>7, <1>b
    DEF RuleStep, RuleName, RuleSemi, RuleColonMissing, OpenAlternative,
        CloseAlternative, AlternativeUnfinished, FillRule, PushRule, data, shared,
        Modules, Locals
  <2> QED BY <2>1, <1>a
<1>8. CASE GeneratorStep
  <2>1. /\ tree'.ops = tree.ops /\ local'.op.builders = local.op.builders
        /\ pc' \in BuilderRead => pc \in BuilderRead /\ local'.builderDag = local.builderDag
    BY <1>8, <1>b
    DEF GeneratorStep, Identifier, PBExpression, OpenQuoteOrBrace, Quoted, QuoteEnd,
        Brace, RefsEqual, BuilderRef, BadBuilderRef, RefsComma, SetBuilders, data,
        shared, AddElement, Locals
  <2> QED BY <2>1, <1>a
<1>9. CASE DialectStep
  <2>1. /\ tree'.ops = tree.ops /\ local'.op.builders = local.op.builders
        /\ pc' \in BuilderRead => pc \in BuilderRead /\ local'.builderDag = local.builderDag
    BY <1>9, <1>b
    DEF DialectStep, DialectName, DialectColon, DialectAttr, DialectEqual, DialectNext,
        DialectDone, data, shared, Modules, Locals
  <2> QED BY <2>1, <1>a
<1>10. CASE OpStep /\ ~OpName /\ ~OpDone
  <2>1. /\ tree'.ops = tree.ops /\ local'.op.builders = local.op.builders
        /\ pc' \in BuilderRead => pc \in BuilderRead /\ local'.builderDag = local.builderDag
    BY <1>10, <1>b
    DEF OpStep, OpColon, OpFails, OpElement, OpEqual, AfterElement, data, shared,
        ActOnModule, Locals
  <2> QED BY <2>1, <1>a
<1>11. CASE DagStep /\ ~DagDone
  <2>1. /\ tree'.ops = tree.ops /\ local'.op.builders = local.op.builders
        /\ pc' \in BuilderRead => pc \in BuilderRead /\ local'.builderDag = local.builderDag
    BY <1>11, <1>b
    DEF DagStep, DagOpen, DagOperator, OperandType, ScannedType, TypeNext, AnyTypeFails,
        TemplateType, TemplateClose, CArgType, CArgValue, OperandColon, OperandName,
        AddOperand, data, shared, SetOperand, Returned, Locals
  <2> QED BY <2>1, <1>a
<1>12. CASE BuilderStep /\ ~AddBuilder /\ ~OpBuilder
  <2>1. /\ tree'.ops = tree.ops /\ local'.op.builders = local.op.builders
        /\ pc' \in BuilderRead => pc \in BuilderRead /\ local'.builderDag = local.builderDag
    BY <1>12, <1>b
    DEF BuilderStep, BuildersEqual, BuildersOpen, BuilderAngle, BuilderFails,
        BuilderCode, BuilderComma, BuildersDone, data, shared, Locals
  <2> QED BY <2>1, <1>a
<1>13. CASE Overrun
  <2>1. /\ tree'.ops = tree.ops /\ local'.op.builders = local.op.builders
        /\ pc' \in BuilderRead => pc \in BuilderRead /\ local'.builderDag = local.builderDag
    BY <1>13, <1>b
    DEF Overrun, data, shared
  <2> QED BY <2>1, <1>a
<1>14. CASE UNCHANGED vars
  BY <1>14, <1>a DEF vars, data, shared
<1> QED
  BY <1>1, <1>2, <1>3, <1>4, <1>5, <1>6, <1>7, <1>8, <1>9, <1>10, <1>11, <1>12, <1>13, <1>14
  DEF Next, Step, Halted

(* Every builder of a clean module has a dag.                               *)
THEOREM NoBuilderWithoutDag == Spec => []BuilderDagsPresent
<1>1. Init => DagsSoFar
  BY ToSetEmpty DEF Init, DagsSoFar, NoModule, NoOp, BuilderRead
<1>2. TypeOK /\ DagsSoFar /\ [Next]_vars => DagsSoFar'
  BY DagsStep
<1>3. DagsSoFar /\ WholeTextParsed => BuilderDagsPresent
  BY DEF DagsSoFar, WholeTextParsed, BuilderDagsPresent, Clean, ToSet
<1> QED BY <1>1, <1>2, <1>3, TypeCorrect, SilentRunsParseAll, PTL DEF Spec
-----------------------------------------------------------------------------
(* No text of an older token.  The texts a parser without a diagnostic may  *)
(* store are those below.  A stale text is only read at the end of the text *)
(* or at an unknown character, where the token stays for ever: no token     *)
(* that would store the node comes any more.                                *)
FreshNames == {Text, Empty}
FreshElements == [kind : {"rule", "terminator", "pbexpression"}, name : Texts \cup {Uninit}]
FreshAlternatives == [elements : Seq(FreshElements), builders : Seq(BuilderRefs)]
FreshRules == [name : FreshNames, alternatives : Seq(FreshAlternatives)]
FreshOperands == [type : FreshNames, name : FreshNames]
FreshDags == [operator : FreshNames, operands : Seq(FreshOperands)]
FreshOps == [name : FreshNames, arguments : FreshDags \cup {NULL},
             results : FreshDags \cup {NULL}, builders : Seq(FreshDags \cup {NULL})]
FreshModules == [rules : Seq(FreshRules), dialect : Dialects \cup {NULL}, ops : Seq(FreshOps)]
FreshLocals == [rule : FreshRules, alternatives : Seq(FreshAlternatives),
                alternative : FreshAlternatives, refs : Seq(BuilderRefs),
                fields : Dialects, attr : {"name", "cppNamespace"},
                op : FreshOps, target : {"arguments", "results", "builder"},
                dag : FreshDags, operand : FreshOperands,
                builderDag : FreshDags \cup {NULL}]

EndIsSticky == pc # "construct" /\ AtEnd => ahead \in Ends

StaleSoFar ==
  ~reported => /\ tree \in FreshModules
               /\ local \in FreshLocals \/ (pc # "construct" /\ AtEnd)

StreamMove ==
  \/ Advance
  \/ /\ pc # "construct"
     /\ \/ UNCHANGED stream
        \/ NoMark("\"") \/ Marked("\"") \/ NoMark("[") \/ Marked("[")
        \/ EndFound /\ ~AtEnd

LEMMA StreamMoves == ASSUME Step PROVE StreamMove /\ pc' # "construct"
<1> USE DEF Goto, Quiet, Report, Read, Stay, Fail, Expect, Consume, Optional, At, Kind,
            StreamMove
<1>1. CASE EngineStep
  BY <1>1
  DEF EngineStep, Construct, RuleKeyword, DialectKeyword, OpKeyword, EndOfText,
      OtherToken, NameMissing
<1>2. CASE RuleStep
  BY <1>2
  DEF RuleStep, RuleName, RuleSemi, RuleColonMissing, OpenAlternative, CloseAlternative,
      AlternativeUnfinished, FillRule
<1>3. CASE GeneratorStep
  BY <1>3
  DEF GeneratorStep, Identifier, PBExpression, OpenQuoteOrBrace, Quoted, QuoteEnd,
      Brace, RefsEqual, BuilderRef, BadBuilderRef, RefsComma, SetBuilders, AddElement
<1>4. CASE DialectStep
  BY <1>4
  DEF DialectStep, DialectName, DialectColon, DialectAttr, DialectEqual, DialectNext,
      DialectDone
<1>5. CASE OpStep
  BY <1>5
  DEF OpStep, OpName, OpColon, OpFails, OpDone, OpElement, OpEqual, AfterElement
<1>6. CASE DagStep
  BY <1>6
  DEF DagStep, DagOpen, DagOperator, DagDone, OperandType, ScannedType, TypeNext,
      AnyTypeFails, TemplateType, TemplateClose, CArgType, CArgValue, OperandColon,
      OperandName, AddOperand, Returned, AtEnd, Ends
<1>7. CASE BuilderStep
  BY <1>7
  DEF BuilderStep, BuildersEqual, BuildersOpen, OpBuilder, BuilderAngle, BuilderFails,
      BuilderCode, AddBuilder, BuilderComma, BuildersDone
<1>8. CASE Overrun
  BY <1>8
  DEF Overrun
<1> QED
  BY <1>1, <1>2, <1>3, <1>4, <1>5, <1>6, <1>7, <1>8 DEF Step

(* Once the token is at the end it stays there.                             *)
LEMMA EndStays ==
  ASSUME EndIsSticky, pc # "construct", AtEnd, StreamMove PROVE AtEnd' /\ ahead' \in Ends
<1>1. ahead \in Ends /\ Upcoming = {ahead}
  BY LexemeAssumption DEF EndIsSticky, Upcoming
<1>2. CASE Advance
  BY <1>1, <1>2 DEF Advance, AtEnd, Ends
<1>3. CASE UNCHANGED stream
  BY <1>1, <1>3 DEF stream, AtEnd
<1>4. CASE NoMark("\"") \/ NoMark("[")
  BY <1>1, <1>4 DEF NoMark, AtEnd
<1>5. CASE Marked("\"") \/ Marked("[")
  BY <1>1, <1>5 DEF Marked, Ends
<1> QED BY <1>2, <1>3, <1>4, <1>5 DEF StreamMove

LEMMA StickyStep == ASSUME EndIsSticky, [Next]_vars PROVE EndIsSticky'
<1>1. CASE Advance
  BY <1>1 DEF Advance, AtEnd, Ends, KindOf, EndIsSticky
<1>2. CASE Step /\ ~Advance
  <2>1. pc # "construct" /\ StreamMove BY <1>2, StreamMoves DEF StreamMove
  <2>2. CASE AtEnd BY <2>1, <2>2, EndStays DEF EndIsSticky
  <2>3. CASE ~AtEnd
    BY <1>2, <2>1, <2>3 DEF StreamMove, NoMark, Marked, EndFound, stream, AtEnd, EndIsSticky
  <2> QED BY <2>2, <2>3
<1>3. CASE UNCHANGED vars
  BY <1>3 DEF vars, stream, EndIsSticky, AtEnd
<1> QED BY <1>1, <1>2, <1>3 DEF Next, Halted

LEMMA BlankFresh ==
  /\ NoRule \in FreshRules /\ NoAlternative \in FreshAlternatives
  /\ NoDialect \in Dialects /\ NoOp \in FreshOps /\ NoDag \in FreshDags
  /\ NoOperand \in FreshOperands /\ NoModule \in FreshModules
  /\ <<>> \in Seq(FreshAlternatives) /\ <<>> \in Seq(BuilderRefs)
BY DEF NoRule, NoAlternative, NoDialect, NoOp, NoDag, NoOperand, NoModule, FreshRules,
       FreshAlternatives, Dialects, FreshOps, FreshDags, FreshOperands, FreshModules,
       FreshNames, Names

LEMMA PushFresh ==
  ASSUME tree \in FreshModules, local \in FreshLocals,
         NEW alternatives \in Seq(FreshAlternatives), PushRule(alternatives)
  PROVE  tree' \in FreshModules /\ local' \in FreshLocals
<1>1. [local.rule EXCEPT !.alternatives = alternatives] \in FreshRules
  BY DEF FreshLocals, FreshRules
<1>2. Append(tree.rules, [local.rule EXCEPT !.alternatives = alternatives]) \in Seq(FreshRules)
  BY <1>1, AppendProperties DEF FreshModules
<1>3. tree' \in FreshModules
  BY <1>2 DEF PushRule, FreshModules
<1>4. local' \in FreshLocals
  BY BlankFresh DEF PushRule, FreshLocals
<1> QED BY <1>3, <1>4

LEMMA AddFresh ==
  ASSUME StreamTypeOK, local \in FreshLocals, ~AtEnd,
         NEW kind \in {"rule", "terminator", "pbexpression"}, AddElement(kind)
  PROVE  tree' = tree /\ local' \in FreshLocals
<1>1. [kind |-> kind, name |-> Spelling] \in FreshElements
  BY DEF Spelling, FreshElements, StreamTypeOK, Tokens
<1>2. Append(local.alternative.elements, [kind |-> kind, name |-> Spelling])
        \in Seq(FreshElements)
  BY <1>1, AppendProperties DEF FreshLocals, FreshAlternatives
<1>3. local' \in FreshLocals
  BY <1>2 DEF AddElement, FreshLocals, FreshAlternatives
<1> QED BY <1>3 DEF AddElement

(* Where the token is not at the end, what is stored is its own text.       *)
LEMMA FreshAction ==
  ASSUME TypeOK, tree \in FreshModules, local \in FreshLocals,
         pc = "construct" \/ ~AtEnd, Step
  PROVE  tree' \in FreshModules /\ local' \in FreshLocals
<1> USE BlankFresh
<1>a. pc # "construct" => ~AtEnd /\ Content \in FreshNames
  BY DEF Content, FreshNames
<1>b. StreamTypeOK
  BY DEF TypeOK
<1>c. UNCHANGED data => tree' = tree /\ local' = local
  BY DEF data, shared
<1>d. UNCHANGED shared => tree' = tree
  BY DEF shared
<1>1. CASE EngineStep
  BY <1>1, <1>c
  DEF EngineStep, Construct, RuleKeyword, DialectKeyword, OpKeyword, EndOfText, OtherToken,
      NameMissing, ActOnModule
<1>2. CASE RuleStep
  <2>1. CASE RuleName
    <3>1. [name |-> Content, alternatives |-> <<>>] \in FreshRules
      BY <2>1, <1>a DEF RuleName, At, FreshRules
    <3> QED BY <2>1, <3>1 DEF RuleName, FreshLocals
  <2>2. CASE RuleColonMissing BY <2>2, PushFresh DEF RuleColonMissing
  <2>3. CASE OpenAlternative BY <2>3 DEF OpenAlternative, FreshLocals
  <2>4. CASE CloseAlternative
    <3>1. Append(local.alternatives, local.alternative) \in Seq(FreshAlternatives)
      BY AppendProperties DEF FreshLocals
    <3> QED BY <2>4, <3>1, <1>d DEF CloseAlternative, FreshLocals
  <2>5. CASE AlternativeUnfinished BY <2>5, PushFresh DEF AlternativeUnfinished
  <2>6. CASE FillRule
    <3>1. local.alternatives \in Seq(FreshAlternatives) BY DEF FreshLocals
    <3> QED BY <2>6, <3>1, PushFresh DEF FillRule
  <2>7. CASE RuleSemi BY <2>7, <1>c DEF RuleSemi
  <2> QED BY <1>2, <2>1, <2>2, <2>3, <2>4, <2>5, <2>6, <2>7 DEF RuleStep
<1>3. CASE GeneratorStep
  <2>1. CASE Identifier BY <2>1, <1>a, <1>b, AddFresh DEF Identifier, At
  <2>2. CASE PBExpression BY <2>2, <1>a, <1>b, AddFresh DEF PBExpression, At
  <2>3. CASE Quoted BY <2>3, <1>a, <1>b, AddFresh DEF Quoted, At
  <2>4. CASE Brace BY <2>4, <1>d DEF Brace, FreshLocals
  <2>5. CASE BuilderRef
    <3>1. Append(local.refs, token.text) \in Seq(BuilderRefs)
      BY <2>5, AppendProperties DEF BuilderRef, FreshLocals
    <3> QED BY <2>5, <3>1, <1>d DEF BuilderRef, FreshLocals
  <2>6. CASE SetBuilders
    <3>1. [local.alternative EXCEPT !.builders = local.refs] \in FreshAlternatives
      BY DEF FreshLocals, FreshAlternatives
    <3> QED BY <2>6, <3>1, <1>d DEF SetBuilders, FreshLocals
  <2> QED BY <1>3, <1>c, <2>1, <2>2, <2>3, <2>4, <2>5, <2>6
      DEF GeneratorStep, OpenQuoteOrBrace, QuoteEnd, RefsEqual, BadBuilderRef, RefsComma
<1>4. CASE DialectStep
  <2>1. CASE DialectName
    <3>1. [NoDialect EXCEPT !.defName = Content] \in Dialects
      BY ContentTyped DEF NoDialect, Dialects
    <3> QED BY <2>1, <3>1 DEF DialectName, FreshLocals, FreshModules
  <2>2. CASE DialectAttr BY <2>2, <1>d DEF DialectAttr, FreshLocals
  <2>3. CASE DialectEqual
    <3>1. PICK content \in {Empty, Text} :
            local' = [local EXCEPT !.fields[local.attr] = content]
      BY <2>3 DEF DialectEqual
    <3>2. [local.fields EXCEPT ![local.attr] = content] \in Dialects
      BY DEF FreshLocals, Dialects, Names
    <3> QED BY <2>3, <3>1, <3>2, <1>d DEF DialectEqual, FreshLocals
  <2>4. CASE DialectDone
    BY <2>4 DEF DialectDone, FreshLocals, FreshModules
  <2> QED BY <1>4, <1>c, <2>1, <2>2, <2>3, <2>4 DEF DialectStep, DialectColon, DialectNext
<1>5. CASE OpStep
  <2>1. CASE OpName
    <3>1. [NoOp EXCEPT !.name = Content] \in FreshOps
      BY <2>1, <1>a DEF OpName, At, NoOp, FreshOps
    <3> QED BY <2>1, <3>1, <1>d DEF OpName, FreshLocals
  <2>2. CASE OpDone
    <3>1. Append(tree.ops, local.op) \in Seq(FreshOps)
      BY AppendProperties DEF FreshModules, FreshLocals
    <3>2. tree' \in FreshModules BY <2>2, <3>1 DEF OpDone, FreshModules
    <3> QED BY <2>2, <3>2 DEF OpDone, FreshLocals
  <2>3. CASE OpElement BY <2>3, <1>d DEF OpElement, FreshLocals
  <2>4. CASE OpEqual BY <2>4, <1>d DEF OpEqual, FreshLocals
  <2>5. CASE OpFails BY <2>5 DEF OpFails, ActOnModule
  <2> QED BY <1>5, <1>c, <2>1, <2>2, <2>3, <2>4, <2>5 DEF OpStep, OpColon, AfterElement
<1>6. CASE DagStep
  <2>1. CASE DagOperator
    BY <2>1, <1>a, <1>d DEF DagOperator, At, FreshLocals, FreshDags
  <2>2. CASE DagDone
    <3>1. CASE local.target = "builder"
      BY <2>2, <3>1 DEF DagDone, FreshLocals
    <3>2. CASE local.target # "builder"
      <4>1. local.target \in {"arguments", "results"}
        BY <3>2 DEF FreshLocals
      <4>2. [local.op EXCEPT ![local.target] = local.dag] \in FreshOps
        BY <4>1 DEF FreshLocals, FreshOps
      <4> QED BY <2>2, <3>2, <4>2 DEF DagDone, FreshLocals
    <3> QED BY <3>1, <3>2
  <2>3. ASSUME NEW type \in FreshNames, SetOperand(type)
        PROVE  tree' \in FreshModules /\ local' \in FreshLocals
    BY <2>3, <1>d DEF SetOperand, FreshLocals, FreshOperands
  <2>4. CASE OperandType \/ ScannedType \/ CArgType
    BY <1>a, <2>3, <2>4 DEF OperandType, ScannedType, CArgType, At, FreshNames
  <2>5. CASE AnyTypeFails BY <2>5, <1>d DEF AnyTypeFails, FreshLocals
  <2>6. CASE OperandName
    BY <2>6, <1>a, <1>d DEF OperandName, At, FreshLocals, FreshOperands
  <2>7. CASE AddOperand
    <3>1. Append(local.dag.operands, local.operand) \in Seq(FreshOperands)
      BY AppendProperties DEF FreshLocals, FreshDags
    <3> QED BY <2>7, <3>1, <1>d DEF AddOperand, FreshLocals, FreshDags
  <2> QED BY <1>6, <1>c, <2>1, <2>2, <2>4, <2>5, <2>6, <2>7
      DEF DagStep, DagOpen, TypeNext, TemplateType, TemplateClose, CArgValue, OperandColon
<1>7. CASE BuilderStep
  <2>1. CASE OpBuilder \/ BuilderAngle
    BY <2>1, <1>d DEF OpBuilder, BuilderAngle, FreshLocals
  <2>2. CASE AddBuilder
    <3>1. Append(local.op.builders, local.builderDag) \in Seq(FreshDags \cup {NULL})
      BY AppendProperties DEF FreshLocals, FreshOps
    <3> QED BY <2>2, <3>1 DEF AddBuilder, FreshLocals, FreshOps
  <2> QED BY <1>7, <1>c, <2>1, <2>2
      DEF BuilderStep, BuildersEqual, BuildersOpen, BuilderFails, BuilderCode,
          BuilderComma, BuildersDone
<1>8. CASE Overrun BY <1>8, <1>c DEF Overrun
<1> QED BY <1>1, <1>2, <1>3, <1>4, <1>5, <1>6, <1>7, <1>8 DEF Step
(* Where it is, the tree changes no more.                                   *)
LEMMA TreeAtEnd ==
  ASSUME TypeOK, tree \in FreshModules, local \in Locals, AtEnd, pc # "construct",
         Step, ~reported'
  PROVE  tree' \in FreshModules
<1> USE DEF Fail, Report, At, Kind, AtEnd, Ends
<1>1. CASE EngineStep
  BY <1>1
  DEF EngineStep, Construct, RuleKeyword, DialectKeyword, OpKeyword, EndOfText,
      OtherToken, NameMissing, ActOnModule, data, shared
<1>2. CASE RuleStep
  BY <1>2
  DEF RuleStep, RuleName, RuleSemi, RuleColonMissing, OpenAlternative, CloseAlternative,
      AlternativeUnfinished, FillRule, data, shared
<1>3. CASE GeneratorStep
  BY <1>3
  DEF GeneratorStep, Identifier, PBExpression, OpenQuoteOrBrace, Quoted, QuoteEnd,
      Brace, RefsEqual, BuilderRef, BadBuilderRef, RefsComma, SetBuilders, data, shared,
      AddElement
<1>4. CASE DialectStep
  BY <1>4
  DEF DialectStep, DialectName, DialectColon, DialectAttr, DialectEqual, DialectNext,
      DialectDone, data, shared, FreshModules, Locals
<1>5. CASE OpStep
  BY <1>5
  DEF OpStep, OpName, OpColon, OpFails, OpDone, OpElement, OpEqual, AfterElement, data,
      shared, ActOnModule
<1>6. CASE DagStep
  BY <1>6
  DEF DagStep, DagOpen, DagOperator, DagDone, OperandType, ScannedType, TypeNext,
      AnyTypeFails, TemplateType, TemplateClose, CArgType, CArgValue, OperandColon,
      OperandName, AddOperand, data, shared, SetOperand
<1>7. CASE BuilderStep
  BY <1>7
  DEF BuilderStep, BuildersEqual, BuildersOpen, OpBuilder, BuilderAngle, BuilderFails,
      BuilderCode, AddBuilder, BuilderComma, BuildersDone, data, shared
<1>8. CASE Overrun
  BY <1>8
  DEF Overrun, data, shared
<1> QED
  BY <1>1, <1>2, <1>3, <1>4, <1>5, <1>6, <1>7, <1>8 DEF Step

LEMMA StaleStep ==
  ASSUME TypeOK, EndIsSticky, StaleSoFar, [Next]_vars PROVE StaleSoFar'
<1> SUFFICES ASSUME ~reported'
             PROVE  /\ tree' \in FreshModules
                    /\ local' \in FreshLocals \/ (pc' # "construct" /\ AtEnd')
  BY DEF StaleSoFar
<1>a. tree \in FreshModules /\ (local \in FreshLocals \/ (pc # "construct" /\ AtEnd))
  BY ReportStays DEF StaleSoFar
<1>1. CASE Step /\ pc # "construct" /\ AtEnd
  <2>1. tree' \in FreshModules
    BY <1>1, <1>a, TreeAtEnd DEF TypeOK
  <2>2. pc' # "construct" /\ AtEnd'
    BY <1>1, StreamMoves, EndStays
  <2> QED BY <2>1, <2>2
<1>2. CASE Step /\ (pc = "construct" \/ ~AtEnd)
  BY <1>2, <1>a, FreshAction
<1>3. CASE UNCHANGED vars
  BY <1>3, <1>a DEF vars, stream, data, shared, AtEnd
<1> QED BY <1>1, <1>2, <1>3 DEF Next, Halted

LEMMA FreshTexts ==
  ASSUME NEW tree_ \in FreshModules PROVE Stale \notin TextsOf(tree_)
<1>a. Stale \notin FreshNames /\ Stale \notin Texts \cup {Uninit}
  BY WordAssumption DEF FreshNames, Text, Empty, Stale
<1>b. \A S : \A seq \in Seq(S) : ToSet(seq) \subseteq S
  <2> SUFFICES ASSUME NEW S, NEW seq \in Seq(S) PROVE ToSet(seq) \subseteq S
    OBVIOUS
  <2>1. \A i \in DOMAIN seq : seq[i] \in S
    BY ElementOfSeq, LenProperties
  <2> QED BY <2>1 DEF ToSet
<1>1. ASSUME NEW node \in FreshRules PROVE Stale \notin RuleTexts(node)
  <2>1. node.name \in FreshNames /\ node.alternatives \in Seq(FreshAlternatives)
    BY DEF FreshRules
  <2>2. ASSUME NEW alternative \in ToSet(node.alternatives),
               NEW element \in ToSet(alternative.elements)
        PROVE  element.name # Stale
    <3>1. alternative \in FreshAlternatives BY <2>1, <1>b
    <3>2. alternative.elements \in Seq(FreshElements) BY <3>1 DEF FreshAlternatives
    <3>3. element \in FreshElements BY <3>2, <1>b
    <3> QED BY <3>3, <1>a DEF FreshElements
  <2> QED BY <2>1, <2>2, <1>a DEF RuleTexts
<1>2. ASSUME NEW node \in FreshDags \cup {NULL} PROVE Stale \notin DagTexts(node)
  <2>1. CASE node = NULL BY <2>1 DEF DagTexts
  <2>2. CASE node # NULL
    <3>1. node.operator \in FreshNames /\ node.operands \in Seq(FreshOperands)
      BY <2>2 DEF FreshDags
    <3>2. \A each \in ToSet(node.operands) : each \in FreshOperands
      BY <3>1, <1>b
    <3>3. \A each \in ToSet(node.operands) : each.type # Stale /\ each.name # Stale
      BY <3>2, <1>a DEF FreshOperands
    <3> QED BY <2>2, <3>1, <3>3, <1>a DEF DagTexts
  <2> QED BY <2>1, <2>2
<1>3. ASSUME NEW node \in FreshOps PROVE Stale \notin OpTexts(node)
  <2>1. /\ node.name \in FreshNames
        /\ node.arguments \in FreshDags \cup {NULL} /\ node.results \in FreshDags \cup {NULL}
        /\ node.builders \in Seq(FreshDags \cup {NULL})
    BY DEF FreshOps
  <2>2. \A each \in ToSet(node.builders) : each \in FreshDags \cup {NULL}
    BY <2>1, <1>b
  <2> QED BY <2>1, <2>2, <1>a, <1>2 DEF OpTexts
<1>4. ToSet(tree_.rules) \subseteq FreshRules /\ ToSet(tree_.ops) \subseteq FreshOps
  <2>1. tree_.rules \in Seq(FreshRules) /\ tree_.ops \in Seq(FreshOps)
    BY DEF FreshModules
  <2> QED BY <2>1, <1>b
<1> QED BY <1>1, <1>3, <1>4 DEF TextsOf

(* No text of an older token is in the module unless a diagnostic was       *)
(* reported.                                                                *)
THEOREM NoStaleText == Spec => []StaleReported
<1>1. Init => EndIsSticky /\ StaleSoFar
  <2> SUFFICES ASSUME Init PROVE EndIsSticky /\ StaleSoFar OBVIOUS
  <2>1. local \in FreshLocals
    BY BlankFresh DEF Init, FreshLocals
  <2> QED BY <2>1, BlankFresh DEF Init, EndIsSticky, StaleSoFar
<1>2. TypeOK /\ EndIsSticky /\ StaleSoFar /\ [Next]_vars => EndIsSticky' /\ StaleSoFar'
  BY StickyStep, StaleStep
<1>3. StaleSoFar /\ WholeTextParsed => StaleReported
  BY FreshTexts DEF StaleSoFar, WholeTextParsed, StaleReported, Clean
<1> QED BY <1>1, <1>2, <1>3, TypeCorrect, SilentRunsParseAll, PTL DEF Spec
-----------------------------------------------------------------------------
(* Custom terminators.  As long as nothing is reported each of them is in a *)
(* rule pushed, or in the alternatives of the rule being parsed; outside a  *)
(* rule there are none of these.                                            *)
ElementTexts(alternative) == {element.name : element \in ToSet(alternative.elements)}
Pushed(rules) == UNION {RuleTexts(node) : node \in ToSet(rules)}
Pending(local_) == ElementTexts(local_.alternative)
                   \cup UNION {ElementTexts(each) : each \in ToSet(local_.alternatives)}

InAlternative == {"generator", "quoted", "quoteEnd", "brace", "refsEqual", "refs",
                  "refsComma", "aborted"}

CustomSoFar ==
  ~reported => /\ custom \subseteq Pushed(tree.rules) \cup Pending(local)
               /\ pc \notin InAlternative => local.alternative.elements = <<>>
               /\ pc \notin InAlternative \cup {"ruleAlternative"} =>
                    local.alternatives = <<>>

(* Nothing CustomSoFar speaks of changes.                                   *)
CustomKept ==
  /\ custom' = custom /\ tree'.rules = tree.rules
  /\ local'.alternative.elements = local.alternative.elements
  /\ local'.alternatives = local.alternatives
  /\ pc \in InAlternative => pc' \in InAlternative
  /\ pc = "ruleAlternative" => pc' = pc

LEMMA CustomStep ==
  ASSUME TypeOK, CustomSoFar, [Next]_vars PROVE CustomSoFar'
<1> SUFFICES ASSUME ~reported' PROVE CustomSoFar'
  BY DEF CustomSoFar
<1>a. /\ custom \subseteq Pushed(tree.rules) \cup Pending(local)
      /\ pc \notin InAlternative => local.alternative.elements = <<>>
      /\ pc \notin InAlternative \cup {"ruleAlternative"} => local.alternatives = <<>>
  BY ReportStays DEF CustomSoFar
<1>b. tree \in Modules /\ local \in Locals /\ Spelling \in Spellings
  BY DEF TypeOK, StreamTypeOK, Tokens, Spelling, Spellings
<1>c. /\ local.alternative \in Alternatives /\ local.alternatives \in Seq(Alternatives)
      /\ local.alternative.elements \in Seq(Elements)
  BY <1>b DEF Locals, Alternatives
<1>d. CustomKept => CustomSoFar'
  BY <1>a DEF CustomKept, CustomSoFar, Pending, ElementTexts, InAlternative
<1> USE DEF Goto, Quiet, Report, Read, Stay, Fail, Expect, Consume, Optional, At, Kind
<1>1. ASSUME NEW kind \in {"rule", "terminator", "pbexpression"}, AddElement(kind),
             pc' \in InAlternative, custom' \subseteq custom \cup {Spelling}
      PROVE  CustomSoFar'
  <2> DEFINE element == [kind |-> kind, name |-> Spelling]
  <2>1. element \in Elements /\ element.name = Spelling
    BY <1>b DEF Elements
  <2> HIDE DEF element
  <2>2. /\ local'.alternative.elements = Append(local.alternative.elements, element)
        /\ local'.alternatives = local.alternatives /\ tree' = tree
    BY <1>1, <1>b DEF AddElement, Locals, Alternatives, element
  <2>3. ToSet(local'.alternative.elements)
          = ToSet(local.alternative.elements) \cup {element}
    BY <2>1, <2>2, <1>c, ToSetAppend
  <2>4. ElementTexts(local'.alternative) = ElementTexts(local.alternative) \cup {Spelling}
    BY <2>1, <2>3 DEF ElementTexts
  <2>5. Pending(local') = Pending(local) \cup {Spelling}
    BY <2>2, <2>4 DEF Pending
  <2>6. custom' \subseteq Pushed(tree'.rules) \cup Pending(local')
    BY <2>2, <2>5, <1>1, <1>a
  <2> QED BY <2>6, <1>1 DEF CustomSoFar
<1>2. CASE Identifier \/ PBExpression \/ Quoted
  BY <1>1, <1>2 DEF Identifier, PBExpression, Quoted, InAlternative
<1>3. CASE OpenAlternative
  <2>1. local.alternative.elements = <<>>
    BY <1>3, <1>a DEF OpenAlternative, InAlternative
  <2>2. /\ local'.alternative.elements = <<>> /\ local'.alternatives = local.alternatives
        /\ tree' = tree /\ custom' = custom
    BY <1>3, <1>b DEF OpenAlternative, Locals, NoAlternative
  <2>3. Pending(local') = Pending(local)
    BY <2>1, <2>2 DEF Pending, ElementTexts
  <2> QED BY <1>3, <1>a, <2>2, <2>3 DEF OpenAlternative, CustomSoFar, InAlternative
<1>4. CASE CloseAlternative
  <2>1. /\ local'.alternative.elements = <<>> /\ tree' = tree /\ custom' = custom
        /\ local'.alternatives = Append(local.alternatives, local.alternative)
    BY <1>4, <1>b DEF CloseAlternative, shared, Locals, NoAlternative
  <2>2. ToSet(local'.alternatives) = ToSet(local.alternatives) \cup {local.alternative}
    BY <2>1, <1>c, ToSetAppend
  <2>3. Pending(local) \subseteq Pending(local')
    BY <2>2 DEF Pending
  <2> QED BY <1>4, <1>a, <2>1, <2>3 DEF CloseAlternative, CustomSoFar, InAlternative
<1>5. CASE FillRule
  <2> DEFINE rule == [local.rule EXCEPT !.alternatives = local.alternatives]
  <2>1. rule \in Rules /\ rule.alternatives = local.alternatives
    BY <1>b DEF Locals, Rules
  <2>2. tree'.rules = Append(tree.rules, rule) /\ tree.rules \in Seq(Rules)
    BY <1>5, <1>b DEF FillRule, PushRule, Modules
  <2> HIDE DEF rule
  <2>3. ToSet(tree'.rules) = ToSet(tree.rules) \cup {rule}
    BY <2>1, <2>2, ToSetAppend
  <2>4. Pushed(tree.rules) \cup RuleTexts(rule) \subseteq Pushed(tree'.rules)
    BY <2>3 DEF Pushed
  <2>5. local.alternative.elements = <<>>
    BY <1>5, <1>a DEF FillRule, InAlternative
  <2>6. ElementTexts(local.alternative) = {}
    BY <2>5, ToSetEmpty DEF ElementTexts
  <2>7. Pending(local) \subseteq RuleTexts(rule)
    BY <2>1, <2>6 DEF Pending, RuleTexts, ElementTexts
  <2>8. /\ local'.alternative.elements = <<>> /\ local'.alternatives = <<>>
        /\ custom' = custom
    BY <1>5, <1>b DEF FillRule, PushRule, Locals, NoAlternative
  <2> QED BY <1>a, <2>4, <2>7, <2>8 DEF CustomSoFar
<1>6. CASE RuleName
  <2>1. /\ local'.alternative.elements = local.alternative.elements
        /\ local'.alternatives = <<>> /\ local.alternatives = <<>>
    BY <1>6, <1>a, <1>b DEF RuleName, Locals, InAlternative
  <2> QED BY <1>6, <2>1, <1>d DEF RuleName, CustomKept, InAlternative
<1>7. CASE EngineStep
  <2>1. CustomKept
    BY <1>7, <1>b
    DEF CustomKept, InAlternative, EngineStep, Construct, RuleKeyword, DialectKeyword,
        OpKeyword, EndOfText, OtherToken, NameMissing, ActOnModule, data, shared
  <2> QED BY <2>1, <1>d
<1>8. CASE RuleStep /\ ~RuleName /\ ~OpenAlternative /\ ~CloseAlternative /\ ~FillRule
  <2>1. CustomKept
    BY <1>8, <1>b
    DEF CustomKept, InAlternative, RuleStep, RuleSemi, RuleColonMissing,
        AlternativeUnfinished, data, shared, Locals
  <2> QED BY <2>1, <1>d
<1>9. CASE GeneratorStep /\ ~Identifier /\ ~PBExpression /\ ~Quoted
  <2>1. CustomKept
    BY <1>9, <1>b
    DEF CustomKept, InAlternative, GeneratorStep, OpenQuoteOrBrace, QuoteEnd, Brace,
        RefsEqual, BuilderRef, BadBuilderRef, RefsComma, SetBuilders, data, shared,
        Locals, Alternatives
  <2> QED BY <2>1, <1>d
<1>10. CASE DialectStep
  <2>1. CustomKept
    BY <1>10, <1>b
    DEF CustomKept, InAlternative, DialectStep, DialectName, DialectColon, DialectAttr,
        DialectEqual, DialectNext, DialectDone, data, shared, Modules, Locals
  <2> QED BY <2>1, <1>d
<1>11. CASE OpStep
  <2>1. CustomKept
    BY <1>11, <1>b
    DEF CustomKept, InAlternative, OpStep, OpName, OpColon, OpFails, OpDone, OpElement,
        OpEqual, AfterElement, data, shared, ActOnModule, Modules, Locals
  <2> QED BY <2>1, <1>d
<1>12. CASE DagStep
  <2>1. CustomKept
    BY <1>12, <1>b
    DEF CustomKept, InAlternative, DagStep, DagOpen, DagOperator, DagDone, OperandType,
        ScannedType, TypeNext, AnyTypeFails, TemplateType, TemplateClose, CArgType,
        CArgValue, OperandColon, OperandName, AddOperand, data, shared, SetOperand,
        Returned, Locals
  <2> QED BY <2>1, <1>d
<1>13. CASE BuilderStep
  <2>1. CustomKept
    BY <1>13, <1>b
    DEF CustomKept, InAlternative, BuilderStep, BuildersEqual, BuildersOpen, OpBuilder,
        BuilderAngle, BuilderFails, BuilderCode, AddBuilder, BuilderComma, BuildersDone,
        data, shared, Locals
  <2> QED BY <2>1, <1>d
<1>14. CASE Overrun
  <2>1. CustomKept
    BY <1>14, <1>b
    DEF CustomKept, InAlternative, Overrun, data, shared
  <2> QED BY <2>1, <1>d
<1>15. CASE UNCHANGED vars
  BY <1>15, <1>d DEF vars, data, shared, CustomKept
<1> QED
  BY <1>1, <1>2, <1>3, <1>4, <1>5, <1>6, <1>7, <1>8, <1>9, <1>10, <1>11, <1>12, <1>13, <1>14, <1>15
  DEF Next, Step, Halted

(* Every custom terminator of a clean module is used by one of its rules.   *)
THEOREM NoIdleTerminator == Spec => []CustomTerminatorsUsed
<1>1. Init => CustomSoFar
  BY ToSetEmpty DEF Init, CustomSoFar, NoAlternative
<1>2. TypeOK /\ CustomSoFar /\ [Next]_vars => CustomSoFar'
  BY CustomStep
<1>3. CustomSoFar /\ WholeTextParsed => CustomTerminatorsUsed
  <2> SUFFICES ASSUME CustomSoFar, WholeTextParsed, Clean
               PROVE  custom \subseteq Pushed(module.rules)
    BY DEF CustomTerminatorsUsed, Pushed
  <2>1. Pending(local) = {}
    BY ToSetEmpty DEF CustomSoFar, Clean, InAlternative, Pending, ElementTexts
  <2> QED BY <2>1 DEF CustomSoFar, WholeTextParsed, Clean
<1> QED BY <1>1, <1>2, <1>3, TypeCorrect, SilentRunsParseAll, PTL DEF Spec
-----------------------------------------------------------------------------
(* Progress.  What a step may do with the text, and where it leads.         *)
LEMMA Ranks ==
  /\ \A label \in Labels \cup Ended : Rank[label] \in 0 .. 14
  /\ Rank["done"] = 0 /\ Rank["aborted"] = 0 /\ Rank["overrun"] = 0
  /\ Rank["construct"] = 1 /\ Rank["top"] = 1 /\ Rank["ruleName"] = 1
  /\ Rank["dialectName"] = 1 /\ Rank["opColon"] = 1 /\ Rank["opEqual"] = 1
  /\ Rank["buildersEqual"] = 1 /\ Rank["typeNext"] = 1
  /\ Rank["ruleSemi"] = 2 /\ Rank["dialectColon"] = 2 /\ Rank["opName"] = 2
  /\ Rank["opElement"] = 2 /\ Rank["afterElement"] = 2
  /\ Rank["ruleColon"] = 3 /\ Rank["ruleAlternative"] = 3 /\ Rank["dialectNext"] = 3
  /\ Rank["buildersOpen"] = 3 /\ Rank["builderAngle"] = 3 /\ Rank["builderClose"] = 3
  /\ Rank["generator"] = 4 /\ Rank["dialectEqual"] = 4 /\ Rank["builder"] = 4
  /\ Rank["afterCode"] = 4
  /\ Rank["quoteEnd"] = 5 /\ Rank["refs"] = 5 /\ Rank["refsEqual"] = 5
  /\ Rank["dialectAttr"] = 5 /\ Rank["builderCode"] = 5 /\ Rank["builderComma"] = 5
  /\ Rank["quoted"] = 6 /\ Rank["refsComma"] = 6 /\ Rank["brace"] = 6
  /\ Rank["afterBuilderDag"] = 6
  /\ Rank["operand"] = 7 /\ Rank["anyOpen"] = 7
  /\ Rank["operandEnd"] = 8 /\ Rank["dagOperator"] = 8
  /\ Rank["operandColon"] = 9 /\ Rank["operandName"] = 9 /\ Rank["dagOpen"] = 9
  /\ Rank["templateOpen"] = 10 /\ Rank["templateClose"] = 10 /\ Rank["cargClose"] = 10
  /\ Rank["operandDollar"] = 10
  /\ Rank["templateUnsquare"] = 11 /\ Rank["cargEnd"] = 11
  /\ Rank["templateType"] = 12 /\ Rank["cargValue"] = 12
  /\ Rank["templateSquare"] = 13 /\ Rank["cargComma"] = 13
  /\ Rank["cargOpen"] = 14
BY SMT DEF Rank, Labels, Ended

(* One stretch of code is nearer to the parser's end than another.          *)
Nearer(to, from) == Rank[to] < Rank[from]
LEMMA Nearest ==
  /\ Nearer("done", "top") /\ Nearer("aborted", "top") /\ Nearer("done", "ruleName")
  /\ Nearer("done", "dialectName") /\ Nearer("ruleSemi", "ruleColon")
  /\ Nearer("top", "ruleSemi") /\ Nearer("ruleAlternative", "generator")
  /\ Nearer("ruleSemi", "generator") /\ Nearer("ruleSemi", "ruleAlternative")
  /\ Nearer("quoteEnd", "quoted") /\ Nearer("generator", "quoteEnd")
  /\ Nearer("refsEqual", "brace") /\ Nearer("generator", "brace")
  /\ Nearer("generator", "refsEqual") /\ Nearer("aborted", "refs")
  /\ Nearer("generator", "refs") /\ Nearer("refs", "refsComma")
  /\ Nearer("dialectEqual", "dialectAttr") /\ Nearer("dialectColon", "dialectAttr")
  /\ Nearer("dialectNext", "dialectEqual") /\ Nearer("dialectColon", "dialectNext")
  /\ Nearer("top", "dialectColon") /\ Nearer("opColon", "opName")
  /\ Nearer("done", "opColon") /\ Nearer("opEqual", "opElement")
  /\ Nearer("buildersEqual", "opElement") /\ Nearer("top", "opElement")
  /\ Nearer("opColon", "afterElement") /\ Nearer("done", "opElement")
  /\ Nearer("done", "opEqual") /\ Nearer("done", "buildersEqual")
  /\ Nearer("dagOperator", "dagOpen") /\ Nearer("operand", "dagOperator")
  /\ Nearer("afterElement", "operand") /\ Nearer("afterBuilderDag", "operand")
  /\ Nearer("typeNext", "operand") /\ Nearer("typeNext", "anyOpen")
  /\ Nearer("afterElement", "anyOpen") /\ Nearer("afterBuilderDag", "anyOpen")
  /\ Nearer("operandColon", "templateOpen") /\ Nearer("templateType", "templateSquare")
  /\ Nearer("templateUnsquare", "templateType")
  /\ Nearer("templateClose", "templateUnsquare") /\ Nearer("operandColon", "templateClose")
  /\ Nearer("operandColon", "cargClose") /\ Nearer("cargComma", "cargOpen")
  /\ Nearer("cargValue", "cargComma") /\ Nearer("cargEnd", "cargValue")
  /\ Nearer("cargClose", "cargEnd") /\ Nearer("operandEnd", "operandColon")
  /\ Nearer("operandName", "operandDollar") /\ Nearer("operandEnd", "operandName")
  /\ Nearer("operand", "operandEnd") /\ Nearer("afterElement", "buildersOpen")
  /\ Nearer("afterElement", "builderAngle") /\ Nearer("afterElement", "builderClose")
  /\ Nearer("builderCode", "afterBuilderDag") /\ Nearer("builderClose", "builderCode")
  /\ Nearer("afterCode", "builderCode") /\ Nearer("builderClose", "afterCode")
  /\ Nearer("builder", "builderComma") /\ Nearer("builderAngle", "builder")
  /\ Nearer("afterElement", "builder") /\ Nearer("overrun", "dialectEqual")
  /\ Nearer("overrun", "cargOpen") /\ Nearer("overrun", "cargValue")
  /\ Nearer("overrun", "builderCode") /\ Nearer("overrun", "operand")
  /\ Nearer("overrun", "anyOpen")
BY Ranks DEF Nearer

(* The stretches of code after a scan, whose mark has looked at the cursor. *)
LookedAhead == {"cargComma", "cargEnd", "dialectNext", "afterCode"}
Downhill == Nearer(pc', pc)
ReadMove == /\ Advance /\ pc' \notin LookedAhead \cup {"typeNext"}
            /\ AtEnd => pc \in {"construct", "typeNext"} \/ Downhill
StayMove == /\ UNCHANGED stream /\ pc' \notin LookedAhead \cup {"typeNext"}
            /\ pc \notin LookedAhead \cup {"construct"} /\ Downhill
ScanMove == /\ \E open \in {"\"", "["} : NoMark(open) \/ Marked(open)
            /\ pc' \in LookedAhead /\ pc \notin LookedAhead \cup {"construct"} /\ Downhill
FoundMove == EndFound /\ ~AtEnd /\ pc \in {"operand", "anyOpen"} /\ pc' = "typeNext"
Move == ReadMove \/ StayMove \/ ScanMove \/ FoundMove

LEMMA Moves == ASSUME Step PROVE Move
<1> USE Nearest DEF Goto, Quiet, Report, Read, Stay, Fail, Expect, Consume, Optional, At, Kind,
                  AtEnd, Ends, Move, ReadMove, StayMove, ScanMove, FoundMove, LookedAhead,
                  Downhill
<1>1. CASE EngineStep
  <2>1. CASE Construct BY <2>1 DEF Construct
  <2>2. CASE RuleKeyword BY <2>2 DEF RuleKeyword
  <2>3. CASE DialectKeyword BY <2>3 DEF DialectKeyword
  <2>4. CASE OpKeyword BY <2>4 DEF OpKeyword
  <2>5. CASE EndOfText BY <2>5 DEF EndOfText
  <2>6. CASE OtherToken BY <2>6 DEF OtherToken
  <2>7. CASE NameMissing BY <2>7 DEF NameMissing
  <2> QED BY <1>1, <2>1, <2>2, <2>3, <2>4, <2>5, <2>6, <2>7 DEF EngineStep
<1>2. CASE RuleStep
  <2>1. CASE RuleName BY <2>1 DEF RuleName
  <2>2. CASE RuleSemi BY <2>2 DEF RuleSemi
  <2>3. CASE RuleColonMissing BY <2>3 DEF RuleColonMissing
  <2>4. CASE OpenAlternative BY <2>4 DEF OpenAlternative
  <2>5. CASE CloseAlternative BY <2>5 DEF CloseAlternative
  <2>6. CASE AlternativeUnfinished BY <2>6 DEF AlternativeUnfinished
  <2>7. CASE FillRule BY <2>7 DEF FillRule
  <2> QED BY <1>2, <2>1, <2>2, <2>3, <2>4, <2>5, <2>6, <2>7 DEF RuleStep
<1>3. CASE GeneratorStep
  <2>1. CASE Identifier BY <2>1 DEF Identifier
  <2>2. CASE PBExpression BY <2>2 DEF PBExpression
  <2>3. CASE OpenQuoteOrBrace BY <2>3 DEF OpenQuoteOrBrace
  <2>4. CASE Quoted BY <2>4 DEF Quoted
  <2>5. CASE QuoteEnd BY <2>5 DEF QuoteEnd
  <2>6. CASE Brace BY <2>6 DEF Brace
  <2>7. CASE RefsEqual BY <2>7 DEF RefsEqual
  <2>8. CASE BuilderRef BY <2>8 DEF BuilderRef
  <2>9. CASE BadBuilderRef BY <2>9 DEF BadBuilderRef
  <2>10. CASE RefsComma BY <2>10 DEF RefsComma
  <2>11. CASE SetBuilders BY <2>11 DEF SetBuilders
  <2> QED BY <1>3, <2>1, <2>2, <2>3, <2>4, <2>5, <2>6, <2>7, <2>8, <2>9, <2>10, <2>11 DEF
         GeneratorStep
<1>4. CASE DialectStep
  <2>1. CASE DialectName BY <2>1 DEF DialectName
  <2>2. CASE DialectColon BY <2>2 DEF DialectColon
  <2>3. CASE DialectAttr BY <2>3 DEF DialectAttr
  <2>4. CASE DialectEqual BY <2>4 DEF DialectEqual
  <2>5. CASE DialectNext BY <2>5 DEF DialectNext
  <2>6. CASE DialectDone BY <2>6 DEF DialectDone
  <2> QED BY <1>4, <2>1, <2>2, <2>3, <2>4, <2>5, <2>6 DEF DialectStep
<1>5. CASE OpStep
  <2>1. CASE OpName BY <2>1 DEF OpName
  <2>2. CASE OpColon BY <2>2 DEF OpColon
  <2>3. CASE OpFails BY <2>3 DEF OpFails
  <2>4. CASE OpDone BY <2>4 DEF OpDone
  <2>5. CASE OpElement BY <2>5 DEF OpElement
  <2>6. CASE OpEqual BY <2>6 DEF OpEqual
  <2>7. CASE AfterElement BY <2>7 DEF AfterElement
  <2> QED BY <1>5, <2>1, <2>2, <2>3, <2>4, <2>5, <2>6, <2>7 DEF OpStep
<1>6. CASE DagStep
  <2>1. CASE DagOpen BY <2>1 DEF DagOpen
  <2>2. CASE DagOperator BY <2>2 DEF DagOperator
  <2>3. CASE DagDone BY <2>3 DEF DagDone, Returned
  <2>4. CASE OperandType BY <2>4 DEF OperandType
  <2>5. CASE ScannedType BY <2>5 DEF ScannedType
  <2>6. CASE TypeNext BY <2>6 DEF TypeNext
  <2>7. CASE AnyTypeFails BY <2>7 DEF AnyTypeFails, Returned
  <2>8. CASE TemplateType BY <2>8 DEF TemplateType
  <2>9. CASE TemplateClose BY <2>9 DEF TemplateClose
  <2>10. CASE CArgType BY <2>10 DEF CArgType
  <2>11. CASE CArgValue BY <2>11 DEF CArgValue
  <2>12. CASE OperandColon BY <2>12 DEF OperandColon
  <2>13. CASE OperandName BY <2>13 DEF OperandName
  <2>14. CASE AddOperand BY <2>14 DEF AddOperand
  <2> QED BY <1>6, <2>1, <2>2, <2>3, <2>4, <2>5, <2>6, <2>7, <2>8, <2>9, <2>10, <2>11,
         <2>12, <2>13, <2>14 DEF DagStep
<1>7. CASE BuilderStep
  <2>1. CASE BuildersEqual BY <2>1 DEF BuildersEqual
  <2>2. CASE BuildersOpen BY <2>2 DEF BuildersOpen
  <2>3. CASE OpBuilder BY <2>3 DEF OpBuilder
  <2>4. CASE BuilderAngle BY <2>4 DEF BuilderAngle
  <2>5. CASE BuilderFails BY <2>5 DEF BuilderFails
  <2>6. CASE BuilderCode BY <2>6 DEF BuilderCode
  <2>7. CASE AddBuilder BY <2>7 DEF AddBuilder
  <2>8. CASE BuilderComma BY <2>8 DEF BuilderComma
  <2>9. CASE BuildersDone BY <2>9 DEF BuildersDone
  <2> QED BY <1>7, <2>1, <2>2, <2>3, <2>4, <2>5, <2>6, <2>7, <2>8, <2>9 DEF BuilderStep
<1>8. CASE Overrun BY <1>8 DEF Overrun
<1> HIDE DEF Move
<1> QED BY <1>1, <1>2, <1>3, <1>4, <1>5, <1>6, <1>7, <1>8 DEF Step

(* What the parser has looked at.                                           *)
ReadSoFar ==
  /\ used <= MaxLexemes + 1 /\ (ahead \notin Ends => used <= MaxLexemes)
  /\ pc = "construct" => ahead = Unread
  /\ pc # "construct" /\ AtEnd => ahead \in Ends
  /\ ~AtEnd => ahead = Unread \/ pc \in LookedAhead
  /\ pc = "typeNext" => ~AtEnd

LEMMA ReadStep ==
  ASSUME TypeOK, ReadSoFar, Step PROVE ReadSoFar' /\ Progress
<1>1. Move /\ pc' # "construct" BY Moves, StreamMoves
<1>2. /\ used \in Nat /\ MaxLexemes \in Nat /\ ahead \in Lexemes \cup Ends \cup {Unread}
      /\ Unread \notin Lexemes \cup Ends /\ Lexemes \cap Ends = {}
      /\ token \in Tokens
  BY LexemeAssumption DEF TypeOK, StreamTypeOK, Texts, Ends, Keywords, Punctuators, Numbers
<1> USE DEF ReadSoFar, Progress, Unspent
<1>3. CASE ReadMove
  <2>1. PICK lexeme \in Upcoming :
          /\ token' = IF lexeme \in Ends THEN [token EXCEPT !.kind = lexeme]
                      ELSE [kind |-> KindOf(lexeme), text |-> lexeme]
          /\ ahead' = IF lexeme \in Ends THEN lexeme ELSE Unread
          /\ Reveal
    BY <1>3 DEF ReadMove, Advance
  <2>2. AtEnd' <=> lexeme \in Ends
    <3>1. lexeme \in Ends => token'.kind = lexeme BY <1>2, <2>1 DEF Tokens
    <3>2. lexeme \notin Ends => token'.kind = KindOf(lexeme) BY <2>1
    <3>3. lexeme \notin Ends => KindOf(lexeme) \notin Ends BY DEF KindOf, Ends
    <3> QED BY <3>1, <3>2, <3>3 DEF AtEnd
  <2>3. pc' \notin LookedAhead /\ pc' # "typeNext" BY <1>3 DEF ReadMove
  <2>4. ahead' \notin Lexemes /\ (AtEnd' <=> ahead' \in Ends) /\ (~AtEnd' => ahead' = Unread)
    BY <1>2, <2>1, <2>2
  <2>5. CASE ahead = Unread
    <3>1. used' = used + 1 /\ used <= MaxLexemes BY <1>2, <2>1, <2>5 DEF Reveal
    <3>2. ~(used < MaxLexemes) => lexeme = "eof" BY <2>1, <2>5 DEF Upcoming
    <3>3. ahead' \notin Ends => used < MaxLexemes BY <1>2, <2>1, <3>2 DEF Ends
    <3> HIDE DEF LookedAhead, AtEnd
    <3> QED BY <1>1, <1>2, <2>3, <2>4, <2>5, <3>1, <3>3
  <2>6. CASE ahead # Unread
    <3>1. lexeme = ahead /\ used' = used /\ pc # "construct"
      BY <2>1, <2>6 DEF Upcoming, Reveal
    <3>2. CASE ahead \in Lexemes
      <4>1. ahead' = Unread /\ ~AtEnd' BY <1>2, <2>1, <2>2, <3>1, <3>2
      <4>2. ~AtEnd /\ used <= MaxLexemes BY <1>2, <3>1, <3>2
      <4> QED BY <1>1, <1>2, <2>3, <3>1, <3>2, <4>1, <4>2
    <3>3. CASE ahead \in Ends
      <4>1. ahead' = ahead /\ AtEnd' /\ ahead \notin Lexemes
        BY <1>2, <2>1, <2>2, <3>1, <3>3
      <4>2. AtEnd => Rank[pc'] < Rank[pc] BY <1>3, <3>1 DEF ReadMove, Downhill, Nearer
      <4> QED BY <1>1, <1>2, <2>3, <3>1, <3>3, <4>1, <4>2
    <3> QED BY <1>2, <2>6, <3>2, <3>3
  <2> QED BY <2>5, <2>6
<1>4. CASE StayMove
  <2>1. token' = token /\ ahead' = ahead /\ used' = used BY <1>4 DEF StayMove, stream
  <2>2. AtEnd' <=> AtEnd BY <2>1 DEF AtEnd
  <2>3. Rank[pc'] < Rank[pc] BY <1>4 DEF StayMove, Downhill, Nearer
  <2>4. /\ pc' \notin LookedAhead /\ pc' # "typeNext"
        /\ pc \notin LookedAhead /\ pc # "construct"
    BY <1>4 DEF StayMove
  <2> QED BY <1>1, <1>2, <2>1, <2>2, <2>3, <2>4
<1>5. CASE ScanMove
  <2>1. PICK open : open \notin Ends /\ (NoMark(open) \/ Marked(open))
    BY <1>5 DEF ScanMove, Ends
  <2>2. token' = token /\ Reveal BY <2>1 DEF NoMark, Marked
  <2>3. AtEnd' <=> AtEnd BY <2>2 DEF AtEnd
  <2>4. Rank[pc'] < Rank[pc] BY <1>5 DEF ScanMove, Downhill, Nearer
  <2>5. /\ pc' \in LookedAhead /\ pc' # "typeNext"
        /\ pc \notin LookedAhead /\ pc # "construct"
    BY <1>5 DEF ScanMove, LookedAhead
  <2>6. CASE ahead = Unread
    <3>1. used' = used + 1 /\ used <= MaxLexemes BY <1>2, <2>2, <2>6 DEF Reveal
    <3>2. ~AtEnd BY <1>2, <2>5, <2>6
    <3>3. ahead' \notin Ends => used < MaxLexemes
      <4>1. NoMark(open) => ahead' \in Upcoming BY DEF NoMark
      <4>2. Marked(open) => open \in Upcoming BY DEF Marked
      <4>3. ~(used < MaxLexemes) => Upcoming = {"eof"} BY <2>6 DEF Upcoming
      <4> QED BY <1>2, <2>1, <4>1, <4>2, <4>3 DEF Ends
    <3> QED BY <1>1, <1>2, <2>3, <2>5, <2>6, <3>1, <3>2, <3>3
  <2>7. CASE ahead # Unread
    <3>1. AtEnd /\ ahead \in Ends /\ ahead \notin Lexemes BY <1>2, <2>5, <2>7
    <3>2. used' = used BY <2>2, <2>7 DEF Reveal
    <3>3. ahead' = ahead
      BY <2>1, <2>7, <3>1 DEF NoMark, Marked, Upcoming
    <3> QED BY <1>1, <1>2, <2>3, <2>4, <2>5, <2>7, <3>1, <3>2, <3>3
  <2> QED BY <2>6, <2>7
<1>6. CASE FoundMove
  <2>1. ahead' = Unread /\ token' = token /\ used' = used
    BY <1>6 DEF FoundMove, EndFound
  <2>2. ~AtEnd /\ ~AtEnd' BY <1>6, <2>1 DEF FoundMove, AtEnd
  <2>3. pc' = "typeNext" /\ pc \in {"operand", "anyOpen"} BY <1>6 DEF FoundMove
  <2>4. ahead = Unread BY <2>2, <2>3 DEF LookedAhead
  <2>5. Rank[pc'] < Rank[pc] BY <2>3, Ranks
  <2> QED BY <1>1, <1>2, <2>1, <2>2, <2>3, <2>4, <2>5
<1> QED BY <1>1, <1>3, <1>4, <1>5, <1>6 DEF Move

(* What is left of the text and the distance from the end are bounded       *)
(* below, and every step of the parser lessens them, the first before the   *)
(* second: no loop of any procedure turns for ever on a token it does not   *)
(* read, whatever the text and its lexemes.                                 *)
THEOREM EveryLoopReadsOn ==
  Spec => [](Unspent \in Nat /\ Rank[pc] \in 0 .. 14) /\ NoIdleLoop
<1>1. Init => ReadSoFar
  BY LexemeAssumption
  DEF Init, StreamInit, ReadSoFar, AtEnd, Ends, Unread, LookedAhead, Texts, Uninit
<1>2. TypeOK /\ ReadSoFar /\ [Next]_vars => ReadSoFar' /\ [Progress]_vars
  <2> SUFFICES ASSUME TypeOK, ReadSoFar, [Next]_vars
               PROVE  ReadSoFar' /\ [Progress]_vars
    OBVIOUS
  <2>1. CASE Step BY <2>1, ReadStep
  <2>2. CASE UNCHANGED vars
    BY <2>2 DEF vars, data, stream, ReadSoFar, AtEnd
  <2> QED BY <2>1, <2>2 DEF Next, Halted
<1>3. TypeOK /\ ReadSoFar => Unspent \in Nat /\ Rank[pc] \in 0 .. 14
  <2> SUFFICES ASSUME TypeOK, ReadSoFar PROVE Unspent \in Nat /\ Rank[pc] \in 0 .. 14
    OBVIOUS
  <2>1. used \in Nat /\ MaxLexemes \in Nat /\ used <= MaxLexemes + 1
    BY LexemeAssumption DEF TypeOK, StreamTypeOK, ReadSoFar
  <2>2. Unspent \in Nat BY <2>1 DEF Unspent
  <2>3. Rank[pc] \in 0 .. 14 BY Ranks DEF TypeOK
  <2> QED BY <2>2, <2>3
<1> QED BY <1>1, <1>2, <1>3, TypeCorrect, PTL DEF Spec, NoIdleLoop
=============================================================================
