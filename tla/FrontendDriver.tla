--------------------------- MODULE FrontendDriver ---------------------------
(***************************************************************************)
(* frontendgen.cpp: main() parses, then emit() writes the files that the    *)
(* command line asks for and deletes the nodes of the module.  Diagnostics  *)
(* are not looked at.                                                       *)
(***************************************************************************)
EXTENDS GrammarCodeGen

CONSTANTS EmitActions, GrammarNames   \* the command lines considered

VARIABLES
  emitAction, grammarName,  \* the options
  stage,                    \* the part of emit() to run
  files,                    \* output files kept
  grammar,                  \* what the grammar file holds
  freed                     \* objects deleted, by class

driverVars == <<emitAction, grammarName, stage, files, grammar, freed>>
allVars == <<vars, driverVars>>

DriverInit ==
  /\ Init
  /\ emitAction = "none" /\ grammarName = ""
  /\ stage = "parse" /\ files = {} /\ grammar = NoGrammar
  /\ freed = [class \in Classes |-> 0]

Parse == Step /\ UNCHANGED driverVars

EmitAntlr == emitAction \in {"antlr", "all"}
EmitVisitor == emitAction \in {"visitor", "all"}

(* emit() is the first to look at the options.                              *)
Emit ==
  /\ pc = "done" /\ stage = "parse" /\ stage' = "antlr"
  /\ emitAction' \in EmitActions /\ grammarName' \in GrammarNames
  /\ UNCHANGED <<vars, files, grammar, freed>>

(* Variant: the file is called after the grammar, without a suffix.         *)
AntlrUnsuffixed ==
  /\ stage = "antlr" /\ EmitAntlr /\ grammarName # ""
  /\ stage' = "visitor" /\ files' = files \cup {grammarName} /\ grammar' \in Grammars
  /\ UNCHANGED <<vars, emitAction, grammarName, freed>>

Antlr ==
  /\ stage = "antlr" /\ EmitAntlr /\ grammarName # ""
  /\ stage' = "visitor" /\ files' = files \cup {"g4"} /\ grammar' \in Grammars
  /\ UNCHANGED <<vars, emitAction, grammarName, freed>>

(* Without a grammar name emit() returns at once, past the deletes.         *)
NoAntlr ==
  /\ stage = "antlr"
  /\ \/ EmitAntlr /\ grammarName = "" /\ stage' = "exit"
     \/ ~EmitAntlr /\ stage' = "visitor"
  /\ UNCHANGED <<vars, emitAction, grammarName, files, grammar, freed>>

(* The dump of the rules changes nothing.  The visitor of a rule with       *)
(* builders may fail in emitOp (module VisitorCodeGen), and takes the       *)
(* unfinished file with it.                                                 *)
HasBuilders == \E node \in ToSet(module.rules) :
                 \E alternative \in ToSet(node.alternatives) : alternative.builders # <<>>

Visitor ==
  /\ stage = "visitor"
  /\ \/ EmitVisitor /\ module.rules # <<>> /\ stage' = "free"
        /\ files' = files \cup {"visitor"}
     \/ EmitVisitor /\ HasBuilders /\ stage' = "crashed" /\ UNCHANGED files
     \/ ~(EmitVisitor /\ module.rules # <<>>) /\ stage' = "free" /\ UNCHANGED files
  /\ UNCHANGED <<vars, emitAction, grammarName, grammar, freed>>

Total(counts) == FoldLeft(LAMBDA sum, count : sum + count, 0, counts)
One(pointer) == IF pointer = NULL THEN 0 ELSE 1

AlternativesIn(rules) == Total([r \in DOMAIN rules |-> Len(rules[r].alternatives)])
ElementsOf(alternatives) ==
  Total([a \in DOMAIN alternatives |-> Len(alternatives[a].elements)])
ElementsIn(rules) == Total([r \in DOMAIN rules |-> ElementsOf(rules[r].alternatives)])
DagsOf(node) == One(node.arguments) + One(node.results)
                + Total([b \in DOMAIN node.builders |-> One(node.builders[b])])
DagsIn(ops) == Total([o \in DOMAIN ops |-> DagsOf(ops[o])])
BuildersIn(ops) == Total([o \in DOMAIN ops |-> Len(ops[o].builders)])

(* The objects that the loops over the module come to.                      *)
Reached(tree_) ==
  [class \in Classes |->
     CASE class = "rule" -> Len(tree_.rules)
       [] class = "alternative" -> AlternativesIn(tree_.rules)
       [] class = "element" -> ElementsIn(tree_.rules)
       [] class = "dialect" -> One(tree_.dialect)
       [] class = "op" -> Len(tree_.ops)
       [] class = "dag" -> DagsIn(tree_.ops)
       [] class = "builder" -> BuildersIn(tree_.ops)]

Free ==
  /\ stage = "free" /\ stage' = "exit"
  /\ freed' = Reached(module)
  /\ UNCHANGED <<vars, emitAction, grammarName, files, grammar>>

DriverEnded == stage \in {"exit", "crashed"} \/ pc \in {"aborted", "overrun"}
DriverNext == \/ Parse \/ Emit \/ Antlr \/ NoAntlr \/ Visitor \/ Free
              \/ DriverEnded /\ UNCHANGED allVars
(* One thread runs the program: the next step of the parser is taken.       *)
DriverSpec == DriverInit /\ [][DriverNext]_allVars /\ WF_allVars(Parse)

-----------------------------------------------------------------------------
(* The options, the part of emit() that runs, and what has been written.    *)
DriverTypeOK ==
  /\ emitAction \in EmitActions \cup {"none"} /\ grammarName \in GrammarNames \cup {""}
  /\ stage \in {"parse", "antlr", "visitor", "free", "exit", "crashed"}
  /\ files \subseteq {"g4", "visitor"} /\ freed \in [Classes -> Nat]
  /\ Len(grammar.productions) \in {0, Len(module.rules)}

GrammarWritten == "g4" \in files /\ Clean
(* The elements of the module with what the grammar prints for them.        *)
PrintedElements ==
  UNION {UNION {{<<module.rules[r].alternatives[a].elements[e], grammar.productions[r][a][e]>> :
                   e \in DOMAIN module.rules[r].alternatives[a].elements} :
                  a \in DOMAIN module.rules[r].alternatives} : r \in DOMAIN module.rules}

TerminatorByTable(element) ==
  element.kind = "terminator" \/ (element.kind = "rule" /\ IsTerminator(element.name))

(* An identifier is classified by the terminators quoted before it, the     *)
(* grammar is printed when all are known.  Whatever the order, each name    *)
(* that is a terminator by the complete table is printed as the grammar     *)
(* defines it.                                                              *)
TerminatorsDefined ==
  GrammarWritten =>
    \A pair \in PrintedElements :
      TerminatorByTable(pair[1]) =>
        pair[2] \in {grammar.tokens[i].name : i \in DOMAIN grammar.tokens}

(* ANTLR takes the first definition that matches, and Identifier matches    *)
(* every word: a quoted word is lexed as the terminator it stands for in    *)
(* the productions, whatever other definitions the grammar has.             *)
QuotedWordsLexed ==
  GrammarWritten =>
    \A pair \in PrintedElements :
      pair[1].kind = "terminator" /\ pair[1].name \in custom
        => LexedAs(grammar.tokens, pair[1].name) = pair[2]

(* Nothing is deleted twice: no node was pushed to two places.  The local   *)
(* pointers of parserOp and parserBuilders are the ones at risk.            *)
FreedOnce == \A class \in Classes : freed[class] <= allocated[class]

(* Nodes leave the parser's hands on many paths: an early return, a failed  *)
(* op, an alternative that is not attached.  When the input is clean and    *)
(* emit() gets to its deletes, all that was made is deleted, but for the    *)
(* dialects and the dags whose pointer a second declaration overwrote.      *)
NoSilentLeak ==
  stage = "exit" /\ Clean /\ (EmitAntlr => grammarName # "")
    => \A class \in Classes :
         freed[class] # allocated[class] => class \in redeclared
=============================================================================
