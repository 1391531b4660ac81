--------------------------- MODULE GrammarCodeGen ---------------------------
(***************************************************************************)
(* CGModule::emitAntlr: the grammar printed from the module and the table   *)
(* of terminators.  A definition of a token is its name and the words that  *)
(* ANTLR's lexer takes for it; ANTLR tries the definitions in the order of  *)
(* the file and, of those that match a word as a whole, takes the first.    *)
(***************************************************************************)
EXTENDS FrontendParser

CONSTANTS
  UpperFirst,    \* the words that begin with a small letter, capitalised
  BuiltinWords   \* the words that a terminator of Terminator.def matches

(* Adding 32 to a letter gives another letter only for a capital one, and   *)
(* subtracting 32 undoes it.  The names of Terminator.def begin with a      *)
(* capital letter.                                                          *)
LetterAssumption ==
  /\ DOMAIN UpperFirst \subseteq Texts
  /\ \A name \in Idents :
       LowerFirst[name] \in Spellings =>
         /\ LowerFirst[name] \in DOMAIN UpperFirst /\ UpperFirst[LowerFirst[name]] = name
         /\ name \notin DOMAIN UpperFirst
  /\ IsFiniteSet(Builtin) /\ Builtin \cap DOMAIN UpperFirst = {}
  /\ DOMAIN BuiltinWords = Builtin
ASSUME LetterAssumption

Capitalised(name) == IF name \in DOMAIN UpperFirst THEN UpperFirst[name] ELSE name

(* emit(generator)                                                          *)
Printed(element) ==
  IF element.kind = "terminator" THEN Capitalised(element.name) ELSE element.name

PrintedAlternative(alternative) ==
  [i \in DOMAIN alternative.elements |-> Printed(alternative.elements[i])]
PrintedRule(node) == [i \in DOMAIN node.alternatives |-> PrintedAlternative(node.alternatives[i])]

(* Variant: the definition keeps the name as it was quoted.                 *)
QuotedDefinition(word) == [name |-> word, words |-> {word}]

CustomDefinition(word) == [name |-> Capitalised(word), words |-> {word}]
BuiltinDefinition(name) == [name |-> name, words |-> BuiltinWords[name]]

(* emitWSAndComment; white space and comments match no word.                *)
TailDefinitions == <<[name |-> "Identifier", words |-> Idents \cup Keywords],
                     [name |-> "WS", words |-> {}], [name |-> "Comment", words |-> {}]>>

(* Variant: the built-in definitions come first.                            *)
BuiltinsFirst(customOrder, builtinOrder) ==
  [i \in DOMAIN builtinOrder |-> BuiltinDefinition(builtinOrder[i])] \o TailDefinitions
    \o [i \in DOMAIN customOrder |-> CustomDefinition(customOrder[i])]

(* emitCustomTerminators and emitTerminators.                               *)
Definitions(customOrder, builtinOrder) ==
  [i \in DOMAIN customOrder |-> CustomDefinition(customOrder[i])]
    \o [i \in DOMAIN builtinOrder |-> BuiltinDefinition(builtinOrder[i])] \o TailDefinitions

(* emitAntlr, for some order of the entries of the two tables.              *)
Grammars ==
  {[productions |-> [i \in DOMAIN module.rules |-> PrintedRule(module.rules[i])],
    tokens |-> Definitions(customOrder, builtinOrder)] :
     customOrder \in SetToSeqs(custom), builtinOrder \in SetToSeqs(Builtin)}
NoGrammar == [productions |-> <<>>, tokens |-> <<>>]

(* The name that ANTLR's lexer gives to a word.                             *)
LexedAs(tokens, word) == tokens[CHOOSE i \in DOMAIN tokens :
                                  /\ word \in tokens[i].words
                                  /\ \A j \in 1 .. i - 1 : word \notin tokens[j].words].name
=============================================================================
