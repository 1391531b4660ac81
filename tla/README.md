# Verification of Raccoon-MLIR-Tour

TLA+ models of this repository's own programs, model-checked with TLC, with
theorems checked by TLAPS. The centre of the project is **FrontendGen**
(`src/frontend/FrontendGen`): a hand-written lexer and parser for a small
language of rules, dialects and ops, and generators that print an ANTLR grammar
and the C++ class of an MLIR visitor. Around it stand the other programs that
decide something of their own: the Toy compiler, the vectorization of a
convolution, and the importer of TorchDynamo's graphs.

## 1. Inventory

| Part | State | Operations | Interacts with |
|---|---|---|---|
| Lexer (`Lexer.cpp`, `Token.*`) | cursor in the buffer | `next`, `getMarkContent`, `getEndChContent` | writes the Parser's `Token` in place |
| Parser (`Parser.cpp`), Sema (`Sema.cpp`), AST (`AST.h`) | current token, nodes made so far, local variables of the recursive descent | one procedure per construct | calls Lexer, Sema, Terminators, DiagnosticEngine |
| Terminators (`Terminator.h`) | the set of custom terminators | add, look up | filled by the parser, read by the parser *during* the same parse, and by CGModule |
| DiagnosticEngine (`Diagnostics.h`) | one flag, `hasReport` | `report`: prints the first diagnostic only | called by the parser |
| CGModule (`CGModule.cpp`) | output stream, per op: declared names, owned strings | `emitAST`, `emitAntlr`, `emitMLIRVisitor` | reads the module and the terminators |
| Driver (`frontendgen.cpp`) | options, files, the heap | parse, three outputs, deletes | runs the others in sequence |
| Toy visitor (`Toy.g4`, `MLIRToyVisitor.h`) | tensor buffer of the grammar's actions, scoped symbol table, return flag | visitor methods | ANTLR's parser, MLIR builder |
| Toy driver (`main.cpp`) | options, pass manager, module | parse, visit, passes, dump, translate, run | runs the visitor, then MLIR's passes |
| CB convolution (`buddy-conv-vect-exam`) | the IR; what it prints has loop variables and the output memref | one pattern with two forms: masked strips, or one tile | MLIR's pattern driver |
| FX importer (`embedding_exam/torchdynamo`) | operand list, symbol table, function body | one walk over the FX graph, two runs of a pass manager | TorchDynamo, MLIR's Python bindings |
| LowerRaccoon (`midend/lib/Conversion/LowerRaccoon`) | the IR | five rewrite patterns | MLIR's conversion driver |
| RISC-V Raccoon extension (`backend`) | none | instruction encodings | LLVM TableGen |
| Templates, tools, tutorial, examples, build files, `thirdparty` | none of their own | registration, text | |

None of these programs has a second thread. What is hard about them is

* **sticky ends**: at the end of the text, and at a character that no lexeme
  starts with, `Lexer::next` sets the kind of the token, leaves its text alone
  and does not move. The same answer comes back for ever, with an older token's
  text, and several procedures store that text without looking at the kind;
* **partial failure**: diagnostics do not stop anything. `parserRules`,
  `parserDAG`, `parserBuilders`, `parserOp` return early in the middle of a
  construct and their callers go on with what is there: a rule without
  alternatives, a builder whose dag pointer was not written. The importer passes
  over the nodes it does not know, and later nodes may name them;
* **ownership**: nodes are made with `new` in seven places and deleted by one
  loop in the driver, over what happened to reach the module;
* **unchecked hand-over**: the generator takes an index, a dialect and a dag
  from the parser and dereferences them; the Toy visitor uses whatever a visit
  of an expression returned;
* **order**: an identifier is classified by the terminators quoted *before* it
  and printed when all are known; ANTLR takes the first definition that matches;
  a pass nested in one kind of function skips a module that holds another kind;
* **state that outlives its owner**: `StringRef`s into a growing
  `SmallVector<std::string>`, one tensor buffer for all literals, one symbol
  table and one return flag for all functions;
* **boundaries**: unbounded scans for a closing mark, the last strip of a row
  and its mask, tiles larger or smaller than the output, sizes picked by position.

What makes each part correct:

* lexer: it is the stream of whole lexemes the parser assumes; its scans return
  the shortest balanced text and leave the buffer only when a mark is missing;
* parser: no diagnostic means the whole text was parsed and handed over, no
  empty rule, no builder without a dag, no text of an older token, no unused
  custom terminator; every loop ends on every text;
* grammar generator: every terminator that a production uses is defined, and a
  quoted word is lexed as that terminator;
* driver: nothing deleted twice; nothing that was made is forgotten on a clean
  input except where a second declaration overwrites a pointer;
* visitor generator: braces balance exactly when every operand is supported;
  its behaviour becomes undefined at the first builder that its op has not, or
  whose call of `create` needs a namespace the module lacks or two computed
  names, and at no other; the arguments of each `create` are the op's operands
  in order, and the block declares each of them except a custom builder's
  operand without a name and one whose `AnyTypeOf` ends in an unmapped type;
* Toy compiler: a literal gets its own numbers; the operations of a function
  use values of that function only, made before; every function has its
  returns; a program either meets `SoundAt` everywhere or may go wrong; each
  pass meets the module it was written for; the output is what `-emit` names;
* convolution: every product is added once, nothing outside the memrefs is
  touched, and the nest ends with the convolution;
* importer: a name stands for what its node computes; the function returns the
  first result; shapes that fit in the graph fit in the module.

## 2. Modules

| Module | Models | Lines of code |
|---|---|---|
| `TokenStream` | the lexer as its caller sees it | `Lexer.cpp`, `Token.h`, `Token.def` |
| `LexerChars` | the lexer over characters; implements `TokenStream` | `Lexer.cpp`, `Lexer.h` |
| `FrontendParser` | parser, Sema, AST, terminators, diagnostics | `Parser.cpp`, `Sema.cpp`, `AST.h`, `Terminator.h`, `Diagnostics.h` |
| `GrammarCodeGen` | `CGModule::emitAntlr`; extends `FrontendParser` | `CGModule.cpp` 44-125 |
| `FrontendDriver` | `main` and `emit`; extends `GrammarCodeGen` | `frontendgen.cpp` |
| `VisitorCodeGen` | `CGModule::emitMLIRVisitor` | `CGModule.cpp` 126-424 |
| `ToyParser` | the actions embedded in the Toy grammar | `Toy.g4` |
| `ToyVisitor` | `MLIRToyVisitor`; extends `ToyParser` | `MLIRToyVisitor.h` |
| `ToyDriver` | `main` of the Toy compiler; extends `ToyVisitor` | `main.cpp` |
| `ConvProblem`, `Conv2D` | the operands of `linalg.conv_2d` and, abstractly, what it promises | |
| `ConvVectorization` | the loop nests that the pass prints; implements `Conv2D` | `CBConvVect.cpp` |
| `FxImporter` | `DynamoCompiler`, `Importer`, `CodeGen`, `Lowering` | `compiler.py` |
| `LexerProofs`, `FrontendParserProofs`, `FrontendDriverProofs`, `VisitorProofs`, `ToyProofs`, `ConvProofs`, `ImporterProofs` | theorems about the modules of those names; `FrontendDriverProofs` also about `GrammarCodeGen`, `ToyProofs` about `ToyParser`, `ToyVisitor` and `ToyDriver` | |
| `DataLemmas` | lemmas about sequences, sets and counts that the proofs share | |
| `MC...` | the vocabularies, modules, programs, operands and graphs the runs use | |

### TokenStream

The text is not chosen in advance: the lexeme at the cursor is picked when the
cursor gets there (`ahead`), so one state stands for all texts with a common
prefix. `Advance` is `Lexer::next`; `NoMark`/`Marked` are the two outcomes of
`getMarkContent`, `EndFound` the good outcome of `getEndChContent`. Neither scan
tests for the end of the buffer, so a missing closing mark may always be the
case (`MayOverrun`); the parser's `Overrun` action ends the model there, since
nothing can be said of a program that reads past its buffer.

Abstracted: how characters make a lexeme and white space (both are in
`LexerChars`), source locations (except the uninitialized location of a token
that was never read, see `OtherToken`).

### LexerChars

One action is one turn of a loop of `next`, `getMarkContent` or
`getEndChContent`: `SkipWhitespace`, `GrowWord`, `ScanOn` and so on. `Call` makes
any of the parser's calls, in any order. A scan that stands on the NUL behind
the text and goes on has left the buffer, and the model ends (`Overrun`).
The mapping to `TokenStream` takes the place of a token for its text and works
out, as `Ahead`, the lexeme that the longest match finds at the cursor; it is
shown to the stream when a call first meets it (`looked`, `used` are history).
A number stands for every number, as in `TokenStream`.

### FrontendParser

`pc` names the stretch of code between two reads of the lexer; one action is one
such stretch, with its test, its stores and the `advance()` at its end. The
procedures are grouped as in the source: `EngineStep` (`compilEngine`),
`RuleStep`, `GeneratorStep`, `DialectStep`, `OpStep`, `DagStep`, `BuilderStep`.
`local` holds the local variables of the active procedures; `parserDAG` is the
only procedure with several callers and `local.target` says which one. `Fail`,
`Expect`, `Consume`, `Optional` are the parser's own idioms (`report` and return,
`consumeNoAdvance`, `consume`, `if (token.is(k)) advance()`).

`tree` is what `compilEngine` has built; `module` what `actOnModule` handed over.
The two differ after the returns of lines 81 and 91, which skip `actOnModule`.

Each node is owned by one place, so it is represented by its contents;
`allocated` counts the objects made with `new` and `redeclared` records the two
places where a pointer to one is overwritten (a second dialect; a second
`arguments` or `results`).

Abstracted: the names of rules, ops, operands and types are reduced to
`Text`/`Empty`/`Stale`; the spelling of rule elements is kept, because the
classification of an identifier depends on the terminators quoted before it.
Default values of operands and the code of builders are not stored: nothing
reads them. `std::stoi` either reads the index (`BuilderRefs`) or throws
(`BadBuilderRef`, which ends the program).

### GrammarCodeGen

`emitAntlr` as an operator on the module and the table of terminators. A
production is a sequence of names; a definition is a name and the words ANTLR's
lexer takes for it. The two tables are a `StringMap` and a `SmallSet`, whose
order is not the program's: `Grammars` is the set of the grammars that may be
printed, over all orders of the entries.
`Printed` capitalises what the parser classified as a terminator and prints
anything else as it is, and `UpperFirst` is the code's addition to the first
letter. External: ANTLR tries definitions in the order of the file and takes the
first that matches the whole word (`LexedAs`). Left out: white space, the name
of the grammar, the texts of the fixed definitions.

### FrontendDriver

`Parse` is any step of the parser; after it `Emit` reads the options, and
`Antlr`, `Visitor`, `Free` follow in the order of `emit()`; `grammar` is what
`Antlr` has written. `Free` counts what
the loops of lines 87-106 reach. The visitor of a module whose rules name
builders may end in undefined behaviour (`crashed`): `VisitorCodeGen` says when.
The AST dump changes nothing and has no action. Failing to open a file is not
modelled.

### VisitorCodeGen

`todo` is the sequence of things to print, in the order of `emitClass`,
`emitRuleVisitor` and `emitBuilders`; `EmitOp` starts a block, one `Declare...`
action is one turn of an operand loop, `GiveUp` the returns of lines 257, 287,
309 and 339, `CreateOp` the call of `builder.create`. `tmpStrings` is a
`SmallVector<std::string>`: one element inside the object, growth to `2c + 1`,
and `home` changes when its strings move. A `StringRef` whose `owner` is an
earlier home dangles. `pc = "undefined"` is where the program's behaviour is not
defined any more, and nothing is said of what it does then: a custom builder that
is not there (`EmitOp`), a call of `create` with no dialect, no namespace or a
dangling `StringRef` (`CreateUndefined`). A line of a block is a declaration when a
type stands before its name; a custom builder's unnamed operand gives one word of
type and name (`"joined"`), since no blank follows the type there
(`CGModule.cpp:371-381`), and `AnyTypeOf` that ends in an unmapped type gives
`"nothing"` before the name.

The constants are the modules (`Asts`) and the names they use (`OpNames`,
`OperandNames`); `AstAssumption` says that a module has the shape the parser
gives it. `Ref`, `Dag` and `Op` are that shape.

Abstracted: C++ text other than braces, declarations and arguments; the type
names of `TypeMap.def` are mapped or not; `AnyTypeOf[...]` is one of four kinds
that differ in what `emitOp` does.

### ToyParser and ToyVisitor

ANTLR's parser and the visitor go over the same tree one after the other, and
both act on a node when they leave it, except where the visitor decides at the
beginning of a statement (`BeginStatement`, `UninitialisedVariable`,
`ReturnExpression`). A program is therefore the sequence `walk` of the nodes of
its tree in that order; `parsed` and `visited` say how far each of the two is.
A number is known by its literal and its place in it, so `data` shows whose
numbers a literal got. A value is known by the function and the place of the
operation that defines it; `NULL` is the empty `mlir::Value`. `pc` says how the
visit ends: `done`, `thrown` (an exception that `main` does not catch) or
`undefined` (a null pointer followed, or an assertion of MLIR's). The int that
`visitIdentifierExpr` returns for `print` throws when it is used (`VisitPrint`).

External, from how the code uses it: ANTLR runs an embedded action once, when
the parser passes its place, and gives an ambiguous lone number to the first
alternative of `expression`; `DenseElementsAttr::get` takes as many numbers as
the type has elements, or one; an operation cannot be built on a null value.
Left out: syntax errors, shapes and locations.

### ToyDriver

`stage` is the part of `main` to run. An option takes its value in the step in
which `main` first reads it, so the visitor's states are not multiplied by
options it does not see. `Parse` and `Visit` are the steps of `ToyParser` and
`ToyVisitor`; `Pipeline` is the list of passes that the three conditions of
`main` add; `RunPass` takes one of them and `PassFails` is the return of 4.
`functions` is the kind of function the module holds: a pass nested in another
kind finds nothing (`Finds`). External: what a pass does inside; the translation
to LLVM IR succeeds only on a module lowered to LLVM, and may then still fail.
The options are those of the enumerations of `main.cpp`, all of them.

### ConvProblem, Conv2D, ConvVectorization

`Conv2D` is the promise of `linalg.conv_2d`: every product of a kernel element
and an input element is added to its output element once, in any order, and in
the end none is missing. `ConvVectorization` runs the nest that the pattern
prints: `StripStep` is one turn of the innermost loop (full vector or masked
tail), `NextKernelCol`, `NextKernelRow`, `NextRow` the ends of the loops around
it, and `TileStep` one turn of the form that tile sizes select. The refinement
mapping makes `pending` out of the loop variables (`StillToAdd`).
Abstracted: f32 is an integer, so that order of addition does not matter. A
stride of zero or less and tile sizes of another number than two make MLIR fail
on the types of the vectors, and `OptionAssumption` excludes them.

### FxImporter

One action is `CodeGen` on one node: `Placeholder`, `Add`, `Matmul`, `Skip`,
`Output`; `CallRaises` and `OutputRaises` are the exceptions on the way.
`symbolTable` is the dictionary, `argsList` the list that placeholders pop, `ops`
the body of the generated function. `Lowering` is a run of the pass manager: it
runs twice, the second time over the passes of the first as well, and the first
run fails on a module that the verifier refuses. External: FX (`GraphAssumption`
says what graph Dynamo hands over) and the bindings, which raise on `None`. The
operation that `arith.AddFOp` makes is put in the table as it is; a `matmul` that
asks it for its type may raise or not, depending on the bindings' version.

## 3. Runs

| Run | Question | Bounds | States |
|---|---|---|---|
| `parser_rules` | rules, quotes, builder references, dialects: types, silent means complete, empty rules, idle terminators, termination | 19 lexemes, every text of up to 8 | 802k |
| `parser_ops` | ops with every form of operand and lists of builders: stale texts, builders without a dag, termination, no idle turn of a loop | 20 lexemes, every text of up to 15 | 647k |
| `driver` | the whole of FrontendGen: grammar, deletes, leaks | 22 lexemes, up to 8 with rules or dialects, up to 21 with ops; 2 x 2 command lines | 3.4M |
| `lexer` | the lexer implements `TokenStream`; balanced scans; calls end | all texts of up to 3 of 9 characters, of up to 4 letters, of up to 6 brackets; calls in any order | 160k |
| `visitor` | braces, undefined behaviour, contents of the visitor file | 5k modules: up to 1 result, 2 arguments, 2 builders, 3 sets of rules | 118k |
| `visitor_strings` | the comment on `tmpStrings` (refuted) | the same | |
| `toy` | the whole Toy compiler: buffer, scopes, returns, what a program needs to be compiled, passes, output | 2.9k programs: one function of up to 3 statements, or two of up to 2 and 1, from pools of 8 and 24 statements; every `-emit`, `-x` and `-opt` | 612k |
| `toy_buffer`, `toy_return`, `toy_end` | the comments at `Toy.g4:51`, `MLIRToyVisitor.h:251` and `:128` (refuted) | 85 programs of up to 3 statements | |
| `conv` | both loop nests implement the convolution, stay in bounds, and end with it | outputs of up to 1 x 5 and 2 x 3, kernels of up to 2 x 2 with zeros, strips of 1 to 4, four tile sizes and none | 21k |
| `importer` | names, result and shapes of the imported function | graphs of two inputs and two calls, four shapes of input, none to two values returned | 195k |

**Why the bounds are enough.** The lengths are chosen so that the interesting
text fits: two alternatives with a quoted terminator, a name classified before
and after it is quoted, the shortest op whose dag holds a stale operand name,
and a builder with a broken `AnyTypeOf`. Longer texts repeat loops whose body has
been seen at least twice: 15 lexemes let the loops of `parserOp`, `parserDAG` and
`parserBuilders` turn a second time. The theorems remove the bound for the safety
properties of the parser and for `NoIdleLoop`. `parser_rules` and `parser_ops` divide
the vocabulary between them, and each checks `Terminates` over its half, without a
constraint on the states, since liveness needs whole behaviours.
`CONSTRAINT ShortRules` in `driver` (`MaxRuleLexemes`) keeps texts with
rules or dialects short and lets texts with ops alone grow to `MaxLexemes`, so
that the many texts of rules are not multiplied by the long ones of builders;
`-emit=none`, `antlr` and `visitor` run subsets of what `all` runs. In `conv` the
strips are shorter than, equal to and longer than the row, divide it or leave a
tail, the row may be empty, and tiles are smaller or larger than the output in
either direction; `ConvProofs` covers every shape. `importer` has both
orders of two placeholders, constants, unsupported calls before and after
supported ones, and a parameter with the name of the result's key.

**Fairness.** Four specifications state it, always for the same reason: the
program is one thread, and what it is about to do next is done.
`FrontendParser!Spec` has `WF_vars(Step)` (`main` calls `parser()` and nothing
else runs) for `Terminates`, and `DriverSpec` of the front end has it for the
parse; in the model a text is finite (`MaxLexemes`), as a file is.
`LexerChars` has `WF_vars(Step)` for `CallsEnd`: a call goes on, but nothing
forces the parser to make another. `ConvVectorization` has `WF_vars(Step)` for
`EndsWithConvolution`: the loops of the nest are not parallel ones.

Deadlock is checked in every run; a program that has ended stutters by an
explicit disjunct (`Halted`, `DriverEnded`, `Ended`, `Finished`, `pc = "done"`).

Operators introduced by "Variant:" are slips that the code could have had; each
property is violated when its variant takes the place of the definition that
follows it. They are not part of any specification.

### What the runs found

* `visitor_strings`: the comment at `CGModule.cpp:234-235` says that `tmpStrings`
  keeps the computed strings alive longer than the `StringRef`s in `opArguments`.
  It does while there is one. The second unnamed operand makes the vector move
  its strings, and the first `StringRef` is left behind: reading it is undefined
  behaviour. `UndefinedExactly` says when this and the other unchecked reads
  happen, and `FileComplete` speaks of files that were finished without them.
* `FileComplete` is exact about two defects that contradict no comment: nothing is
  declared under the name that `create` is passed for a custom builder's operand
  without a name (`mlir::Valuearg0;`, `CGModule.cpp:371-381`), nor for an operand
  of a default builder whose `AnyTypeOf` ends in a type that is not in the map.
* `BraceDebt` is the exact statement of a defect that contradicts no comment:
  each unsupported operand of a default builder leaves one brace open, silently
  for an `AnyTypeOf` without brackets.
* `toy_buffer`: `Toy.g4:51` says the buffer is cleared before a declaration's
  literal is read; the action stands after it. `print([1]); var a = [1, 2];`
  gives `a` three numbers. `OwnDataIffFresh` is the exact statement.
* `toy_return`: `visitReturnExpr` casts the node of its expression instead of
  visiting it, so every return with a value throws.
* `toy_end`: a return in the middle of a function suppresses the one that the
  comment promises at its end. `ReturnPerFunction` says what holds instead.
* `NoSilentLeak` had to except `redeclared` objects and the run without a grammar
  name (`emit` returns before its deletes).
* `conv`: the tiled form computes one tile, at (0, 0), however large the output
  is. It implements the convolution step by step (`ImplementsConv` holds for
  every tile) but ends with it only if the output fits in the tile (`Covered`).
* `importer`: of the values a graph returns only the first is returned, and if
  its node is of a kind `CodeGen` passes over, the function silently returns
  nothing. A `matmul` of the result of an `add` depends on whether the bindings
  give an operation a type. `ReturnsFirstOutput` states what does hold.
* `toy`: without `-emit` the value is `None`, which `main` treats like a dump of
  the module, so its last message, "No action specified", is never printed; an
  MLIR input is refused by an assertion only, and a release build visits it as
  Toy. `OutputAsNamed` holds with both.
* `QuotedWordsLexed` speaks of the terminators the productions use. The
  definitions themselves are printed without a check: a quoted punctuator, or a
  quoted word whose capitalised form is already a name, gives a definition that
  ANTLR refuses (`CGModule.cpp:70-78`).

## 4. Proofs

**The parser.** `FrontendParserProofs` proves, for every vocabulary and every
length of text, from `LexemeAssumption` (lexemes are identifiers, keywords,
punctuators or numbers, these are disjoint), `WordAssumption` (builder references
and builtin terminators are identifiers) and `NullAssumption` (null is not a dag):

| Theorem | Property | Argument |
|---|---|---|
| `TypeCorrect` | `TypeOK` | inductive as it stands; split into control (`ControlStep`) and data (`DataStep`), one case per action that stores something |
| `SilentRunsParseAll` | `WholeTextParsed` | inductive: every step to `done` but `EndOfText` reports |
| `NoEmptyRule` | `RulesFilled` | `FilledSoFar`: while nothing is reported all rules pushed are filled, and at the end of `parserRules` there is an alternative |
| `NoBuilderWithoutDag` | `BuilderDagsPresent` | `DagsSoFar`: also the op being read, and the dag pointer from the return of `parserDAG` to the push of the builder |
| `NoStaleText` | `StaleReported` | `EndIsSticky` and `StaleSoFar`: the tree holds fresh texts only, and the local variables do too unless the token is at an end, where it stays (`EndStays`) and where no step stores into the tree (`TreeAtEnd`) |
| `NoIdleTerminator` | `CustomTerminatorsUsed` | `CustomSoFar`: each custom terminator is in a pushed rule or in the alternatives in hand, and outside a rule there are none in hand |
| `EveryLoopReadsOn` | `NoIdleLoop` | `Moves` sorts the steps by what they do with the text: read on, stay, scan. `ReadSoFar`: behind the first token a token at an end has the end at the cursor, and a lexeme is looked at before it is read only behind a scan. So a step either spends some of the text or leads to a stretch of a smaller `Rank` |

`RulesFilled`, `BuilderDagsPresent`, `StaleReported` and `CustomTerminatorsUsed`
speak of the end of the parse only, so none is inductive: the strengthenings
speak of every moment before it. All four use `SilentRunsParseAll` to go from
`tree` to `module`.

`NoIdleLoop` is about single steps and needs no fairness. `Unspent` measures what is
left of the text and `Rank` how far a stretch of code is from the end when the
lexer has nothing more to give; both are bounded below. It is what `Terminates`
says but for the scheduling and for there being a next step, which the runs check.

**The driver.** `FrontendDriverProofs` proves, for every vocabulary, length of
text and command line, from the assumptions above and `LetterAssumption` (a
capital letter made small and capitalised again is the same letter; the builtin
terminators are finitely many, begin with a capital letter and match some words):

| Theorem | Property | Argument |
|---|---|---|
| `DriverRunsParser` | | an execution of the driver is one of the parser, so the theorems above hold of it |
| `DriverTypeCorrect` | `DriverTypeOK` | from `DriverInv`: at each stage, what `emit()` has done so far, as a function of module, terminators and options |
| `NothingFreedTwice` | `FreedOnce` | what the deletes reach (`ReachedCounted`) is what the tree holds (`ReachedHeld`), and that was made |
| `CleanRunsFreeAll` | `NoSilentLeak` | the accounts below are equalities as long as nothing is reported and nothing redeclared |
| `TerminatorNamesDefined` | `TerminatorsDefined` | `NamesDefined`: a name is printed for a terminator known when it was classified, the table only grows, and all of the table is defined |
| `QuotedWordsTaken` | `QuotedWordsLexed` | `QuotedFound`: the first definition that matches a quoted word is its own, or a builtin one of that name |

The two counts are not inductive: they speak of the end. `RulesAccounted`,
`DialectAccounted` and `OpsAccounted` say of every moment and every class of
objects that what was made is what the tree holds and what the procedures under
way have in their local variables, exactly while all is well (`Intact`, and the
class not redeclared), and at least that otherwise. They need the type, that a
clean text is parsed to its end, and `PointersFresh` (the pointers of an op or a
module under construction are null until they are set, so that nothing is
overwritten without being recorded). `ParserInv` is their conjunction.
`WordsKnown` is the invariant behind the two theorems on the grammar: an element
without quotes has the name of an identifier, and one classified as a terminator
is in the table.

**The lexer.** `LexerProofs` proves, for every text and every order of calls,
from `BufferAssumption` (the NUL behind a text is the only one and belongs to no
class of characters), for the types also from `LexemeBound` (the constant that
bounds the lexemes taken is larger than any text is long), and for the refinement
from three on the vocabulary: `ClassAssumption` (the classes of characters are
disjoint, the opening marks are operators), `SpellingAssumption` (what is spelt
like a word in a text is a keyword, spelt as its kind, or one of `Idents`; the fold
over strings that spells it is opaque to the provers) and `WordAssumption`
(keywords, operators and other words are those of `TokenStream`):

| Theorem | Property | Argument |
|---|---|---|
| `ScansStayInside` | `OverrunOnlyUnclosed` | `LexInv`: between equal marks no mark has been met; between nested ones `number` is the difference of the counts of opening and closing marks (`CountNext`) and has not been 0. A scan that stands on the NUL has therefore seen the whole rest of the text |
| `LexerTyped` | `TypeOK` | with `TypeInv`: a token starts where a call began and ends where the pointer stands (`TokenInv`, `CallInv`), and as each lexeme is at least one character long, there are no more of them than characters passed (`UsedInv`) |
| `LexerIsStream` | `ImplementsStream` | refinement, with `StreamInv`. A call that meets the lexeme at the cursor reveals what `AheadHere` finds there (`Revealed`, `AheadWord`); a word ends where the longest one does (`LongestUnique`); all other steps are stutters (`HiddenRefines`), white space because it is passed only while the lexeme behind it has not been looked at (`LookedInv`). `VocabularyFits` gives the assumptions of the parser's theorems |
| `ContentBalanced` | `MarksBalanced` | an action property from the same invariant: at the closing mark, and at no place before it, the counts agree (`ScanBalanced`) |

**The visitor generator.** `VisitorProofs` proves, for every set of modules,
from `AstAssumption`:

| Theorem | Property | Argument |
|---|---|---|
| `VisitorTyped` | `TypeOK` | part of `VisitorInv`; the index of a string never passes the number of strings |
| `BracesOwed` | `BraceDebt` | `DebtInv`: at each item of `todo`, the braces open are one for the class, one for the method, one for the block, and one for every builder passed that is not supported (`Owing`) |
| `CallsComplete` | `FileComplete` | `FileInv`: the calls printed so far are those of the builders passed, in order; inside a block, `OperandInv` and `NameInv` say that what is declared and what is kept for `create` is the part of the builder's operands that the loop has behind it, under the names of `NamesOf` |
| `UndefinedOnlyThere` | `UndefinedExactly` | `StringInv`: the vector has moved exactly when two operands of the block have no name, and then a name that lies in its old storage is among those kept for `create` (`NameInv` has them). `FatalStep` goes through the steps: only `EmitOp` and `CreateUndefined` end undefined, and no other step gets past a builder in `Fatal` |

`VisitorInv` is the conjunction of these with `ListInv`: `todo` is always the end
of the list there was at first, which `VisitorsShape` describes (an `Enter`,
builders of the module, a `Leave`, and so on). Neither
`FileComplete` nor `UndefinedExactly` could be proved from the finished file: what is
declared, and whether the strings have moved, is settled operand by operand inside a
block, over the loop of the results and then that of the arguments.

**The Toy visitor.** `ToyProofs` proves, for every set of programs, from
`ProgramAssumption` (a program is what the grammar makes of one: functions of
statements, the nodes of an expression being one tree) and `ValueAssumption` (the
null value is not that of an operation):

| Theorem | Property | Argument |
|---|---|---|
| `OwnData` | `OwnDataIffFresh` | `BufferInv`: the buffer is empty exactly when every literal with numbers parsed so far has an initialised declaration after it (`Cleared`). The property speaks of `data`, which is fixed when a literal is parsed; without the buffer it is not inductive |
| `FirstDeclarationWins` | `NameKeepsValue` | an action property: only `VisitVarDecl` and `LeaveFunction` write the table |
| `VisitorTypes` | `TypeOK` | `ToyInv`: see below |
| `OperandsAreDominated` | `OperandsDominate` | `ToyInv`: the values on `results` and in the table are null or made earlier in the function being built (`Locals`), so a new operation comes after its operands |
| `ReturnsOfFunctions` | `ReturnPerFunction` | `AccountInv`: as long as a function is open, its returns are those of its return statements behind the visitor, and `returnFlag` tells whether there is one |
| `SoundProgramsAreCompiled` | `SoundProgramsCompile` | `AccountInv` counts the operations against the literals, calls and shapes behind the visitor; `SoundInv`: in a sound program every name declared so far has a value, and a null value is on `results` only where the next thing to do is to drop it. `OwnData` gives the literals their numbers |

The visitor casts and consumes whatever an earlier visit left behind, so the last
four need to know where in a program it is. `Leads` says that a sequence of nodes
goes from one `Spot` to another (outside a function, in a block, in a statement
of whose expression so many trees have been left) by moves that the grammar
allows; `LeadsThroughProgram` proves it of every program, from the node up
(`LeadsOn` joins two pieces, `FlattenClosed` all of a list). `WayInv` puts the
visitor on such a way, with `Passable`: it does not get past a declaration
without a value, or a return with one. `ToyInv` adds that there are as many values
on `results` as trees have been left (`ResultsInv`), so that the arguments of a
call are there when it is met. `Effects` goes through the actions once, and says
what each does to the module and to the values; the invariants are shown from it.

All are about the specification of the visitor, and `DriverRunsVisitor` carries
them over to the compiler (`DriverSpec => Spec`). Of the compiler itself:

| Theorem | Property | Argument |
|---|---|---|
| `PassesFindTheirModule` | `PassesPrepared` | `CompilerInv`: every pass left in the pipeline `Fit`s the module that the passes before it will leave (`PassRun` takes one away), shown once for each pipeline that the options can give (`PipelineBuilt`) |
| `ExitCodeMeansOutput` | `OutputAsNamed` | `PipelineLeads`: the module holds the functions that `-emit` asks for, or the pass that makes them is still in the pipeline |

**The convolution.** `ConvProofs` proves, for every shape, kernel, stride and
tile, from `ProblemAssumption` (the memrefs have the shapes of a convolution) and
`OptionAssumption` (strides and tile sizes are positive):

| Theorem | Property | Argument |
|---|---|---|
| `TypeCorrect` | `TypeOK` | inductive, with `StripBounds`: what rounding up the division says of the last strip |
| `AccessesInBounds` | `InBounds` | `StripPlaces`: an active lane lies left of the end of the row, in a full strip because of the test of the tail, in the last one because of the mask |
| `NestImplementsConv` | `ImplementsConv` | refinement: `InitRefines`, and one lemma per action. `StripRefines` and `TileRefines` show that the step adds the products of one tap to pixels that still lacked it (`AddsProducts`); the ends of loops are stutters, which needs `LoopsReset` (an inner variable is 0 when an outer loop moves on) |
| `PixelsHoldPartialSums` | `PartialSums` | from the abstract steps: one that adds the products of a tap to the pixels that lack it adds one element to the set summed over (`AccumulatedGrows`, `SetSumGrows`), the others leave set and sum alone |
| `OnlyConvolutionAtEnd` | | when the nest has covered all pixels and ends, every tap has gone over every pixel: with `PartialSums`, the output is the convolution. It is what `EndsWithConvolution` says but for coming to an end |

**The importer.** `ImporterProofs` proves, for every graph, from
`GraphAssumption` (names are distinct, a node uses nodes before it, there is one
input per placeholder, the output comes last, sums and products have two operands,
and the first of the values returned is a node's) and `NoneAssumption` (`None` is
not a value of the function being built):

| Theorem | Property | Argument |
|---|---|---|
| `ImporterTyped` | `TypeOK` | `ImportInv`: operands are arguments or earlier results (`OpsInv`), and `None` is in the table only once the output node has been visited (`TableInv`) |
| `NamesFollowGraph` | `NamesMeanNodes` | `ArgsInv` counts the placeholders: the arguments left are those of the placeholders to come. As names are distinct, binding a name leaves what the others stand for alone (`BindKeeps`), and new operations leave the old ones where they are (`MeaningKept`) |
| `FirstOutputReturned` | `ReturnsFirstOutput` | `BoundInv`: a node visited is in the table exactly when there is code for it. Then by induction on the nodes (`AllStand`) what a name stands for computes what its node means, and `ResultInv` carries this over from the output node, which may overwrite a name with the key of the result, to the return |
| `FittingGraphsVerified` | `ShapesCarryOver` | `Shaped`: each operation has the shape worked out from its operands, which keep theirs (`ShapeKept`). By induction on the nodes (`AllHaveShape`) it is the shape of the node, and as each operation stands for a node visited (`Imported`), what fits in the graph is well typed in the function (`FittingVerified`) |

`ReturnsFirstOutput` and `ShapesCarryOver` are not inductive: the first speaks of
the end, the second of operations without the nodes they come from. Once the output
node has been visited the table no longer tells nodes from the result, so both
strengthenings speak of the table before that and keep only the conclusion after
it.

**Sums, counts and induction.** The library's induction theorems take an operator
as a parameter, which no prover here can instantiate. `DataLemmas` does the same
with sets: what fails for some number fails for a least one (`LeastNat`), and a
set of numbers that has 0 and with each number the next has them all (`CountUp`).
A recursive function is one that is chosen, so nothing is known of it until one is
shown to exist. `SumsExist`, `SumsAgree` and `TotalGrows` do that for the folds
over sequences (there is such a fold, it does not depend on the length, and what
one element more adds to it), `SetSumsExist` and `SetSumsAny` for sums over sets,
whose value does not depend on the order in which the elements are chosen,
`FlattenClosed` for `FlattenSeq`, and `MeaningIs`, `ComputedIs` and `ShapeIs` for
the importer's functions on graphs and operations, which refer to earlier nodes
and operations only (`MeaningLocal`, `ComputedLocal`, `ShapeLocal`).

**Model-checked only.** Liveness (`Terminates`, `CallsEnd`,
`EndsWithConvolution`) is out of the prover's reach. Every other property of a
passing run is a theorem for all values of the constants.

## 5. Not modelled

* **The LowerRaccoon pass and the Raccoon dialect.** The pass does not compile:
  `RwritePatternSet` (line 198) is no type, and `RaccoonTestConstantLowering`
  (line 27) inherits privately from `OpRewritePattern`. There is no behaviour to
  be faithful to. Should it be repaired, what to model is
  `RaccoonVectorConfigLowering`, which replaces its operation once for each
  addition in the region (line 142), with two additions a second time;
  and `RaccoonTestPrintLowering`, which erases an operation (line 68).
  The dialect is TableGen declarations and registration.
* **The RISC-V extension**: TableGen declarations of intrinsics, without state or
  control. Whether two encodings collide is TableGen's own check.
* **Syntax errors in Toy programs.** `main.cpp` goes on after a parse that failed,
  over the tree of ANTLR's error recovery (line 254); that recovery is ANTLR's.
* **What MLIR's passes do inside.** `main.cpp:132` says that the inliner deletes
  the functions other than `main`; whether it does depends on their visibility
  and on MLIR, and `ToyDriver` says nothing about it.
* **The token that ends a dialect.** `parserDialect` ends with an `advance()` over
  a token it has not looked at (`Parser.cpp:249`). The step is in the model, but
  no property is about it: nothing says which token should stand there.
* **Files** that cannot be opened, and the wording and places of diagnostics.
* **Templates, tools, tutorial, sample programs, MLIR input files, build files and
  third-party code** have no state machine of their own: one pattern on an
  attribute, registration of dialects and passes, text.
