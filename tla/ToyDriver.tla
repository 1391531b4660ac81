------------------------------ MODULE ToyDriver ------------------------------
(****************************************************************************)
(* main of buddy-toy-dsl: the parse, the visit and the passes between the   *)
(* text and what -emit asks for.  An option takes its value when main first *)
(* reads it.  The passes and translations are MLIR's: any of them may fail, *)
(* and one nested in a kind of function runs on the functions of that kind. *)
(****************************************************************************)
EXTENDS ToyVisitor

VARIABLES
  stage,        \* parsing, dumpAST, loading, visiting, passes, exited, aborted
  emitAction, inputType, enableOpt,
  pipeline,     \* the passes the manager has still to run
  ran,          \* those that have run
  functions,    \* the kind of the functions in the module
  output,       \* what has been dumped or run
  code          \* what main returned

optionVars == <<emitAction, inputType, enableOpt>>
moduleVars == <<pipeline, ran, functions>>
exitVars == <<output, code>>
driverVars == <<stage, optionVars, moduleVars, exitVars>>
mainVars == <<vars, driverVars>>

(* The values of -emit, with their places in the enumeration.               *)
Action == [None |-> 0, DumpAST |-> 1, DumpMLIR |-> 2, DumpMLIRAffine |-> 3,
           DumpMLIRLLVM |-> 4, DumpLLVMIR |-> 5, RunJIT |-> 6]
AtLeast(action, bound) == Action[action] >= Action[bound]

DriverInit ==
  /\ Init
  /\ stage = "parsing"
  /\ emitAction = "unread" /\ inputType = "unread" /\ enableOpt = FALSE
  /\ pipeline = <<>> /\ ran = {} /\ functions = "toy"
  /\ output = "nothing" /\ code = 0

ExitWith(value) == stage' = "exited" /\ code' = value
Abort == stage' = "aborted" /\ UNCHANGED exitVars

Parse ==
  /\ stage = "parsing" /\ ParserNext
  /\ UNCHANGED <<visitorVars, driverVars>>

ReadEmit ==
  /\ stage = "parsing" /\ parsed = Len(walk)
  /\ emitAction' \in DOMAIN Action
  /\ stage' = IF emitAction' = "DumpAST" THEN "dumpAST" ELSE "loading"
  /\ UNCHANGED <<vars, inputType, enableOpt, moduleVars, exitVars>>

DumpAST ==
  /\ stage = "dumpAST"
  /\ inputType' \in {"Toy", "MLIR"}
  /\ IF inputType' = "MLIR" THEN ExitWith(5) /\ UNCHANGED output
     ELSE ExitWith(0) /\ output' = "tree"
  /\ UNCHANGED <<vars, emitAction, enableOpt, moduleVars>>

(* loadMLIR asserts that the input is Toy; a release build goes on.         *)
LoadMLIR ==
  /\ stage = "loading"
  /\ inputType' \in {"Toy", "MLIR"}
  /\ \/ stage' = "visiting"
     \/ stage' = "aborted" /\ inputType' = "MLIR"
  /\ UNCHANGED <<vars, emitAction, enableOpt, moduleVars, exitVars>>

Visit ==
  /\ stage = "visiting" /\ VisitorStep
  /\ UNCHANGED driverVars

VisitFails ==
  /\ stage = "visiting" /\ pc \in {"thrown", "undefined"}
  /\ Abort /\ UNCHANGED <<vars, optionVars, moduleVars>>

------------------------------------------------------------------------------
Passes(kind, names) == [i \in DOMAIN names |-> [pass |-> names[i], on |-> kind]]
OnModule(name) == <<[pass |-> name, on |-> "module"]>>
When(condition, passes) == IF condition THEN passes ELSE <<>>
LoweringToAffine(action) == AtLeast(action, "DumpMLIRAffine")
LoweringToLLVM(action) == AtLeast(action, "DumpMLIRLLVM")
Optimised == OnModule("inliner")
               \o Passes("toy", <<"canonicalizer", "shape inference", "canonicalizer", "CSE">>)
Lowered == OnModule("lower to affine") \o Passes("func", <<"canonicalizer", "CSE">>)
Fused == Passes("func", <<"loop fusion", "affine scalar replacement">>)

(* Variant: the dump of the LLVM dialect is not lowered to it.              *)
PipelineStopsShort(action, opt) ==
  When(opt \/ LoweringToAffine(action), Optimised)
    \o When(LoweringToAffine(action), Lowered)
    \o When(LoweringToAffine(action) /\ opt, Fused)
    \o When(AtLeast(action, "DumpLLVMIR"), OnModule("lower to LLVM"))

(* Variant: shapes are inferred for -opt alone.                             *)
PipelineOptOnly(action, opt) ==
  When(opt, Optimised)
    \o When(LoweringToAffine(action), Lowered)
    \o When(LoweringToAffine(action) /\ opt, Fused)
    \o When(LoweringToLLVM(action), OnModule("lower to LLVM"))

Pipeline(action, opt) ==
  When(opt \/ LoweringToAffine(action), Optimised)
    \o When(LoweringToAffine(action), Lowered)
    \o When(LoweringToAffine(action) /\ opt, Fused)
    \o When(LoweringToLLVM(action), OnModule("lower to LLVM"))

BuildPipeline ==
  /\ stage = "visiting" /\ pc = "done"
  /\ enableOpt' \in BOOLEAN
  /\ pipeline' = Pipeline(emitAction, enableOpt')
  /\ stage' = "passes"
  /\ UNCHANGED <<vars, emitAction, inputType, ran, functions, exitVars>>

Finds(pass) == pass.on \in {"module", functions}

RunPass ==
  /\ stage = "passes" /\ pipeline # <<>>
  /\ LET pass == Head(pipeline)
     IN  /\ ran' = IF Finds(pass) THEN ran \cup {pass.pass} ELSE ran
         /\ functions' = CASE pass.pass = "lower to affine" -> "func"
                           [] pass.pass = "lower to LLVM" -> "llvm"
                           [] OTHER -> functions
  /\ pipeline' = Tail(pipeline)
  /\ UNCHANGED <<vars, stage, optionVars, exitVars>>

PassFails ==
  /\ stage = "passes" /\ pipeline # <<>>
  /\ ExitWith(4) /\ UNCHANGED <<vars, optionVars, moduleVars, output>>

------------------------------------------------------------------------------
Finished == stage = "passes" /\ pipeline = <<>>

DumpModule ==
  /\ Finished /\ ~AtLeast(emitAction, "DumpLLVMIR")
  /\ ExitWith(0) /\ output' = functions
  /\ UNCHANGED <<vars, optionVars, moduleVars>>

(* dumpLLVMIR translates the module and runs LLVM's pipeline on it.         *)
DumpLLVMIR ==
  /\ Finished /\ emitAction = "DumpLLVMIR"
  /\ \/ functions = "llvm" /\ ExitWith(0) /\ output' = "LLVM IR"
     \/ ExitWith(-1) /\ UNCHANGED output
  /\ UNCHANGED <<vars, optionVars, moduleVars>>

(* runJit asserts that it has an engine, which needs the same translation.  *)
RunJIT ==
  /\ Finished /\ emitAction = "RunJIT"
  /\ \/ functions = "llvm" /\ ExitWith(0) /\ output' = "run"
     \/ functions = "llvm" /\ ExitWith(-1) /\ UNCHANGED output
     \/ Abort
  /\ UNCHANGED <<vars, optionVars, moduleVars>>

Ended == stage \in {"exited", "aborted"} /\ UNCHANGED mainVars

DriverNext ==
  \/ Parse \/ ReadEmit \/ DumpAST \/ LoadMLIR \/ Visit \/ VisitFails \/ BuildPipeline
  \/ RunPass \/ PassFails \/ DumpModule \/ DumpLLVMIR \/ RunJIT \/ Ended
DriverSpec == DriverInit /\ [][DriverNext]_mainVars
------------------------------------------------------------------------------
(* A pass meets the module as the ones before it were to leave it: its kind *)
(* of function is there, calls are inlined before shapes are inferred,      *)
(* shapes are inferred before the first lowering, and the second lowering   *)
(* follows the cleanups of the first.  A nested pass that finds no function *)
(* is skipped without a word.                                               *)
Before(pass) ==
  CASE pass = "shape inference" -> {"inliner", "canonicalizer"}
    [] pass = "lower to affine" -> {"inliner", "shape inference", "CSE"}
    [] pass = "lower to LLVM" -> {"lower to affine", "CSE"}
    [] OTHER -> {}
PassesPrepared ==
  stage = "passes" /\ pipeline # <<>> =>
    LET pass == Head(pipeline) IN Finds(pass) /\ Before(pass.pass) \subseteq ran

(* When main returns 0 it has put out what the help text of -emit names,    *)
(* made from a program that the visitor could take; the tree alone needs no *)
(* visitor.  Without -opt nothing is left out or merged on the way to the   *)
(* MLIR dump: it shows what the visitor built.                              *)
OutputOf(action) ==
  CASE action = "DumpAST" -> "tree"
    [] action \in {"None", "DumpMLIR"} -> "toy"
    [] action = "DumpMLIRAffine" -> "func"
    [] action = "DumpMLIRLLVM" -> "llvm"
    [] action = "DumpLLVMIR" -> "LLVM IR"
    [] action = "RunJIT" -> "run"
OutputAsNamed ==
  stage = "exited" =>
    /\ code = 0 <=> output # "nothing"
    /\ code = 0 =>
         /\ output = OutputOf(emitAction)
         /\ emitAction = "DumpAST" \/ pc = "done"
         /\ output = "toy" /\ ~enableOpt => ran = {}
==============================================================================
