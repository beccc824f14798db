---------------------------- MODULE LlvmPipeline ----------------------------
(***************************************************************************)
(* pclc --output-type llvm: the front end analyses the tree of a file, the *)
(* LLVM backend makes a module of what it accepts, and the engine runs     *)
(* main.                                                                   *)
(*                                                                         *)
(* promise is what somebody expects of the file: the lines it prints, and  *)
(* how it ends.                                                            *)
(***************************************************************************)
EXTENDS Integers, Sequences, Functions

CONSTANTS
  Half,
  Tests         \* [parsed, input, answer, fault]: a file's tree, what it
                \* reads, and what is expected of it

VARIABLES
  ast, root, functions, errors, analysis, usegraph, functionStack,
  globalStab, analyzer, verdict,                           \* the front end
  globals, blocks, insert, sym, todo, values, outcome,      \* the backend
  at, regs, memory, stdin, out, status,                     \* the engine
  promise

Y == INSTANCE Syntax
(* The files are those of Tests, see Init.                                 *)
F == INSTANCE Frontend WITH Parsed <- {}, todo <- analysis, outcome <- verdict
G == INSTANCE LlvmCodegen
M == INSTANCE LlvmMachine

frontVars == <<ast, root, functions, errors, analysis, usegraph,
               functionStack, globalStab, analyzer, verdict>>
genVars     == <<globals, blocks, insert, sym, todo, values, outcome>>
machineVars == <<at, regs, memory, stdin, out, status>>
vars        == <<frontVars, genVars, machineVars, promise>>

-----------------------------------------------------------------------------
Init == \E test \in Tests :
          /\ F!Start(test.parsed)
          /\ G!Created
          /\ M!Created
          /\ stdin = test.input
          /\ promise = [answer |-> test.answer, fault |-> test.fault]

Analyze == /\ F!ExploreTree \/ F!BeginAnalysis \/ F!AnalyzeTree
           /\ UNCHANGED <<genVars, machineVars, promise>>

(* A file with errors in it goes no further.                               *)
Accept == /\ F!Accepted
          /\ G!EmitLlvm
          /\ UNCHANGED <<frontVars, machineVars, promise>>

Generate == /\ G!GenerateStep
            /\ UNCHANGED <<errors, analysis, functionStack, analyzer, verdict,
                           machineVars, promise>>

Run == /\ outcome = "done"
       /\ M!RunMain
       /\ UNCHANGED <<frontVars, genVars, promise>>

Execute == /\ M!ExecuteStep
           /\ UNCHANGED <<frontVars, genVars, promise>>

Step == Analyze \/ Accept \/ Generate \/ Run \/ Execute

Over == /\ \/ verdict \in F!A!Breaks \cup {"unnamed"}
           \/ verdict = "done" /\ ~F!Accepted
           \/ outcome \in G!Failures
           \/ status \notin {"idle", "running"}
        /\ UNCHANGED vars

Next == Step \/ Over

(* One thread does everything, and it goes on while it can.                *)
Spec == Init /\ [][Next]_vars /\ WF_vars(Step)

-----------------------------------------------------------------------------
PartsOf(n) == Range(G!Parts(ast[n]))

(* Some branch of an if holds another if or a loop.                        *)
ControlInBranch ==
  LET control[n \in DOMAIN ast] == \/ ast[n].node \in {"if", "while"}
                                   \/ \E part \in PartsOf(n) : control[part]
  IN  \E n \in DOMAIN ast :
        /\ ast[n].node = "if"
        /\ \E b \in PartsOf(n) \ {ast[n].cond} : control[b]

(* Every name is used in a block that declares it.                         *)
UsedWhereDeclared ==
  LET free[n \in DOMAIN ast] ==
        CASE ast[n].node = "variable"  -> {ast[n].name}
          [] ast[n].node = "subscript" -> {ast[n].name} \cup free[ast[n].expr]
          [] ast[n].node = "statement_block" ->
               UNION {free[part] : part \in PartsOf(n)} \ DOMAIN ast[n].stab
          [] OTHER -> UNION {free[part] : part \in PartsOf(n)}
  IN  free[root] = {}

(* Truth values: the backend keeps them in one bit and does not make       *)
(* numbers of them, or of numbers truth values.                            *)
IsLogical(ref) == \/ ref.node = "binary" /\ ref.op \in {"&&", "||"}
                  \/ ref.node = "unary" /\ ref.op = "!"

IsTruth(ref) == \/ IsLogical(ref)
                \/ ref.node = "binary" /\ ref.op \in G!Comparisons
TruthsApart ==
  \A n \in DOMAIN ast : \A part \in PartsOf(n) :
    IF IsLogical(ast[n]) THEN IsTruth(ast[part])
    ELSE IsTruth(ast[part]) =>
           ast[n].node \in {"if", "while", "statement_block"}

(* Arrays are local, and the only things with elements.                    *)
ArraysAreLocal ==
  LET Declared(name) == {ast[b].stab[name] :
                           b \in {m \in DOMAIN ast :
                                    /\ ast[m].node = "statement_block"
                                    /\ name \in DOMAIN ast[m].stab}}
  IN  /\ \A name \in DOMAIN ast[root].stab :
           ast[ast[root].stab[name]].type = G!IntType
      /\ \A n \in DOMAIN ast : ast[n].node = "subscript" =>
           \A def \in Declared(ast[n].name) : G!IsArray(ast[def].type)

HasFunctionOrBlock ==
  \E n \in DOMAIN ast : ast[n].node \in {"function_definition", "value_block"}

(* The files the backend is up to.                                         *)
Supported ==
  /\ F!Accepted /\ root # G!Null
  /\ ~HasFunctionOrBlock /\ ~ControlInBranch
  /\ UsedWhereDeclared /\ TruthsApart /\ ArraysAreLocal
  /\ promise.fault \in {"none", "no_input"}

-----------------------------------------------------------------------------
(* The analyser ends no scope and neither does the backend, whose          *)
(* end_scope adds one (codegen.cpp:50), and it looks names up from the     *)
(* outside in.  The two cancel out: each name the analyser has let through *)
(* is found, and in one scope only, so that the direction does not matter. *)
NamesAreFound ==
  /\ outcome # "bad_optional"
  /\ outcome \in {"working", "done"} =>
       \A j, k \in DOMAIN sym : j # k => DOMAIN sym[j] \cap DOMAIN sym[k] = {}

(* The jump out of a branch is left away when the block the branch began   *)
(* in has one, which it has also when an if or a loop in the branch put it *)
(* there (codegen.cpp:345); then the block the branch ends in has none.    *)
(* So a module is made of whole blocks exactly for the files without       *)
(* control in a branch.                                                    *)
BlocksTerminate ==
  outcome = "done" /\ status = "idle" /\ root # G!Null =>
    (M!Terminated <=> ~ControlInBranch)

(* What a file the backend is up to prints, run by LLVM, are the lines it  *)
(* is meant to print, and it ends as it is meant to.                       *)
PrintsAsMeant ==
  \/ /\ Len(out) <= Len(promise.answer)
     /\ SubSeq(promise.answer, 1, Len(out)) = out
     /\ status = "returned" => out = promise.answer /\ promise.fault = "none"
     /\ status = "read_error" => promise.fault = "no_input"
  \/ ~Supported

(* Such a file is compiled and run to its end: the backend throws nothing, *)
(* LLVM can take the module, and main comes back or reads what is no       *)
(* number.                                                                 *)
EndsAsMeant == (outcome = "idle" /\ Supported)
                 ~> status \in {"returned", "read_error"}
=============================================================================
