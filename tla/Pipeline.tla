------------------------------ MODULE Pipeline ------------------------------
(***************************************************************************)
(* From a source file to its output: the front end analyses the tree the   *)
(* parser made of it, generate_all is given what it accepts, and the       *)
(* machine executes the chunk.                                             *)
(*                                                                         *)
(* promise is the output somebody expects of the file: the lines of the    *)
(* .ans file beside a test.                                                *)
(***************************************************************************)
EXTENDS Integers, Sequences

CONSTANTS
  Half,
  Tests,        \* [stmts, input, answer]: what is compiled, read, expected
  MaxStack, MaxOut

VARIABLES
  ast, root, functions, errors, analysis, usegraph, functionStack,
  globalStab, analyzer, verdict,                           \* the front end
  program, code, curLoc, symtabStack, globalScope, constantMap,
  returnAddresses, dynamicJumps, callRelocs, functionDefs, isStatement,
  prevStackSize, pending, todo, locals, outcome,            \* the generator
  chunk, ip, stack, sp, r0, status, stdin, out,             \* the machine
  promise

H == INSTANCE Handover
F == INSTANCE Frontend
       WITH Parsed <- {H!Y!Parse(test.stmts) : test \in Tests},
            todo <- analysis, outcome <- verdict
G == INSTANCE Codegen WITH Programs <- {}, Nodes <- {}
V == INSTANCE ParaclVM WITH Chunks <- {}, Garbage <- {0},
                            Inputs <- {test.input : test \in Tests}

frontVars == <<ast, root, functions, errors, analysis, usegraph,
               functionStack, globalStab, analyzer, verdict>>
genVars   == <<program, code, curLoc, symtabStack, globalScope, constantMap,
               returnAddresses, dynamicJumps, callRelocs, functionDefs,
               isStatement, prevStackSize, pending, todo, locals, outcome>>
vmVars    == <<chunk, ip, stack, sp, r0, status, stdin, out>>
vars      == <<frontVars, genVars, vmVars, promise>>

-----------------------------------------------------------------------------
Init == /\ V!Init
        /\ \E test \in Tests : /\ F!Start(H!Y!Parse(test.stmts))
                               /\ stdin.tokens = test.input
                               /\ promise = test.answer
        /\ G!Created
        /\ program = H!Program(<<>>, <<>>)
        /\ pending = {} /\ todo = <<>> /\ outcome = "idle"

Analyze == /\ F!ExploreTree \/ F!BeginAnalysis \/ F!AnalyzeTree
           /\ UNCHANGED <<genVars, vmVars, promise>>

(* A file with errors in it goes no further.                               *)
Accept == /\ F!Accepted
          /\ G!GenerateAll(H!HandedOver(ast, root, functions))
          /\ UNCHANGED <<frontVars, vmVars, promise>>

Generate == /\ G!GenerateStep
            /\ UNCHANGED <<frontVars, vmVars, promise>>

Load == /\ outcome = "done"
        /\ V!SetProgramCode(G!Chunk)
        /\ UNCHANGED <<frontVars, genVars, promise>>

Execute == /\ V!ExecuteInstruction
           /\ UNCHANGED <<frontVars, genVars, promise>>

Step == Analyze \/ Accept \/ Generate \/ Load \/ Execute

Over == /\ \/ verdict \in F!A!Breaks \cup {"unnamed"}
           \/ verdict = "done" /\ ~F!Accepted
           \/ outcome \in G!Failures
           \/ status \notin {"idle", "running"}
        /\ UNCHANGED vars

Next == Step \/ Over

(* One thread does everything, and it goes on while it can.                *)
Spec == Init /\ [][Next]_vars /\ WF_vars(Step)

-----------------------------------------------------------------------------
(* Compiling a test of the repository and running it prints the lines of   *)
(* its .ans file, in order and nothing else, and ends: what                *)
(* scripts/test_compare.sh asks of pclc and pclvm.                         *)
Abstract == INSTANCE SourceRun
              WITH printed <- out, ended <- status = "halted"
PrintsItsAnswer == Abstract!Spec
=============================================================================
