----------------------------- MODULE Toolchain -----------------------------
(***************************************************************************)
(* Compile and run: the generator turns a program into a chunk, the chunk  *)
(* is given to the virtual machine, and the machine executes it            *)
(* (generate_all, to_chunk and execute_chunk in a row).                    *)
(*                                                                         *)
(* Three history variables watch the run.  None restricts it.              *)
(***************************************************************************)
EXTENDS Integers, Sequences

CONSTANTS Half, Programs, Nodes, Inputs, MaxStack, MaxOut

VARIABLES
  program, code, curLoc, symtabStack, globalScope, constantMap,
  returnAddresses, dynamicJumps, callRelocs, functionDefs, isStatement,
  prevStackSize, pending, todo, locals, outcome,            \* the generator
  chunk, ip, stack, sp, r0, status, stdin, out,             \* the machine
  promise,   \* the lines the source means to print
  calls,     \* the calls in progress: what each has saved, innermost last
  depths     \* the frame depth seen at each address executed so far

G == INSTANCE Codegen
V == INSTANCE ParaclVM WITH Chunks <- {}, Garbage <- {0}
S == INSTANCE Source

genVars == <<program, code, curLoc, symtabStack, globalScope, constantMap,
             returnAddresses, dynamicJumps, callRelocs, functionDefs,
             isStatement, prevStackSize, pending, todo, locals, outcome>>
vmVars  == <<chunk, ip, stack, sp, r0, status, stdin, out>>
history == <<promise, calls, depths>>
vars    == <<genVars, vmVars, history>>

-----------------------------------------------------------------------------
(* The programs compared with their meaning are those that have one: they  *)
(* read no more than there is and every value block returns.               *)
Init == /\ G!Init /\ V!Init
        /\ LET meaning == S!Meaning(program, stdin.tokens)
           IN  /\ meaning.fault \in {"none", "trapped"}
               /\ promise = meaning.output
        /\ calls = <<>> /\ depths = <<>>

Compile == /\ G!GenerateStep
           /\ UNCHANGED <<vmVars, history>>

Load == /\ outcome = "done"
        /\ V!SetProgramCode(G!Chunk)
        /\ UNCHANGED <<genVars, history>>

(* The instruction the machine is about to execute.                        *)
Operation == IF ip \in DOMAIN chunk.code THEN chunk.code[ip].op ELSE "none"

Depth == Len(stack) - sp

(* What call_setup leaves to be restored: the return address that was      *)
(* pushed before it, the base of the frame, and the stack below the two.   *)
Opened == [ret |-> stack[Len(stack)], base |-> sp, height |-> Len(stack) - 1]

Execute ==
  /\ V!ExecuteInstruction
  /\ calls' = CASE status' # "running" -> calls
                [] Operation = "call_setup" -> Append(calls, Opened)
                [] Operation = "ret" -> SubSeq(calls, 1, Len(calls) - 1)
                [] OTHER -> calls
  /\ depths' = [a \in DOMAIN depths \cup {ip} |->
                  IF a = ip THEN Depth ELSE depths[a]]
  /\ UNCHANGED <<genVars, promise>>

Over == /\ outcome \in G!Failures \/ status \notin {"idle", "running"}
        /\ UNCHANGED vars

Next == Compile \/ Load \/ Execute \/ Over

(* One thread does everything, and it goes on while it can.                *)
Spec == Init /\ [][Next]_vars /\ WF_vars(Compile \/ Load \/ Execute)

-----------------------------------------------------------------------------
(* The machine never meets a fault in the code the generator writes: it    *)
(* pops only what is there, names only locals and constants that exist,    *)
(* and ip is always at an instruction (the throws of decl_vm.hpp:196-215,  *)
(* and the unchecked dereference of line 250).                             *)
NoFault == status \notin {"bad_pop", "out_of_range", "bad_opcode",
                          "decode_error", "derailed"}

(* A ret gives back exactly what the innermost call_setup saved, however   *)
(* many scopes, value blocks and early returns lie in between: it goes to  *)
(* that call's return address, restores its frame base and leaves the      *)
(* stack as high as it was before the call.                                *)
ReturnMatchesCall ==
  [][Operation = "ret" /\ status' = "running" /\ status = "running"
       => /\ calls # <<>>
          /\ LET call == calls[Len(calls)]
             IN  ip' = call.ret /\ sp' = call.base /\ Len(stack') = call.height
    ]_vars

(* An instruction always executes at the same depth above the base of its  *)
(* frame, whichever branch, iteration or call led to it: the slots that    *)
(* codegen_stack_frame computed once are right every time.                 *)
SameDepth == status = "running" /\ ip \in DOMAIN depths => depths[ip] = Depth

(* The run implements the source: the lines printed are the ones the       *)
(* program means, in order, and the machine then halts (or divides by zero *)
(* where the source does), in bounded memory and output.                   *)
Abstract == INSTANCE SourceRun
              WITH printed <- out, ended <- status \in {"halted", "trapped"}
ImplementsSource == Abstract!Spec
=============================================================================
