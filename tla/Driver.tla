------------------------------- MODULE Driver -------------------------------
(***************************************************************************)
(* The two programs: main of pclc, from its options to its exit code, and  *)
(* main of pclvm, on the file they share (src/pclc.cc, src/pclvm.cc,       *)
(* src/common.hpp).  The steps that write and read the file are those of   *)
(* ChunkFile; the front end, the generator and the LLVM engine are seen    *)
(* from outside.                                                           *)
(***************************************************************************)
EXTENDS Integers, Sequences

CONSTANTS
  Half, ByteBase, Writers, Breaks, Rooms,   \* see ChunkFile
  Valid, Erroneous, Missing,   \* source files: accepted by the analysis,
                               \*   with errors, and not there to be read
  Rootless,                    \* ... and those of which the parser, after an
                               \*   error it did not recover from, has no tree
  ProgramChunk                 \* what generate_all followed by to_chunk makes
                               \*   of each valid source (module Codegen)

ASSUME SourcesAssumption ==
  /\ Valid \cap Erroneous = {} /\ Rootless \cap (Valid \cup Erroneous) = {}
  /\ Missing \notin Valid \cup Erroneous \cup Rootless

VARIABLES
  file, writer, reader, loaded, stored, owner, split,   \* see ChunkFile
  pc,         \* how far each pclc is, or how it ended
  command,    \* its options
  source,     \* the source file they name
  machine     \* how the latest pclvm ended, or that it still reads

EmptyChunk == [binary |-> <<>>, constants |-> <<>>]

Chunks == {EmptyChunk} \cup {ProgramChunk[s] : s \in Valid}

F == INSTANCE ChunkFile

fileVars == <<file, writer, reader, loaded, stored, owner, split>>
vars     == <<fileVars, pc, command, source, machine>>

-----------------------------------------------------------------------------
(* derive_output_type throws on any other name.                            *)
OutputTypes == {"bytecode", "llvm"}

Sources  == Valid \cup Erroneous \cup Rootless \cup {Missing}
Commands == [help : BOOLEAN, input : BOOLEAN, dump : BOOLEAN,
             type : OutputTypes \cup {"unknown"}, output : BOOLEAN]

NoOptions == [help |-> FALSE, input |-> FALSE, dump |-> FALSE,
              type |-> "bytecode", output |-> FALSE]

Ended == {"idle", "exit0", "exit1", "derailed", "killed"}

(* How executing a chunk may end.  The machine takes the first instruction *)
(* without a look at the size of the code (decl_vm.hpp:250).               *)
Endings(ch) == IF ch = EmptyChunk THEN {"derailed"} ELSE {"exit0", "exit1"}

(* to_chunk of a generator that is fresh from its constructor: pclc makes  *)
(* one, and calls neither generate_all nor anything else of it before      *)
(* (pclc.cc:150-152).                                                      *)
ToChunk == EmptyChunk

Goes(w, where) == pc' = [pc EXCEPT ![w] = where]

-----------------------------------------------------------------------------
Init == /\ F!Init
        /\ pc = [w \in Writers |-> "idle"]
        /\ command = [w \in Writers |-> NoOptions]
        /\ source = [w \in Writers |-> Missing]
        /\ machine = "idle"

(* Somebody runs pclc.                                                     *)
Launch(w, c, s) == /\ pc[w] \in Ended
                   /\ Goes(w, "options")
                   /\ command' = [command EXCEPT ![w] = c]
                   /\ source' = [source EXCEPT ![w] = s]
                   /\ UNCHANGED <<fileVars, machine>>

ParseOptions(w) == /\ pc[w] = "options"
                   /\ Goes(w, IF command[w].help THEN "exit0"
                              ELSE IF ~command[w].input THEN "exit1"
                              ELSE "analysis")
                   /\ UNCHANGED <<fileVars, command, source, machine>>

(* Fault: the errors of the analysis are looked at only before execution.  *)
AfterAnalysisUnchecked(c, s) ==
  IF s = Missing \/ c.type \notin OutputTypes THEN "exit1"
  ELSE IF c.dump THEN "exit0"
  ELSE IF s \in Erroneous /\ ~c.output THEN "exit1"
  ELSE IF c.type = "llvm" THEN "jit"
  ELSE "codegen"

(* A source that cannot be read throws, and so does an unknown output      *)
(* type; the tree is dumped whether or not it has errors.  Without a tree  *)
(* there is nothing to analyze, and pclc goes on as if all were well       *)
(* (frontend_driver.hpp:104).                                              *)
AfterAnalysis(c, s) ==
  IF s = Missing \/ c.type \notin OutputTypes THEN "exit1"
  ELSE IF c.dump THEN "exit0"
  ELSE IF s \in Erroneous THEN "exit1"
  ELSE IF c.type = "llvm" THEN "jit"
  ELSE "codegen"

ParseAndAnalyze(w) ==
  /\ pc[w] = "analysis"
  /\ Goes(w, AfterAnalysis(command[w], source[w]))
  /\ UNCHANGED <<fileVars, command, source, machine>>

(* The LLVM engine compiles the program and runs it, or an error throws.   *)
RunJit(w) == /\ pc[w] = "jit"
             /\ \E exit \in {"exit0", "exit1"} : Goes(w, exit)
             /\ UNCHANGED <<fileVars, command, source, machine>>

(* A new generator, and its chunk, which is written or executed.           *)
Generate(w) ==
  /\ pc[w] = "codegen"
  /\ IF command[w].output
     THEN Goes(w, "writing") /\ F!Start(w, ToChunk)
     ELSE /\ Goes(w, "executing")
          /\ writer' = [writer EXCEPT ![w] =
                          [state |-> "done", chunk |-> ToChunk, pos |-> 0]]
          /\ UNCHANGED <<file, reader, loaded, stored, owner, split>>
  /\ UNCHANGED <<command, source, machine>>

ExecuteChunk(w) ==
  /\ pc[w] = "executing"
  /\ \E end \in Endings(writer[w].chunk) : Goes(w, end)
  /\ UNCHANGED <<fileVars, command, source, machine>>

(* try_open_file, write_chunk and the end of output_file.                  *)
WriteOutput(w) ==
  /\ pc[w] = "writing"
  /\ F!Write(w)
  /\ Goes(w, CASE writer'[w].state \in {"saved", "cut"} -> "exit0"
               [] writer'[w].state = "failed" -> "exit1"
               [] writer'[w].state = "killed" -> "killed"
               [] OTHER -> "writing")
  /\ UNCHANGED <<command, source, machine>>

(* Somebody runs pclvm on the file: it reads all of it, then executes the  *)
(* chunk it finds.                                                         *)
StartPclvm == /\ F!OpenInput
              /\ machine' = "reading"
              /\ UNCHANGED <<pc, command, source>>

ReadInput == /\ F!FetchBlock
             /\ UNCHANGED <<pc, command, source, machine>>

ExecuteInput ==
  /\ F!ReadToEnd
  /\ machine' \in IF loaded'.ok THEN Endings(loaded'.chunk) ELSE {"exit1"}
  /\ UNCHANGED <<pc, command, source>>

Next == \/ \E w \in Writers :
             \/ \E c \in Commands, s \in Sources : Launch(w, c, s)
             \/ ParseOptions(w) \/ ParseAndAnalyze(w) \/ RunJit(w)
             \/ Generate(w) \/ ExecuteChunk(w) \/ WriteOutput(w)
        \/ StartPclvm \/ ReadInput \/ ExecuteInput

Spec == Init /\ [][Next]_vars

-----------------------------------------------------------------------------
(* A program with errors (it has a tree, and the analysis found errors in  *)
(* it) is neither written nor executed, whatever the options, and the exit *)
(* code says so unless the user asked only for help or for a dump          *)
(* (scripts/test_fail.sh relies on the exit code).                         *)
ErrorsAreFinal ==
  \A w \in Writers : source[w] \in Erroneous =>
    /\ pc[w] \notin {"jit", "codegen", "writing", "executing", "derailed"}
    /\ pc[w] = "exit0" => command[w].help \/ command[w].dump

(* The chunk that pclc writes or executes is the program it was given      *)
(* (README.md:107: it compiles the source file into an executable for the  *)
(* ParaCL VM and executes it).                                             *)
CompilesSource ==
  \A w \in Writers : source[w] \in Valid /\ pc[w] \in {"writing", "executing"}
                       => writer[w].chunk = ProgramChunk[source[w]]
=============================================================================
