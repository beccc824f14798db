---------------------------- MODULE DriverProofs ----------------------------
(***************************************************************************)
(* The exit codes of pclc, for any number of processes, any sources and    *)
(* whatever the generator makes of them.                                   *)
(***************************************************************************)
EXTENDS Driver, TLAPS

(* Each process has a place of its own in what the processes keep.         *)
Kept == pc = [w \in Writers |-> pc[w]] /\ command = [w \in Writers |-> command[w]]
          /\ source = [w \in Writers |-> source[w]]

IInv == Kept /\ ErrorsAreFinal

(* A process that has come so far does not work on a file with errors.     *)
LEMMA OthersStay ==
  ASSUME IInv, NEW w \in Writers, NEW where, Goes(w, where),
         command' = command, source' = source,
         source[w] \in Erroneous =>
           /\ where \notin {"jit", "codegen", "writing", "executing", "derailed"}
           /\ where = "exit0" => command[w].help \/ command[w].dump
  PROVE  IInv'
<1>1. \A u \in Writers : pc'[u] = IF u = w THEN where ELSE pc[u]
  BY DEF IInv, Kept, Goes
<1>2. Kept'
  BY DEF IInv, Kept, Goes
<1> QED
  BY <1>1, <1>2 DEF IInv, ErrorsAreFinal

LEMMA NextIInv ==
  ASSUME IInv, [Next]_vars
  PROVE  IInv'
<1>1. ASSUME NEW w \in Writers, NEW c \in Commands, NEW s \in Sources,
             Launch(w, c, s)
      PROVE  IInv'
  <2>1. Kept'
    BY <1>1 DEF Launch, Goes, IInv, Kept
  <2>2. \A u \in Writers :
          IF u = w THEN pc'[u] = "options"
          ELSE pc'[u] = pc[u] /\ command'[u] = command[u] /\ source'[u] = source[u]
    BY <1>1 DEF Launch, Goes, IInv, Kept
  <2> QED
    BY <2>1, <2>2 DEF IInv, ErrorsAreFinal
<1>2. ASSUME NEW w \in Writers, ParseOptions(w) PROVE IInv'
  BY <1>2, OthersStay DEF ParseOptions
<1>3. ASSUME NEW w \in Writers, ParseAndAnalyze(w) PROVE IInv'
  BY <1>3, OthersStay DEF ParseAndAnalyze, AfterAnalysis
<1>4. ASSUME NEW w \in Writers, pc[w] \in {"jit", "codegen", "writing", "executing"}
      PROVE  source[w] \notin Erroneous
  BY <1>4 DEF IInv, ErrorsAreFinal
<1>5. ASSUME NEW w \in Writers, RunJit(w) PROVE IInv'
  BY <1>4, <1>5, OthersStay DEF RunJit
<1>6. ASSUME NEW w \in Writers, Generate(w) PROVE IInv'
  BY <1>4, <1>6, OthersStay DEF Generate
<1>7. ASSUME NEW w \in Writers, ExecuteChunk(w) PROVE IInv'
  BY <1>4, <1>7, OthersStay DEF ExecuteChunk
<1>8. ASSUME NEW w \in Writers, WriteOutput(w) PROVE IInv'
  BY <1>4, <1>8, OthersStay DEF WriteOutput
<1>9. ASSUME StartPclvm \/ ReadInput \/ ExecuteInput \/ UNCHANGED vars PROVE IInv'
  BY <1>9 DEF StartPclvm, ReadInput, ExecuteInput, vars, IInv, Kept, ErrorsAreFinal
<1> QED
  BY <1>1, <1>2, <1>3, <1>5, <1>6, <1>7, <1>8, <1>9 DEF Next

(* A file with errors is never executed nor written, and the exit code of  *)
(* pclc tells, with whatever options and however many processes share the  *)
(* output file.                                                            *)
THEOREM ErrorsStayFinal == Spec => []ErrorsAreFinal
<1>1. Init => IInv
  BY DEF Init, IInv, Kept, ErrorsAreFinal
<1>2. IInv /\ [Next]_vars => IInv'
  BY NextIInv
<1>3. IInv => ErrorsAreFinal
  BY DEF IInv
<1> QED
  BY <1>1, <1>2, <1>3, PTL DEF Spec
=============================================================================
