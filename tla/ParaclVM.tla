------------------------------ MODULE ParaclVM ------------------------------
(***************************************************************************)
(* The bytecode virtual machine: decl_vm::virtual_machine with its context *)
(* (include/bytecode_vm/decl_vm.hpp) running the ParaCL instruction set    *)
(* (include/bytecode_vm/virtual_machine.hpp).                              *)
(*                                                                         *)
(* One step of the model is one call of execute_instruction: fetch at ip,  *)
(* advance, decode the operand, run the handler.  An exception leaves      *)
(* execute and the context is thrown away, so a step that throws keeps     *)
(* only the fact that it did, as the status.                               *)
(***************************************************************************)
EXTENDS Isa

CONSTANTS
  Chunks,     \* the chunks that set_program_code may be given
  Inputs,     \* what standard input may hold, as sequences of Token
  Garbage,    \* values an uninitialised int may be found to hold
  MaxStack,   \* stack elements the host's memory has room for
  MaxOut      \* lines standard output takes before a write fails

(* What `std::cin >> val` makes of the next token: the value it stores and *)
(* whether it succeeds.  Text that is no number stores 0 and fails, one    *)
(* that does not fit stores the nearest int and fails.                     *)
Token == [ok : BOOLEAN, val : Word]

ASSUME ChunksAssumption   == \A ch \in Chunks : IsChunk(ch)
ASSUME InputsAssumption   == Inputs \subseteq Seq(Token)
ASSUME GarbageAssumption  == Garbage \subseteq Word /\ Garbage # {}
ASSUME MaxStackAssumption == MaxStack \in Nat /\ MaxStack < 2 * Half
ASSUME MaxOutAssumption   == MaxOut \in Nat

VARIABLES
  chunk,    \* m_program_code
  ip,       \* m_ip, as an offset into the binary code
  stack,    \* m_execution_stack, its back is the last element
  sp,       \* m_sp, the base of the current frame
  r0,       \* m_r0, where a call leaves its result
  status,   \* how execute goes on or ended (m_halted is Halted, below)
  stdin,    \* the tokens std::cin still holds, and whether it is good()
  out       \* the values printed

vmVars == <<chunk, ip, stack, sp, r0, status, stdin, out>>

Faults == {"bad_pop",        \* vm_error "Bad stack pop"
           "out_of_range",   \* at_stack or constant_at
           "bad_opcode",     \* vm_error "Unknown opcode", after halt()
           "decode_error",   \* vm_error "Decoding error"
           "trapped",        \* the processor's division trap
           "derailed",       \* the iterator points at no instruction
           "exhausted"}      \* no memory for a push, or a failed write

Status == {"idle", "running", "halted"} \cup Faults

(* m_halted: ret sets it on an empty stack, and an unknown opcode does with *)
(* whatever is on the stack, before it throws.                             *)
Halted == status \in {"halted", "bad_opcode"}

NoChunk == [code |-> [a \in {} |-> [op |-> "ret", arg |-> 0]],
            size |-> 0, pool |-> <<>>]

-----------------------------------------------------------------------------
(* The context's helpers.                                                  *)
Fetched    == chunk.code[ip]
Arg        == Fetched.arg
(* Fault: an instruction without operands is not stepped over.             *)
NextIpStuck == IF Fetched.op \in UnaryOps THEN ip + SizeOf(Fetched.op) ELSE ip
NextIp     == ip + SizeOf(Fetched.op)
Top        == stack[Len(stack)]
Second     == stack[Len(stack) - 1]
Popped(n)  == SubSeq(stack, 1, Len(stack) - n)
Relative   == ToUnsigned(Arg + sp)      \* attribute + sp(), unsigned

(* at_stack(index) on a stack of n elements; the model's sequences start   *)
(* at 1.                                                                   *)
InStack(index, n) == index < n
At(index)         == stack[index + 1]

(* The local an instruction names: by its place in the frame, or by its    *)
(* place on the whole stack.                                               *)
Local == IF Fetched.op \in {"push_local_rel", "mov_local_rel",
                            "jmp_dynamic_rel"} THEN Relative ELSE Arg

(* The values a handler pops before it does anything else.                 *)
PopsOf(op) ==
  CASE op \in BinaryOps -> 2
    [] op = "ret"       -> IF stack = <<>> THEN 0 ELSE 2
    [] op \in {"pop", "not", "print", "mov_local_rel", "mov_local",
               "jmp_true", "jmp_false", "jmp_dynamic", "load_r0"} -> 1
    [] OTHER            -> 0

Pushing == {"push_const", "push_read", "push_local_rel", "push_local",
            "call_setup", "push_sp", "store_r0"}

(* The fetch and the decoding of an instruction with opcode op succeed.    *)
Executes(op) == /\ status = "running"
                /\ ip \in DOMAIN chunk.code
                /\ Fetched.op = op
                /\ NextIp <= chunk.size

(* ... and the handler finds what it pops.                                 *)
Handles(op) == Executes(op) /\ Len(stack) >= PopsOf(op)

HasRoom == Len(stack) < MaxStack

(* The constant, or the stack element, an instruction reads exists.        *)
OperandExists ==
  CASE Fetched.op = "push_const" -> Arg < Len(chunk.pool)
    [] Fetched.op \in {"push_local_rel", "push_local", "jmp_dynamic_rel"}
                                 -> InStack(Local, Len(stack))
    [] Fetched.op \in {"mov_local_rel", "mov_local"}
                                 -> InStack(Local, Len(stack) - 1)
    [] OTHER                     -> TRUE

Push(val) == /\ HasRoom
             /\ stack' = Append(stack, val)
             /\ ip' = NextIp

(* What a handler that only works on the stack leaves alone.               *)
UnchangedButStack == UNCHANGED <<chunk, sp, r0, status, stdin, out>>

-----------------------------------------------------------------------------
Init == /\ chunk = NoChunk
        /\ ip = 0
        /\ stack = <<>>
        /\ sp = 0
        /\ r0 = 0
        /\ status = "idle"
        /\ stdin \in [tokens : Inputs, good : {TRUE}]
        /\ out = <<>>

(* set_program_code: the context is replaced by a fresh one for the chunk. *)
SetProgramCode(ch) ==
  /\ status = "idle"
  /\ chunk' = ch
  /\ ip' = 0 /\ stack' = <<>> /\ sp' = 0 /\ r0' = 0
  /\ status' = "running"
  /\ UNCHANGED <<stdin, out>>

-----------------------------------------------------------------------------
(* Handlers that push.                                                     *)
PushConst == /\ Handles("push_const")
             /\ OperandExists
             /\ Push(chunk.pool[Arg + 1])
             /\ UnchangedButStack

PushLocal == \E op \in {"push_local_rel", "push_local"} :
               /\ Handles(op)
               /\ OperandExists
               /\ Push(At(Local))
               /\ UnchangedButStack

(* call_setup and push_sp do the same: they save the frame base.           *)
PushSp == \E op \in {"call_setup", "push_sp"} :
            /\ Handles(op)
            /\ Push(ToSigned(sp))
            /\ UnchangedButStack

StoreR0 == /\ Handles("store_r0")
           /\ Push(r0)
           /\ UnchangedButStack

(* A read takes a token while the stream is good.  Without a token, or     *)
(* after a failure, the int is never written and whatever it held is       *)
(* pushed.                                                                 *)
PushRead ==
  /\ Handles("push_read")
  /\ IF stdin.good /\ stdin.tokens # <<>>
       THEN /\ Push(Head(stdin.tokens).val)
            /\ stdin' = [tokens |-> Tail(stdin.tokens),
                         good   |-> Head(stdin.tokens).ok]
       ELSE /\ \E junk \in Garbage : Push(junk)
            /\ stdin' = [stdin EXCEPT !.good = FALSE]
  /\ UNCHANGED <<chunk, sp, r0, status, out>>

-----------------------------------------------------------------------------
(* Handlers that compute, store and print.                                 *)
Binary ==
  \E op \in BinaryOps :
    /\ Handles(op)
    /\ ~Traps(op, Second, Top)
    /\ stack' = Append(Popped(2), Compute(op, Second, Top))
    /\ ip' = NextIp
    /\ UnchangedButStack

Not == /\ Handles("not")
       /\ stack' = Append(Popped(1), Truth(Top = 0))
       /\ ip' = NextIp
       /\ UnchangedButStack

Pop == /\ Handles("pop")
       /\ stack' = Popped(1)
       /\ ip' = NextIp
       /\ UnchangedButStack

MovLocal ==
  \E op \in {"mov_local_rel", "mov_local"} :
    /\ Handles(op)
    /\ OperandExists
    /\ stack' = [Popped(1) EXCEPT ![Local + 1] = Top]
    /\ ip' = NextIp
    /\ UnchangedButStack

PrintTop == /\ Handles("print")
            /\ Len(out) < MaxOut
            /\ stack' = Popped(1)
            /\ out' = Append(out, Top)
            /\ ip' = NextIp
            /\ UNCHANGED <<chunk, sp, r0, status, stdin>>

LoadR0 == /\ Handles("load_r0")
          /\ stack' = Popped(1)
          /\ r0' = Top
          /\ ip' = NextIp
          /\ UNCHANGED <<chunk, sp, status, stdin, out>>

-----------------------------------------------------------------------------
(* Handlers that move ip or sp.                                            *)
(* Fault: a value that lets the jump happen is left on the stack.          *)
ConditionalJumpKeeps ==
  \E op \in {"jmp_true", "jmp_false"} :
    /\ Handles(op)
    /\ IF (Top # 0) = (op = "jmp_true") THEN ip' = Arg /\ UNCHANGED stack
                                        ELSE ip' = NextIp /\ stack' = Popped(1)
    /\ UnchangedButStack

Jmp == /\ Handles("jmp")
       /\ ip' = Arg
       /\ UNCHANGED stack
       /\ UnchangedButStack

(* jmp_true jumps on a non-zero value, jmp_false on zero.                  *)
ConditionalJump ==
  \E op \in {"jmp_true", "jmp_false"} :
    /\ Handles(op)
    /\ ip' = IF (Top # 0) = (op = "jmp_true") THEN Arg ELSE NextIp
    /\ stack' = Popped(1)
    /\ UnchangedButStack

JmpDynamic == /\ Handles("jmp_dynamic")
              /\ ip' = ToUnsigned(Top)
              /\ stack' = Popped(1)
              /\ UnchangedButStack

JmpDynamicRel == /\ Handles("jmp_dynamic_rel")
                 /\ OperandExists
                 /\ ip' = ToUnsigned(At(Local))
                 /\ UNCHANGED stack
                 /\ UnchangedButStack

(* Fault: the new base is not reduced to an unsigned.                      *)
UpdateSpSigned == /\ Handles("update_sp")
                  /\ sp' = Len(stack) - Arg
                  /\ ip' = NextIp
                  /\ UNCHANGED <<chunk, stack, r0, status, stdin, out>>

UpdateSp == /\ Handles("update_sp")
            /\ sp' = ToUnsigned(Len(stack) - Arg)
            /\ ip' = NextIp
            /\ UNCHANGED <<chunk, stack, r0, status, stdin, out>>

(* ret halts on an empty stack and otherwise takes the saved sp, then the  *)
(* return address, from it.                                                *)
Halt == /\ Handles("ret")
        /\ stack = <<>>
        /\ status' = "halted"
        /\ ip' = NextIp
        /\ UNCHANGED <<chunk, stack, sp, r0, stdin, out>>

Return == /\ Handles("ret")
          /\ stack # <<>>
          /\ sp' = ToUnsigned(Top)
          /\ ip' = ToUnsigned(Second)
          /\ stack' = Popped(2)
          /\ UNCHANGED <<chunk, r0, status, stdin, out>>

-----------------------------------------------------------------------------
(* Steps that end the machine.                                             *)
Dies(fault) == /\ status' = fault
               /\ UNCHANGED <<chunk, ip, stack, sp, r0, stdin, out>>

BadPop == /\ \E op \in BinaryOps \cup NullaryOps \cup UnaryOps :
               Executes(op) /\ Len(stack) < PopsOf(op)
          /\ Dies("bad_pop")

OutOfRange == /\ \E op \in UnaryOps : Handles(op) /\ ~OperandExists
              /\ Dies("out_of_range")

Trap == /\ \E op \in {"div", "mod"} :
             Handles(op) /\ Traps(op, Second, Top)
        /\ Dies("trapped")

(* halt() comes before the throw.                                          *)
UnknownOpcode == /\ status = "running"
                 /\ ip \in DOMAIN chunk.code
                 /\ Fetched.op \in UnknownOps
                 /\ Dies("bad_opcode")

DecodeError == /\ status = "running"
               /\ ip \in DOMAIN chunk.code
               /\ Fetched.op \notin UnknownOps
               /\ NextIp > chunk.size
               /\ Dies("decode_error")

(* ip is the end of the code, beyond it, or inside an instruction: the     *)
(* code reads whatever bytes are there; the model stops.                   *)
Derail == /\ status = "running"
          /\ ip \notin DOMAIN chunk.code
          /\ Dies("derailed")

(* push_back cannot grow the vector, or fmt::println cannot write.         *)
Exhaust == /\ \/ \E op \in Pushing : Handles(op) /\ OperandExists /\ ~HasRoom
              \/ Handles("print") /\ Len(out) >= MaxOut
           /\ Dies("exhausted")

-----------------------------------------------------------------------------
ExecuteInstruction ==
  \/ PushConst \/ PushLocal \/ PushSp \/ StoreR0 \/ PushRead
  \/ Binary \/ Not \/ Pop \/ MovLocal \/ PrintTop \/ LoadR0
  \/ Jmp \/ ConditionalJump \/ JmpDynamic \/ JmpDynamicRel
  \/ UpdateSp \/ Halt \/ Return
  \/ BadPop \/ OutOfRange \/ Trap \/ UnknownOpcode \/ DecodeError
  \/ Derail \/ Exhaust

(* execute has returned or thrown: nothing happens any more.               *)
Stopped == /\ status \in {"halted"} \cup Faults
           /\ UNCHANGED vmVars

Next == \/ \E ch \in Chunks : SetProgramCode(ch)
        \/ ExecuteInstruction
        \/ Stopped

(* The host's loop runs while the machine is not halted.                   *)
Spec == Init /\ [][Next]_vmVars /\ WF_vmVars(ExecuteInstruction)

-----------------------------------------------------------------------------
(* Every component of the context keeps its C++ type.                      *)
TypeOK == /\ IsChunk(chunk)
          /\ ip \in Nat
          /\ stack \in Seq(Word) /\ Len(stack) <= MaxStack
          /\ sp \in UWord
          /\ r0 \in Word
          /\ status \in Status
          /\ stdin \in [tokens : Seq(Token), good : BOOLEAN]
          /\ out \in Seq(Word) /\ Len(out) <= MaxOut

(* In code whose jumps all go forward and that makes no computed jump, the *)
(* machine always stops or reaches a ret: every other handler leaves ip    *)
(* after the instruction it fetched, whatever is on the stack.             *)
ForwardOnly(ch) ==
  \A a \in DOMAIN ch.code :
    /\ ch.code[a].op \notin {"jmp_dynamic", "jmp_dynamic_rel"}
    /\ ch.code[a].op \in {"jmp", "jmp_true", "jmp_false"} => ch.code[a].arg > a

AtReturn == ip \in DOMAIN chunk.code /\ Fetched.op = "ret"

ForwardCodeStops ==
  (status = "running" /\ ForwardOnly(chunk))
     ~> (status # "running" \/ AtReturn)
=============================================================================
