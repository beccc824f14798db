---------------------------- MODULE LlvmMachine ----------------------------
(***************************************************************************)
(* What LLVM makes of the blocks of main: which modules it can take, and   *)
(* the execution of one, instruction by instruction.  It is the execution  *)
(* engine pclc creates, taken at what the language reference of LLVM says  *)
(* of the instructions, with the two functions of the program it calls.    *)
(***************************************************************************)
EXTENDS Isa, SequencesExt, Bitwise

VARIABLES
  globals, blocks,   \* the module
  at,                \* <<block, position>> of the instruction to execute
  regs,              \* the results, by block and position
  memory,            \* a sequence of cells for each variable; a cell is a
                     \* sequence of at most one number, none if never written
  stdin, out,
  status

machineVars == <<at, regs, memory, stdin, out, status>>

-----------------------------------------------------------------------------
(* A module is malformed when a block ends in no terminator or has one in  *)
(* its middle,                                                             *)
Terminators == {"br", "condbr", "ret"}
Terminated ==
  \A b \in DOMAIN blocks :
    /\ blocks[b] # <<>>
    /\ \A k \in DOMAIN blocks[b] :
         blocks[b][k].op \in Terminators <=> k = Len(blocks[b])

(* when the types of an instruction's operands do not agree,               *)
TypesAgree ==
  \A b \in DOMAIN blocks : \A k \in DOMAIN blocks[b] :
    LET insn == blocks[b][k]
        Type(n) == insn.args[n].type
    IN  CASE insn.op = "print"             -> Type(1) = "i32"
          [] insn.op \in {"load", "alloca"} -> TRUE
          [] insn.op \in {"store", "gep"}  -> Type(1) # "void" /\ Type(2) # "void"
          [] OTHER -> \A n \in DOMAIN insn.args : Type(n) = Type(1)

(* or when a result is used where control can come without it.             *)
Successors(bs) == UNION {Range(Last(blocks[b]).to) : b \in bs}
RECURSIVE ReachedFrom(_, _)
ReachedFrom(bs, avoided) ==
  LET more == bs \cup (Successors(bs) \ {avoided})
  IN  IF more = bs THEN bs ELSE ReachedFrom(more, avoided)

Used(b) == UNION {{a.reg : a \in {x \in Range(insn.args) : "reg" \in DOMAIN x}} :
                    insn \in Range(blocks[b])}
Dominated ==
  \A b \in DOMAIN blocks : \A reg \in Used(b) :
    reg[1] \notin {0, b} => b \notin ReachedFrom({1} \ {reg[1]}, reg[1])

Malformed == blocks = <<>> \/ ~Terminated \/ ~TypesAgree \/ ~Dominated

-----------------------------------------------------------------------------
Created == /\ at = <<1, 1>> /\ regs = <<>> /\ memory = <<>>
           /\ out = <<>>
           /\ status = "idle"

Zero == <<<<0>>>>
Places == {<<0, k>> : k \in DOMAIN globals}

(* runFunction: the globals are zero.  What happens to a malformed module  *)
(* is anybody's guess, pclc asks for no verification until it has been     *)
(* made into code.                                                         *)
RunMain ==
  /\ status = "idle"
  /\ IF Malformed
       THEN status' = "malformed" /\ UNCHANGED <<regs, memory>>
       ELSE /\ status' = "running"
            /\ regs' = [p \in Places |-> [base |-> p, cell |-> 1]]
            /\ memory' = [p \in Places |-> Zero]
  /\ UNCHANGED <<at, stdin, out>>

-----------------------------------------------------------------------------
Current   == blocks[at[1]][at[2]]
Operand(n) == LET a == Current.args[n]
              IN  IF "const" \in DOMAIN a THEN a.const ELSE regs[a.reg]
OperandType(n) == Current.args[n].type

Executing(ops) == status = "running" /\ Current.op \in ops
Continue == at' = <<at[1], at[2] + 1>>
With(f, key, value) == [k \in DOMAIN f \cup {key} |->
                          IF k = key THEN value ELSE f[k]]
Yields(value) == regs' = With(regs, at, value)

Stops(why) == /\ status' = why
              /\ UNCHANGED <<at, regs, memory, stdin, out>>

(* An i1 is 0 or 1 as a pattern of bits, and 0 or -1 as a number.          *)
Wrap(type, n)   == IF type = "i1" THEN n % 2 ELSE ToSigned(n)
Number(type, n) == IF type = "i1" THEN -n ELSE n
Pattern(type, n) == ToUnsigned(Number(type, n))

OpName == [op \in {"+", "-", "*", "/", "%", "==", "!=", ">", "<", ">=", "<="} |->
  CASE op = "+" -> "add" [] op = "-" -> "sub" [] op = "*" -> "mul"
    [] op = "/" -> "div" [] op = "%" -> "mod" [] op = "==" -> "cmp_eq"
    [] op = "!=" -> "cmp_ne" [] op = ">" -> "cmp_gt" [] op = "<" -> "cmp_ls"
    [] op = ">=" -> "cmp_ge" [] op = "<=" -> "cmp_le"]

(* What a binary instruction gives: and and or are of the bits.            *)
Computed(op, type, m, n) ==
  CASE op = "&&" -> Wrap(type, Pattern(type, m) & Pattern(type, n))
    [] op = "||" -> Wrap(type, Pattern(type, m) | Pattern(type, n))
    [] op \in {"==", "!=", ">", "<", ">=", "<="} ->
         Compute(OpName[op], Number(type, m), Number(type, n))
    [] OTHER -> Wrap(type, Compute(OpName[op], Number(type, m), Number(type, n)))

(* A quotient that is none is undefined.                                   *)
ExecuteBinary ==
  /\ Executing(DOMAIN OpName \cup {"&&", "||"})
  /\ IF /\ Current.op \in {"/", "%"}
        /\ Traps(OpName[Current.op], Number(OperandType(1), Operand(1)),
                                     Number(OperandType(2), Operand(2)))
       THEN Stops("undefined")
       ELSE /\ Yields(Computed(Current.op, OperandType(1), Operand(1), Operand(2)))
            /\ Continue
            /\ UNCHANGED <<memory, stdin, out, status>>

ExecuteUnary ==
  /\ Executing({"neg", "not", "is_not_null"})
  /\ Yields(CASE Current.op = "neg" -> Wrap(OperandType(1), -Operand(1))
              [] Current.op = "not" -> Wrap(OperandType(1), -1 - Operand(1))
              [] Current.op = "is_not_null" -> Truth(Operand(1) # 0))
  /\ Continue
  /\ UNCHANGED <<memory, stdin, out, status>>

-----------------------------------------------------------------------------
(* Memory.  Each time its alloca is executed a variable is a new one.      *)
ExecuteAlloca ==
  /\ Executing({"alloca", "alloca_cleared"})
  /\ Yields([base |-> at, cell |-> 1])
  /\ memory' = With(memory, at, IF Current.op = "alloca" THEN <<<<>>>>
                                ELSE [k \in 1 .. Operand(1) |-> <<0>>])
  /\ Continue
  /\ UNCHANGED <<stdin, out, status>>

ExecuteElement ==
  /\ Executing({"gep"})
  /\ Yields([Operand(1) EXCEPT !.cell =
               @ + Number(OperandType(2), Operand(2))])
  /\ Continue
  /\ UNCHANGED <<memory, stdin, out, status>>

Cells(place) == memory[place.base]

(* A number that was never written, or is outside, is undefined.           *)
ExecuteLoad ==
  /\ Executing({"load"})
  /\ LET place == Operand(1)
     IN  IF \/ place.cell \notin DOMAIN Cells(place)
            \/ Cells(place)[place.cell] = <<>>
           THEN Stops("undefined")
           ELSE /\ Yields(Head(Cells(place)[place.cell]))
                /\ Continue
                /\ UNCHANGED <<memory, stdin, out, status>>

(* Of a variable an i1 writes the low byte only.                           *)
Written(type, old, value) ==
  IF type = "i1" /\ old # <<>>
    THEN <<ToSigned(256 * (ToUnsigned(Head(old)) \div 256) + value)>>
  ELSE IF type = "i1" THEN <<>>
  ELSE <<value>>

ExecuteStore ==
  /\ Executing({"store"})
  /\ LET place == Operand(2)
     IN  IF place.cell \notin DOMAIN Cells(place)
           THEN Stops("undefined")
           ELSE /\ memory' = [memory EXCEPT ![place.base][place.cell] =
                                Written(OperandType(1), @, Operand(1))]
                /\ Continue
                /\ UNCHANGED <<regs, stdin, out, status>>

-----------------------------------------------------------------------------
(* The two functions of the program: __print and __read.                   *)
CallPrint ==
  /\ Executing({"print"})
  /\ out' = Append(out, Operand(1))
  /\ Continue
  /\ UNCHANGED <<regs, memory, stdin, status>>

(* What is no number throws "Invalid read".                                *)
CallRead ==
  /\ Executing({"read"})
  /\ IF stdin = <<>> \/ ~Head(stdin).ok
       THEN Stops("read_error")
       ELSE /\ Yields(Head(stdin).val)
            /\ stdin' = Tail(stdin)
            /\ Continue
            /\ UNCHANGED <<memory, out, status>>

ExecuteBranch ==
  /\ Executing({"br", "condbr"})
  /\ at' = <<IF Current.op = "condbr" /\ Operand(1) = 0 THEN Current.to[2]
                                                        ELSE Current.to[1], 1>>
  /\ UNCHANGED <<regs, memory, stdin, out, status>>

ExecuteReturn == Executing({"ret"}) /\ Stops("returned")

ExecuteStep ==
  \/ ExecuteBinary \/ ExecuteUnary \/ ExecuteAlloca \/ ExecuteElement
  \/ ExecuteLoad \/ ExecuteStore \/ CallPrint \/ CallRead \/ ExecuteBranch
  \/ ExecuteReturn
=============================================================================
