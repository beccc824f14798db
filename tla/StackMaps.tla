----------------------------- MODULE StackMaps -----------------------------
(***************************************************************************)
(* What the virtual machine promises to code that keeps its stack in       *)
(* order.  A stack map gives, for instructions of a chunk, how many        *)
(* elements are on the stack whenever one of them is fetched, and where    *)
(* the frame starts.  A chunk has one when every instruction finds what it *)
(* takes, when the ways to an instruction agree on its entry, and when ret *)
(* is met with an empty stack only; nothing but the handlers says so of a  *)
(* running machine, since it looks at no chunk before it executes it.      *)
(***************************************************************************)
EXTENDS ParaclVM

CONSTANT StackMap    \* for some of the chunks, a map of their stack

(* What the handlers take from the stack, and what they put there.         *)
Takes(op) ==
  CASE op \in BinaryOps -> 2
    [] op \in {"pop", "not", "print", "mov_local_rel", "mov_local",
               "jmp_true", "jmp_false", "load_r0"} -> 1
    [] OTHER -> 0

Gives(op) == IF op \in Pushing \cup BinaryOps \cup {"not"} THEN 1 ELSE 0

(* The places a jump names, and the next instruction.                      *)
Successors(instr, next) ==
  CASE instr.op = "ret" -> {}
    [] instr.op = "jmp" -> {instr.arg}
    [] instr.op \in {"jmp_true", "jmp_false"} -> {instr.arg, next}
    [] OTHER -> {next}

(* The stack after an instruction that met it as entry says.               *)
After(instr, entry) ==
  [depth |-> entry.depth - Takes(instr.op) + Gives(instr.op),
   base  |-> IF instr.op = "update_sp" THEN ToUnsigned(entry.depth - instr.arg)
                                       ELSE entry.base]

LocalOf(instr, entry) ==
  IF instr.op \in {"push_local_rel", "mov_local_rel"}
    THEN ToUnsigned(instr.arg + entry.base) ELSE instr.arg

InOrder(ch, map, a) ==
  LET instr == ch.code[a]
      entry == map[a]
      next  == a + SizeOf(instr.op)
  IN  /\ instr.op \in (BinaryOps \cup NullaryOps \cup UnaryOps)
                        \ {"jmp_dynamic", "jmp_dynamic_rel"}
      /\ next <= ch.size
      /\ entry.depth >= Takes(instr.op)
      /\ instr.op = "ret" => entry.depth = 0
      /\ instr.op = "push_const" => instr.arg < Len(ch.pool)
      /\ instr.op \in {"push_local_rel", "push_local"}
           => LocalOf(instr, entry) < entry.depth
      /\ instr.op \in {"mov_local_rel", "mov_local"}
           => LocalOf(instr, entry) < entry.depth - 1
      /\ \A s \in Successors(instr, next) :
           s \in DOMAIN map /\ map[s] = After(instr, entry)

IsStackMap(ch, map) ==
  /\ DOMAIN map \subseteq DOMAIN ch.code
  /\ \A a \in DOMAIN map : map[a] \in [depth : Nat, base : UWord]
  /\ 0 \in DOMAIN map /\ map[0] = [depth |-> 0, base |-> 0]
  /\ \A a \in DOMAIN map : InOrder(ch, map, a)

ASSUME StackMapAssumption ==
  \A ch \in DOMAIN StackMap : IsStackMap(ch, StackMap[ch])

(* The machine never fails on a chunk that has a stack map but for lack of *)
(* memory, a full disk or a division, and when it halts execute() answers  *)
(* true: the stack is empty.  Whatever the input and through whatever      *)
(* jumps, no handler takes or leaves an element too many or moves the      *)
(* frame, and no fetch misses an instruction (decl_vm.hpp:245-271).        *)
MappedCodeRuns ==
  chunk \in DOMAIN StackMap =>
    /\ status \notin {"bad_pop", "out_of_range", "bad_opcode", "decode_error",
                      "derailed"}
    /\ Halted => stack = <<>>
=============================================================================
