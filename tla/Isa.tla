-------------------------------- MODULE Isa --------------------------------
(***************************************************************************)
(* The ParaCL instruction set: the opcodes with a handler, the size of an  *)
(* encoded instruction, the machine's integers and the arithmetic the      *)
(* binary instructions do (include/bytecode_vm/virtual_machine.hpp), and   *)
(* how a list of instructions is laid out in a chunk                       *)
(* (include/bytecode_vm/bytecode_builder.hpp, decl_vm.hpp).                *)
(***************************************************************************)
EXTENDS Integers, Sequences, FiniteSets

CONSTANT Half   \* one more than the largest int: 2^31 in the code

(* A comparison pushes 0 or 1, so an int holds both.                       *)
ASSUME HalfAssumption == Half \in Nat /\ Half > 1

Word  == (-Half) .. (Half - 1)     \* execution_value_type, an int
UWord == 0 .. (2 * Half - 1)       \* unsigned: sp, ip, operands

(* Conversions between int and unsigned, and the wrapping of a result that *)
(* does not fit (signed overflow wraps in the builds the code supports).   *)
ToUnsigned(n) == n % (2 * Half)
ToSigned(n) == LET u == n % (2 * Half)
               IN  IF u < Half THEN u ELSE u - 2 * Half

-----------------------------------------------------------------------------
ArithmeticOps == {"add", "sub", "mul", "div", "mod"}
LogicOps      == {"and", "or"}
CompareOps    == {"cmp_eq", "cmp_ne", "cmp_gt", "cmp_ls", "cmp_ge", "cmp_le"}
BinaryOps     == ArithmeticOps \cup LogicOps \cup CompareOps

(* Instructions that carry one four-byte operand.                          *)
UnaryOps == {"push_const", "mov_local_rel", "push_local_rel", "mov_local",
             "push_local", "jmp", "jmp_true", "jmp_false",
             "jmp_dynamic_rel", "update_sp"}

NullaryOps == BinaryOps \cup
              {"ret", "pop", "not", "print", "push_read", "call_setup",
               "push_sp", "jmp_dynamic", "load_r0", "store_r0"}

(* Bytes for which the lookup table holds no handler: the two opcodes of   *)
(* the enumeration no instruction uses, and every value above the last one.*)
UnknownOps == {"push_local_rel_top", "mov_local_rel_top"}

(* One opcode byte, and four bytes for each operand.                       *)
SizeOf(op) == IF op \in UnaryOps THEN 5 ELSE 1

Instr == [op : UnaryOps \cup NullaryOps \cup UnknownOps, arg : UWord]

-----------------------------------------------------------------------------
(* C++ division truncates towards zero and the remainder takes the sign of *)
(* the dividend.                                                           *)
AbsVal(n)  == IF n < 0 THEN -n ELSE n
Quot(a, b) == IF (a < 0) = (b < 0) THEN AbsVal(a) \div AbsVal(b)
                                   ELSE -(AbsVal(a) \div AbsVal(b))
Rem(a, b)  == a - Quot(a, b) * b

(* Division by zero, and the one quotient that does not fit, raise SIGFPE. *)
Traps(op, first, second) ==
  op \in {"div", "mod"} /\ (second = 0 \/ (first = -Half /\ second = -1))

Truth(b) == IF b THEN 1 ELSE 0

Compute(op, first, second) ==
  CASE op = "add"    -> ToSigned(first + second)
    [] op = "sub"    -> ToSigned(first - second)
    [] op = "mul"    -> ToSigned(first * second)
    [] op = "div"    -> ToSigned(Quot(first, second))
    [] op = "mod"    -> ToSigned(Rem(first, second))
    [] op = "and"    -> Truth(first # 0 /\ second # 0)
    [] op = "or"     -> Truth(first # 0 \/ second # 0)
    [] op = "cmp_eq" -> Truth(first = second)
    [] op = "cmp_ne" -> Truth(first # second)
    [] op = "cmp_gt" -> Truth(first > second)
    [] op = "cmp_ls" -> Truth(first < second)
    [] op = "cmp_ge" -> Truth(first >= second)
    [] op = "cmp_le" -> Truth(first <= second)

-----------------------------------------------------------------------------
(* A chunk: the instruction that starts at each address, the size of the   *)
(* binary code in bytes, and the constant pool.  The operand bytes in      *)
(* between are addresses below size at which no instruction starts.        *)
IsChunk(ch) ==
  /\ DOMAIN ch = {"code", "size", "pool"}
  /\ ch.size \in Nat
  /\ DOMAIN ch.code \subseteq 0 .. (ch.size - 1)
  /\ \A a \in DOMAIN ch.code : ch.code[a] \in Instr
  /\ ch.pool \in Seq(Word)

(* The address after the first n instructions, for each n: a byte for each *)
(* of them, and the operands of those that have one.                       *)
Locations(instrs) ==
  LET unary == {k \in DOMAIN instrs : instrs[k].op \in UnaryOps}
  IN  [n \in 0 .. Len(instrs) |-> n + 4 * Cardinality({k \in unary : k <= n})]

(* The chunk the builder writes for a list of instructions; the first is   *)
(* at address 0 and nothing separates them.                                *)
Assemble(instrs, pool) ==
  LET loc    == Locations(instrs)
      placed == {[at |-> loc[n - 1], instr |-> instrs[n]] : n \in DOMAIN instrs}
  IN  [code |-> [a \in {p.at : p \in placed} |->
                   (CHOOSE p \in placed : p.at = a).instr],
       size |-> loc[Len(instrs)],
       pool |-> pool]
=============================================================================
