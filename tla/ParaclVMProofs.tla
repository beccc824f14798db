--------------------------- MODULE ParaclVMProofs ---------------------------
(***************************************************************************)
(* Theorems about the virtual machine, for every word size, set of chunks, *)
(* input and memory limit.                                                 *)
(***************************************************************************)
EXTENDS StackMaps, SequenceTheorems, TLAPS

-----------------------------------------------------------------------------
(* Reducing an integer to unsigned gives an unsigned.                      *)
LEMMA ToUnsignedType == ASSUME NEW n \in Int PROVE ToUnsigned(n) \in UWord
<1> DEFINE m == 2 * Half
<1>1. m \in Nat /\ m > 0
  BY HalfAssumption
<1> HIDE DEF m
<1>2. n % m \in 0 .. (m - 1)
  BY <1>1
<1> QED
  BY <1>2 DEF m, ToUnsigned, UWord

(* Reducing an integer to int gives an int.                                *)
LEMMA ToSignedType == ASSUME NEW n \in Int PROVE ToSigned(n) \in Word
<1> DEFINE u == n % (2 * Half)
<1>1. u \in 0 .. (2 * Half - 1)
  BY ToUnsignedType DEF ToUnsigned, UWord
<1>2. ToSigned(n) = IF u < Half THEN u ELSE u - 2 * Half
  BY DEF ToSigned
<1> HIDE DEF u
<1> QED
  BY <1>1, <1>2, HalfAssumption DEF Word

(* What a comparison or a logic instruction pushes is an int.              *)
LEMMA TruthType == ASSUME NEW b \in BOOLEAN PROVE Truth(b) \in Word
  BY HalfAssumption DEF Truth, Word

(* The quotient of two ints is an integer unless the divisor is zero.      *)
LEMMA QuotType ==
  ASSUME NEW a \in Int, NEW b \in Int, b # 0
  PROVE  Quot(a, b) \in Int /\ Rem(a, b) \in Int
<1>1. AbsVal(a) \in Nat /\ AbsVal(b) \in Nat /\ AbsVal(b) > 0
  BY DEF AbsVal
<1> DEFINE q == AbsVal(a) \div AbsVal(b)
<1>2. q \in Int
  BY <1>1
<1>3. Quot(a, b) \in Int
  BY <1>2 DEF Quot
<1> QED
  BY <1>3 DEF Rem
(* Every binary instruction that does not trap computes an int from ints.  *)
LEMMA ComputeType ==
  ASSUME NEW op \in BinaryOps, NEW a \in Word, NEW b \in Word,
         ~Traps(op, a, b)
  PROVE  Compute(op, a, b) \in Word
<1>1. a \in Int /\ b \in Int
  BY HalfAssumption DEF Word
<1>2. CASE op \in {"add", "sub", "mul"}
  <2>1. a + b \in Int /\ a - b \in Int /\ a * b \in Int
    BY <1>1
  <2>2. /\ ToSigned(a + b) \in Word
        /\ ToSigned(a - b) \in Word
        /\ ToSigned(a * b) \in Word
    BY <2>1, ToSignedType
  <2> QED
    BY <1>2, <2>2 DEF Compute
<1>3. CASE op \in {"div", "mod"}
  <2>1. b # 0
    BY <1>3 DEF Traps
  <2>2. ToSigned(Quot(a, b)) \in Word /\ ToSigned(Rem(a, b)) \in Word
    BY <1>1, <2>1, QuotType, ToSignedType
  <2> QED
    BY <1>3, <2>2 DEF Compute
<1>4. CASE op \in LogicOps \cup CompareOps
  <2>1. 0 \in Word /\ 1 \in Word
    BY HalfAssumption DEF Word
  <2> QED
    BY <1>4, <2>1 DEF Compute, Truth, LogicOps, CompareOps
<1> QED
  BY <1>2, <1>3, <1>4 DEF BinaryOps, ArithmeticOps

-----------------------------------------------------------------------------
(* What the stack helpers return.                                          *)
LEMMA StackLemma ==
  ASSUME NEW s \in Seq(Word)
  PROVE  /\ \A n \in 0 .. Len(s) :
              /\ SubSeq(s, 1, Len(s) - n) \in Seq(Word)
              /\ Len(SubSeq(s, 1, Len(s) - n)) = Len(s) - n
         /\ \A v \in Word : /\ Append(s, v) \in Seq(Word)
                            /\ Len(Append(s, v)) = Len(s) + 1
         /\ \A i \in 1 .. Len(s) : s[i] \in Word
  OBVIOUS

(* An instruction of a chunk, its operand and the address after it.        *)
LEMMA FetchType ==
  ASSUME TypeOK, ip \in DOMAIN chunk.code
  PROVE  /\ Fetched \in Instr
         /\ Arg \in UWord /\ Arg \in Nat
         /\ NextIp \in Nat
         /\ Relative \in UWord /\ Relative \in Nat
         /\ Local \in Nat
<1>1. Fetched \in Instr
  BY DEF TypeOK, IsChunk, Fetched
<1>2. Arg \in UWord /\ Arg \in Nat
  BY <1>1, HalfAssumption DEF Arg, Instr, UWord
<1>3. NextIp \in Nat
  BY DEF NextIp, TypeOK, SizeOf
<1>4. sp \in Nat
  BY HalfAssumption DEF TypeOK, UWord
<1>5. Relative \in UWord
  BY <1>2, <1>4, ToUnsignedType DEF Relative
<1>6. Relative \in Nat
  BY <1>5, HalfAssumption DEF UWord
<1> QED
  BY <1>1, <1>2, <1>3, <1>5, <1>6 DEF Local

(* Pushing an int keeps the type of the stack and of ip.                   *)
LEMMA PushType ==
  ASSUME TypeOK, ip \in DOMAIN chunk.code, NEW v \in Word, Push(v)
  PROVE  /\ stack' \in Seq(Word) /\ Len(stack') <= MaxStack
         /\ ip' \in Nat
<1>1. NextIp \in Nat
  BY FetchType
<1>2. stack \in Seq(Word) /\ Len(stack) < MaxStack
  BY DEF TypeOK, Push, HasRoom
<1>3. stack' = Append(stack, v) /\ ip' = NextIp
  BY DEF Push
<1> QED
  BY <1>1, <1>2, <1>3, MaxStackAssumption

-----------------------------------------------------------------------------
(* Every step of the machine keeps the types of the context: one step of   *)
(* the proof for each handler.                                             *)
LEMMA TypeStep == ASSUME TypeOK, [Next]_vmVars PROVE TypeOK'
<1> USE DEF TypeOK
<1>1. ASSUME NEW ch \in Chunks, SetProgramCode(ch) PROVE TypeOK'
  BY <1>1, ChunksAssumption, HalfAssumption, MaxStackAssumption
     DEF SetProgramCode, Status, UWord, Word
<1>2. CASE PushConst
  <2>1. chunk.pool[Arg + 1] \in Word
    BY <1>2, FetchType DEF PushConst, Handles, Executes, OperandExists, IsChunk
  <2> QED
    BY <1>2, <2>1, PushType
       DEF PushConst, Handles, Executes, UnchangedButStack
<1>3. CASE PushLocal
  <2>1. PICK op \in {"push_local_rel", "push_local"} :
          Handles(op) /\ OperandExists /\ Push(At(Local)) /\ UnchangedButStack
    BY <1>3 DEF PushLocal
  <2>2. At(Local) \in Word
    BY <2>1, FetchType DEF Handles, Executes, OperandExists, InStack, At
  <2> QED
    BY <2>1, <2>2, PushType DEF Handles, Executes, UnchangedButStack
<1>4. CASE PushSp
  <2>1. ToSigned(sp) \in Word
    BY ToSignedType, HalfAssumption DEF UWord
  <2> QED
    BY <1>4, <2>1, PushType DEF PushSp, Handles, Executes, UnchangedButStack
<1>5. CASE StoreR0
  BY <1>5, PushType DEF StoreR0, Handles, Executes, UnchangedButStack
<1>6. CASE PushRead
  <2>0. stdin.tokens # <<>> => /\ Head(stdin.tokens) \in Token
                               /\ Tail(stdin.tokens) \in Seq(Token)
    BY HeadTailProperties
  <2>1. PICK v \in Word : Push(v)
    <3>1. CASE stdin.good /\ stdin.tokens # <<>>
      <4>1. Head(stdin.tokens).val \in Word
        BY <2>0, <3>1 DEF Token
      <4> QED
        BY <1>6, <3>1, <4>1 DEF PushRead
    <3>2. CASE ~(stdin.good /\ stdin.tokens # <<>>)
      BY <1>6, <3>2, GarbageAssumption DEF PushRead
    <3> QED
      BY <3>1, <3>2
  <2>2. stdin' \in [tokens : Seq(Token), good : BOOLEAN]
    <3>1. CASE stdin.good /\ stdin.tokens # <<>>
      <4>1. Head(stdin.tokens).ok \in BOOLEAN
        BY <2>0, <3>1 DEF Token
      <4>2. stdin' = [tokens |-> Tail(stdin.tokens),
                      good   |-> Head(stdin.tokens).ok]
        BY <1>6, <3>1 DEF PushRead
      <4> QED
        BY <2>0, <3>1, <4>1, <4>2
    <3>2. CASE ~(stdin.good /\ stdin.tokens # <<>>)
      BY <1>6, <3>2 DEF PushRead
    <3> QED
      BY <3>1, <3>2
  <2> QED
    BY <1>6, <2>1, <2>2, PushType DEF PushRead, Handles, Executes
<1>7. CASE Binary
  <2>1. PICK op \in BinaryOps :
          /\ Handles(op) /\ ~Traps(op, Second, Top)
          /\ stack' = Append(Popped(2), Compute(op, Second, Top))
          /\ ip' = NextIp /\ UnchangedButStack
    BY <1>7 DEF Binary
  <2>2. Len(stack) >= 2
    BY <2>1 DEF Handles, PopsOf, BinaryOps, ArithmeticOps, LogicOps,
                CompareOps
  <2>3. Compute(op, Second, Top) \in Word
    BY <2>1, <2>2, StackLemma, ComputeType DEF Second, Top
  <2>4. stack' \in Seq(Word) /\ Len(stack') <= MaxStack
    BY <2>1, <2>2, <2>3, StackLemma, MaxStackAssumption DEF Popped
  <2> QED
    BY <2>1, <2>4, FetchType DEF Handles, Executes, UnchangedButStack
<1>8. CASE Not
  <2>1. Len(stack) >= 1
    BY <1>8 DEF Not, Handles, PopsOf, BinaryOps, ArithmeticOps, LogicOps,
                CompareOps
  <2>2. stack' = Append(Popped(1), Truth(Top = 0)) /\ ip' = NextIp
    BY <1>8 DEF Not
  <2>3. Truth(Top = 0) \in Word
    BY TruthType
  <2>4. stack' \in Seq(Word) /\ Len(stack') <= MaxStack
    BY <2>1, <2>2, <2>3, StackLemma, MaxStackAssumption DEF Popped
  <2> QED
    BY <1>8, <2>2, <2>4, FetchType
       DEF Not, Handles, Executes, UnchangedButStack
<1> DEFINE Pops1 == /\ Len(stack) >= 1
                    /\ Popped(1) \in Seq(Word)
                    /\ Len(Popped(1)) = Len(stack) - 1
                    /\ Len(Popped(1)) <= MaxStack
                    /\ Top \in Word
<1>9. ASSUME NEW op \in {"pop", "print", "mov_local_rel", "mov_local",
                         "jmp_true", "jmp_false", "jmp_dynamic", "load_r0"},
             Handles(op)
      PROVE  Pops1
  <2>1. Len(stack) >= 1
    BY <1>9 DEF Handles, PopsOf, BinaryOps, ArithmeticOps, LogicOps,
                CompareOps
  <2>2. 1 \in 0 .. Len(stack) /\ Len(stack) \in 1 .. Len(stack)
    BY <2>1
  <2>3. Popped(1) \in Seq(Word) /\ Len(Popped(1)) = Len(stack) - 1
    BY <2>2, StackLemma DEF Popped
  <2>4. Top \in Word
    BY <2>2, StackLemma DEF Top
  <2> QED
    BY <2>1, <2>3, <2>4, MaxStackAssumption
<1> HIDE DEF Pops1
<1>10. CASE Pop
  BY <1>9, <1>10, FetchType
     DEF Pop, Handles, Executes, UnchangedButStack, Pops1
<1>11. CASE MovLocal
  <2>1. PICK op \in {"mov_local_rel", "mov_local"} :
          /\ Handles(op) /\ OperandExists
          /\ stack' = [Popped(1) EXCEPT ![Local + 1] = Top]
          /\ ip' = NextIp /\ UnchangedButStack
    BY <1>11 DEF MovLocal
  <2>2. Pops1
    BY <1>9, <2>1
  <2>3. Popped(1) \in Seq(Word) /\ Len(Popped(1)) <= MaxStack /\ Top \in Word
    BY <2>2 DEF Pops1
  <2>4. Local + 1 \in 1 .. Len(Popped(1))
    BY <2>1, <2>2, FetchType
       DEF Pops1, Handles, Executes, OperandExists, InStack
  <2>5. stack' \in Seq(Word) /\ Len(stack') <= MaxStack
    BY <2>1, <2>3, <2>4, ExceptSeq
  <2> QED
    BY <2>1, <2>5, FetchType DEF Handles, Executes, UnchangedButStack
<1>12. CASE PrintTop
  <2>1. Pops1
    BY <1>9, <1>12 DEF PrintTop
  <2>2. out' \in Seq(Word) /\ Len(out') <= MaxOut
    BY <1>12, <2>1, MaxOutAssumption DEF PrintTop, Pops1
  <2> QED
    BY <1>12, <2>1, <2>2, FetchType DEF PrintTop, Handles, Executes, Pops1
<1>13. CASE LoadR0
  BY <1>9, <1>13, FetchType DEF LoadR0, Handles, Executes, Pops1
<1>14. CASE Jmp
  BY <1>14, FetchType DEF Jmp, Handles, Executes, UnchangedButStack
<1>15. CASE ConditionalJump
  BY <1>9, <1>15, FetchType
     DEF ConditionalJump, Handles, Executes, UnchangedButStack, Pops1
<1>16. ASSUME NEW v \in Word PROVE ToUnsigned(v) \in UWord /\ ToUnsigned(v) \in Nat
  <2>1. v \in Int
    BY HalfAssumption DEF Word
  <2> QED
    BY <2>1, ToUnsignedType, HalfAssumption DEF UWord
<1>17. CASE JmpDynamic
  BY <1>9, <1>16, <1>17
     DEF JmpDynamic, Handles, Executes, UnchangedButStack, Pops1
<1>18. CASE JmpDynamicRel
  <2>1. At(Local) \in Word
    BY <1>18, FetchType
       DEF JmpDynamicRel, Handles, Executes, OperandExists, InStack, At
  <2> QED
    BY <1>16, <1>18, <2>1 DEF JmpDynamicRel, UnchangedButStack
<1>19. CASE UpdateSp
  <2>1. Len(stack) - Arg \in Int
    BY <1>19, FetchType DEF UpdateSp, Handles, Executes
  <2> QED
    BY <1>19, <2>1, ToUnsignedType, FetchType DEF UpdateSp, Handles, Executes
<1>20. CASE Halt
  BY <1>20, FetchType DEF Halt, Handles, Executes, Status
<1>21. CASE Return
  <2>1. Len(stack) >= 2
    BY <1>21 DEF Return, Handles, PopsOf, BinaryOps, ArithmeticOps, LogicOps,
                 CompareOps
  <2>2. Top \in Word /\ Second \in Word
    BY <2>1, StackLemma DEF Top, Second
  <2>3. stack' \in Seq(Word) /\ Len(stack') <= MaxStack
    BY <1>21, <2>1, StackLemma, MaxStackAssumption DEF Return, Popped
  <2> QED
    BY <1>16, <1>21, <2>2, <2>3 DEF Return
<1>22. ASSUME NEW fault \in Faults, Dies(fault) PROVE TypeOK'
  BY <1>22 DEF Dies, Status
<1>23. CASE BadPop \/ OutOfRange \/ Trap \/ UnknownOpcode \/ DecodeError
              \/ Derail \/ Exhaust
  BY <1>22, <1>23 DEF BadPop, OutOfRange, Trap, UnknownOpcode, DecodeError,
                      Derail, Exhaust, Faults
<1>24. CASE Stopped \/ UNCHANGED vmVars
  BY <1>24 DEF Stopped, vmVars
<1> QED
  BY <1>1, <1>2, <1>3, <1>4, <1>5, <1>6, <1>7, <1>8, <1>10, <1>11, <1>12,
     <1>13, <1>14, <1>15, <1>17, <1>18, <1>19, <1>20, <1>21, <1>23, <1>24
     DEF Next, ExecuteInstruction

(* Type correctness: in every reachable state ip is a natural, sp and the  *)
(* operands are unsigned, and every element of the stack, r0 and the       *)
(* output is an int, whatever chunk the machine was given.                 *)
THEOREM TypeCorrect == Spec => []TypeOK
<1>1. Init => TypeOK
  <2> SUFFICES ASSUME Init PROVE TypeOK
    OBVIOUS
  <2>1. IsChunk(chunk)
    BY DEF Init, IsChunk, NoChunk
  <2>2. 0 \in Word /\ 0 \in UWord
    BY HalfAssumption DEF Word, UWord
  <2>3. stdin \in [tokens : Seq(Token), good : BOOLEAN]
    BY InputsAssumption DEF Init
  <2> QED
    BY <2>1, <2>2, <2>3, MaxStackAssumption, MaxOutAssumption
       DEF Init, TypeOK, Status
<1>2. TypeOK /\ [Next]_vmVars => TypeOK'
  BY TypeStep
<1> QED
  BY <1>1, <1>2, PTL DEF Spec

-----------------------------------------------------------------------------
(* The inductive invariant behind MappedCodeRuns: whenever an instruction  *)
(* of a mapped chunk is fetched, the stack and the frame are as the map    *)
(* has them.                                                               *)
OnMap ==
  /\ status = "running" => /\ ip \in DOMAIN StackMap[chunk]
                           /\ Len(stack) = StackMap[chunk][ip].depth
                           /\ sp = StackMap[chunk][ip].base
  /\ status \notin {"bad_pop", "out_of_range", "bad_opcode", "decode_error",
                    "derailed"}
  /\ Halted => stack = <<>>

KeepsToMap == chunk \in DOMAIN StackMap => OnMap

(* What the map of the running chunk says of the instruction at ip.        *)
LEMMA MapLemma ==
  ASSUME TypeOK, OnMap, status = "running", chunk \in DOMAIN StackMap
  PROVE  /\ ip \in DOMAIN chunk.code
         /\ Fetched.op \in (BinaryOps \cup NullaryOps \cup UnaryOps)
                             \ {"jmp_dynamic", "jmp_dynamic_rel"}
         /\ NextIp <= chunk.size
         /\ Len(stack) >= Takes(Fetched.op)
         /\ Fetched.op = "ret" => stack = <<>>
         /\ Fetched.op \in {"push_const", "push_local_rel", "push_local",
                            "mov_local_rel", "mov_local"} => OperandExists
         /\ \A a \in Successors(Fetched, NextIp) :
              /\ a \in DOMAIN StackMap[chunk]
              /\ StackMap[chunk][a].depth
                   = Len(stack) - Takes(Fetched.op) + Gives(Fetched.op)
              /\ StackMap[chunk][a].base
                   = IF Fetched.op = "update_sp"
                       THEN ToUnsigned(Len(stack) - Arg) ELSE sp
<1> DEFINE map == StackMap[chunk]
<1>1. IsStackMap(chunk, map)
  BY StackMapAssumption
<1>2. ip \in DOMAIN map /\ Len(stack) = map[ip].depth /\ sp = map[ip].base
  BY DEF OnMap
<1>3. ip \in DOMAIN chunk.code /\ InOrder(chunk, map, ip)
  BY <1>1, <1>2 DEF IsStackMap
<1> HIDE DEF map
<1>4. /\ Fetched.op \in (BinaryOps \cup NullaryOps \cup UnaryOps)
                          \ {"jmp_dynamic", "jmp_dynamic_rel"}
      /\ NextIp <= chunk.size
      /\ Len(stack) >= Takes(Fetched.op)
  BY <1>2, <1>3 DEF InOrder, Fetched, NextIp
<1>5. Fetched.op = "ret" => stack = <<>>
  <2>1. Fetched.op = "ret" => Len(stack) = 0
    BY <1>2, <1>3 DEF InOrder, Fetched
  <2> QED
    BY <2>1 DEF TypeOK
<1>6. Fetched.op \in {"push_const", "push_local_rel", "push_local",
                      "mov_local_rel", "mov_local"} => OperandExists
  <2>1. Local = LocalOf(Fetched, map[ip])
          \/ Fetched.op \notin {"push_local_rel", "push_local",
                                "mov_local_rel", "mov_local"}
    BY <1>2 DEF Local, LocalOf, Relative, Arg
  <2> QED
    BY <1>2, <1>3, <2>1 DEF InOrder, OperandExists, InStack, Fetched, Arg
<1>7. \A a \in Successors(Fetched, NextIp) :
        a \in DOMAIN map /\ map[a] = After(Fetched, map[ip])
  BY <1>3 DEF InOrder, Fetched, NextIp
<1>8. /\ After(Fetched, map[ip]).depth
           = Len(stack) - Takes(Fetched.op) + Gives(Fetched.op)
      /\ After(Fetched, map[ip]).base
           = IF Fetched.op = "update_sp"
               THEN ToUnsigned(Len(stack) - Arg) ELSE sp
  BY <1>2 DEF After, Arg
<1> QED
  BY <1>3, <1>4, <1>5, <1>6, <1>7, <1>8 DEF map

(* A handler that goes where the map allows, and takes and gives what the  *)
(* map counts, leaves the machine on the map.                              *)
LEMMA FollowsLemma ==
  ASSUME TypeOK, OnMap, status = "running", chunk \in DOMAIN StackMap,
         chunk' = chunk, status' = "running",
         ip' \in Successors(Fetched, NextIp),
         Len(stack') = Len(stack) - Takes(Fetched.op) + Gives(Fetched.op),
         sp' = IF Fetched.op = "update_sp"
                 THEN ToUnsigned(Len(stack) - Arg) ELSE sp
  PROVE  OnMap'
<1>1. /\ ip' \in DOMAIN StackMap[chunk]
      /\ StackMap[chunk][ip'].depth = Len(stack')
      /\ StackMap[chunk][ip'].base = sp'
  BY MapLemma
<1> QED
  BY <1>1 DEF OnMap, Halted

(* The number of elements a handler finds is what it pops.                 *)
LEMMA PopsLemma ==
  ASSUME TypeOK, OnMap, status = "running", chunk \in DOMAIN StackMap
  PROVE  Len(stack) >= PopsOf(Fetched.op)
<1>1. /\ Len(stack) >= Takes(Fetched.op)
      /\ Fetched.op = "ret" => stack = <<>>
      /\ Fetched.op # "jmp_dynamic"
  BY MapLemma
<1>2. Len(stack) \in Nat
  BY DEF TypeOK
<1> QED
  BY <1>1, <1>2 DEF PopsOf, Takes, BinaryOps, ArithmeticOps, LogicOps,
                    CompareOps

(* A machine on its map stays on it: the handlers that push, those that    *)
(* compute, store and print, those that jump, and the ways to end.         *)
LEMMA MapStep ==
  ASSUME TypeOK, OnMap, chunk \in DOMAIN StackMap, ExecuteInstruction
  PROVE  OnMap'
<1>1. status = "running"
  BY DEF ExecuteInstruction, PushConst, PushLocal, PushSp, StoreR0,
         PushRead, Binary, Not, Pop, MovLocal, PrintTop, LoadR0, Jmp,
         ConditionalJump, JmpDynamic, JmpDynamicRel, UpdateSp, Halt, Return,
         BadPop, OutOfRange, Trap, UnknownOpcode, DecodeError, Derail,
         Exhaust, Handles, Executes
<1>20. /\ ip \in DOMAIN chunk.code
       /\ Fetched.op \notin UnknownOps
       /\ ~(NextIp > chunk.size) /\ ~(Len(stack) < PopsOf(Fetched.op))
  <2>1. UnknownOps \cap (BinaryOps \cup NullaryOps \cup UnaryOps) = {}
    BY DEF UnknownOps, BinaryOps, ArithmeticOps, LogicOps, CompareOps,
           NullaryOps, UnaryOps
  <2>2. ip \in DOMAIN chunk.code /\ Fetched.op \notin UnknownOps
    BY <1>1, <2>1, MapLemma
  <2>3. NextIp \in Nat /\ chunk.size \in Nat /\ NextIp <= chunk.size
    BY <1>1, <2>2, MapLemma, FetchType DEF TypeOK, IsChunk
  <2>4. Len(stack) \in Nat /\ PopsOf(Fetched.op) \in Nat
    BY DEF TypeOK, PopsOf
  <2> QED
    BY <1>1, <2>2, <2>3, <2>4, PopsLemma
<1> USE DEF BinaryOps, ArithmeticOps, LogicOps, CompareOps
<1>2. /\ stack \in Seq(Word)
      /\ Len(stack) \in Nat
      /\ \A n \in 0 .. Len(stack) : Len(Popped(n)) = Len(stack) - n
      /\ \A n \in 0 .. Len(stack) : Popped(n) \in Seq(Word)
  BY StackLemma DEF TypeOK, Popped
<1>3. ASSUME NEW op \in Pushing, Handles(op), NEW v, Push(v),
             UNCHANGED <<chunk, sp, status>>
      PROVE  OnMap'
  <2>1. Fetched.op = op /\ ip' = NextIp /\ Len(stack') = Len(stack) + 1
    BY <1>2, <1>3 DEF Handles, Executes, Push
  <2>2. Takes(op) = 0 /\ Gives(op) = 1 /\ op # "update_sp"
    BY DEF Takes, Gives, Pushing
  <2>3. ip' \in Successors(Fetched, NextIp)
    BY <2>1 DEF Successors, Pushing
  <2> QED
    BY <1>1, <1>2, <1>3, <2>1, <2>2, <2>3, FollowsLemma
<1>4. CASE PushConst \/ PushLocal \/ PushSp \/ StoreR0 \/ PushRead
  <2>1. \E op \in Pushing : \E v : Handles(op) /\ Push(v)
    BY <1>4 DEF PushConst, PushLocal, PushSp, StoreR0, PushRead, Pushing
  <2>2. UNCHANGED <<chunk, sp, status>>
    BY <1>4 DEF PushConst, PushLocal, PushSp, StoreR0, PushRead,
                UnchangedButStack
  <2> QED
    BY <1>3, <2>1, <2>2
<1>5. ASSUME NEW op \in BinaryOps \cup {"pop", "not", "print",
                          "mov_local_rel", "mov_local", "load_r0"},
             Handles(op), ip' = NextIp, UNCHANGED <<chunk, sp, status>>,
             Len(stack') = Len(stack) - Takes(op) + Gives(op)
      PROVE  OnMap'
  <2>1. Fetched.op = op
    BY <1>5 DEF Handles, Executes
  <2>2. ip' \in Successors(Fetched, NextIp) /\ op # "update_sp"
    BY <1>5, <2>1 DEF Successors
  <2> QED
    BY <1>1, <1>5, <2>1, <2>2, FollowsLemma
<1>6. CASE Binary
  <2>1. PICK op \in BinaryOps :
          /\ Handles(op)
          /\ stack' = Append(Popped(2), Compute(op, Second, Top))
          /\ ip' = NextIp /\ UnchangedButStack
    BY <1>6 DEF Binary
  <2>2. Len(stack) >= 2
    BY <2>1 DEF Handles, PopsOf
  <2>3. Len(stack') = Len(stack) - 1
    BY <1>2, <2>1, <2>2
  <2>4. Takes(op) = 2 /\ Gives(op) = 1
    BY DEF Takes, Gives
  <2> QED
    BY <1>2, <1>5, <2>1, <2>3, <2>4 DEF UnchangedButStack
<1>7. CASE Not
  <2>1. /\ Handles("not") /\ ip' = NextIp /\ UnchangedButStack
        /\ stack' = Append(Popped(1), Truth(Top = 0))
    BY <1>7 DEF Not
  <2>2. Len(stack) >= 1
    BY <2>1 DEF Handles, PopsOf
  <2>3. Len(stack') = Len(stack)
    BY <1>2, <2>1, <2>2
  <2>4. Takes("not") = 1 /\ Gives("not") = 1
    BY DEF Takes, Gives
  <2> QED
    BY <1>2, <1>5, <2>1, <2>3, <2>4 DEF UnchangedButStack
<1>8. CASE Pop \/ PrintTop \/ LoadR0
  <2>1. PICK op \in {"pop", "print", "load_r0"} :
          /\ Handles(op) /\ ip' = NextIp /\ stack' = Popped(1)
          /\ UNCHANGED <<chunk, sp, status>>
    BY <1>8 DEF Pop, PrintTop, LoadR0, UnchangedButStack
  <2>2. Len(stack) >= 1
    BY <2>1 DEF Handles, PopsOf
  <2>3. Len(stack') = Len(stack) - 1
    BY <1>2, <2>1, <2>2
  <2>4. Takes(op) = 1 /\ Gives(op) = 0
    BY DEF Takes, Gives, Pushing
  <2> QED
    BY <1>2, <1>5, <2>1, <2>3, <2>4
<1>9. CASE MovLocal
  <2>1. PICK op \in {"mov_local_rel", "mov_local"} :
          /\ Handles(op) /\ ip' = NextIp /\ UnchangedButStack
          /\ stack' = [Popped(1) EXCEPT ![Local + 1] = Top]
    BY <1>9 DEF MovLocal
  <2>2. Len(stack) >= 1
    BY <2>1 DEF Handles, PopsOf
  <2>3. Len(stack') = Len(Popped(1)) /\ Len(Popped(1)) = Len(stack) - 1
    BY <1>2, <2>1, <2>2
  <2>4. Takes(op) = 1 /\ Gives(op) = 0
    BY <2>1 DEF Takes, Gives, Pushing
  <2> QED
    BY <1>2, <1>5, <2>1, <2>3, <2>4 DEF UnchangedButStack
<1>10. CASE Jmp
  <2>1. Fetched.op = "jmp" /\ ip' = Arg /\ stack' = stack
        /\ UNCHANGED <<chunk, sp, status>>
    BY <1>10 DEF Jmp, Handles, Executes, UnchangedButStack
  <2>2. Takes("jmp") = 0 /\ Gives("jmp") = 0
    BY DEF Takes, Gives, Pushing
  <2>3. ip' \in Successors(Fetched, NextIp)
    BY <2>1 DEF Successors, Arg
  <2> QED
    BY <1>1, <1>2, <2>1, <2>2, <2>3, FollowsLemma
<1>11. CASE ConditionalJump
  <2>1. PICK op \in {"jmp_true", "jmp_false"} :
          /\ Handles(op) /\ stack' = Popped(1) /\ UnchangedButStack
          /\ ip' = IF (Top # 0) = (op = "jmp_true") THEN Arg ELSE NextIp
    BY <1>11 DEF ConditionalJump
  <2>2. Fetched.op = op /\ Len(stack) >= 1
    BY <2>1 DEF Handles, Executes, PopsOf
  <2>3. Takes(op) = 1 /\ Gives(op) = 0
    BY <2>1 DEF Takes, Gives, Pushing
  <2>4. ip' \in Successors(Fetched, NextIp)
    BY <2>1, <2>2 DEF Successors, Arg
  <2> QED
    BY <1>1, <1>2, <2>1, <2>2, <2>3, <2>4, FollowsLemma DEF UnchangedButStack
<1>12. CASE UpdateSp
  <2>1. /\ Fetched.op = "update_sp" /\ ip' = NextIp /\ stack' = stack
        /\ sp' = ToUnsigned(Len(stack) - Arg) /\ UNCHANGED <<chunk, status>>
    BY <1>12 DEF UpdateSp, Handles, Executes
  <2>2. Takes("update_sp") = 0 /\ Gives("update_sp") = 0
    BY DEF Takes, Gives, Pushing
  <2>3. ip' \in Successors(Fetched, NextIp)
    BY <2>1 DEF Successors
  <2> QED
    BY <1>1, <1>2, <2>1, <2>2, <2>3, FollowsLemma
<1>13. CASE JmpDynamic \/ JmpDynamicRel
  BY <1>1, <1>13, MapLemma
     DEF JmpDynamic, JmpDynamicRel, Handles, Executes
<1>14. CASE Return
  BY <1>1, <1>14, MapLemma DEF Return, Handles, Executes
<1>15. CASE Halt
  BY <1>15 DEF Halt, OnMap, Halted
<1>16. CASE BadPop
  BY <1>16, <1>20 DEF BadPop, Executes
<1>17. CASE OutOfRange
  <2>1. PICK op \in UnaryOps : Handles(op) /\ ~OperandExists
    BY <1>17 DEF OutOfRange
  <2>2. Fetched.op \in {"push_const", "push_local_rel", "push_local",
                        "mov_local_rel", "mov_local"}
    BY <1>1, <2>1, MapLemma DEF OperandExists
  <2> QED
    BY <1>1, <2>1, <2>2, MapLemma
<1>18. CASE UnknownOpcode \/ DecodeError \/ Derail
  BY <1>18, <1>20 DEF UnknownOpcode, DecodeError, Derail
<1>19. CASE Trap \/ Exhaust
  <2>1. chunk' = chunk /\ stack' = stack /\ status' \in {"trapped", "exhausted"}
    BY <1>19 DEF Trap, Exhaust, Dies
  <2> QED
    BY <2>1 DEF OnMap, Halted
<1> QED
  BY <1>4, <1>6, <1>7, <1>8, <1>9, <1>10, <1>11, <1>12, <1>13, <1>14, <1>15,
     <1>16, <1>17, <1>18, <1>19 DEF ExecuteInstruction

(* Code with a stack map is safe: for every set of chunks, all stack maps  *)
(* of them and every input, a mapped chunk never pops, reads or fetches    *)
(* what is not there, and when it halts the stack is empty, so that        *)
(* execute() answers true.                                                 *)
THEOREM MappedCodeIsSafe == Spec => []MappedCodeRuns
<1>1. Init => KeepsToMap
  BY DEF Init, KeepsToMap, OnMap, Halted
<1>2. TypeOK /\ KeepsToMap /\ [Next]_vmVars => KeepsToMap'
  <2> SUFFICES ASSUME TypeOK, KeepsToMap, [Next]_vmVars,
                      chunk' \in DOMAIN StackMap
               PROVE  OnMap'
    BY DEF KeepsToMap
  <2>1. CASE UNCHANGED vmVars \/ Stopped
    BY <2>1 DEF KeepsToMap, OnMap, Halted, vmVars, Stopped
  <2>2. ASSUME NEW ch \in Chunks, SetProgramCode(ch) PROVE OnMap'
    <3>1. /\ chunk' = ch /\ ip' = 0 /\ stack' = <<>> /\ sp' = 0
          /\ status' = "running"
      BY <2>2 DEF SetProgramCode
    <3>2. /\ 0 \in DOMAIN StackMap[ch]
          /\ StackMap[ch][0] = [depth |-> 0, base |-> 0]
      BY <3>1, StackMapAssumption DEF IsStackMap
    <3> QED
      BY <3>1, <3>2 DEF OnMap, Halted
  <2>3. CASE ExecuteInstruction
    <3>1. chunk' = chunk
      BY <2>3
         DEF ExecuteInstruction, PushConst, PushLocal, PushSp, StoreR0,
             PushRead, Binary, Not, Pop, MovLocal, PrintTop, LoadR0, Jmp,
             ConditionalJump, JmpDynamic, JmpDynamicRel, UpdateSp, Halt,
             Return, BadPop, OutOfRange, Trap, UnknownOpcode, DecodeError,
             Derail, Exhaust, Dies, UnchangedButStack
    <3> QED
      BY <2>3, <3>1, MapStep DEF KeepsToMap
  <2> QED
    BY <2>1, <2>2, <2>3 DEF Next
<1>3. KeepsToMap => MappedCodeRuns
  BY DEF KeepsToMap, OnMap, MappedCodeRuns
<1> QED
  BY <1>1, <1>2, <1>3, TypeCorrect, PTL DEF Spec

=============================================================================
