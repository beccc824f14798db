------------------------------ MODULE Codegen ------------------------------
(***************************************************************************)
(* The bytecode generator: codegen_visitor (include/codegen.hpp), from     *)
(* generate_all on an annotated syntax tree to the chunk of to_chunk.      *)
(*                                                                         *)
(* The visitor is recursive; what its handlers still have to do is the     *)
(* sequence todo, first thing first.  Each generate(node) is written as    *)
(* the sequence of things it does, in order; visiting a child puts the     *)
(* child's sequence in front.  What a handler keeps in a local variable    *)
(* across the visit of a child is on the stack locals, innermost last.     *)
(***************************************************************************)
EXTENDS Isa, Ast, SequencesExt

CONSTANTS
  Programs,   \* the programs that may be compiled
  Nodes       \* the nodes their trees are made of

ASSUME TreesAssumption == AreTrees(Programs, Nodes)

VARIABLES
  program,          \* the tree and the functions given to generate_all
  code,             \* m_builder.m_code
  curLoc,           \* m_builder.m_cur_loc
  symtabStack,      \* m_symtab_stack: blocks [top, map], innermost last
  globalScope,      \* m_global_scope
  constantMap,      \* m_constant_map: constant -> index in the pool
  returnAddresses,  \* m_return_address_constants: [index, address]
  dynamicJumps,     \* m_dynamic_jumps_constants: [index, address, func]
  callRelocs,       \* m_relocations_function_calls: [index, func]
  functionDefs,     \* m_function_defs: function -> address
  isStatement,      \* m_is_currently_statement
  prevStackSize,    \* m_prev_stack_size
  pending,          \* the named functions not generated yet
  todo,             \* what the active handlers still have to do
  locals,           \* what they keep in local variables meanwhile
  outcome           \* whether generation goes on, succeeded, or how it failed

tables  == <<constantMap, returnAddresses, dynamicJumps>>
scopes  == <<symtabStack, globalScope>>
control == <<pending, locals, outcome>>
flags   == <<isStatement, prevStackSize>>
genVars == <<program, code, curLoc, scopes, tables, callRelocs, functionDefs,
             flags, todo, control>>

Failures == {"assertion",         \* an assert of codegen.hpp
             "unhandled_node",    \* "Unimplemented fallback visit"
             "bad_type",          \* a null type is compared
             "bad_optional",      \* optional::value() on nothing
             "missing_function",  \* m_function_defs.at
             "runaway"}           \* an unsigned count below zero: a loop of
                                  \* four thousand million emissions

I(op, arg) == [op |-> op, arg |-> arg]

-----------------------------------------------------------------------------
(* Things to do.                                                           *)
Visit(node)            == [do |-> "visit", node |-> node]
Emit(op, delta)        == [do |-> "emit", op |-> op, arg |-> 0, delta |-> delta]
EmitArg(op, arg)       == [do |-> "emit", op |-> op, arg |-> arg, delta |-> 0]
SetStatement(flag)     == [do |-> "flag", flag |-> flag]
PushConstant(value)    == [do |-> "constant", value |-> value]
PushFrom(name)         == [do |-> "push_from", name |-> name]
MoveTo(name)           == [do |-> "move_to", name |-> name]
BeginScope(stab)       == [do |-> "begin_scope", stab |-> stab]
EndScope               == [do |-> "end_scope"]
KeepGlobals            == [do |-> "keep_globals"]
OpenReturn(isBlock)    == [do |-> "open_return", isBlock |-> isBlock]
CloseReturn            == [do |-> "close_return"]
CallDefinition(def)    == [do |-> "call_definition", def |-> def]
CallVariable(name, n)  == [do |-> "call_variable", name |-> name, args |-> n]
OpenJump               == [do |-> "open_jump"]
ElseJump               == [do |-> "else_jump"]
CloseJump              == [do |-> "close_jump"]
MarkLoop               == [do |-> "mark_loop"]
CloseLoop              == [do |-> "close_loop"]
LeaveFunction          == [do |-> "leave_function"]
PushFunction(def)      == [do |-> "push_function", def |-> def]
Fail(how)              == [do |-> "fail", how |-> how]
NamedFunctions         == [do |-> "named_functions"]

VisitAll(nodes) == [k \in 1 .. Len(nodes) |-> Visit(nodes[k])]

-----------------------------------------------------------------------------
(* What generate(node) does for each class of node.                        *)
Mnemonic(op) == CASE op = "+" -> "add"    [] op = "-"  -> "sub"
                  [] op = "*" -> "mul"    [] op = "/"  -> "div"
                  [] op = "%" -> "mod"    [] op = "==" -> "cmp_eq"
                  [] op = "!=" -> "cmp_ne" [] op = ">" -> "cmp_gt"
                  [] op = "<" -> "cmp_ls" [] op = ">=" -> "cmp_ge"
                  [] op = "<=" -> "cmp_le" [] op = "&&" -> "and"
                  [] op = "||" -> "or"

GenerateBinary(ref) ==
  <<SetStatement(FALSE), Visit(ref.left),
    SetStatement(FALSE), Visit(ref.right), Emit(Mnemonic(ref.op), -1)>>

GenerateUnary(ref) ==
  <<SetStatement(FALSE)>> \o
  CASE ref.op = "-" -> <<PushConstant(0), Visit(ref.expr), Emit("sub", -1)>>
    [] ref.op = "+" -> <<Visit(ref.expr)>>
    [] ref.op = "!" -> <<Visit(ref.expr), Emit("not", 0)>>

GeneratePrint(ref) ==
  <<SetStatement(FALSE), Visit(ref.expr), Emit("print", -1)>>

(* Whether the value is wanted is decided before the right side is         *)
(* visited, by the flag as it is then.  An assert says that a target is a  *)
(* variable.                                                               *)
GenerateAssignment(ref) ==
  LET n == Len(ref.lefts)
      Stored(name, wanted) ==
        <<MoveTo(name)>> \o IF wanted THEN <<PushFrom(name)>> ELSE <<>>
      Target(k) == IF ref.lefts[k].node = "variable"
                     THEN Stored(ref.lefts[k].name, k < n \/ ~isStatement)
                     ELSE <<Fail("assertion")>>
  IN  <<Visit(ref.right)>> \o FlattenSeq([k \in 1 .. n |-> Target(k)])

(* Fault: an expression whose value nobody wants is not generated.         *)
GenerateStatementUnlessUnused(st) ==
  IF st.node # "assignment" /\ IsExpression(st) THEN <<>>
  ELSE <<SetStatement(st.node = "assignment")>> \o
       IF st.node = "function_definition" THEN <<>> ELSE <<Visit(st)>>

(* A statement of a block: the flag says whether it is an assignment whose *)
(* value nobody wants; the value of any other expression is popped.        *)
GenerateStatement(st) ==
  LET isAssignment == st.node = "assignment"
      DropValue == IF isAssignment \/ ~IsExpression(st) THEN <<>>
                   ELSE CASE TypeOf(st) = "null" -> <<Fail("bad_type")>>
                          [] TypeOf(st) = "void" -> <<>>
                          [] OTHER               -> <<Emit("pop", -1)>>
  IN  <<SetStatement(isAssignment)>> \o
      (IF st.node = "function_definition" THEN <<>> ELSE <<Visit(st)>>) \o
      DropValue

GenerateBlock(ref, isGlobal) ==
  <<BeginScope(ref.stab)>>
    \o FlattenSeq([k \in 1 .. Len(ref.stmts) |-> GenerateStatement(ref.stmts[k])])
    \o (IF isGlobal THEN <<KeepGlobals>> ELSE <<>>)
    \o <<EndScope>>

GenerateValueBlock(ref) ==
  CASE ref.type = "null" -> <<Fail("bad_type")>>
    [] ref.type = "void" -> GenerateBlock(ref, FALSE)
    [] OTHER -> <<OpenReturn(TRUE)>> \o GenerateBlock(ref, FALSE)
                  \o <<CloseReturn, Emit("store_r0", 1)>>

GenerateIf(ref) ==
  <<BeginScope(ref.stab), SetStatement(FALSE), Visit(ref.cond), OpenJump,
    SetStatement(TRUE), Visit(ref.true_block)>>
    \o (IF ref.else_block = <<>> THEN <<>>
        ELSE <<ElseJump, SetStatement(TRUE), Visit(Head(ref.else_block))>>)
    \o <<CloseJump, EndScope>>

GenerateWhile(ref) ==
  <<BeginScope(ref.stab), MarkLoop, SetStatement(FALSE), Visit(ref.cond),
    OpenJump, SetStatement(TRUE), Visit(ref.block), CloseLoop, EndScope>>

GenerateCall(ref) ==
  IF ref.type = "null" THEN <<Fail("bad_type")>>
  ELSE <<OpenReturn(FALSE)>> \o VisitAll(ref.args)
         \o <<EmitArg("update_sp", Len(ref.args)),
              IF ref.def # "none" THEN CallDefinition(ref.def)
                                  ELSE CallVariable(ref.name, Len(ref.args)),
              CloseReturn>>
         \o (IF ref.type = "void" THEN <<>> ELSE <<Emit("store_r0", 1)>>)

GenerateReturn(ref) ==
  (IF ref.expr = <<>> THEN <<>>
   ELSE <<Visit(Head(ref.expr)), Emit("load_r0", -1)>>) \o <<LeaveFunction>>

(* The visitor's dispatch.  A class it has no generate for throws.         *)
Generate(node) ==
  CASE node.node = "constant"        -> <<PushConstant(node.value)>>
    [] node.node = "read"            -> <<Emit("push_read", 1)>>
    [] node.node = "variable"        -> <<PushFrom(node.name)>>
    [] node.node = "print"           -> GeneratePrint(node)
    [] node.node = "assignment"      -> GenerateAssignment(node)
    [] node.node = "binary"          -> GenerateBinary(node)
    [] node.node = "unary"           -> GenerateUnary(node)
    [] node.node = "value_block"     -> GenerateValueBlock(node)
    [] node.node = "statement_block" -> GenerateBlock(node, FALSE)
    [] node.node = "if"              -> GenerateIf(node)
    [] node.node = "while"           -> GenerateWhile(node)
    [] node.node = "call"            -> GenerateCall(node)
    [] node.node = "return"          -> GenerateReturn(node)
    [] node.node = "fn_to_ptr"       -> <<PushFunction(node.definition)>>
    [] OTHER                         -> <<Fail("unhandled_node")>>

-----------------------------------------------------------------------------
(* The stack frame of the code being generated.                            *)
BlockSize(blocks) == IF blocks = <<>> THEN 0 ELSE Last(blocks).top
Size == BlockSize(symtabStack)

(* push_dummy and pop_dummy, delta times.                                  *)
Grown(delta) ==
  [symtabStack EXCEPT ![Len(symtabStack)].top = @ + delta]

Declares(block, name) == name \in DOMAIN block.map

(* lookup_location: the innermost block that declares the name.            *)
Declaring(name) ==
  {k \in 1 .. Len(symtabStack) : Declares(symtabStack[k], name)}
Location(name) == symtabStack[Max(Declaring(name))].map[name]

(* What a variable is: a slot of the frame, a global, or nothing known.    *)
IsLocal(name)  == Declaring(name) # {}
IsGlobal(name) == ~IsLocal(name) /\ Declares(globalScope, name)

-----------------------------------------------------------------------------
(* The constant pool: one counter for the constants, the return addresses  *)
(* and the function addresses.                                             *)
(* Fault: the function addresses are not counted.                          *)
IndexWithoutFunctions ==
  Cardinality(DOMAIN constantMap) + Len(returnAddresses)

CurrentConstantIndex ==
  Cardinality(DOMAIN constantMap) + Len(returnAddresses) + Len(dynamicJumps)

LookupConstant(c) == IF c \in DOMAIN constantMap THEN constantMap[c]
                                                 ELSE CurrentConstantIndex
Inserted(c) == [v \in DOMAIN constantMap \cup {c} |->
                  IF v = c THEN LookupConstant(c) ELSE constantMap[v]]

-----------------------------------------------------------------------------
(* The steps.  A step does the first thing of todo.                        *)
Doing(what) == outcome = "working" /\ todo # <<>> /\ Head(todo).do = what
Task        == Head(todo)
Done        == todo' = Tail(todo)

EmitAll(instrs) ==
  /\ code' = code \o instrs
  /\ curLoc' = curLoc + Locations(instrs)[Len(instrs)]
EmitOne(op, arg) == EmitAll(<<I(op, arg)>>)
Pops(n) == [k \in 1 .. n |-> I("pop", 0)]

(* Instruction at, of the code, gets the current location as its target.   *)
Patched(instrs, at, target) == [instrs EXCEPT ![at].arg = target]

Failing(how) ==
  /\ outcome' = how
  /\ todo' = <<>>
  /\ UNCHANGED <<program, code, curLoc, scopes, tables, callRelocs,
                 functionDefs, flags, pending, locals>>

(* A new generator.                                                        *)
Created ==
  /\ code = <<>> /\ curLoc = 0
  /\ symtabStack = <<>>
  /\ globalScope = [top |-> 0, map |-> <<>>]
  /\ constantMap = <<>> /\ returnAddresses = <<>> /\ dynamicJumps = <<>>
  /\ callRelocs = <<>> /\ functionDefs = <<>>
  /\ isStatement = FALSE /\ prevStackSize = 0
  /\ locals = <<>>

(* What generate_all does, in order: the root block, then the functions.   *)
AllOf(prog) ==
  (IF prog.main = <<>> THEN <<>> ELSE GenerateBlock(Head(prog.main), TRUE))
    \o <<EmitArg("ret", 0), NamedFunctions>>

Init ==
  /\ program \in Programs
  /\ Created
  /\ pending = DOMAIN program.functions
  /\ todo = AllOf(program)
  /\ outcome = "working"

(* generate_all is called, on a generator that waits for its program.      *)
GenerateAll(prog) ==
  /\ outcome = "idle"
  /\ program' = prog
  /\ pending' = DOMAIN prog.functions
  /\ todo' = AllOf(prog)
  /\ outcome' = "working"
  /\ UNCHANGED <<code, curLoc, scopes, tables, callRelocs, functionDefs, flags,
                 locals>>

VisitNode ==
  /\ Doing("visit")
  /\ todo' = Generate(Task.node) \o Tail(todo)
  /\ UNCHANGED <<program, code, curLoc, scopes, tables, callRelocs,
                 functionDefs, flags, control>>

SetFlag ==
  /\ Doing("flag")
  /\ isStatement' = Task.flag
  /\ Done
  /\ UNCHANGED <<program, code, curLoc, scopes, tables, callRelocs,
                 functionDefs, prevStackSize, control>>

(* emit, emit_with_increment, emit_with_decrement.                         *)
EmitStep ==
  /\ Doing("emit")
  /\ Task.delta < 0 => Size > 0
  /\ EmitOne(Task.op, Task.arg)
  /\ symtabStack' = IF Task.delta = 0 THEN symtabStack ELSE Grown(Task.delta)
  /\ Done
  /\ UNCHANGED <<program, globalScope, tables, callRelocs, functionDefs,
                 flags, control>>

PushConstantStep ==
  /\ Doing("constant")
  /\ EmitOne("push_const", LookupConstant(Task.value))
  /\ constantMap' = Inserted(Task.value)
  /\ symtabStack' = Grown(1)
  /\ Done
  /\ UNCHANGED <<program, globalScope, returnAddresses, dynamicJumps,
                 callRelocs, functionDefs, flags, control>>

(* Fault: emit instead of emit_with_increment.                             *)
PushFromUncounted ==
  /\ Doing("push_from")
  /\ IsLocal(Task.name) \/ IsGlobal(Task.name)
  /\ IF IsLocal(Task.name)
       THEN EmitOne("push_local_rel", Location(Task.name))
       ELSE EmitOne("push_local", globalScope.map[Task.name])
  /\ Done
  /\ UNCHANGED <<program, scopes, tables, callRelocs, functionDefs, flags,
                 control>>

(* A name in no scope is passed over in silence, by a load and by a store. *)
PushFromStep ==
  /\ Doing("push_from")
  /\ \/ /\ IsLocal(Task.name)
        /\ EmitOne("push_local_rel", Location(Task.name))
        /\ symtabStack' = Grown(1)
     \/ /\ IsGlobal(Task.name)
        /\ EmitOne("push_local", globalScope.map[Task.name])
        /\ symtabStack' = Grown(1)
     \/ /\ ~IsLocal(Task.name) /\ ~IsGlobal(Task.name)
        /\ UNCHANGED <<code, curLoc, symtabStack>>
  /\ Done
  /\ UNCHANGED <<program, globalScope, tables, callRelocs, functionDefs,
                 flags, control>>

MoveToStep ==
  /\ Doing("move_to")
  /\ \/ /\ IsLocal(Task.name) /\ Size > 0
        /\ EmitOne("mov_local_rel", Location(Task.name))
        /\ symtabStack' = Grown(-1)
     \/ /\ IsGlobal(Task.name) /\ Size > 0
        /\ EmitOne("mov_local", globalScope.map[Task.name])
        /\ symtabStack' = Grown(-1)
     \/ /\ ~IsLocal(Task.name) /\ ~IsGlobal(Task.name)
        /\ UNCHANGED <<code, curLoc, symtabStack>>
  /\ Done
  /\ UNCHANGED <<program, globalScope, tables, callRelocs, functionDefs,
                 flags, control>>

(* pop_dummy on a frame of size zero: assert(m_top > 0).                   *)
PopsNothing ==
  /\ \/ Doing("emit") /\ Task.delta < 0
     \/ Doing("move_to") /\ (IsLocal(Task.name) \/ IsGlobal(Task.name))
     \/ Doing("open_jump")
  /\ Size = 0
  /\ Failing("assertion")

(* begin_scope: a slot for each name, in the order the hash map gives them *)
(* out, and the code that fills the slots with zeros.                      *)
BeginScopeStep ==
  /\ Doing("begin_scope")
  /\ LET n == Cardinality(Task.stab)
     IN  /\ \E order \in SetToSeqs(Task.stab) :
              symtabStack' = Append(symtabStack,
                [top |-> Size + n,
                 map |-> [name \in Task.stab |->
                            Size + (CHOOSE k \in 1 .. n : order[k] = name) - 1]])
         /\ EmitAll([k \in 1 .. n |-> I("push_const", LookupConstant(0))])
         /\ constantMap' = IF n = 0 THEN constantMap ELSE Inserted(0)
  /\ Done
  /\ UNCHANGED <<program, globalScope, returnAddresses, dynamicJumps,
                 callRelocs, functionDefs, flags, control>>

(* end_scope pops what the block holds above the one around it.  The count *)
(* is unsigned, and an assert says that it is not below zero.              *)
Excess == Size - BlockSize(Front(symtabStack))

(* Fault: the names go out of scope, their values stay on the stack.       *)
EndScopeKeepsValues ==
  /\ Doing("end_scope")
  /\ Excess >= 0
  /\ symtabStack' = Front(symtabStack)
  /\ Done
  /\ UNCHANGED <<program, code, curLoc, globalScope, tables, callRelocs,
                 functionDefs, flags, control>>

EndScopeStep ==
  /\ Doing("end_scope")
  /\ Excess >= 0
  /\ EmitAll(Pops(Excess))
  /\ symtabStack' = Front(symtabStack)
  /\ Done
  /\ UNCHANGED <<program, globalScope, tables, callRelocs, functionDefs,
                 flags, control>>

ScopeUnderflow ==
  /\ Doing("end_scope")
  /\ Excess < 0
  /\ Failing("assertion")

KeepGlobalsStep ==
  /\ Doing("keep_globals")
  /\ globalScope' = Head(symtabStack)
  /\ Done
  /\ UNCHANGED <<program, code, curLoc, symtabStack, tables, callRelocs,
                 functionDefs, flags, control>>

-----------------------------------------------------------------------------
(* Calls and value blocks: both push a return address, whose value is not  *)
(* known yet, and the frame base, in a scope of their own.                 *)
(* Fault: a return unwinds to where the block around its own expects it.   *)
OpenReturnKeepsSize ==
  /\ Doing("open_return")
  /\ LET index == CurrentConstantIndex
     IN  /\ returnAddresses' =
              Append(returnAddresses, [index |-> index, address |-> 0])
         /\ EmitAll(<<I("push_const", index), I("call_setup", 0)>>)
  /\ symtabStack' = Append(symtabStack, [top |-> Size + 2, map |-> <<>>])
  /\ locals' = Append(locals, [ret  |-> Len(returnAddresses) + 1,
                               prev |-> prevStackSize])
  /\ Done
  /\ UNCHANGED <<program, globalScope, constantMap, dynamicJumps, callRelocs,
                 functionDefs, flags, pending, outcome>>

OpenReturnStep ==
  /\ Doing("open_return")
  /\ LET index == CurrentConstantIndex
     IN  /\ returnAddresses' =
              Append(returnAddresses, [index |-> index, address |-> 0])
         /\ EmitAll(<<I("push_const", index), I("call_setup", 0)>>)
  /\ symtabStack' = Append(symtabStack, [top |-> Size + 2, map |-> <<>>])
  /\ locals' = Append(locals, [ret  |-> Len(returnAddresses) + 1,
                               prev |-> prevStackSize])
  /\ prevStackSize' = IF Task.isBlock THEN Size + 2 ELSE prevStackSize
  /\ Done
  /\ UNCHANGED <<program, globalScope, constantMap, dynamicJumps, callRelocs,
                 functionDefs, isStatement, pending, outcome>>

(* The code after the call: the return address is here.                    *)
CloseReturnStep ==
  /\ Doing("close_return")
  /\ returnAddresses' =
       [returnAddresses EXCEPT ![Last(locals).ret].address = curLoc]
  /\ prevStackSize' = Last(locals).prev
  /\ symtabStack' = Front(symtabStack)
  /\ locals' = Front(locals)
  /\ Done
  /\ UNCHANGED <<program, code, curLoc, globalScope, constantMap,
                 dynamicJumps, callRelocs, functionDefs, isStatement,
                 pending, outcome>>

CallDefinitionStep ==
  /\ Doing("call_definition")
  /\ EmitOne("jmp", 0)
  /\ callRelocs' = Append(callRelocs,
                          [index |-> Len(code) + 1, func |-> Task.def])
  /\ Done
  /\ UNCHANGED <<program, scopes, tables, functionDefs, flags, control>>

(* Fault: the arguments are not taken off.                                 *)
CallVariableOffByArgs ==
  /\ Doing("call_variable")
  /\ IsLocal(Task.name)
  /\ EmitAll(<<I("push_local_rel", ToUnsigned(Location(Task.name) - Size)),
               I("jmp_dynamic", 0)>>)
  /\ Done
  /\ UNCHANGED <<program, scopes, tables, callRelocs, functionDefs, flags,
                 control>>

(* The callee's address is in a local of the caller's frame, and sp is     *)
(* already the callee's: the operand is relative to the arguments.         *)
CallVariableStep ==
  /\ Doing("call_variable")
  /\ IsLocal(Task.name)
  /\ EmitAll(<<I("push_local_rel",
                 ToUnsigned(Location(Task.name) - (Size - Task.args))),
               I("jmp_dynamic", 0)>>)
  /\ Done
  /\ UNCHANGED <<program, scopes, tables, callRelocs, functionDefs, flags,
                 control>>

NoCallee ==
  /\ Doing("call_variable")
  /\ ~IsLocal(Task.name)
  /\ Failing("bad_optional")

(* The locals above the frame that ret leaves: prevStackSize is where the  *)
(* innermost value block, a function's body included, keeps what ret takes.*)
LeaveFunctionStep ==
  /\ Doing("leave_function")
  /\ Size >= prevStackSize
  /\ EmitAll(Append(Pops(Size - prevStackSize), I("ret", 0)))
  /\ Done
  /\ UNCHANGED <<program, scopes, tables, callRelocs, functionDefs, flags,
                 control>>

LeaveUnderflow ==
  /\ Doing("leave_function")
  /\ Size < prevStackSize
  /\ Failing("runaway")

PushFunctionStep ==
  /\ Doing("push_function")
  /\ dynamicJumps' = Append(dynamicJumps, [index |-> CurrentConstantIndex,
                                           address |-> 0, func |-> Task.def])
  /\ EmitOne("push_const", CurrentConstantIndex)
  /\ symtabStack' = Grown(1)
  /\ Done
  /\ UNCHANGED <<program, globalScope, constantMap, returnAddresses,
                 callRelocs, functionDefs, flags, control>>

-----------------------------------------------------------------------------
(* Branches and loops: a jump is emitted with operand 0 and patched when   *)
(* its target is known.                                                    *)
OpenJumpStep ==
  /\ Doing("open_jump")
  /\ Size > 0
  /\ EmitOne("jmp_false", 0)
  /\ symtabStack' = Grown(-1)
  /\ locals' = Append(locals, [jump |-> Len(code) + 1])
  /\ Done
  /\ UNCHANGED <<program, globalScope, tables, callRelocs, functionDefs,
                 flags, pending, outcome>>

(* Fault: the false branch is entered at the jump around it.               *)
ElseJumpEarly ==
  /\ Doing("else_jump")
  /\ code' = Append(Patched(code, Last(locals).jump, curLoc), I("jmp", 0))
  /\ curLoc' = curLoc + SizeOf("jmp")
  /\ locals' = Append(Front(locals), [jump |-> Len(code) + 1])
  /\ Done
  /\ UNCHANGED <<program, scopes, tables, callRelocs, functionDefs, flags,
                 pending, outcome>>

ElseJumpStep ==
  /\ Doing("else_jump")
  /\ LET after == curLoc + SizeOf("jmp")
     IN  /\ code' = Append(Patched(code, Last(locals).jump, after), I("jmp", 0))
         /\ curLoc' = after
  /\ locals' = Append(Front(locals), [jump |-> Len(code) + 1])
  /\ Done
  /\ UNCHANGED <<program, scopes, tables, callRelocs, functionDefs, flags,
                 pending, outcome>>

(* Fault: the index of an instruction is taken for its location.           *)
CloseJumpAtIndex ==
  /\ Doing("close_jump")
  /\ code' = Patched(code, Last(locals).jump, Len(code))
  /\ locals' = Front(locals)
  /\ Done
  /\ UNCHANGED <<program, curLoc, scopes, tables, callRelocs, functionDefs,
                 flags, pending, outcome>>

CloseJumpStep ==
  /\ Doing("close_jump")
  /\ code' = Patched(code, Last(locals).jump, curLoc)
  /\ locals' = Front(locals)
  /\ Done
  /\ UNCHANGED <<program, curLoc, scopes, tables, callRelocs, functionDefs,
                 flags, pending, outcome>>

MarkLoopStep ==
  /\ Doing("mark_loop")
  /\ locals' = Append(locals, [start |-> curLoc])
  /\ Done
  /\ UNCHANGED <<program, code, curLoc, scopes, tables, callRelocs,
                 functionDefs, flags, pending, outcome>>

(* The jump back, and the exit of the loop after it.                       *)
CloseLoopStep ==
  /\ Doing("close_loop")
  /\ LET start == locals[Len(locals) - 1].start
         after == curLoc + SizeOf("jmp")
     IN  /\ code' = Patched(Append(code, I("jmp", start)),
                            Last(locals).jump, after)
         /\ curLoc' = after
  /\ locals' = Front(Front(locals))
  /\ Done
  /\ UNCHANGED <<program, scopes, tables, callRelocs, functionDefs, flags,
                 pending, outcome>>

-----------------------------------------------------------------------------
(* Fault: the function's address is not recorded.                          *)
GenerateUnregistered(f) ==
  /\ Doing("named_functions")
  /\ f \in pending
  /\ symtabStack' = <<[top |-> 0, map |-> <<>>]>>
  /\ pending' = pending \ {f}
  /\ todo' = <<Visit(program.functions[f].body), EndScope, EmitArg("ret", 0)>>
               \o todo
  /\ UNCHANGED <<program, code, curLoc, globalScope, tables, callRelocs,
                 functionDefs, flags, locals, outcome>>

(* generate_function, for a function the hash map gives out next.          *)
GenerateFunction(f) ==
  /\ Doing("named_functions")
  /\ f \in pending
  /\ LET params == program.functions[f].params
     IN  /\ IsInjective(params)
         /\ symtabStack' =
              <<[top |-> Len(params),
                 map |-> [p \in Range(params) |->
                            (CHOOSE k \in 1 .. Len(params) : params[k] = p) - 1]]>>
  /\ functionDefs' = [g \in DOMAIN functionDefs \cup {f} |->
                        IF g = f THEN curLoc ELSE functionDefs[g]]
  /\ pending' = pending \ {f}
  /\ todo' = <<Visit(program.functions[f].body), EndScope, EmitArg("ret", 0)>>
               \o todo
  /\ UNCHANGED <<program, code, curLoc, globalScope, tables, callRelocs,
                 flags, locals, outcome>>

(* push_var's assert: a function has two parameters of one name.           *)
ParameterTwice ==
  /\ Doing("named_functions")
  /\ \E f \in pending : ~IsInjective(program.functions[f].params)
  /\ Failing("assertion")

(* The end of generate_all: calls and function constants get the addresses *)
(* of the functions.                                                       *)
Wanted == {r.func : r \in Range(callRelocs)} \cup
          {r.func : r \in Range(dynamicJumps)}

Relocate ==
  /\ Doing("named_functions")
  /\ pending = {}
  /\ IF Wanted \subseteq DOMAIN functionDefs
       THEN /\ code' = [n \in DOMAIN code |->
                 IF \E r \in Range(callRelocs) : r.index = n
                   THEN I("jmp", functionDefs[(CHOOSE r \in Range(callRelocs) :
                                                 r.index = n).func])
                   ELSE code[n]]
            /\ dynamicJumps' = [n \in DOMAIN dynamicJumps |->
                 [dynamicJumps[n] EXCEPT !.address =
                    functionDefs[dynamicJumps[n].func]]]
            /\ todo' = <<>>
            /\ outcome' = "done"
            /\ UNCHANGED <<program, curLoc, scopes, constantMap,
                           returnAddresses, callRelocs, functionDefs, flags,
                           pending, locals>>
       ELSE Failing("missing_function")

FailStep == Doing("fail") /\ Failing(Task.how)

-----------------------------------------------------------------------------
GenerateStep ==
  \/ VisitNode \/ SetFlag \/ EmitStep \/ PushConstantStep
  \/ PushFromStep \/ MoveToStep \/ PopsNothing
  \/ BeginScopeStep \/ EndScopeStep \/ ScopeUnderflow \/ KeepGlobalsStep
  \/ OpenReturnStep \/ CloseReturnStep \/ CallDefinitionStep
  \/ CallVariableStep \/ NoCallee \/ LeaveFunctionStep \/ LeaveUnderflow
  \/ PushFunctionStep \/ OpenJumpStep \/ ElseJumpStep \/ CloseJumpStep
  \/ MarkLoopStep \/ CloseLoopStep
  \/ (\E f \in pending : GenerateFunction(f)) \/ ParameterTwice \/ Relocate
  \/ FailStep

(* generate_all has returned or thrown.                                    *)
Finished == outcome # "working" /\ UNCHANGED genVars

Next == GenerateStep \/ Finished

(* Generation is one call: it goes on until it returns.                    *)
Spec == Init /\ [][Next]_genVars /\ WF_genVars(GenerateStep)

-----------------------------------------------------------------------------
(* to_chunk: the encoded code, and the pool that the three tables fill.    *)
PoolEntries ==
  {[index |-> constantMap[c], value |-> c] : c \in DOMAIN constantMap}
    \cup {[index |-> r.index, value |-> r.address] :
             r \in Range(returnAddresses) \cup Range(dynamicJumps)}

Pool == [k \in 1 .. CurrentConstantIndex |->
           (CHOOSE e \in PoolEntries : e.index = k - 1).value]

Chunk == Assemble(code, Pool)

-----------------------------------------------------------------------------
(* The generator's state has the C++ types.                                *)
TypeOK ==
  /\ program \in Programs
  /\ code \in Seq(Instr) /\ curLoc \in Nat
  /\ \A k \in DOMAIN symtabStack : /\ symtabStack[k].top \in Nat
                                   /\ Range(symtabStack[k].map) \subseteq Nat
  /\ globalScope.top \in Nat /\ Range(globalScope.map) \subseteq Nat
  /\ DOMAIN constantMap \subseteq Word /\ Range(constantMap) \subseteq Nat
  /\ returnAddresses \in Seq([index : Nat, address : Nat])
  /\ \A r \in Range(callRelocs) : r.index \in 1 .. Len(code)
  /\ pending \cup DOMAIN functionDefs = DOMAIN program.functions
  /\ isStatement \in BOOLEAN /\ prevStackSize \in Nat
  /\ outcome \in {"working", "done"} \cup Failures

(* The constants, the return addresses and the function addresses draw     *)
(* their places in the pool from one counter that is the sum of three      *)
(* table sizes (codegen.hpp:207).  The places taken are always exactly the *)
(* ones below the counter, as many as there are entries: no two entries    *)
(* share one, none is left out, and to_chunk writes inside the vector.     *)
PoolExact == {e.index : e \in PoolEntries} = 0 .. (CurrentConstantIndex - 1)

(* When generation succeeds, every forward reference has been resolved:    *)
(* each jump, return address and function address is the start of an       *)
(* instruction, a branch goes forward, no return or function address is    *)
(* the zero it was created with, and each constant an instruction names is *)
(* in the pool.                                                            *)
JumpsLand ==
  outcome = "done" =>
    LET ch     == Chunk
        starts == DOMAIN ch.code
    IN  /\ \A a \in starts :
             /\ ch.code[a].op \in {"jmp", "jmp_false", "jmp_true"}
                  => ch.code[a].arg \in starts
             /\ ch.code[a].op = "jmp_false" => ch.code[a].arg > a
             /\ ch.code[a].op = "push_const" => ch.code[a].arg < Len(ch.pool)
        /\ \A r \in Range(returnAddresses) \cup Range(dynamicJumps) :
             r.address \in starts \ {0}
        /\ ch.size = curLoc
=============================================================================
