---------------------------- MODULE LlvmCodegen ----------------------------
(***************************************************************************)
(* The LLVM backend: codegen_visitor of src/llvm_codegen/codegen.cpp, from *)
(* the tree the front end accepted to the basic blocks of "main".          *)
(*                                                                         *)
(* An instruction is a record of its operation, the type of its result,    *)
(* its operands and the blocks it branches to.  A value is a constant or   *)
(* the result of an instruction, named by block and position; the k-th     *)
(* global is the value of position k of block 0.                           *)
(*                                                                         *)
(* todo is what the active handlers still have to do, first thing first,   *)
(* and values what they hold meanwhile.  Functions are declared and never  *)
(* got through, see DefineFunctionsStep, so that no return, call or        *)
(* function value is ever visited.                                         *)
(***************************************************************************)
EXTENDS Tree, SequencesExt

VARIABLES
  ast, root, functions, usegraph, globalStab,   \* what the front end leaves
  globals,    \* the names of the module's global variables
  blocks,     \* the basic blocks of main
  insert,     \* the block the builder appends to
  sym,        \* symtab: the scopes, name -> [val, var]
  todo, values,
  outcome     \* "idle", "working", "done", or how it failed

frontVars == <<ast, root, functions, usegraph, globalStab>>
genVars   == <<globals, blocks, insert, sym, todo, values, outcome>>

Failures == {"bad_type",        \* a type LLVM has nothing for, or none
             "bad_optional",    \* a name in no scope
             "assertion",       \* subscript of something that is no array
             "unhandled_node",  \* a class of node without a generate
             "undefined"}       \* a cast or a pointer that is not what it is
                                \* taken for

-----------------------------------------------------------------------------
(* Values and instructions.                                                *)
IntValue(n)           == [type |-> "i32", const |-> n]
Result(type, b, k)    == [type |-> type, reg |-> <<b, k>>]
Insn(op, type, args)  == [op |-> op, type |-> type, args |-> args, to |-> <<>>]
Branch(op, args, to)  == [op |-> op, type |-> "void", args |-> args, to |-> to]

(* to_llvm_type throws for an array, and for a type that is not there.     *)
RECURSIVE Untranslatable(_)
Untranslatable(type) ==
  \/ type = NoType \/ IsArray(type)
  \/ /\ IsFunc(type)
     /\ \/ Untranslatable(ReturnType(type))
        \/ \E k \in DOMAIN ArgTypes(type) : Untranslatable(ArgTypes(type)[k])

-----------------------------------------------------------------------------
(* Things to do.                                                           *)
Visit(n)         == [do |-> "visit", node |-> n]
Forget           == [do |-> "forget"]
Operate(op, n, type) == [do |-> "operate", op |-> op, count |-> n, type |-> type]
Element(n, load) == [do |-> "element", node |-> n, load |-> load]
StoreTo(n, k)    == [do |-> "store_to", node |-> n, target |-> k]
StoreThrough     == [do |-> "store_through"]
BeginScope(stab) == [do |-> "begin_scope", stab |-> stab]
EndScope         == [do |-> "end_scope"]
SetInsertPoint(b) == [do |-> "set_insert_point", block |-> b]
BranchTo(b)      == [do |-> "branch_to", block |-> b]
BranchOn(yes, no) == [do |-> "branch_on", to |-> <<yes, no>>]
LeaveBranch(b, next) == [do |-> "leave_branch", block |-> b, next |-> next]
ReturnVoid       == [do |-> "return_void"]
DeclareFunctions == [do |-> "declare_functions"]
DeclareGlobals   == [do |-> "declare_globals"]
DefineFunctions  == [do |-> "define_functions"]
DefineMain       == [do |-> "define_main"]

Task == Head(todo)
Doing(what) == outcome = "working" /\ todo # <<>> /\ Task.do = what
Visiting(kinds) == Doing("visit") /\ ast[Task.node].node \in kinds
Ref  == ast[Task.node]
Done     == todo' = Tail(todo)
GoOn(s)  == todo' = s \o Tail(todo)

Failing(how) == /\ outcome' = how
                /\ todo' = <<>>
                /\ UNCHANGED <<globals, blocks, insert, sym, values>>

-----------------------------------------------------------------------------
(* symtab::lookup: the outermost scope that has the name.                  *)
Holding(name)  == {k \in DOMAIN sym : name \in DOMAIN sym[k]}
IsKnown(name)  == Holding(name) # {}
Symbol(name)   == sym[Min(Holding(name))][name]

(* The builder appends to the block of the insert point.                   *)
Appended(code) == blocks' = [blocks EXCEPT ![insert] = @ \o code]
NextResult(type) == Result(type, insert, Len(blocks[insert]) + 1)

Taken(n)  == SubSeq(values, Len(values) - n + 1, Len(values))
Without(n) == SubSeq(values, 1, Len(values) - n)

-----------------------------------------------------------------------------
(* What generate(node) does for the classes that have children: the left   *)
(* operand first, the value before the targets.                            *)
Comparisons == {"==", "!=", ">", "<", ">=", "<="}

GenerateBinary(ref) ==
  <<Visit(ref.left), Visit(ref.right),
    Operate(ref.op, 2, IF ref.op \in Comparisons THEN "i1" ELSE "same")>>

GenerateUnary(ref) ==
  <<Visit(ref.expr)>> \o
  CASE ref.op = "-" -> <<Operate("neg", 1, "same")>>
    [] ref.op = "+" -> <<>>
    [] ref.op = "!" -> <<Operate("not", 1, "same")>>

(* The targets follow from the innermost out.                              *)
GenerateAssignment(n, ref) ==
  <<Visit(ref.right)>> \o [k \in DOMAIN ref.lefts |-> StoreTo(n, k)]

(* The statements up to a return; definitions are passed over.             *)
StatementsOf(ref) ==
  LET returns == {k \in DOMAIN ref.stmts : ast[ref.stmts[k]].node = "return"}
      before  == IF returns = {} THEN Len(ref.stmts) ELSE Min(returns) - 1
  IN  SelectSeq(SubSeq(ref.stmts, 1, before),
                LAMBDA n : ast[n].node # "function_definition")

GenerateStatements(ref) ==
  LET stmts == StatementsOf(ref)
  IN  FlattenSeq([k \in DOMAIN stmts |-> <<Visit(stmts[k]), Forget>>])

GenerateBlock(ref) ==
  <<BeginScope(ref.stab)>> \o GenerateStatements(ref) \o <<EndScope>>

Generate(n) ==
  LET ref == ast[n]
  IN  CASE ref.node = "binary"          -> GenerateBinary(ref)
        [] ref.node = "unary"           -> GenerateUnary(ref)
        [] ref.node = "print"           ->
             <<Visit(ref.expr), Operate("print", 1, "void")>>
        [] ref.node = "read"            -> <<Operate("read", 0, "i32")>>
        [] ref.node = "assignment"      -> GenerateAssignment(n, ref)
        [] ref.node = "statement_block" -> GenerateBlock(ref)

VisitParent ==
  /\ Visiting({"binary", "unary", "print", "read", "assignment",
               "statement_block"})
  /\ GoOn(Generate(Task.node))
  /\ UNCHANGED <<globals, blocks, insert, sym, values, outcome>>

VisitOther ==
  /\ Visiting({"value_block"})
  /\ Failing("unhandled_node")

-----------------------------------------------------------------------------
(* Expressions.                                                            *)
VisitConstant ==
  /\ Visiting({"constant"})
  /\ values' = Append(values, IntValue(Ref.value))
  /\ Done
  /\ UNCHANGED <<globals, blocks, insert, sym, outcome>>

(* An instruction on the last count values; a value of it, but for print,  *)
(* whose call is of no type, takes their place.                            *)
OperateStep ==
  /\ Doing("operate")
  /\ LET args == Taken(Task.count)
         type == IF Task.type = "same" THEN args[1].type ELSE Task.type
     IN  /\ Appended(<<Insn(Task.op, type, args)>>)
         /\ values' = Append(Without(Task.count), NextResult(type))
  /\ Done
  /\ UNCHANGED <<globals, insert, sym, outcome>>

VisitVariable ==
  /\ Visiting({"variable"})
  /\ IF Untranslatable(Ref.type) THEN Failing("bad_type")
     ELSE IF ~IsKnown(Ref.name) THEN Failing("bad_optional")
     ELSE /\ Appended(<<Insn("load", "i32", <<Symbol(Ref.name).val>>)>>)
          /\ values' = Append(values, NextResult("i32"))
          /\ Done
          /\ UNCHANGED <<globals, insert, sym, outcome>>

(* A subscript is looked up, then its index is visited.                    *)
VisitSubscript ==
  /\ Visiting({"subscript"})
  /\ IF ~IsKnown(Ref.name) THEN Failing("bad_optional")
     ELSE /\ GoOn(<<Visit(Ref.expr), Element(Task.node, TRUE)>>)
          /\ UNCHANGED <<globals, blocks, insert, sym, values, outcome>>

(* The symbol of a global has no variable to ask for its type.             *)
ElementStep ==
  /\ Doing("element")
  /\ LET symbol == Symbol(Ref.name)
         elem   == Insn("gep", "ptr", <<symbol.val, Last(values)>>)
         load   == Insn("load", "i32", <<NextResult("ptr")>>)
     IN  IF symbol.var = Null THEN Failing("undefined")
         ELSE IF ~IsArray(ast[symbol.var].type) THEN Failing("assertion")
         ELSE /\ IF Task.load
                   THEN /\ Appended(<<elem, load>>)
                        /\ values' = Append(Without(1),
                             Result("i32", insert, Len(blocks[insert]) + 2))
                   ELSE /\ Appended(<<elem>>)
                        /\ values' = Append(Without(1), NextResult("ptr"))
              /\ Done
              /\ UNCHANGED <<globals, insert, sym, outcome>>

-----------------------------------------------------------------------------
(* Assignments.  The value stays for whoever wants it; an array as a whole *)
(* is not assigned.                                                        *)
StoreToVariable ==
  /\ Doing("store_to")
  /\ LET target == ast[Ref.lefts[Task.target]]
     IN  /\ target.node = "variable"
         /\ IF IsArray(target.type)
              THEN Done /\ UNCHANGED <<globals, blocks, insert, sym, values,
                                       outcome>>
            ELSE IF ~IsKnown(target.name) THEN Failing("bad_optional")
            ELSE /\ Appended(<<Insn("store", "void",
                            <<Last(values), Symbol(target.name).val>>)>>)
                 /\ Done
                 /\ UNCHANGED <<globals, insert, sym, values, outcome>>

StoreToElement ==
  /\ Doing("store_to")
  /\ LET n == Ref.lefts[Task.target]
     IN  /\ ast[n].node = "subscript"
         /\ IF ~IsKnown(ast[n].name) THEN Failing("bad_optional")
            ELSE /\ GoOn(<<Visit(ast[n].expr), Element(n, FALSE),
                           StoreThrough>>)
                 /\ UNCHANGED <<globals, blocks, insert, sym, values, outcome>>

StoreThroughStep ==
  /\ Doing("store_through")
  /\ Appended(<<Insn("store", "void", Taken(2))>>)
  /\ values' = Without(1)
  /\ Done
  /\ UNCHANGED <<globals, insert, sym, outcome>>

(* Nobody wants the value of a statement.                                  *)
ForgetStep ==
  /\ Doing("forget")
  /\ values' = <<>>
  /\ Done
  /\ UNCHANGED <<globals, blocks, insert, sym, outcome>>

-----------------------------------------------------------------------------
(* Scopes.  A variable gets a place of the stack where its block begins;   *)
(* an array gets one for each element, and they are cleared.               *)
Allocation(def) ==
  IF IsArray(ast[def].type)
    THEN Insn("alloca_cleared", "ptr", <<IntValue(ast[def].type[3])>>)
    ELSE Insn("alloca", "ptr", <<>>)

Unallocatable(def) ==
  Untranslatable(IF IsArray(ast[def].type) THEN ast[def].type[2]
                                           ELSE ast[def].type)

BeginScopeStep ==
  /\ Doing("begin_scope")
  /\ LET names == SetToSeq(DOMAIN Task.stab)
         size  == Len(blocks[insert])
         Place(name) == CHOOSE k \in DOMAIN names : names[k] = name
     IN  IF \E name \in DOMAIN Task.stab : Unallocatable(Task.stab[name])
           THEN Failing("bad_type")
         ELSE /\ Appended([k \in DOMAIN names |->
                              Allocation(Task.stab[names[k]])])
              /\ sym' = Append(sym, [name \in DOMAIN Task.stab |->
                   [val |-> Result("ptr", insert, size + Place(name)),
                    var |-> Task.stab[name]]])
              /\ Done
              /\ UNCHANGED <<globals, insert, values, outcome>>

(* Fault: the scope is ended.                                              *)
EndScopePops ==
  /\ Doing("end_scope")
  /\ sym' = Front(sym)
  /\ Done
  /\ UNCHANGED <<globals, blocks, insert, values, outcome>>

(* end_scope adds a scope, like begin_scope.                               *)
EndScopeStep ==
  /\ Doing("end_scope")
  /\ sym' = Append(sym, <<>>)
  /\ Done
  /\ UNCHANGED <<globals, blocks, insert, values, outcome>>

-----------------------------------------------------------------------------
(* Control.  The blocks are made first, empty, one after the other.        *)
Empty(n) == [k \in 1 .. n |-> <<>>]

VisitIf ==
  /\ Visiting({"if"})
  /\ LET then == Len(blocks) + 1
         else == IF Ref.else_block = Null THEN Null ELSE then + 1
         next == IF Ref.else_block = Null THEN then + 1 ELSE then + 2
     IN  /\ blocks' = blocks \o Empty(next - then + 1)
         /\ GoOn(<<BeginScope(NoNames), Visit(Ref.cond),
                   BranchOn(then, IF else = Null THEN next ELSE else),
                   SetInsertPoint(then), Visit(Ref.true_block),
                   LeaveBranch(then, next)>>
                 \o (IF else = Null THEN <<>>
                     ELSE <<SetInsertPoint(else), Visit(Ref.else_block),
                            LeaveBranch(else, next)>>)
                 \o <<EndScope, SetInsertPoint(next)>>)
  /\ UNCHANGED <<globals, insert, sym, values, outcome>>

VisitWhile ==
  /\ Visiting({"while"})
  /\ LET made  == Len(blocks)
         body  == made + 1
         cond  == made + 2
         exit  == made + 3
         after == made + 4
     IN  GoOn(<<BeginScope(NoNames), BranchTo(cond),
                SetInsertPoint(cond), Visit(Ref.cond), BranchOn(body, exit),
                SetInsertPoint(body), Visit(Ref.block), BranchTo(cond), EndScope,
                SetInsertPoint(exit), BranchTo(after), SetInsertPoint(after)>>)
  /\ blocks' = blocks \o Empty(4)
  /\ UNCHANGED <<globals, insert, sym, values, outcome>>

SetInsertPointStep ==
  /\ Doing("set_insert_point")
  /\ insert' = Task.block
  /\ Done
  /\ UNCHANGED <<globals, blocks, sym, values, outcome>>

BranchToStep ==
  /\ Doing("branch_to")
  /\ Appended(<<Branch("br", <<>>, <<Task.block>>)>>)
  /\ Done
  /\ UNCHANGED <<globals, insert, sym, values, outcome>>

(* Fault: the branches are swapped.                                        *)
BranchOnSwapped ==
  /\ Doing("branch_on")
  /\ Appended(<<Insn("is_not_null", "i1", Taken(1)),
                Branch("condbr", <<NextResult("i1")>>,
                       <<Task.to[2], Task.to[1]>>)>>)
  /\ values' = Without(1)
  /\ Done
  /\ UNCHANGED <<globals, insert, sym, outcome>>

BranchOnStep ==
  /\ Doing("branch_on")
  /\ Appended(<<Insn("is_not_null", "i1", Taken(1)),
                Branch("condbr", <<NextResult("i1")>>, Task.to)>>)
  /\ values' = Without(1)
  /\ Done
  /\ UNCHANGED <<globals, insert, sym, outcome>>

(* Fault: a branch with something in it is not left.                       *)
LeaveBranchIfEmpty ==
  /\ Doing("leave_branch")
  /\ IF blocks[Task.block] = <<>>
       THEN Appended(<<Branch("br", <<>>, <<Task.next>>)>>)
       ELSE UNCHANGED blocks
  /\ Done
  /\ UNCHANGED <<globals, insert, sym, values, outcome>>

(* Whether the branch is left already is asked of the block it began in;   *)
(* the jump is put where the builder is by then.                           *)
LeaveBranchStep ==
  /\ Doing("leave_branch")
  /\ LET code == blocks[Task.block]
     IN  IF code = <<>> \/ Last(code).op \notin {"br", "condbr", "ret"}
           THEN Appended(<<Branch("br", <<>>, <<Task.next>>)>>)
           ELSE UNCHANGED blocks
  /\ Done
  /\ UNCHANGED <<globals, insert, sym, values, outcome>>

-----------------------------------------------------------------------------
(* The module: the functions are declared, then the globals, then the      *)
(* functions are defined, and main is what the root block does.            *)
TypeOfFunction(name) == TypeOfDefinition(ast, functions[name].definition)

DeclareFunctionsStep ==
  /\ Doing("declare_functions")
  /\ IF \E name \in usegraph.node : Untranslatable(TypeOfFunction(name))
       THEN Failing("bad_type")
       ELSE Done /\ UNCHANGED <<globals, blocks, insert, sym, values, outcome>>

(* Nobody has set global_stab when there was no root to analyse: it may be *)
(* null, or whatever was there before.                                     *)
DeclareNoGlobals ==
  /\ Doing("declare_globals")
  /\ globalStab = Null
  /\ \/ /\ sym' = <<NoNames>>
        /\ Done
        /\ UNCHANGED <<globals, blocks, insert, values, outcome>>
     \/ Failing("undefined")

(* A global of a function type is none that LLVM can have.                 *)
DeclareGlobalsStep ==
  /\ Doing("declare_globals")
  /\ globalStab # Null
  /\ LET stab  == ast[globalStab].stab
         names == SetToSeq(DOMAIN stab)
         Place(name) == CHOOSE k \in DOMAIN names : names[k] = name
     IN  IF \E name \in DOMAIN stab : Untranslatable(ast[stab[name]].type)
           THEN Failing("bad_type")
         ELSE IF \E name \in DOMAIN stab : IsFunc(ast[stab[name]].type)
           THEN Failing("undefined")
         ELSE /\ globals' = names
              /\ sym' = <<[name \in DOMAIN stab |->
                             [val |-> Result("ptr", 0, Place(name)),
                              var |-> Null]]>>
              /\ Done
              /\ UNCHANGED <<blocks, insert, values, outcome>>

(* The body of a function is a value block and is cast to a statement      *)
(* block, which it is not: with a function in it no file gets any further. *)
DefineFunctionsStep ==
  /\ Doing("define_functions")
  /\ IF usegraph.node # {} THEN Failing("undefined")
     ELSE Done /\ UNCHANGED <<globals, blocks, insert, sym, values, outcome>>

(* Fault: main does not return.                                            *)
DefineMainOpen ==
  /\ Doing("define_main")
  /\ IF root = Null THEN Done /\ UNCHANGED <<blocks, insert>>
     ELSE /\ blocks' = <<<<>>>>
          /\ insert' = 1
          /\ GoOn(GenerateStatements(ast[root]) \o <<EndScope>>)
  /\ UNCHANGED <<globals, sym, values, outcome>>

(* Without a root main stays a declaration.                                *)
DefineMainStep ==
  /\ Doing("define_main")
  /\ IF root = Null THEN Done /\ UNCHANGED <<blocks, insert>>
     ELSE /\ blocks' = <<<<>>>>
          /\ insert' = 1
          /\ GoOn(GenerateStatements(ast[root]) \o <<ReturnVoid, EndScope>>)
  /\ UNCHANGED <<globals, sym, values, outcome>>

ReturnVoidStep ==
  /\ Doing("return_void")
  /\ Appended(<<Branch("ret", <<>>, <<>>)>>)
  /\ Done
  /\ UNCHANGED <<globals, insert, sym, values, outcome>>

-----------------------------------------------------------------------------
(* A visitor that has generated nothing yet.                               *)
Created == /\ globals = <<>> /\ blocks = <<>> /\ insert = Null /\ sym = <<>>
           /\ todo = <<>> /\ values = <<>>
           /\ outcome = "idle"

(* emit_llvm is called, and returns the module.                            *)
EmitLlvm ==
  /\ outcome = "idle"
  /\ todo' = <<DeclareFunctions, DeclareGlobals, DefineFunctions, DefineMain>>
  /\ outcome' = "working"
  /\ UNCHANGED <<globals, blocks, insert, sym, values>>

EmitModule ==
  /\ outcome = "working" /\ todo = <<>>
  /\ outcome' = "done"
  /\ UNCHANGED <<globals, blocks, insert, sym, todo, values>>

GenerateStep ==
  /\ \/ VisitParent \/ VisitOther \/ VisitConstant \/ OperateStep
     \/ VisitVariable \/ VisitSubscript \/ ElementStep \/ StoreToVariable
     \/ StoreToElement \/ StoreThroughStep \/ ForgetStep \/ BeginScopeStep
     \/ EndScopeStep \/ VisitIf \/ VisitWhile \/ SetInsertPointStep \/ BranchToStep
     \/ BranchOnStep \/ LeaveBranchStep \/ DeclareFunctionsStep
     \/ DeclareNoGlobals \/ DeclareGlobalsStep \/ DefineFunctionsStep \/ DefineMainStep
     \/ ReturnVoidStep \/ EmitModule
  /\ UNCHANGED frontVars
=============================================================================
