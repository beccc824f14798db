-------------------------- MODULE SemanticAnalyzer --------------------------
(***************************************************************************)
(* semantic_analyzer: the second walk.  It gives expressions their types,  *)
(* declares variables in the symbol tables of the tree, and turns the last *)
(* expressions of blocks into return statements.                           *)
(*                                                                         *)
(* todo is what the active handlers still have to do, first thing first; a *)
(* visit puts the visited node's share in front.  A function definition is *)
(* analysed by an analyzer of its own, which starts with a copy of the     *)
(* scopes; the one around goes on, as it was, when that is through.        *)
(***************************************************************************)
EXTENDS Tree, SequencesExt

VARIABLES
  ast,          \* m_ast: the nodes, shared with the rest of the program
  root,         \* the node given to analyze_main
  functions,    \* m_functions->named_functions: name -> [definition, recursive]
  globalStab,   \* m_functions->global_stab: the block it belongs to
  errors,       \* m_error_queue: <<message, node>>
  analyzer,     \* the active one, [scopes, returns, tolerant]: m_scopes, the
                \* block that owns m_return_statements or Null, and
                \* m_type_errors_allowed
  todo,         \* what is left to do
  outcome       \* "working", "done", or how the analysis broke off

analyzeVars == <<ast, root, functions, globalStab, errors, analyzer, todo,
                 outcome>>

Breaks == {"bad_type",         \* generic_type: "Bad type dereference"
           "empty_return",     \* return_statement: the expression of none
           "unnamed",          \* optional::value(): a function never named
           "null_returns"}     \* push_back through the null pointer

-----------------------------------------------------------------------------
(* Things to do.                                                           *)
Apply(n)        == [do |-> "apply", node |-> n]
ExpectInt(n)    == [do |-> "expect_int", node |-> n]
TypeUnary(n)    == [do |-> "type_unary", node |-> n]
TypeBinary(n)   == [do |-> "type_binary", node |-> n]
CheckRight(n)   == [do |-> "check_right", node |-> n]
AssignTo(n, k)  == [do |-> "assign_to", node |-> n, target |-> k]
CheckTarget(n, k) == [do |-> "check_target", node |-> n, target |-> k]
TypeAssignment(n) == [do |-> "type_assignment", node |-> n]
ResolveCall(n)  == [do |-> "resolve_call", node |-> n]
LastOf(n)       == [do |-> "last_of", node |-> n]
DeduceType(n, outer) == [do |-> "deduce_type", node |-> n, outer |-> outer]
AnalyzeMain(n)  == [do |-> "analyze_main", node |-> n]
AnalyzeFunc(n, recursive) ==
  [do |-> "analyze_func", node |-> n, recursive |-> recursive]
SetReturnType(n) == [do |-> "set_return_type", node |-> n]
LeaveAnalyzer(outer) == [do |-> "leave_analyzer", outer |-> outer]
TypePointer(n)  == [do |-> "type_pointer", node |-> n]

ApplyAll(s) == [k \in DOMAIN s |-> Apply(s[k])]

Task == Head(todo)
Doing(what) == outcome = "working" /\ todo # <<>> /\ Task.do = what
Applying(kinds) == Doing("apply") /\ ast[Task.node].node \in kinds
Ref == ast[Task.node]

(* The handler returns, or goes on with the things in s.                   *)
Return    == todo' = Tail(todo)
GoOn(s)   == todo' = s \o Tail(todo)

(* An exception leaves every handler.                                      *)
BreakWith(how, tree) ==
  /\ outcome' = how
  /\ todo' = <<>>
  /\ ast' = tree
  /\ UNCHANGED errors

Break(how) ==
  /\ BreakWith(how, ast)
  /\ UNCHANGED <<root, functions, globalStab, analyzer>>

-----------------------------------------------------------------------------
(* The active analyzer and its scopes.                                     *)
Returns == analyzer.returns
Tolerant == analyzer.tolerant

(* begin_scope.  No handler ends a scope.                                  *)
WithScope(n) == [analyzer EXCEPT !.scopes = Append(@, n)]

(* lookup_symbol, from the innermost scope outwards.                       *)
Scope(k) == ast[analyzer.scopes[k]].stab
Holding(name) == {k \in DOMAIN analyzer.scopes : name \in DOMAIN Scope(k)}
IsDeclared(name) == Holding(name) # {}
Definition(name) == Scope(Max(Holding(name)))[name]

Report(message, n) == errors' = Append(errors, <<message, n>>)

(* expect_type_eq: whether the expected type is met, and what it reports.  *)
(* A missing type and an array are taken for anything.                     *)
Passes(type) == type = NoType \/ IsArray(type)
Meets(type, expected) ==
  ~Tolerant /\ (Passes(type) \/ SameType(type, expected))
Reports(type, expected) ==
  ~Tolerant /\ ~Passes(type) /\ ~SameType(type, expected)

ExpectTypeEq(n, expected) ==
  IF Reports(ast[n].type, expected) THEN Report("type_mismatch", n)
                                    ELSE UNCHANGED errors

-----------------------------------------------------------------------------
(* Nodes without further ado, and an error node the parser left.           *)
AnalyzeLeaf == /\ Applying({"constant", "read"})
               /\ Return
               /\ UNCHANGED <<ast, root, functions, globalStab, errors,
                              analyzer, outcome>>

AnalyzeErrorNode == /\ Applying({"error_node"})
                    /\ Report("syntax_error", Task.node)
                    /\ Return
                    /\ UNCHANGED <<ast, root, functions, globalStab, analyzer,
                                   outcome>>

(* The handlers that begin with their children, in this order.             *)
ChildrenFirst(ref, n) ==
  CASE ref.node = "unary"  -> <<Apply(ref.expr), TypeUnary(n)>>
    [] ref.node = "binary" -> <<Apply(ref.right), Apply(ref.left), TypeBinary(n)>>
    [] ref.node = "print"  -> <<Apply(ref.expr), ExpectInt(ref.expr)>>
    [] ref.node = "while"  -> <<Apply(ref.cond), ExpectInt(ref.cond),
                                Apply(ref.block)>>
    [] ref.node = "if"     -> <<Apply(ref.cond), ExpectInt(ref.cond),
                                Apply(ref.true_block)>>
                                \o (IF ref.else_block = Null THEN <<>>
                                    ELSE <<Apply(ref.else_block)>>)
    [] ref.node = "assignment" -> <<Apply(ref.right), CheckRight(n)>>
    [] ref.node = "call"       -> ApplyAll(ref.args) \o <<ResolveCall(n)>>

AnalyzeChildrenFirst ==
  /\ Applying({"unary", "binary", "print", "while", "if", "assignment", "call"})
  /\ GoOn(ChildrenFirst(Ref, Task.node))
  /\ UNCHANGED <<ast, root, functions, globalStab, errors, analyzer, outcome>>

ExpectIntStep ==
  /\ Doing("expect_int")
  /\ ExpectTypeEq(Task.node, IntType)
  /\ Return
  /\ UNCHANGED <<ast, root, functions, globalStab, analyzer, outcome>>

TypeUnaryStep ==
  /\ Doing("type_unary")
  /\ ExpectTypeEq(Ref.expr, IntType)
  /\ ast' = IF Meets(ast[Ref.expr].type, IntType)
              THEN [ast EXCEPT ![Task.node].type = IntType] ELSE ast
  /\ Return
  /\ UNCHANGED <<root, functions, globalStab, analyzer, outcome>>

(* Fault: the left operand is not looked at.                               *)
TypeBinaryRight ==
  /\ Doing("type_binary")
  /\ ExpectTypeEq(Ref.right, IntType)
  /\ ast' = IF Meets(ast[Ref.right].type, IntType)
              THEN [ast EXCEPT ![Task.node].type = IntType] ELSE ast
  /\ Return
  /\ UNCHANGED <<root, functions, globalStab, analyzer, outcome>>

(* The left operand is not looked at when the right one fails.             *)
TypeBinaryStep ==
  /\ Doing("type_binary")
  /\ LET right == ast[Ref.right].type
         left  == ast[Ref.left].type
     IN  /\ ExpectTypeEq(IF Meets(right, IntType) THEN Ref.left ELSE Ref.right,
                         IntType)
         /\ ast' = IF Meets(right, IntType) /\ Meets(left, IntType)
                     THEN [ast EXCEPT ![Task.node].type = IntType] ELSE ast
  /\ Return
  /\ UNCHANGED <<root, functions, globalStab, analyzer, outcome>>

-----------------------------------------------------------------------------
(* Variables.  A name that is found has the type of its declaration.       *)
AnalyzeVariable ==
  /\ Applying({"variable"})
  /\ IF IsDeclared(Ref.name)
       THEN /\ ast' = [ast EXCEPT ![Task.node].type =
                                    ast[Definition(Ref.name)].type]
            /\ UNCHANGED errors
       ELSE /\ Report("undeclared", Task.node)
            /\ UNCHANGED ast
  /\ Return
  /\ UNCHANGED <<root, functions, globalStab, analyzer, outcome>>

(* A subscript has the type int from the start.                            *)
AnalyzeSubscript ==
  /\ Applying({"subscript"})
  /\ IF IsDeclared(Ref.name)
       THEN GoOn(<<Apply(Ref.expr)>>) /\ UNCHANGED errors
       ELSE Return /\ Report("undeclared", Task.node)
  /\ UNCHANGED <<ast, root, functions, globalStab, analyzer, outcome>>

(* Assignments: the right side needs a type other than void.  The targets  *)
(* follow from the outermost in, the last of m_lefts first.                *)
(* Fault: a right side without a type is let through.                      *)
CheckRightLoose ==
  /\ Doing("check_right")
  /\ LET type == ast[Ref.right].type
     IN  IF type = VoidType THEN Return /\ Report("void_value", Ref.right)
         ELSE GoOn(<<AssignTo(Task.node, Len(Ref.lefts))>>) /\ UNCHANGED errors
  /\ UNCHANGED <<ast, root, functions, globalStab, analyzer, outcome>>

CheckRightStep ==
  /\ Doing("check_right")
  /\ LET type == ast[Ref.right].type
     IN  IF type = NoType
           THEN /\ Return
                /\ IF Tolerant THEN UNCHANGED errors
                               ELSE Report("unknown_type", Ref.right)
         ELSE IF type = VoidType
           THEN Return /\ Report("void_value", Ref.right)
         ELSE GoOn(<<AssignTo(Task.node, Len(Ref.lefts))>>) /\ UNCHANGED errors
  /\ UNCHANGED <<ast, root, functions, globalStab, analyzer, outcome>>

(* Fault: the target is gone on with again and again.                      *)
TheSame(n, k) == IF k = 1 THEN <<TypeAssignment(n)>> ELSE <<AssignTo(n, k)>>

TheRest(n, k) == IF k = 1 THEN <<TypeAssignment(n)>> ELSE <<AssignTo(n, k - 1)>>

(* A name met for the first time is declared in the last scope begun, and  *)
(* takes the type of the right side if it has none of its own.  Asking for *)
(* a type that is not there throws.                                        *)
(* Fault: the name does not take the type of the right side.               *)
AssignNewVariableUntyped ==
  /\ Doing("assign_to")
  /\ LET target == Ref.lefts[Task.target]
     IN  /\ ast[target].node = "variable"
         /\ ~IsDeclared(ast[target].name)
         /\ ast' = [ast EXCEPT ![Last(analyzer.scopes)].stab =
                                  Declared(@, ast[target].name, target)]
  /\ GoOn(TheRest(Task.node, Task.target))
  /\ UNCHANGED <<root, functions, globalStab, errors, analyzer, outcome>>

AssignNewVariable ==
  /\ Doing("assign_to")
  /\ LET target == Ref.lefts[Task.target]
         type   == ast[Ref.right].type
         innermost == Last(analyzer.scopes)
         declared == [ast EXCEPT ![innermost].stab =
                                   Declared(@, ast[target].name, target)]
     IN  /\ ast[target].node = "variable"
         /\ ~IsDeclared(ast[target].name)
         /\ IF type = NoType THEN BreakWith("bad_type", declared)
            ELSE IF ast[target].type = NoType
              THEN /\ ast' = [declared EXCEPT ![target].type = type]
                   /\ GoOn(TheRest(Task.node, Task.target))
                   /\ UNCHANGED <<errors, outcome>>
            ELSE /\ ast' = declared
                 /\ ExpectTypeEq(target, type)
                 /\ IF Meets(ast[target].type, type)
                      THEN GoOn(TheRest(Task.node, Task.target)) ELSE Return
                 /\ UNCHANGED outcome
  /\ UNCHANGED <<root, functions, globalStab, analyzer>>

AssignVariable ==
  /\ Doing("assign_to")
  /\ LET target == Ref.lefts[Task.target]
     IN  /\ ast[target].node = "variable"
         /\ IsDeclared(ast[target].name)
         /\ ast' = [ast EXCEPT ![target].type =
                                 ast[Definition(ast[target].name)].type]
  /\ GoOn(<<CheckTarget(Task.node, Task.target)>>)
  /\ UNCHANGED <<root, functions, globalStab, errors, analyzer, outcome>>

AssignElement ==
  /\ Doing("assign_to")
  /\ ast[Ref.lefts[Task.target]].node = "subscript"
  /\ GoOn(<<Apply(Ref.lefts[Task.target]), CheckTarget(Task.node, Task.target)>>)
  /\ UNCHANGED <<ast, root, functions, globalStab, errors, analyzer, outcome>>

CheckTargetStep ==
  /\ Doing("check_target")
  /\ LET target == Ref.lefts[Task.target]
         type   == ast[Ref.right].type
     IN  IF type = NoType THEN BreakWith("bad_type", ast)
         ELSE /\ ExpectTypeEq(target, type)
              /\ IF Meets(ast[target].type, type)
                   THEN GoOn(TheRest(Task.node, Task.target)) ELSE Return
              /\ UNCHANGED <<ast, outcome>>
  /\ UNCHANGED <<root, functions, globalStab, analyzer>>

TypeAssignmentStep ==
  /\ Doing("type_assignment")
  /\ ast' = [ast EXCEPT ![Task.node].type = ast[Ref.right].type]
  /\ Return
  /\ UNCHANGED <<root, functions, globalStab, errors, analyzer, outcome>>

-----------------------------------------------------------------------------
(* Blocks.  A value block collects the returns in it, a statement block    *)
(* leaves them to the value block around it, if there is one.              *)
(* Fault: the returns of an earlier pass are kept.                         *)
BeginValueBlockUncleared ==
  /\ Applying({"value_block"})
  /\ analyzer' = [WithScope(Task.node) EXCEPT !.returns = Task.node]
  /\ GoOn(ApplyAll(Ref.stmts) \o <<LastOf(Task.node),
                                   DeduceType(Task.node, Returns)>>)
  /\ UNCHANGED <<ast, root, functions, globalStab, errors, outcome>>

BeginValueBlock ==
  /\ Applying({"value_block"})
  /\ ast' = [ast EXCEPT ![Task.node].returns = <<>>]
  /\ analyzer' = [WithScope(Task.node) EXCEPT !.returns = Task.node]
  /\ GoOn(ApplyAll(Ref.stmts) \o <<LastOf(Task.node),
                                   DeduceType(Task.node, Returns)>>)
  /\ UNCHANGED <<root, functions, globalStab, errors, outcome>>

(* Fault: a block has no scope of its own.                                 *)
BeginStatementBlockUnscoped ==
  /\ Applying({"statement_block"})
  /\ analyzer' = IF analyzer.scopes = <<>> THEN WithScope(Task.node)
                                           ELSE analyzer
  /\ GoOn(ApplyAll(Ref.stmts) \o <<LastOf(Task.node)>>)
  /\ UNCHANGED <<ast, root, functions, globalStab, errors, outcome>>

BeginStatementBlock ==
  /\ Applying({"statement_block"})
  /\ analyzer' = WithScope(Task.node)
  /\ GoOn(ApplyAll(Ref.stmts) \o <<LastOf(Task.node)>>)
  /\ UNCHANGED <<ast, root, functions, globalStab, errors, outcome>>

(* The last statement of a block.  An expression that is not void becomes  *)
(* the return of it; a statement, a subscript among them, stays.           *)
LastStatement == Last(Ref.stmts)
EndsInExpression == /\ Ref.stmts # <<>>
                    /\ ast[LastStatement].node \in Expressions

(* A value block compares the type even if there is none.                  *)
LastTypeMissing ==
  /\ Doing("last_of")
  /\ Ref.node = "value_block" /\ EndsInExpression
  /\ ast[LastStatement].type = NoType
  /\ Break("bad_type")

(* Fault: the return is not among those whose types are compared.          *)
LastReturnsUncollected ==
  /\ Doing("last_of")
  /\ EndsInExpression /\ ast[LastStatement].type # VoidType
  /\ Returns # Null
  /\ ast[LastStatement].type = NoType => Ref.node = "statement_block"
  /\ ast' = Append([ast EXCEPT ![Task.node].stmts[Len(Ref.stmts)] = Len(ast) + 1],
                   [node |-> "return", expr |-> LastStatement])
  /\ Return
  /\ UNCHANGED <<root, functions, globalStab, errors, analyzer, outcome>>

(* Fault: the return is put after the expression, not in its place.        *)
LastReturnsAdded ==
  /\ Doing("last_of")
  /\ EndsInExpression /\ ast[LastStatement].type # VoidType
  /\ Returns # Null
  /\ ast[LastStatement].type = NoType => Ref.node = "statement_block"
  /\ LET made == Len(ast) + 1
     IN  ast' = Append([ast EXCEPT ![Task.node].stmts = Append(@, made),
                                   ![Returns].returns = Append(@, made)],
                       [node |-> "return", expr |-> LastStatement])
  /\ Return
  /\ UNCHANGED <<root, functions, globalStab, errors, analyzer, outcome>>

LastReturns ==
  /\ Doing("last_of")
  /\ EndsInExpression /\ ast[LastStatement].type # VoidType
  /\ Returns # Null
  /\ ast[LastStatement].type = NoType => Ref.node = "statement_block"
  /\ LET made == Len(ast) + 1
     IN  ast' = Append([ast EXCEPT ![Task.node].stmts[Len(Ref.stmts)] = made,
                                   ![Returns].returns = Append(@, made)],
                       [node |-> "return", expr |-> LastStatement])
  /\ Return
  /\ UNCHANGED <<root, functions, globalStab, errors, analyzer, outcome>>

LastStays ==
  /\ Doing("last_of")
  /\ EndsInExpression /\ Returns # Null => ast[LastStatement].type = VoidType
  /\ Return
  /\ UNCHANGED <<ast, root, functions, globalStab, errors, analyzer, outcome>>

-----------------------------------------------------------------------------
(* The type of a value block, from the returns collected in it.            *)
Collected(n) == ast[n].returns
IsEmpty(n, k) == ast[Collected(n)[k]].expr = Null
TypeAt(n, k)  == ast[ast[Collected(n)[k]].expr].type
IsTyped(n, k) == ~IsEmpty(n, k) /\ TypeAt(n, k) # NoType

(* Neighbours are compared until one pair differs, or has no expression to *)
(* ask for its type; the second of a pair is not asked if the first has no *)
(* type.  Then the first that has a type gives it.                         *)
Decides(n, k) ==
  \/ IsEmpty(n, k)
  \/ /\ IsTyped(n, k)
     /\ \/ IsEmpty(n, k + 1)
        \/ IsTyped(n, k + 1) /\ ~SameType(TypeAt(n, k), TypeAt(n, k + 1))

Deciding(n) == {k \in 1 .. Len(Collected(n)) - 1 : Decides(n, k)}
Found(n)    == {k \in DOMAIN Collected(n) : IsEmpty(n, k) \/ IsTyped(n, k)}

AsksEmptyReturn(n) ==
  IF Deciding(n) # {} THEN LET k == Min(Deciding(n))
                           IN  IsEmpty(n, k) \/ IsEmpty(n, k + 1)
  ELSE Found(n) # {} /\ IsEmpty(n, Min(Found(n)))
Mismatch(n) ==
  Collected(n) # <<>> /\ (Deciding(n) # {} \/ Found(n) = {})
DeducedType(n) == IF Collected(n) = <<>> \/ Mismatch(n) THEN VoidType
                  ELSE TypeAt(n, Min(Found(n)))

DeduceReturnType ==
  /\ Doing("deduce_type")
  /\ ~AsksEmptyReturn(Task.node)
  /\ IF Mismatch(Task.node) THEN Report("deduction", Task.node)
                            ELSE UNCHANGED errors
  /\ ast' = [ast EXCEPT ![Task.node].type = DeducedType(Task.node)]
  /\ analyzer' = [analyzer EXCEPT !.returns = Task.outer]
  /\ Return
  /\ UNCHANGED <<root, functions, globalStab, outcome>>

DeduceFromEmpty == /\ Doing("deduce_type")
                   /\ AsksEmptyReturn(Task.node)
                   /\ Break("empty_return")

(* A return statement is collected before its expression is visited.       *)
AnalyzeReturn ==
  /\ Applying({"return"})
  /\ Returns # Null
  /\ ast' = [ast EXCEPT ![Returns].returns = Append(@, Task.node)]
  /\ GoOn(IF Ref.expr = Null THEN <<>> ELSE <<Apply(Ref.expr)>>)
  /\ UNCHANGED <<root, functions, globalStab, errors, analyzer, outcome>>

ReturnOutside == /\ Applying({"return"})
                 /\ Returns = Null
                 /\ Break("null_returns")

-----------------------------------------------------------------------------
(* Calls.  The arguments are compared up to the first that does not match. *)
IsFunction(name) == name \in DOMAIN functions

Unmatched(args, params) ==
  {k \in DOMAIN args \cap DOMAIN params : ~Meets(ast[args[k]].type, params[k])}
ArgumentsMatch(args, params) ==
  Len(args) = Len(params) /\ Unmatched(args, params) = {}

CallErrors(n, params) ==
  LET args == ast[n].args
      bad  == Unmatched(args, params)
      first == Min(bad)
  IN  (IF bad # {} /\ Reports(ast[args[first]].type, params[first])
         THEN <<<<"type_mismatch", args[first]>>>> ELSE <<>>)
      \o (IF Tolerant \/ ArgumentsMatch(args, params) THEN <<>>
          ELSE <<<<"call_mismatch", n>>>>)

CheckCall(n, type) ==
  /\ errors' = errors \o CallErrors(n, ArgTypes(type))
  /\ ast' = IF ArgumentsMatch(ast[n].args, ArgTypes(type))
              THEN [ast EXCEPT ![n].type = ReturnType(type)] ELSE ast

CallFunction ==
  /\ Doing("resolve_call")
  /\ IsFunction(Ref.name) /\ ~IsDeclared(Ref.name)
  /\ CheckCall(Task.node,
               TypeOfDefinition(ast, functions[Ref.name].definition))
  /\ Return
  /\ UNCHANGED <<root, functions, globalStab, analyzer, outcome>>

CallVariable ==
  /\ Doing("resolve_call")
  /\ ~IsFunction(Ref.name) /\ IsDeclared(Ref.name)
  /\ LET type == ast[Definition(Ref.name)].type
     IN  IF type = NoType THEN BreakWith("bad_type", ast)
         ELSE /\ IF IsFunc(type) THEN CheckCall(Task.node, type)
                 ELSE /\ IF Tolerant THEN UNCHANGED errors
                                     ELSE Report("call_mismatch", Task.node)
                      /\ UNCHANGED ast
              /\ Return
              /\ UNCHANGED outcome
  /\ UNCHANGED <<root, functions, globalStab, analyzer>>

(* A name of both kinds, or of neither.                                    *)
CallUnresolved ==
  /\ Doing("resolve_call")
  /\ IsFunction(Ref.name) <=> IsDeclared(Ref.name)
  /\ Report(IF IsFunction(Ref.name) THEN "ambiguous" ELSE "unknown_function",
            Task.node)
  /\ Return
  /\ UNCHANGED <<ast, root, functions, globalStab, analyzer, outcome>>

-----------------------------------------------------------------------------
(* Functions.  A definition is analysed where it stands, by an analyzer of *)
(* its own that sees the scopes begun so far; one that calls itself is     *)
(* analysed once tolerantly and once more by the same analyzer.            *)
AnalyzeDefinition ==
  /\ Applying({"function_definition"})
  /\ Ref.name # ""
  /\ analyzer' = [scopes |-> analyzer.scopes, returns |-> Null,
                  tolerant |-> FALSE]
  /\ GoOn(<<AnalyzeFunc(Task.node, IsFunction(Ref.name)
                                     /\ functions[Ref.name].recursive),
            LeaveAnalyzer(analyzer)>>)
  /\ UNCHANGED <<ast, root, functions, globalStab, errors, outcome>>

AnalyzeUnnamed == /\ Applying({"function_definition"})
                  /\ Ref.name = ""
                  /\ Break("unnamed")

(* Fault: the second pass is left out.                                     *)
AnalyzeFuncOnce ==
  /\ Doing("analyze_func")
  /\ analyzer' = [WithScope(Task.node) EXCEPT !.tolerant = Task.recursive]
  /\ IF ast[Ref.body].node = "error_node"
       THEN Report("syntax_error", Ref.body) /\ Return
       ELSE /\ GoOn(<<Apply(Ref.body), SetReturnType(Task.node)>>)
            /\ UNCHANGED errors
  /\ UNCHANGED <<ast, root, functions, globalStab, outcome>>

AnalyzeFuncStep ==
  /\ Doing("analyze_func")
  /\ analyzer' = [WithScope(Task.node) EXCEPT !.tolerant = Task.recursive]
  /\ LET again == IF Task.recursive THEN <<AnalyzeFunc(Task.node, FALSE)>>
                                    ELSE <<>>
     IN  IF ast[Ref.body].node = "error_node"
           THEN Report("syntax_error", Ref.body) /\ GoOn(again)
         ELSE /\ GoOn(<<Apply(Ref.body), SetReturnType(Task.node)>> \o again)
              /\ UNCHANGED errors
  /\ UNCHANGED <<ast, root, functions, globalStab, outcome>>

SetReturnTypeStep ==
  /\ Doing("set_return_type")
  /\ ast' = [ast EXCEPT ![Task.node].return = ast[Ref.body].type]
  /\ Return
  /\ UNCHANGED <<root, functions, globalStab, errors, analyzer, outcome>>

LeaveAnalyzerStep ==
  /\ Doing("leave_analyzer")
  /\ analyzer' = Task.outer
  /\ Return
  /\ UNCHANGED <<ast, root, functions, globalStab, errors, outcome>>

AnalyzeFunctionPtr ==
  /\ Applying({"fn_to_ptr"})
  /\ GoOn(<<Apply(Ref.definition), TypePointer(Task.node)>>)
  /\ UNCHANGED <<ast, root, functions, globalStab, errors, analyzer, outcome>>

TypePointerStep ==
  /\ Doing("type_pointer")
  /\ ast' = [ast EXCEPT ![Task.node].type =
                           TypeOfDefinition(ast, Ref.definition)]
  /\ Return
  /\ UNCHANGED <<root, functions, globalStab, errors, analyzer, outcome>>

-----------------------------------------------------------------------------
(* analyze_main.  The root block's own list of returns, which is gone      *)
(* through at the end, is always empty: nothing is ever put there.         *)
MainAnalyzer == [scopes |-> <<>>, returns |-> Null, tolerant |-> FALSE]

AnalyzeMainStep ==
  /\ Doing("analyze_main")
  /\ IF Ref.node = "error_node"
       THEN Report("syntax_error", Task.node) /\ Return /\ UNCHANGED globalStab
       ELSE /\ globalStab' = Task.node
            /\ GoOn(<<Apply(Task.node)>>)
            /\ UNCHANGED errors
  /\ UNCHANGED <<ast, root, functions, analyzer, outcome>>

Finish == /\ outcome = "working" /\ todo = <<>>
          /\ outcome' = "done"
          /\ UNCHANGED <<ast, root, functions, globalStab, errors, analyzer,
                         todo>>

AnalyzeStep ==
  \/ AnalyzeLeaf \/ AnalyzeErrorNode \/ AnalyzeChildrenFirst
  \/ ExpectIntStep \/ TypeUnaryStep \/ TypeBinaryStep
  \/ AnalyzeVariable \/ AnalyzeSubscript
  \/ CheckRightStep \/ AssignNewVariable \/ AssignVariable \/ AssignElement
  \/ CheckTargetStep \/ TypeAssignmentStep
  \/ BeginValueBlock \/ BeginStatementBlock
  \/ LastTypeMissing \/ LastReturns \/ LastStays
  \/ DeduceReturnType \/ DeduceFromEmpty \/ AnalyzeReturn \/ ReturnOutside
  \/ CallFunction \/ CallVariable \/ CallUnresolved
  \/ AnalyzeDefinition \/ AnalyzeUnnamed \/ AnalyzeFuncStep
  \/ SetReturnTypeStep \/ LeaveAnalyzerStep
  \/ AnalyzeFunctionPtr \/ TypePointerStep
  \/ AnalyzeMainStep \/ Finish
=============================================================================
