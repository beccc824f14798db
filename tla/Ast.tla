-------------------------------- MODULE Ast --------------------------------
(***************************************************************************)
(* The abstract syntax tree as the semantic analysis hands it to the code  *)
(* generator (include/frontend/ast/ast_nodes): a record per node class.    *)
(* Scopes carry the set of names declared in them, calls the function they *)
(* were resolved to, and the nodes the generator asks for a type carry it. *)
(* A variable is a name; an optional child is a sequence of at most one.   *)
(***************************************************************************)
EXTENDS Naturals, Sequences, FiniteSets

(* "null" is a generic_type that holds no type; comparing it throws.       *)
Types == {"int", "func", "void", "null"}

-----------------------------------------------------------------------------
(* Expressions.                                                            *)
Const(value)      == [node |-> "constant", value |-> value]
ReadInput         == [node |-> "read"]
Var(name)         == [node |-> "variable", name |-> name]
Bin(op, lhs, rhs) == [node |-> "binary", op |-> op, left |-> lhs, right |-> rhs]
Un(op, expr)      == [node |-> "unary", op |-> op, expr |-> expr]
FnPtr(def)        == [node |-> "fn_to_ptr", definition |-> def]
Subscript(name, expr) == [node |-> "subscript", name |-> name, expr |-> expr]

(* lefts is m_lefts: the targets from the innermost, each a variable or a  *)
(* subscript.  Assign is for variables: a = b = e is Assign(<<"b", "a">>,  *)
(* e).                                                                     *)
Assignment(lefts, right) ==
  [node |-> "assignment", lefts |-> lefts, right |-> right]
Assign(names, right) ==
  Assignment([k \in DOMAIN names |-> Var(names[k])], right)

(* def is m_def: the function called by name, or none for a call through a *)
(* variable.                                                               *)
Call(name, def, args, type) ==
  [node |-> "call", name |-> name, def |-> def, args |-> args, type |-> type]

ValueBlock(stab, stmts, type) ==
  [node |-> "value_block", stab |-> stab, stmts |-> stmts, type |-> type]

-----------------------------------------------------------------------------
(* Statements.                                                             *)
PrintStmt(expr)    == [node |-> "print", expr |-> expr]
ReturnStmt(expr)   == [node |-> "return", expr |-> expr]
FunDef(def)        == [node |-> "function_definition", definition |-> def]
Block(stab, stmts) == [node |-> "statement_block", stab |-> stab,
                       stmts |-> stmts]

(* The parser wraps the statement of a branch or a loop in a block of its  *)
(* own.                                                                    *)
If(stab, cond, true, false) ==
  [node |-> "if", stab |-> stab, cond |-> cond,
   true_block |-> true, else_block |-> false]
While(stab, cond, block) ==
  [node |-> "while", stab |-> stab, cond |-> cond, block |-> block]

(* A function's definition, and a whole program: the root block, if the    *)
(* source has one, and the functions the explorer named.                   *)
Function(params, body)   == [params |-> params, body |-> body]
Program(main, functions) == [main |-> main, functions |-> functions]

-----------------------------------------------------------------------------
(* ast_expression_types: the node classes whose value a block has to drop. *)
ExpressionNodes == {"assignment", "value_block", "binary", "constant",
                    "unary", "variable", "fn_to_ptr", "read", "call",
                    "subscript"}

IsExpression(st) == st.node \in ExpressionNodes

(* The type of an expression, as far as the generator tells types apart.   *)
TypeOf(expr) == IF expr.node \in {"call", "value_block"} THEN expr.type
                                                         ELSE "int"

-----------------------------------------------------------------------------
(* The operators of binary_operation and unary_operation.                  *)
BinaryOperators == {"+", "-", "*", "/", "%", "==", "!=", ">", "<", ">=", "<=",
                    "&&", "||"}
UnaryOperators  == {"-", "+", "!"}

IsScope(stab) == stab \in SUBSET STRING /\ IsFiniteSet(stab)
IsOptional(list, nodes) == list \in Seq(nodes) /\ Len(list) <= 1

(* What the node classes guarantee of a node: its children are nodes, its  *)
(* lists are lists and its operator is one of the enumeration.             *)
IsMade(ref, nodes) ==
  /\ ref.node \in {"print", "unary"}     => ref.expr \in nodes
  /\ ref.node = "unary"                  => ref.op \in UnaryOperators
  /\ ref.node = "binary"                 => /\ ref.op \in BinaryOperators
                                            /\ {ref.left, ref.right} \subseteq nodes
  /\ ref.node = "assignment"             => /\ ref.lefts \in Seq(nodes)
                                            /\ ref.right \in nodes
  /\ ref.node = "call"                   => ref.args \in Seq(nodes)
  /\ ref.node = "return"                 => IsOptional(ref.expr, nodes)
  /\ ref.node \in {"value_block", "statement_block"} => ref.stmts \in Seq(nodes)
  /\ ref.node \in {"value_block", "statement_block", "if", "while"}
                                         => IsScope(ref.stab)
  /\ ref.node \in {"if", "while"}        => ref.cond \in nodes
  /\ ref.node = "while"                  => ref.block \in nodes
  /\ ref.node = "if"                     => /\ ref.true_block \in nodes
                                            /\ IsOptional(ref.else_block, nodes)

(* And of a program: the root, if there is one, is a block.                *)
IsProgram(prog, nodes) ==
  /\ IsOptional(prog.main, nodes)
  /\ \A k \in DOMAIN prog.main : prog.main[k].node = "statement_block"
  /\ \A f \in DOMAIN prog.functions :
       /\ prog.functions[f].params \in Seq(STRING)
       /\ prog.functions[f].body \in nodes

(* The programs are made of the nodes, and the nodes of one another.       *)
AreTrees(programs, nodes) ==
  /\ \A ref \in nodes : IsMade(ref, nodes)
  /\ \A prog \in programs : IsProgram(prog, nodes)
=============================================================================
