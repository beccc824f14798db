-------------------------------- MODULE Tree --------------------------------
(***************************************************************************)
(* The syntax tree while the front end works on it: ast_container owns the *)
(* nodes, the rest of the program holds pointers to them and writes types, *)
(* callees and whole statements into them.  So the tree is a sequence of   *)
(* nodes, a pointer is a position in it, and Null is the null pointer.     *)
(***************************************************************************)
EXTENDS Naturals, Sequences

Null == 0

-----------------------------------------------------------------------------
(* types.hpp.  A generic_type that holds nothing is NoType.                *)
NoType    == <<>>
IntType   == <<"int">>
VoidType  == <<"void">>
ArrayOf(element, size) == <<"array", element, size>>
FuncType(return, args) == <<"func", return, args>>

IsArray(type) == type # NoType /\ type[1] = "array"
IsFunc(type)  == type # NoType /\ type[1] = "func"
ReturnType(type) == type[2]
ArgTypes(type)   == type[3]

(* is_equal: two types of the same structure, unless they are functions    *)
(* whose result is not known yet.                                          *)
SameType(type, other) ==
  type = other /\ (IsFunc(type) => ReturnType(type) # NoType)

-----------------------------------------------------------------------------
(* The node classes.                                                       *)
Expressions == {"assignment", "binary", "constant", "read", "value_block",
                "unary", "variable", "call", "fn_to_ptr"}
Blocks      == {"value_block", "statement_block"}

(* What a node of each class points to; Null where a part may be missing.  *)
IsNode(ref, nodes) ==
  /\ "node" \in DOMAIN ref
  /\ \/ ref.node \in {"constant", "read", "error_node"}
     \/ ref.node = "variable" /\ {"name", "type"} \subseteq DOMAIN ref
     \/ /\ ref.node = "binary" /\ {"left", "right"} \subseteq DOMAIN ref
        /\ {ref.left, ref.right} \subseteq nodes
     \/ /\ ref.node \in {"unary", "print", "subscript"}
        /\ "expr" \in DOMAIN ref /\ ref.expr \in nodes
     \/ /\ ref.node = "assignment" /\ {"lefts", "right"} \subseteq DOMAIN ref
        /\ ref.lefts \in Seq(nodes) \ {<<>>} /\ ref.right \in nodes
     \/ /\ ref.node = "call" /\ "args" \in DOMAIN ref
        /\ ref.args \in Seq(nodes)
     \/ /\ ref.node = "fn_to_ptr" /\ "definition" \in DOMAIN ref
        /\ ref.definition \in nodes
     \/ /\ ref.node = "function_definition"
        /\ {"params", "body", "stab"} \subseteq DOMAIN ref
        /\ ref.params \in Seq(nodes) /\ ref.body \in nodes
     \/ /\ ref.node \in Blocks /\ {"stmts", "stab", "returns"} \subseteq DOMAIN ref
        /\ ref.stmts \in Seq(nodes)
     \/ /\ ref.node = "while" /\ {"cond", "block"} \subseteq DOMAIN ref
        /\ {ref.cond, ref.block} \subseteq nodes
     \/ /\ ref.node = "if"
        /\ {"cond", "true_block", "else_block"} \subseteq DOMAIN ref
        /\ {ref.cond, ref.true_block} \subseteq nodes
        /\ ref.else_block \in nodes \cup {Null}
     \/ /\ ref.node = "return" /\ "expr" \in DOMAIN ref
        /\ ref.expr \in nodes \cup {Null}

(* Every name a table declares has a declaration, of some type.            *)
HoldsTyped(ast, stab) ==
  \A name \in DOMAIN stab :
    /\ stab[name] \in DOMAIN ast
    /\ ast[stab[name]].node = "variable" /\ ast[stab[name]].type # NoType

(* The nodes a node points to as its own.  A call does not own its callee. *)
Parts(ref) ==
  CASE ref.node = "binary"              -> <<ref.left, ref.right>>
    [] ref.node \in {"unary", "print", "subscript"} -> <<ref.expr>>
    [] ref.node = "assignment"          -> ref.lefts \o <<ref.right>>
    [] ref.node = "call"                -> ref.args
    [] ref.node = "fn_to_ptr"           -> <<ref.definition>>
    [] ref.node = "function_definition" -> Append(ref.params, ref.body)
    [] ref.node \in Blocks              -> ref.stmts
    [] ref.node = "while"               -> <<ref.cond, ref.block>>
    [] ref.node = "if" /\ ref.else_block = Null -> <<ref.cond, ref.true_block>>
    [] ref.node = "if" /\ ref.else_block # Null ->
         <<ref.cond, ref.true_block, ref.else_block>>
    [] ref.node = "return" /\ ref.expr # Null -> <<ref.expr>>
    [] OTHER                            -> <<>>

(* The nodes that own a symbol table the front end fills.  A table gives   *)
(* each name the variable expression that declares it.                     *)
Scopes == Blocks \cup {"function_definition"}

NoNames == [name \in {} |-> Null]

(* symtab::declare keeps the declaration that is there.                    *)
Declared(stab, name, def) ==
  IF name \in DOMAIN stab THEN stab
  ELSE [n \in DOMAIN stab \cup {name} |-> IF n = name THEN def ELSE stab[n]]

-----------------------------------------------------------------------------
(* The type of a function definition, from its parameters and its result.  *)
TypeOfDefinition(ast, def) ==
  FuncType(ast[def].return,
           [k \in DOMAIN ast[def].params |-> ast[ast[def].params[k]].type])
=============================================================================
