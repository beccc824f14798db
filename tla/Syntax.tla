------------------------------- MODULE Syntax -------------------------------
(***************************************************************************)
(* What the parser hands over: the terms of the grammar (parser.y), and    *)
(* the tree its actions make of one, children before parents.              *)
(*                                                                         *)
(* A term is a record of its class, its own data, and its children (kids)  *)
(* in the order of the constructor that takes them.                        *)
(***************************************************************************)
EXTENDS Tree, SequencesExt

(* Expressions.                                                            *)
Const(v)        == [node |-> "constant", value |-> v, kids |-> <<>>]
ReadInput       == [node |-> "read", kids |-> <<>>]
Var(name)       == [node |-> "variable", name |-> name, type |-> NoType,
                    kids |-> <<>>]
Typed(type, name) == [node |-> "variable", name |-> name, type |-> type,
                      kids |-> <<>>]
Bin(op, left, right) == [node |-> "binary", op |-> op, kids |-> <<left, right>>]
Un(op, e)       == [node |-> "unary", op |-> op, kids |-> <<e>>]
Subscript(name, e) == [node |-> "subscript", name |-> name, kids |-> <<e>>]
Call(name, args)   == [node |-> "call", name |-> name, kids |-> args]
ValueBlock(stmts)  == [node |-> "value_block", kids |-> stmts]
ErrorNode       == [node |-> "error_node", kids |-> <<>>]

(* A chain of targets as it is written, the outermost first; each append   *)
(* puts one at the end of m_lefts, so that the innermost is the first.     *)
Assign(targets, right) ==
  [node |-> "assignment", kids |-> <<right>> \o Reverse(targets)]
Set(name, right) == Assign(<<Var(name)>>, right)

(* Functions: the name of an unnamed one is "".  A parameter that does not *)
(* say its type is an int.                                                 *)
Declaring(params) ==
  [k \in DOMAIN params |-> IF params[k].type = NoType
                             THEN [params[k] EXCEPT !.type = IntType]
                             ELSE params[k]]
Func(name, params, stmts) ==
  [node |-> "function_definition", name |-> name,
   kids |-> <<ValueBlock(stmts)>> \o Declaring(params)]
FuncValue(name, params, stmts) ==
  [node |-> "fn_to_ptr", kids |-> <<Func(name, params, stmts)>>]

(* Statements.  A branch or a loop body is put in a block of its own.      *)
PrintStmt(e)    == [node |-> "print", kids |-> <<e>>]
Ret(e)          == [node |-> "return", kids |-> <<e>>]
RetNothing      == [node |-> "return", kids |-> <<>>]
Block(stmts)    == [node |-> "statement_block", kids |-> stmts]
If(cond, st)    == [node |-> "if", kids |-> <<cond, Block(<<st>>)>>]
IfElse(cond, st, other) ==
  [node |-> "if", kids |-> <<cond, Block(<<st>>), Block(<<other>>)>>]
While(cond, st) == [node |-> "while", kids |-> <<cond, Block(<<st>>)>>]

-----------------------------------------------------------------------------
(* The node a constructor makes of a term, given its children's places.    *)
ExpressionNode(term, at) ==
  CASE term.node = "constant"  -> [node |-> "constant", value |-> term.value,
                                   type |-> IntType]
    [] term.node = "read"      -> [node |-> "read", type |-> IntType]
    [] term.node = "variable"  -> [node |-> "variable", name |-> term.name,
                                   type |-> term.type]
    [] term.node = "binary"    -> [node |-> "binary", op |-> term.op,
                                   left |-> at[1], right |-> at[2],
                                   type |-> NoType]
    [] term.node = "unary"     -> [node |-> "unary", op |-> term.op,
                                   expr |-> at[1], type |-> NoType]
    [] term.node = "subscript" -> [node |-> "subscript", name |-> term.name,
                                   expr |-> at[1], type |-> IntType]
    [] term.node = "call"      -> [node |-> "call", name |-> term.name,
                                   args |-> at, def |-> Null, type |-> NoType]
    [] term.node = "fn_to_ptr" -> [node |-> "fn_to_ptr",
                                   definition |-> at[1], type |-> NoType]
    [] term.node = "assignment" -> [node |-> "assignment", right |-> at[1],
                                    lefts |-> Tail(at), type |-> NoType]
    [] term.node = "value_block" -> [node |-> "value_block", stab |-> NoNames,
                                     stmts |-> at, returns |-> <<>>,
                                     type |-> NoType]
    [] term.node = "error_node" -> [node |-> "error_node", type |-> NoType]

StatementNode(term, at) ==
  CASE term.node = "print"  -> [node |-> "print", expr |-> at[1]]
    [] term.node = "return" -> [node |-> "return",
                                expr |-> IF at = <<>> THEN Null ELSE at[1]]
    [] term.node = "if"     -> [node |-> "if", cond |-> at[1],
                                true_block |-> at[2],
                                else_block |-> IF Len(at) = 3 THEN at[3]
                                                              ELSE Null]
    [] term.node = "while"  -> [node |-> "while", cond |-> at[1],
                                block |-> at[2]]
    [] term.node = "statement_block" ->
         [node |-> "statement_block", stab |-> NoNames, stmts |-> at,
          returns |-> <<>>]

(* A definition declares its parameters; of two with one name the first.   *)
DefinitionNode(term, at) ==
  LET params  == Tail(term.kids)
      Named(name) == {k \in DOMAIN params : params[k].name = name}
  IN  [node |-> "function_definition", name |-> term.name, body |-> at[1],
       params |-> Tail(at), return |-> NoType,
       stab |-> [name \in {params[k].name : k \in DOMAIN params} |->
                   at[1 + Min(Named(name))]]]

Node(term, at) ==
  CASE term.node = "function_definition" -> DefinitionNode(term, at)
    [] term.node \in Expressions \cup {"subscript", "error_node"}
                      -> ExpressionNode(term, at)
    [] OTHER -> StatementNode(term, at)

RECURSIVE Size(_)
Sizes(terms) == FoldSeq(+, 0, [k \in DOMAIN terms |-> Size(terms[k])])
Size(term)   == 1 + Sizes(term.kids)

(* The nodes of the term, to be put after so many others: its children's,  *)
(* then its own.  A child's own node is the last of its nodes.             *)
RECURSIVE Nodes(_, _)
Nodes(term, before) ==
  LET From(k) == before + Sizes(SubSeq(term.kids, 1, k - 1))
      at      == [k \in DOMAIN term.kids |-> From(k + 1)]
  IN  FlattenSeq([k \in DOMAIN term.kids |-> Nodes(term.kids[k], From(k))])
        \o <<Node(term, at)>>

(* The root is the block of all statements of the file.                    *)
Parse(stmts) == LET file == Block(stmts)
                IN  [ast |-> Nodes(file, 0), root |-> Size(file)]

(* A driver that has parsed nothing has no root.                           *)
NothingParsed == [ast |-> <<>>, root |-> Null]
=============================================================================
