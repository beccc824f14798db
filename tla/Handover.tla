------------------------------ MODULE Handover ------------------------------
(***************************************************************************)
(* What passes between the front end and the generator, both ways: the     *)
(* tree of nodes the analysis leaves, read as the records of Ast, and the  *)
(* source such a record was written as, with what the analysis adds taken  *)
(* off again.                                                              *)
(***************************************************************************)
EXTENDS Ast, Tree, SequencesExt

Y == INSTANCE Syntax

(* The generator tells types apart no further than this.                   *)
KindOf(type) == CASE type = NoType   -> "null"
                  [] type = VoidType -> "void"
                  [] IsFunc(type)    -> "func"
                  [] OTHER           -> "int"

RECURSIVE ReadNode(_, _)
ReadAll(ast, ns) == [k \in DOMAIN ns |-> ReadNode(ast, ns[k])]
ReadExpr(ast, ref) ==
  CASE ref.node = "constant"   -> Const(ref.value)
    [] ref.node = "read"       -> ReadInput
    [] ref.node = "variable"   -> Var(ref.name)
    [] ref.node = "binary"     -> Bin(ref.op, ReadNode(ast, ref.left),
                                              ReadNode(ast, ref.right))
    [] ref.node = "unary"      -> Un(ref.op, ReadNode(ast, ref.expr))
    [] ref.node = "fn_to_ptr"  -> FnPtr(ast[ref.definition].name)
    [] ref.node = "subscript"  -> Subscript(ref.name, ReadNode(ast, ref.expr))
    [] ref.node = "assignment" -> Assignment(ReadAll(ast, ref.lefts),
                                             ReadNode(ast, ref.right))
    [] ref.node = "call"       -> Call(ref.name,
                                       IF ref.def = Null THEN "none"
                                                   ELSE ast[ref.def].name,
                                       ReadAll(ast, ref.args), KindOf(ref.type))
    [] ref.node = "value_block" -> ValueBlock(DOMAIN ref.stab,
                                              ReadAll(ast, ref.stmts),
                                              KindOf(ref.type))
ReadStmt(ast, ref) ==
  CASE ref.node = "print"  -> PrintStmt(ReadNode(ast, ref.expr))
    [] ref.node = "return" -> ReturnStmt(IF ref.expr = Null THEN <<>>
                                         ELSE <<ReadNode(ast, ref.expr)>>)
    [] ref.node = "function_definition" -> FunDef(ref.name)
    [] ref.node = "statement_block" -> Block(DOMAIN ref.stab,
                                             ReadAll(ast, ref.stmts))
    [] ref.node = "if"     -> If({}, ReadNode(ast, ref.cond),
                                 ReadNode(ast, ref.true_block),
                                 IF ref.else_block = Null THEN <<>>
                                 ELSE <<ReadNode(ast, ref.else_block)>>)
    [] ref.node = "while"  -> While({}, ReadNode(ast, ref.cond),
                                    ReadNode(ast, ref.block))
ReadNode(ast, n) ==
  IF ast[n].node \in ExpressionNodes THEN ReadExpr(ast, ast[n])
                                     ELSE ReadStmt(ast, ast[n])

(* What generate_all is given: the root, and the table of functions.       *)
HandedOver(ast, root, functions) ==
  Program(IF root = Null THEN <<>> ELSE <<ReadNode(ast, root)>>,
          [f \in DOMAIN functions |->
             LET def == ast[functions[f].definition]
             IN  Function([k \in DOMAIN def.params |-> ast[def.params[k]].name],
                          ReadNode(ast, def.body))])

-----------------------------------------------------------------------------
RECURSIVE SourceOf(_, _)
SourcesOf(prog, nodes) == [k \in DOMAIN nodes |-> SourceOf(prog, nodes[k])]
Params(prog, f) == [k \in DOMAIN prog.functions[f].params |->
                      Y!Var(prog.functions[f].params[k])]
BodyOf(prog, f) == SourcesOf(prog, prog.functions[f].body.stmts)

SourceOf(prog, e) ==
  CASE e.node = "constant"    -> Y!Const(e.value)
    [] e.node = "read"        -> Y!ReadInput
    [] e.node = "variable"    -> Y!Var(e.name)
    [] e.node = "binary"      -> Y!Bin(e.op, SourceOf(prog, e.left),
                                             SourceOf(prog, e.right))
    [] e.node = "unary"       -> Y!Un(e.op, SourceOf(prog, e.expr))
    [] e.node = "subscript"   -> Y!Subscript(e.name, SourceOf(prog, e.expr))
    [] e.node = "assignment"  ->
         Y!Assign(Reverse(SourcesOf(prog, e.lefts)), SourceOf(prog, e.right))
    [] e.node = "call"        -> Y!Call(e.name, SourcesOf(prog, e.args))
    [] e.node = "value_block" -> Y!ValueBlock(SourcesOf(prog, e.stmts))
    [] e.node = "fn_to_ptr"   -> Y!FuncValue(e.definition,
                                             Params(prog, e.definition),
                                             BodyOf(prog, e.definition))
    [] e.node = "print"       -> Y!PrintStmt(SourceOf(prog, e.expr))
    [] e.node = "return"      -> IF e.expr = <<>> THEN Y!RetNothing
                                 ELSE Y!Ret(SourceOf(prog, Head(e.expr)))
    [] e.node = "function_definition" ->
         Y!Func(e.definition, Params(prog, e.definition),
                BodyOf(prog, e.definition))
    [] e.node = "statement_block" -> Y!Block(SourcesOf(prog, e.stmts))
    [] e.node = "if"          ->
         IF e.else_block = <<>>
           THEN Y!If(SourceOf(prog, e.cond),
                     SourceOf(prog, Head(e.true_block.stmts)))
         ELSE Y!IfElse(SourceOf(prog, e.cond),
                       SourceOf(prog, Head(e.true_block.stmts)),
                       SourceOf(prog, Head(Head(e.else_block).stmts)))
    [] e.node = "while"       -> Y!While(SourceOf(prog, e.cond),
                                         SourceOf(prog, Head(e.block.stmts)))

(* The tree a program is analysed from.                                    *)
ParsedFrom(prog) ==
  IF prog.main = <<>> THEN Y!NothingParsed
                      ELSE Y!Parse(SourcesOf(prog, Head(prog.main).stmts))
=============================================================================
