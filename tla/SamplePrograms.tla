-------------------------- MODULE SamplePrograms --------------------------
(***************************************************************************)
(* Programs as the semantic analysis hands them over: tests of the         *)
(* repository, written as trees, the families of small programs the model  *)
(* checker enumerates, and programs the generator rejects or mistranslates.*)
(*                                                                         *)
(* A block assigns its variables before another one is inside it, and no   *)
(* two blocks share a name: the scopes of the analysis do not end, so that *)
(* otherwise a name would be found, or put, where it does not belong.      *)
(***************************************************************************)
EXTENDS Integers, Ast, FiniteSets

(* A branch or a loop body of one statement, in the block of the parser.   *)
Only(st) == Block({}, <<st>>)
Ret(e)   == ReturnStmt(<<e>>)
NoFunctions == [f \in {} |-> Function(<<>>, Only(ReadInput))]
Main(stab, stmts) == Program(<<Block(stab, stmts)>>, NoFunctions)

(* The body of a function is a value block, of the type it returns.        *)
Def(name, params, stab, stmts) ==
  [f \in {name} |-> Function(params, ValueBlock(stab, stmts, "int"))]
DefVoid(name, stmts) ==
  [f \in {name} |-> Function(<<>>, ValueBlock({}, stmts, "void"))]
With(fs, gs) == [f \in DOMAIN fs \cup DOMAIN gs |->
                   IF f \in DOMAIN fs THEN fs[f] ELSE gs[f]]

-----------------------------------------------------------------------------
(* test/basic/while.pcl: assignments as operands and as a printed value.   *)
WhileTest == Main({"n", "x", "y"},
  <<Assign(<<"n">>, Const(0)),
    While({}, Bin("!=", Assign(<<"x">>, ReadInput), Assign(<<"y">>, ReadInput)),
      Only(Block({},
        <<PrintStmt(Assign(<<"n">>, Bin("+", Var("n"), Const(1)))),
          PrintStmt(Var("x")), PrintStmt(Var("y"))>>)))>>)

(* test/blocks/block.pcl: a function called through a variable, a value    *)
(* block left early or at its end, a global read by the function.          *)
EarlyOrLate(stab) ==
  <<Assign(<<"y">>, Const(10)),
    If({}, Bin(">", Var("global"), Const(0)), Only(Ret(Var("y"))), <<>>),
    Ret(Bin("+", Var("x"), Var("y")))>>
BlockTest == Program(
  <<Block({"global", "foo", "x", "bar"},
     <<Assign(<<"global">>, ReadInput),
       Assign(<<"foo">>, FnPtr("foo_")),
       Assign(<<"bar", "x">>, Const(10)),
       Assign(<<"bar">>, ValueBlock({"y"}, EarlyOrLate({"y"}), "int")),
       PrintStmt(Call("foo", "none", <<Const(10)>>, "int")),
       PrintStmt(Var("bar"))>>)>>,
  Def("foo_", <<"x">>, {"y"}, EarlyOrLate({"y"})))

(* test/blocks/nested_and_chained_blocks.pcl: value blocks inside operands *)
(* of value blocks.                                                        *)
NestedBlocksTest == Main({"a"},
  <<Assign(<<"a">>, Const(0)),
    Assign(<<"a">>, Bin("+",
      ValueBlock({"x", "y"},
        <<Assign(<<"y", "x">>, Const(0)),
          Assign(<<"x">>, Bin("+", Const(1),
            ValueBlock({"c"}, <<Ret(Assign(<<"c">>, Const(2)))>>, "int"))),
          Ret(Assign(<<"y">>, Bin("+", Var("x"),
            ValueBlock({}, <<Ret(Bin("+",
              Bin("*", Const(1), ValueBlock({}, <<Ret(Const(4))>>, "int")),
              ValueBlock({}, <<Block({}, <<Ret(Const(5))>>)>>, "int")))>>,
              "int"))))>>, "int"),
      ValueBlock({}, <<Ret(Const(10))>>, "int"))),
    PrintStmt(Var("a"))>>)

(* test/functions: a function passed to a function, as in "transparent".   *)
TransparentTest == Program(
  <<Block({"increment"},
     <<FunDef("transparent"),
       Assign(<<"increment">>, FnPtr("increment_")),
       PrintStmt(Call("transparent", "transparent",
                      <<Const(2), Var("increment")>>, "int"))>>)>>,
  With(Def("transparent", <<"x", "op">>, {},
           <<Ret(Call("op", "none", <<Var("x")>>, "int"))>>),
       Def("increment_", <<"x">>, {}, <<Ret(Bin("+", Var("x"), Const(1)))>>)))

(* test/functions: a function returning from inside a block with locals,   *)
(* as in "gt5", called twice.                                              *)
EarlyReturnTest == Program(
  <<Block({},
     <<FunDef("gt5"),
       PrintStmt(Call("gt5", "gt5", <<Const(5)>>, "int")),
       PrintStmt(Call("gt5", "gt5", <<Const(6)>>, "int"))>>)>>,
  Def("gt5", <<"x">>, {"one"},
    <<Assign(<<"one">>, Const(1)),
      If({}, Bin("<=", Var("x"), Const(5)),
        Only(Block({"zero", "also_zero"},
          <<Assign(<<"also_zero", "zero">>, Const(0)),
            Ret(Bin("*", Var("zero"), Var("also_zero")))>>)), <<>>),
      Var("one"),
      Ret(Var("one"))>>))

(* test/functions: void functions calling each other, as in "buz".         *)
VoidTest == Program(
  <<Block({}, <<FunDef("foo"), FunDef("bar"),
                Call("bar", "bar", <<>>, "void"),
                Call("bar", "bar", <<>>, "void")>>)>>,
  With(DefVoid("foo", <<PrintStmt(Const(1))>>),
       DefVoid("bar", <<Call("foo", "foo", <<>>, "void"),
                        Call("foo", "foo", <<>>, "void")>>)))

(* examples/recursive.pcl: a recursive function, of two arguments here,    *)
(* that also counts its calls in a global.                                 *)
RecursiveTest == Program(
  <<Block({"calls"},
     <<Assign(<<"calls">>, Const(0)),
       FunDef("fib"),
       PrintStmt(Call("fib", "fib", <<Const(3), Const(1)>>, "int")),
       PrintStmt(Var("calls"))>>)>>,
  Def("fib", <<"n", "step">>, {},
    <<Assign(<<"calls">>, Bin("+", Var("calls"), Const(1))),
      If({}, Bin("<", Var("n"), Const(2)), Only(Ret(Var("n"))), <<>>),
      Assign(<<"n">>, Bin("-", Var("n"), Var("step"))),
      Ret(Bin("+", Call("fib", "fib", <<Var("n"), Var("step")>>, "int"),
                   Call("fib", "fib",
                        <<Bin("-", Var("n"), Const(1)), Var("step")>>, "int")))>>))

(* An if with both branches in a loop, unused values, and the unary        *)
(* operators.                                                              *)
MixedTest == Main({"i", "s"},
  <<Assign(<<"s", "i">>, Const(3)),
    While({}, Var("i"),
      Only(Block({"t"},
        <<Assign(<<"t">>, Un("-", Var("i"))),
          If({}, Bin("&&", Var("s"), Un("!", Bin("==", Var("i"), Const(2)))),
             Only(Assign(<<"s">>, Bin("+", Var("s"), Un("+", Var("t"))))),
             <<Only(PrintStmt(Var("t")))>>),
          ValueBlock({"u"}, <<Ret(Assign(<<"u">>, Var("i")))>>, "int"),
          Var("t"),
          Assign(<<"i">>, Bin("-", Var("i"), Const(1)))>>))),
    PrintStmt(Var("s"))>>)

(* A source file with nothing in it, and one that is not parsed at all:    *)
(* there is no root block then.                                            *)
EmptyTest   == Main({}, <<>>)
NothingTest == Program(<<>>, NoFunctions)

Tests == {WhileTest, BlockTest, NestedBlocksTest, TransparentTest,
          EarlyReturnTest, VoidTest, RecursiveTest, MixedTest, EmptyTest,
          NothingTest}

-----------------------------------------------------------------------------
(* Small programs: two statements over two variables of the main block,    *)
(* then a print of both.  The variables are assigned before the function   *)
(* is defined, so that they are globals in it.                             *)
SmallExprs(c) ==
  <<Const(0), Var("a"), ReadInput, Un("!", Var("b")),
    Bin("-", Var("a"), Const(1)),
    Bin("+", Assign(<<"b">>, Const(2)), Var("b")),
    ValueBlock({c}, <<Assign(<<c>>, Var("b")), Ret(Var(c))>>, "int"),
    Call("f", "f", <<Var("a"), Bin("+", Assign(<<"b">>, ReadInput), Const(0))>>,
         "int")>>

SmallStmts(c, d, e) ==
  LET First == SmallExprs(c)  Second == SmallExprs(d)  Kinds == DOMAIN First
  IN  {Assign(<<"a">>, First[k]) : k \in Kinds}
        \cup {First[k] : k \in {i \in Kinds : First[i].node \in
                                        {"binary", "value_block", "call"}}}
        \cup {If({}, First[k], Only(Assign(<<"a", "b">>, Const(1))), <<>>) :
                 k \in Kinds}
        \cup {If({}, Var("a"),
                 Only(Block({e}, <<Assign(<<e>>, Var("a")),
                                   Assign(<<e>>, First[k])>>)),
                 <<Only(PrintStmt(Second[k]))>>) : k \in Kinds}

(* The function the small programs call: it stores to a global and to a    *)
(* parameter, and returns from a value block's value.                      *)
SmallFunction ==
  Def("f", <<"x", "y">>, {},
    <<Assign(<<"x">>, Bin("+", Var("x"), Var("y"))),
      Assign(<<"a">>, Var("x")),
      Ret(ValueBlock({}, <<Ret(Bin("+", Var("x"), Const(1)))>>, "int"))>>)

SmallPrograms ==
  {Program(<<Block({"a", "b"},
      <<Assign(<<"b", "a">>, Const(0)), FunDef("f"), s, t,
        PrintStmt(Var("a")), PrintStmt(Var("b"))>>)>>,
      SmallFunction) : s \in SmallStmts("c", "d", "e"),
                       t \in SmallStmts("u", "v", "w")}

(* Fewer of them, for whole compilations and runs: one statement, then     *)
(* nothing or a loop around an early end of a value block, then the prints.*)
EarlyEnd ==
  While({}, Bin("<", Var("b"), Const(2)),
    Only(Block({"u"},
      <<Assign(<<"u">>, Const(0)),
        Assign(<<"u">>, ValueBlock({"v"},
          <<Assign(<<"v">>, Bin("+", Var("b"), Const(1))),
            If({}, Var("a"), Only(Block({}, <<Ret(Var("v"))>>)), <<>>),
            Ret(Bin("+", Var("v"), Const(1)))>>, "int")),
        Assign(<<"b">>, Var("u"))>>)))

FewPrograms ==
  {Program(<<Block({"a", "b"},
      <<Assign(<<"b", "a">>, ReadInput), FunDef("f"), s>> \o rest \o
      <<PrintStmt(Var("a")), PrintStmt(Var("b"))>>)>>,
      SmallFunction) : s \in SmallStmts("c", "d", "e"),
                       rest \in {<<>>, <<EarlyEnd>>}}

-----------------------------------------------------------------------------
(* Assignments whose right side is an assignment in parentheses: the       *)
(* language allows it (README.md:28), the flag of the outer statement is   *)
(* still up when the inner one is visited.                                 *)
Nested == Assign(<<"a">>, Assign(<<"b">>, Const(3)))
NestedInBlock  == Main({"a", "b"},
  <<Assign(<<"b", "a">>, Const(0)), Block({}, <<Nested>>)>>)
NestedTwice    == Main({"a"}, <<Assign(<<"a">>, Assign(<<"a">>,
                                 Assign(<<"a">>, Const(3))))>>)
NestedInCall   == Program(
  <<Block({"a", "b"}, <<FunDef("f"),
      Assign(<<"a">>, Call("f", "f", <<Assign(<<"b">>, Const(3))>>, "int")),
      PrintStmt(Var("a"))>>)>>,
  Def("f", <<"x">>, {}, <<Ret(Var("x"))>>))
NestedInValue  == Main({"a", "b"},
  <<Assign(<<"b", "a">>, Const(0)),
    PrintStmt(ValueBlock({}, <<Nested, Ret(Const(1))>>, "int"))>>)
NestedPrograms == {NestedInBlock, NestedTwice, NestedInCall, NestedInValue}

(* Programs the analysis lets pass and on which generate_all ends at each  *)
(* of its asserts and throws: an indexed variable, read and assigned, a    *)
(* call before the definition (its type is not known yet), a call of a     *)
(* function variable that is global, the use of a name whose block has     *)
(* ended on a frame that is empty, a parameter named twice, and three of   *)
(* the nested assignments.  Not all programs of these kinds end so: a      *)
(* nested assignment, or a name whose block has ended, gets a chunk where  *)
(* the frame holds enough (NestedInCall, and test/blocks/nested_blocks).   *)
Rejected ==
  { NestedInBlock, NestedTwice, NestedInValue,
    Main({"a"}, <<Assign(<<"a">>, Const(0)),
                  PrintStmt(Subscript("a", Const(0)))>>),
    Main({"a", "b"}, <<Assign(<<"a">>, Const(0)),
                       Assignment(<<Var("b"), Subscript("a", Const(0))>>,
                                  ReadInput)>>),
    Program(<<Block({}, <<FunDef("f")>>)>>,
            Def("f", <<"x", "x">>, {}, <<Ret(Var("x"))>>)),
    Program(<<Block({}, <<Call("f", "none", <<>>, "null"), FunDef("f")>>)>>,
            DefVoid("f", <<PrintStmt(Const(1))>>)),
    Program(<<Block({"p"}, <<Assign(<<"p">>, FnPtr("h")), FunDef("g"),
                            PrintStmt(Call("g", "g", <<>>, "int"))>>)>>,
            With(Def("g", <<>>, {}, <<Ret(Call("p", "none", <<>>, "int"))>>),
                 Def("h", <<>>, {}, <<Ret(Const(1))>>))),
    Main({}, <<Block({"a"}, <<Assign(<<"a">>, Const(1))>>),
               PrintStmt(Var("a"))>>) }

-----------------------------------------------------------------------------
(* The nodes of the trees of some programs.                                *)
Listed(list) == {list[k] : k \in DOMAIN list}
Children(ref) ==
  CASE ref.node \in {"print", "unary", "subscript"} -> <<ref.expr>>
    [] ref.node = "return"     -> ref.expr
    [] ref.node = "binary"     -> <<ref.left, ref.right>>
    [] ref.node = "assignment" -> Append(ref.lefts, ref.right)
    [] ref.node = "call"       -> ref.args
    [] ref.node = "if"         -> <<ref.cond, ref.true_block>> \o ref.else_block
    [] ref.node = "while"      -> <<ref.cond, ref.block>>
    [] ref.node \in {"value_block", "statement_block"} -> ref.stmts
    [] OTHER                   -> <<>>

RECURSIVE Within(_)
Within(ref) ==
  {ref} \cup UNION {Within(child) : child \in Listed(Children(ref))}

NodesOf(programs) ==
  UNION {UNION {Within(ref) : ref \in Listed(prog.main) \cup
                  {prog.functions[f].body : f \in DOMAIN prog.functions}} :
         prog \in programs}
=============================================================================
