------------------------- MODULE RepositoryTests -------------------------
(***************************************************************************)
(* Tests of the repository, as the parser reads them, with the numbers     *)
(* their .in file has to read and the lines of their .ans file.            *)
(***************************************************************************)
EXTENDS Integers, Syntax

Given(numbers) == [k \in DOMAIN numbers |-> [ok |-> TRUE, val |-> numbers[k]]]

Test(stmts, input, answer) ==
  [stmts |-> stmts, input |-> input, answer |-> answer]

(* test/basic/if.pcl                                                       *)
IfTest == Test(
  <<IfElse(Bin("<", Const(5), Const(0)), Block(<<PrintStmt(Const(0))>>),
           Block(<<PrintStmt(Const(1))>>)),
    IfElse(Bin(">=", Const(0), Const(0)), Block(<<PrintStmt(Const(0))>>),
           Block(<<PrintStmt(Const(1))>>))>>,
  Given(<<>>), <<1, 0>>)

(* test/basic/assignments.pcl                                              *)
AssignmentsTest == Test(
  <<Assign(<<Var("x"), Var("y")>>, Const(5)), PrintStmt(Set("z", Var("y"))),
    PrintStmt(Set("z", Bin("+", Bin("*", Var("y"), Const(2)), Var("x")))),
    PrintStmt(Var("z")), Set("z", Const(8)), PrintStmt(Var("z")),
    Set("z", Bin("+", Set("x", Const(2)), Set("y", Const(3)))),
    PrintStmt(Var("x")), PrintStmt(Var("y")), PrintStmt(Var("z"))>>,
  Given(<<>>), <<5, 15, 15, 8, 2, 3, 5>>)

(* test/basic/abs.pcl                                                      *)
AbsTest == Test(
  <<While(Bin("!=", Set("x", ReadInput), Const(0)),
          Block(
            <<IfElse(Bin(">", Set("y", ReadInput), Const(0)),
                     Block(<<PrintStmt(Var("y"))>>),
                     Block(<<PrintStmt(Un("-", Var("y")))>>))>>))>>,
  Given(<<1, 5, 1, -10, 1, 20, 1, -45, 0>>), <<5, 10, 20, 45>>)

(* test/basic/while.pcl                                                    *)
WhileTest == Test(
  <<Set("n", Const(0)),
    While(Bin("!=", Set("x", ReadInput), Set("y", ReadInput)),
          Block(
            <<PrintStmt(Set("n", Bin("+", Var("n"), Const(1)))),
              PrintStmt(Var("x")), PrintStmt(Var("y"))>>))>>,
  Given(<<1, 0, 0, 1, -5, -3, 8, 9, 9, 9>>),
  <<1, 1, 0, 2, 0, 1, 3, -5, -3, 4, 8, 9>>)

(* test/blocks/block.pcl                                                   *)
BlockTest == Test(
  <<Set("global", ReadInput),
    Set("foo",
        FuncValue("", <<Var("x")>>,
          <<Set("y", Const(10)),
            If(Bin(">", Var("global"), Const(0)), Ret(Var("y"))),
            Bin("+", Var("x"), Var("y"))>>)),
    Set("x", Const(10)),
    Set("bar",
        ValueBlock(
          <<Set("y", Const(10)),
            If(Bin(">", Var("global"), Const(0)), Ret(Var("y"))),
            Bin("+", Var("x"), Var("y"))>>)),
    PrintStmt(Call("foo", <<Const(10)>>)), PrintStmt(Var("bar"))>>,
  Given(<<-1>>), <<20, 20>>)

(* test/blocks/block_with_return_and_side_effect.pcl                       *)
SideEffectTest == Test(
  <<Set("a", Const(5)), Set("b", Const(4)),
    Set("a", ValueBlock(<<PrintStmt(Var("a")), Ret(Const(3))>>)),
    PrintStmt(Var("a"))>>,
  Given(<<>>), <<5, 3>>)

(* test/blocks/cond_block.pcl                                              *)
CondBlockTest == Test(
  <<Set("i", Const(2)),
    While(Bin(">", Var("i"), Const(0)),
          Block(
            <<Set("a",
                  ValueBlock(
                    <<IfElse(Bin("==", ReadInput, Const(1)),
                             Block(<<Ret(Const(5))>>),
                             Block(<<Ret(Const(1))>>))>>)),
              PrintStmt(Var("a")),
              Set("i", Bin("-", Var("i"), Const(1)))>>))>>,
  Given(<<6, 1>>), <<1, 5>>)

(* test/blocks/conditional_return.pcl                                      *)
ConditionalReturnTest == Test(
  <<Set("foo",
        FuncValue("", <<Var("x")>>,
          <<Set("b",
                ValueBlock(
                  <<IfElse(Bin("==", Var("x"), Const(1)),
                           Block(<<Ret(Const(5))>>),
                           Block(<<Ret(Const(1))>>))>>))>>)),
    Set("i", Const(0)),
    While(Bin("<", Var("i"), Const(5)),
          Block(
            <<PrintStmt(Call("foo", <<ReadInput>>)),
              Set("i", Bin("+", Var("i"), Const(1)))>>))>>,
  Given(<<1, 2, 5, -1, 1>>), <<5, 1, 1, 1, 5>>)

(* test/blocks/explicit_return.pcl                                         *)
ExplicitReturnTest == Test(
  <<Set("a",
        ValueBlock(
          <<Set("a", ReadInput),
            If(Bin("<=", Var("a"), Const(5)), Ret(Const(0))), Const(1)>>)),
    PrintStmt(Var("a")), Const(1)>>,
  Given(<<6>>), <<1>>)

(* test/blocks/nested_and_chained_blocks.pcl                               *)
ChainedBlocksTest == Test(
  <<Set("a",
        Bin("+",
            ValueBlock(
              <<Set("x",
                    Bin("+", Const(1),
                        ValueBlock(<<Ret(Set("c", Const(2)))>>))),
                Set("y",
                    Bin("+", Var("x"),
                        ValueBlock(
                          <<Bin("+",
                                Bin("*", Const(1), ValueBlock(<<Const(4)>>)),
                                ValueBlock(
                                  <<ValueBlock(<<Ret(Const(5))>>)>>))>>)))>>),
            ValueBlock(<<Const(10)>>))),
    PrintStmt(Var("a"))>>,
  Given(<<>>), <<22>>)

(* test/blocks/nested_block_returns.pcl                                    *)
NestedReturnsTest == Test(
  <<Set("a", Const(5)), PrintStmt(Bin("*", Var("a"), Const(2))),
    Set("a",
        ValueBlock(
          <<Set("b", Var("a")),
            Set("c",
                ValueBlock(
                  <<Set("d", Bin("*", Const(3), Var("b"))),
                    ValueBlock(<<Ret(Var("d"))>>)>>)),
            Var("c")>>)),
    PrintStmt(Var("a"))>>,
  Given(<<>>), <<10, 15>>)

(* test/blocks/unused_block_return_value.pcl                               *)
UnusedValueTest == Test(
  <<Set("a", ValueBlock(<<ValueBlock(<<Set("a", Const(1))>>), Const(2)>>)),
    PrintStmt(Var("a"))>>,
  Given(<<>>), <<2>>)

(* test/functions/arg_call.pcl                                             *)
ArgCallTest == Test(
  <<Set("a", FuncValue("foo", <<>>, <<Ret(Const(1))>>)),
    Func("bar", <<Typed(FuncType(IntType, <<>>), "b")>>,
         <<Ret(Call("b", <<>>))>>),
    PrintStmt(Call("bar", <<Var("a")>>)), Const(1)>>,
  Given(<<>>), <<1>>)

(* test/functions/args_of_different_types.pcl                              *)
ArgsTest == Test(
  <<Func("transparent",
         <<Var("x"), Typed(FuncType(IntType, <<IntType>>), "op")>>,
         <<Ret(Call("op", <<Var("x")>>))>>),
    Set("increment",
        FuncValue("", <<Var("x")>>, <<Ret(Bin("+", Var("x"), Const(1)))>>)),
    PrintStmt(Call("transparent", <<Const(2), Var("increment")>>))>>,
  Given(<<>>), <<3>>)

(* test/functions/call_in_sum.pcl                                          *)
CallInSumTest == Test(
  <<Func("foo", <<>>, <<Ret(Const(1))>>), Func("bar", <<>>, <<Ret(Const(2))>>),
    Func("buz", <<Var("a")>>,
         <<Set("a", Bin("+", Call("foo", <<>>), Call("bar", <<>>))),
           Ret(Var("a"))>>),
    Func("biz", <<>>,
         <<Ret(Set("a", Bin("+", Call("foo", <<>>), Call("bar", <<>>))))>>),
    Set("a", Const(5)), PrintStmt(Call("buz", <<Var("a")>>)),
    PrintStmt(Call("biz", <<>>))>>,
  Given(<<>>), <<3, 3>>)

(* test/functions/fact_recursive.pcl                                       *)
FactRecursiveTest == Test(
  <<Set("fact",
        FuncValue("factorial", <<Var("x")>>,
          <<If(Bin("==", Var("x"), Const(1)), Ret(Const(1))),
            Set("b", Const(1)),
            Set("b",
                Bin("*", Var("x"),
                    Call("factorial", <<Bin("-", Var("x"), Const(1))>>))),
            Ret(Var("b"))>>)),
    PrintStmt(Call("fact", <<ReadInput>>))>>,
  Given(<<5>>), <<120>>)

(* test/functions/nested.pcl                                               *)
NestedFunctionsTest == Test(
  <<Set("a",
        FuncValue("first", <<>>,
          <<Set("b", FuncValue("second1", <<>>, <<Ret(Const(1))>>)),
            PrintStmt(Const(2)), Ret(Call("b", <<>>))>>)),
    Func("third", <<>>,
         <<Assign(<<Typed(IntType, "res")>>, Call("first", <<>>)),
           Ret(Var("res"))>>),
    PrintStmt(Call("third", <<>>))>>,
  Given(<<>>), <<2, 1>>)

(* test/functions/return_assignment.pcl                                    *)
ReturnAssignmentTest == Test(
  <<Func("foo", <<Var("x")>>, <<Set("b", Var("x"))>>), Set("i", Const(2)),
    While(Bin(">", Var("i"), Const(0)),
          Block(
            <<PrintStmt(Call("foo", <<ReadInput>>)),
              Set("i", Bin("-", Var("i"), Const(1)))>>))>>,
  Given(<<4, 5>>), <<4, 5>>)

(* test/functions/return_block_as_an_arg.pcl                               *)
BlockArgumentTest == Test(
  <<Set("a", Const(3)),
    Set("b", FuncValue("bar", <<Var("x"), Var("y")>>, <<Ret(Const(5))>>)),
    Call("bar", <<Var("a"), Call("b", <<Var("a"), Const(4)>>)>>),
    PrintStmt(
      Call("bar",
           <<ValueBlock(
               <<Set("a", Bin("+", Var("a"), Const(3))),
                 Bin("+", Var("a"), Const(4))>>),
             ValueBlock(<<Ret(Const(6))>>)>>))>>,
  Given(<<>>), <<5>>)

(* test/functions/void_function_composition.pcl                            *)
CompositionTest == Test(
  <<Func("myprint", <<Var("x")>>, <<PrintStmt(Var("x"))>>),
    Set("b",
        FuncValue("print_if_gt_5", <<Var("n")>>,
          <<IfElse(Bin(">", Var("n"), Const(5)), Call("myprint", <<Var("n")>>),
                   Call("myprint", <<Const(0)>>))>>)),
    Call("b", <<Const(6)>>), Call("b", <<Const(3)>>)>>,
  Given(<<>>), <<6, 0>>)

(* test/functions/empty.pcl                                                *)
EmptyTest == Test(
  <<>>,
  Given(<<>>), <<>>)

(* test/globals/1.pcl                                                      *)
GlobalsTest == Test(
  <<Set("a", Const(0)), Set("b", Const(0)), Set("c", Const(0)),
    Func("test", <<>>,
         <<Set("b", Const(2)), Set("c", Const(3)), Set("d", Const(4)),
           Set("a", Const(1))>>),
    Set("d", Const(0)), Set("res", Call("test", <<>>)), PrintStmt(Var("a")),
    PrintStmt(Var("res")), PrintStmt(Var("b")), PrintStmt(Var("c")),
    PrintStmt(Var("d"))>>,
  Given(<<>>), <<1, 1, 2, 3, 0>>)

(* test/external/1.pcl                                                     *)
External1Test == Test(
  <<Set("x", Const(0)),
    If(Bin("==", Var("x"), Const(0)),
       Block(<<PrintStmt(Bin("+", Var("x"), Const(100)))>>)),
    PrintStmt(Var("x"))>>,
  Given(<<>>), <<100, 0>>)

(* test/external/2.pcl                                                     *)
DivisorsTest == Test(
  <<Set("a", ReadInput), Set("mod", Const(0)), Set("i", Const(1)),
    Set("k", Const(0)),
    While(Bin("<=", Var("i"), Var("a")),
          Block(
            <<Set("k", Bin("/", Var("a"), Var("i"))),
              Set("mod", Bin("-", Var("a"), Bin("*", Var("k"), Var("i")))),
              If(Bin("==", Var("mod"), Const(0)), Block(<<PrintStmt(Var("i"))>>)),
              Set("i", Bin("+", Var("i"), Const(1)))>>))>>,
  Given(<<100>>), <<1, 2, 4, 5, 10, 20, 25, 50, 100>>)

(* test/external/3.pcl                                                     *)
External3Test == Test(
  <<Set("temp", Const(5)), Set("temp", Const(0)),
    If(Bin("+", Var("temp"), Bin("/", Const(5), ReadInput)),
       Block(<<PrintStmt(Const(1000))>>)),
    PrintStmt(Const(100))>>,
  Given(<<1>>), <<1000, 100>>)

(* test/external/4.pcl                                                     *)
External4Test == Test(
  <<Set("x", Const(3)), Set("x", ReadInput), PrintStmt(Var("x")),
    PrintStmt(Bin("*", Var("x"), ReadInput))>>,
  Given(<<700, 800>>), <<700, 560000>>)

(* test/external/5.pcl                                                     *)
CountdownTest == Test(
  <<Set("i", Const(10)),
    While(Bin("!=", Var("i"), Const(0)),
          Block(<<PrintStmt(Var("i")), Set("i", Bin("-", Var("i"), Const(1)))>>))>>,
  Given(<<>>), <<10, 9, 8, 7, 6, 5, 4, 3, 2, 1>>)

(* test/external/6.pcl                                                     *)
External6Test == Test(
  <<Set("a", ReadInput), Set("f1", Const(0)), Set("f2", Const(1)),
    Set("c", Const(0)), Set("i", Const(0)),
    While(Bin("<", Var("c"), Var("a")),
          Block(
            <<Set("i", Bin("+", Var("i"), Const(1))), Set("c", Var("f2")),
              Set("f2", Bin("+", Var("f1"), Var("f2"))),
              Set("f1", Var("c"))>>)),
    If(Bin("==", Var("c"), Var("a")), Block(<<PrintStmt(Var("i"))>>)),
    If(Bin("!=", Var("c"), Var("a")), Block(<<PrintStmt(Const(0))>>))>>,
  Given(<<34>>), <<9>>)

(* test/basic/fact.pcl                                                     *)
LoopFactTest == Test(
  <<Set("n", ReadInput), Set("fact", Const(1)), Set("i", Const(1)),
    While(Bin("<=", Var("i"), Var("n")),
          Block(<<Set("fact", Bin("*", Var("fact"), Var("i"))),
                  Set("i", Bin("+", Var("i"), Const(1)))>>)),
    PrintStmt(Var("fact"))>>,
  Given(<<11>>), <<39916800>>)

(* test/basic/fib.pcl                                                      *)
FibTest == Test(
  <<Set("i", ReadInput),
    While(Bin(">", Var("i"), Const(0)),
      Block(
        <<Set("num", ReadInput),
          If(Bin("==", Var("num"), Const(0)), PrintStmt(Const(0))),
          If(Bin("||", Bin("==", Var("num"), Const(1)),
                       Bin("==", Var("num"), Const(2))), PrintStmt(Const(1))),
          If(Bin(">", Var("num"), Const(2)),
             Block(
               <<Set("firstTmp", Const(1)), Set("secondTmp", Const(1)),
                 Set("res", Const(3)),
                 While(Bin(">", Var("num"), Const(2)),
                   Block(
                     <<Set("res", Bin("+", Var("firstTmp"), Var("secondTmp"))),
                       Set("firstTmp", Var("secondTmp")),
                       Set("secondTmp", Var("res")),
                       Set("num", Bin("-", Var("num"), Const(1)))>>)),
                 PrintStmt(Var("res"))>>)),
          Set("i", Bin("-", Var("i"), Const(1)))>>))>>,
  Given(<<6, 1, 5, 0, 3, 15, 18>>), <<1, 5, 0, 2, 610, 2584>>)

(* test/blocks/emptyexpr.pcl                                               *)
UnusedExpressionTest == Test(
  <<Set("a", Const(5)), Bin("*", Var("a"), Var("a")),
    While(Bin("!=", Var("a"), Const(5)), Block(<<>>)),
    PrintStmt(Bin("*", Var("a"), Const(2)))>>,
  Given(<<>>), <<10>>)

AnsweredTests ==
  {IfTest, AssignmentsTest, AbsTest, WhileTest, BlockTest, SideEffectTest,
   CondBlockTest, ConditionalReturnTest, ExplicitReturnTest,
   ChainedBlocksTest, NestedReturnsTest, UnusedValueTest, ArgCallTest,
   ArgsTest, CallInSumTest, FactRecursiveTest,
   NestedFunctionsTest, ReturnAssignmentTest, BlockArgumentTest,
   CompositionTest, EmptyTest, GlobalsTest, External1Test,
   External3Test, External4Test, CountdownTest, External6Test,
   LoopFactTest, FibTest, UnusedExpressionTest}

-----------------------------------------------------------------------------
(* Tests of arrays, which the bytecode generator has nothing for.          *)
(* test/array/subscript.pcl                                                *)
SubscriptTest == Test(
  <<Block(<<Assign(<<Typed(ArrayOf(IntType, 2), "arr")>>, Const(0)),
            PrintStmt(Subscript("arr", Const(1))),
            Assign(<<Subscript("arr", Const(1))>>, Const(2)),
            PrintStmt(Subscript("arr", Const(1))),
            PrintStmt(Subscript("arr", Const(0)))>>)>>,
  Given(<<>>), <<0, 2, 0>>)

(* test/array/subscript-var.pcl                                            *)
SubscriptVarTest == Test(
  <<Block(<<Assign(<<Typed(ArrayOf(IntType, 5), "arr")>>, Const(0)),
            Assign(<<Subscript("arr", Const(1))>>, Const(1)),
            Set("b", Bin("/", Bin("+", Subscript("arr", Const(1)),
                                       Subscript("arr", Const(1))), Const(2))),
            PrintStmt(Subscript("arr", Var("b")))>>)>>,
  Given(<<>>), <<1>>)

ArrayTests == {SubscriptTest, SubscriptVarTest}

-----------------------------------------------------------------------------
(* Tests whose answer the program does not give.                           *)
(* test/blocks/nested_blocks.pcl                                           *)
NestedBlocksTest == Test(
  <<Set("a", ValueBlock(<<ValueBlock(<<ValueBlock(<<Const(5)>>)>>)>>)),
    Set("b", ValueBlock(<<ValueBlock(<<Ret(Const(1))>>)>>)),
    PrintStmt(Var("a")), PrintStmt(Var("b"))>>,
  Given(<<>>), <<5, 1>>)

(* test/functions/fact.pcl                                                 *)
FactTest == Test(
  <<Func("fact", <<Typed(IntType, "x")>>,
         <<Assign(<<Typed(IntType, "res")>>, Const(1)),
           While(Bin(">", Var("x"), Const(0)),
                 Block(
                   <<Set("res", Bin("*", Var("res"), Var("x"))),
                     Set("x", Bin("-", Var("x"), Const(1)))>>)),
           Ret(Var("res"))>>),
    PrintStmt(Call("fact", <<ReadInput>>))>>,
  Given(<<5>>), <<120>>)

-----------------------------------------------------------------------------
(* The files of test/errors, which pclc is to refuse, but for two with     *)
(* characters the scanner does not know.                                   *)
(* test/errors/ambiguous_call.pcl                                          *)
AmbiguousCallError ==
  <<Set("foo", FuncValue("foo", <<>>, <<PrintStmt(Const(1))>>)),
    Call("foo", <<>>)>>

(* test/errors/call_in_sum.pcl                                             *)
CallCountError ==
  <<Func("foo", <<>>, <<Ret(Const(1))>>), Func("bar", <<>>, <<Ret(Const(2))>>),
    Func("buz", <<Var("a")>>,
         <<Set("a",
               Bin("+", Call("foo", <<Var("a")>>),
                   Call("bar", <<Const(5), Const(9)>>))),
           Ret(Var("a"))>>),
    Func("biz", <<>>,
         <<Set("foo", FuncValue("", <<>>, <<Ret(Const(3))>>)),
           Ret(Call("foo", <<>>))>>)>>

(* test/errors/call_of_int.pcl                                             *)
CallOfIntError ==
  <<Set("a", Const(3)), PrintStmt(Call("a", <<>>))>>

(* test/errors/func_add.pcl                                                *)
FuncAddError ==
  <<Set("foo", FuncValue("", <<>>, <<Ret(Const(1))>>)),
    Set("a", Bin("+", Var("foo"), Bin("/", Const(5), Const(1)))),
    PrintStmt(Call("a", <<>>))>>

(* test/errors/mismatch_call.pcl                                           *)
MismatchCallError ==
  <<Set("a", FuncValue("", <<>>, <<PrintStmt(Var("a")), Ret(Const(1))>>)),
    Func("bar", <<Typed(FuncType(VoidType, <<IntType>>), "a")>>,
         <<Call("a", <<Const(1)>>)>>),
    Call("bar", <<Var("foo")>>)>>

(* test/errors/mismatch_return_block.pcl                                   *)
MismatchReturnError ==
  <<Set("a",
        ValueBlock(
          <<Set("b",
                ValueBlock(
                  <<Set("c", Const(1)), Set("d", Const(2)),
                    Ret(Bin("+", Var("c"), Var("d")))>>)),
            Set("foo", FuncValue("", <<>>, <<Ret(Const(1))>>)),
            Ret(Var("foo")), Ret(Var("b"))>>)),
    PrintStmt(Var("a"))>>

(* test/errors/nested_redefinition.pcl                                     *)
NestedRedefinitionError ==
  <<Set("b",
        FuncValue("bar", <<Var("x"), Var("y"), Var("z")>>,
          <<Set("b", FuncValue("bar", <<>>, <<Ret(Const(3))>>)),
            Call("b", <<>>)>>)),
    PrintStmt(Call("b", <<Const(1), Const(2), Const(3)>>))>>

(* test/errors/redefinition.pcl                                            *)
RedefinitionError ==
  <<Set("a",
        FuncValue("foo", <<Var("x"), Var("y")>>, <<PrintStmt(Const(1))>>)),
    Set("b", FuncValue("foo", <<Var("z")>>, <<PrintStmt(Const(2))>>))>>

(* test/errors/rename.pcl                                                  *)
RenameError ==
  <<Func("test", <<>>, <<Ret(Const(1))>>), Set("test", Var("test"))>>

(* test/errors/undefined_call.pcl                                          *)
UndefinedCallError ==
  <<Call("a", <<Const(5)>>)>>

(* test/errors/use_of_void.pcl                                             *)
UseOfVoidError ==
  <<Set("a",
        FuncValue("", <<Var("x"), Var("y")>>,
          <<PrintStmt(Bin("+", Var("x"), Var("y")))>>)),
    Call("a", <<Const(1), Const(2)>>),
    Set("b", Call("a", <<Const(1), Const(2)>>))>>

(* test/errors/syntax_error_unexpected_constant.pcl                        *)
UnexpectedError == <<ErrorNode>>

RefusedFiles ==
  {AmbiguousCallError, CallCountError, CallOfIntError, FuncAddError,
   MismatchCallError, MismatchReturnError, NestedRedefinitionError,
   RedefinitionError, RenameError, UndefinedCallError, UseOfVoidError,
   UnexpectedError}
=============================================================================
