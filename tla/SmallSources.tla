---------------------------- MODULE SmallSources ----------------------------
(***************************************************************************)
(* Small source files for the front end, right and wrong ones: each kind   *)
(* of expression in each kind of statement, after several beginnings, and  *)
(* functions with each kind of body.                                       *)
(***************************************************************************)
EXTENDS Syntax

x == Var("x")
a == Var("a")
b == Var("b")
v == Var("v")

One == Set("a", Const(1))
F(body) == Func("f", <<x>>, body)
G(body) == Func("g", <<>>, body)

Exprs ==
  {Const(1), a, Subscript("a", Const(0)), Bin("-", ReadInput, a), Un("!", b),
   Set("a", Const(2)), Assign(<<a, b>>, Var("f")), ErrorNode,
   Call("f", <<>>), Call("f", <<a>>), Call("a", <<a>>), Bin("-", Call("f", <<Const(1)>>), Const(1)),
   ValueBlock(<<Set("b", a), b>>), ValueBlock(<<PrintStmt(a)>>),
   ValueBlock(<<If(a, Ret(Const(1))), Call("f", <<a>>)>>)}

(* The statements around an expression.                                    *)
Around(e) ==
  {e, PrintStmt(e), Ret(e), Set("a", e), Assign(<<b, a>>, e), Block(<<e>>),
   Assign(<<Typed(IntType, "b")>>, e),
   Assign(<<Subscript("a", e)>>, e), While(e, PrintStmt(a)),
   IfElse(e, Set("b", e), e)}

(* A function is a value on the right of an assignment only.               *)
Values == {Set(name, FuncValue(fname, <<x>>, <<e>>)) :
             name \in {"a", "f"}, fname \in {"", "f"}, e \in {x, PrintStmt(x)}}

Statements == Values \cup UNION {Around(e) : e \in Exprs}

Beginnings ==
  {<<>>, <<One>>, <<One, F(<<x>>)>>, <<One, F(<<PrintStmt(x)>>)>>,
   <<Set("a", FuncValue("", <<x>>, <<Set("v", FuncValue("", <<>>, <<x>>)), x>>))>>}

(* What a function may do with itself, and with a variable of its own.     *)
Inner ==
  LET self == Call("f", <<Bin("-", x, Const(1))>>)
  IN  {self, Ret(self), RetNothing, Set("v", self), Bin("+", Const(1), self),
       If(x, Ret(Const(1))), If(x, Ret(self)), While(x, self),
       Call("g", <<self>>), PrintStmt(self), Block(<<Set("v", x), v>>), v,
       G(<<self>>), Set("v", FuncValue("", <<>>, <<Const(1)>>)),
       Ret(ValueBlock(<<If(x, Ret(self)), Const(1)>>))}

Recursive == {F(<<s, t>>) : s \in Inner, t \in Inner}

(* A function without a name.                                              *)
UnnamedFile == <<Func("", <<>>, <<Const(1)>>)>>

SmallFiles ==
  {p \o <<s>> : p \in Beginnings, s \in Statements}
    \cup {<<d, PrintStmt(Call("f", <<Const(3)>>))>> : d \in Recursive}
    \cup {<<s, F(<<x>>)>> : s \in Around(Call("f", <<Const(1)>>))}
    \cup {UnnamedFile, <<F(<<ErrorNode>>)>>}

Trees == {Parse(file) : file \in SmallFiles} \cup {NothingParsed}
=============================================================================
