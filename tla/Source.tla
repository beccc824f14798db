------------------------------- MODULE Source -------------------------------
(***************************************************************************)
(* What a ParaCL program means: the lines it prints and how it ends, as a  *)
(* recursive evaluation of its tree.  It is the reference the generated    *)
(* bytecode is compared with; it knows blocks and names, not slots, jumps  *)
(* or a stack.                                                             *)
(*                                                                         *)
(* The state of an evaluation s is a record:                               *)
(*   frame   the scopes of the function being run, innermost last          *)
(*   globals the scope of the root block                                   *)
(*   input, output                                                         *)
(*   ret     what a return has returned: none, or one value                *)
(*   left    whether a return is taking the evaluation out of a block      *)
(*   fault   "none", or why the program has no further meaning             *)
(* and evaluating an expression gives that record with the value in v.     *)
(***************************************************************************)
EXTENDS Isa, Ast, SequencesExt

OpName == [op \in {"+", "-", "*", "/", "%", "==", "!=", ">", "<", ">=", "<=",
                   "&&", "||"} |->
  CASE op = "+" -> "add" [] op = "-" -> "sub" [] op = "*" -> "mul"
    [] op = "/" -> "div" [] op = "%" -> "mod" [] op = "==" -> "cmp_eq"
    [] op = "!=" -> "cmp_ne" [] op = ">" -> "cmp_gt" [] op = "<" -> "cmp_ls"
    [] op = ">=" -> "cmp_ge" [] op = "<=" -> "cmp_le" [] op = "&&" -> "and"
    [] op = "||" -> "or"]

Stuck(s)        == s.left \/ s.fault # "none"
Faulty(s, why)  == [s EXCEPT !.fault = why]
Value(s, value) == [s EXCEPT !.v = value]

(* A scope's variables are zero until they are assigned.                   *)
Enter(s, stab) == [s EXCEPT !.frame = Append(@, [name \in stab |-> 0])]
Leave(s)       == [s EXCEPT !.frame = Front(@)]

Holding(s, name) == {k \in DOMAIN s.frame : name \in DOMAIN s.frame[k]}
Innermost(s, name) == Max(Holding(s, name))

Read(s, name) == IF Holding(s, name) # {}
                   THEN s.frame[Innermost(s, name)][name]
                   ELSE s.globals[name]
Store(s, name) == IF Holding(s, name) # {}
                    THEN [s EXCEPT !.frame[Innermost(s, name)][name] = s.v]
                    ELSE [s EXCEPT !.globals[name] = s.v]

-----------------------------------------------------------------------------
RECURSIVE Eval(_, _, _), EvalAll(_, _, _), Exec(_, _, _), ExecAll(_, _, _),
          Loop(_, _, _), StoreAll(_, _)

(* The targets of a chain, from the innermost, all get the value.          *)
StoreAll(s, lefts) ==
  IF lefts = <<>> THEN s ELSE StoreAll(Store(s, Head(lefts).name), Tail(lefts))

(* The arguments of a call, left to right, collected in args.              *)
EvalAll(fs, exprs, s) ==
  IF exprs = <<>> \/ Stuck(s) THEN s
  ELSE LET t == Eval(fs, Head(exprs), s)
       IN  EvalAll(fs, Tail(exprs), [t EXCEPT !.args = Append(s.args, t.v)])

(* A call: the callee sees its parameters and the globals only.            *)
Apply(fs, f, s, args) ==
  LET params == fs[f].params
      scope  == [p \in Range(params) |->
                   args[CHOOSE k \in DOMAIN params : params[k] = p]]
      t == Eval(fs, fs[f].body, [s EXCEPT !.frame = <<scope>>])
  IN  [t EXCEPT !.frame = s.frame, !.args = <<>>]

EvalBinary(fs, e, s) ==
  LET lhs == Eval(fs, e.left, s)
      rhs == Eval(fs, e.right, lhs)
      op  == OpName[e.op]
  IN  IF Stuck(rhs) THEN rhs
      ELSE IF Traps(op, lhs.v, rhs.v) THEN Faulty(rhs, "trapped")
      ELSE Value(rhs, Compute(op, lhs.v, rhs.v))

EvalUnary(fs, e, s) ==
  LET t == Eval(fs, e.expr, s)
  IN  CASE e.op = "-" -> Value(t, ToSigned(-t.v))
        [] e.op = "+" -> t
        [] e.op = "!" -> Value(t, Truth(t.v = 0))

(* A value block is left by its return; without one it has no meaning.     *)
EvalValueBlock(fs, e, s) ==
  LET t == Leave(ExecAll(fs, e.stmts, [Enter(s, e.stab) EXCEPT !.ret = <<>>]))
  IN  IF t.fault # "none" THEN t
      ELSE IF e.type # "void" /\ t.ret = <<>> THEN Faulty(t, "no_value")
      ELSE [t EXCEPT !.left = FALSE, !.ret = s.ret,
                     !.v = IF t.ret = <<>> THEN 0 ELSE Head(t.ret)]

EvalCall(fs, e, s) ==
  LET t == EvalAll(fs, e.args, [s EXCEPT !.args = <<>>])
  IN  IF Stuck(t) THEN t
      ELSE Apply(fs, IF e.def # "none" THEN e.def ELSE Read(t, e.name),
                 [t EXCEPT !.args = s.args], t.args)

EvalRead(s) ==
  IF s.input = <<>> \/ ~Head(s.input).ok THEN Faulty(s, "no_input")
  ELSE [s EXCEPT !.v = Head(s.input).val, !.input = Tail(@)]

Eval(fs, e, s) ==
  IF Stuck(s) THEN s
  ELSE CASE e.node = "constant"    -> Value(s, e.value)
         [] e.node = "read"        -> EvalRead(s)
         [] e.node = "variable"    -> Value(s, Read(s, e.name))
         [] e.node = "binary"      -> EvalBinary(fs, e, s)
         [] e.node = "unary"       -> EvalUnary(fs, e, s)
         [] e.node = "assignment"  -> LET t == Eval(fs, e.right, s)
                                      IN  IF Stuck(t) THEN t
                                          ELSE StoreAll(t, e.lefts)
         [] e.node = "value_block" -> EvalValueBlock(fs, e, s)
         [] e.node = "call"        -> EvalCall(fs, e, s)
         [] e.node = "fn_to_ptr"   -> Value(s, e.definition)

-----------------------------------------------------------------------------
ExecAll(fs, stmts, s) ==
  IF stmts = <<>> \/ Stuck(s) THEN s
  ELSE ExecAll(fs, Tail(stmts), Exec(fs, Head(stmts), s))

Loop(fs, st, s) ==
  LET t == Eval(fs, st.cond, s)
  IN  IF Stuck(t) \/ t.v = 0 THEN t ELSE Loop(fs, st, Exec(fs, st.block, t))

ExecReturn(fs, st, s) ==
  IF st.expr = <<>> THEN [s EXCEPT !.left = TRUE]
  ELSE LET t == Eval(fs, Head(st.expr), s)
       IN  IF Stuck(t) THEN t ELSE [t EXCEPT !.left = TRUE, !.ret = <<t.v>>]

ExecIf(fs, st, s) ==
  LET t == Eval(fs, st.cond, s)
  IN  IF Stuck(t) THEN t
      ELSE IF t.v # 0 THEN Exec(fs, st.true_block, t)
      ELSE ExecAll(fs, st.else_block, t)

Exec(fs, st, s) ==
  IF Stuck(s) THEN s
  ELSE CASE st.node = "print" ->
              LET t == Eval(fs, st.expr, s)
              IN  IF Stuck(t) THEN t
                  ELSE [t EXCEPT !.output = Append(@, t.v)]
         [] st.node = "return" -> ExecReturn(fs, st, s)
         [] st.node = "if" -> Leave(ExecIf(fs, st, Enter(s, st.stab)))
         [] st.node = "while" -> Leave(Loop(fs, st, Enter(s, st.stab)))
         [] st.node = "statement_block" ->
              Leave(ExecAll(fs, st.stmts, Enter(s, st.stab)))
         [] st.node = "function_definition" -> s
         [] OTHER -> Eval(fs, st, s)

(* The meaning of a program on an input.                                   *)
Meaning(prog, input) ==
  LET start == [frame |-> <<>>, globals |-> <<>>, input |-> input,
                output |-> <<>>, ret |-> <<>>, left |-> FALSE,
                fault |-> "none", v |-> 0, args |-> <<>>]
      end == IF prog.main = <<>> THEN start
             ELSE ExecAll(prog.functions, Head(prog.main).stmts,
                    [start EXCEPT !.globals =
                       [name \in Head(prog.main).stab |-> 0]])
  IN  [output |-> end.output, fault |-> end.fault]
=============================================================================
