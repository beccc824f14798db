------------------------------- MODULE MCLlvm -------------------------------
(***************************************************************************)
(* Tests of the repository, and small programs with every kind of control  *)
(* in every other, run by LLVM.                                            *)
(***************************************************************************)
EXTENDS LlvmPipeline

R == INSTANCE RepositoryTests
H == INSTANCE Handover
S == INSTANCE Source

x == S!Var("x")
y == S!Var("y")
t == S!Var("t")
Zero == S!Const(0)
Do(st) == S!Block({}, <<st>>)

(* x is 3 or what is read, y is 1.                                         *)
Conditions ==
  {x, S!Bin("<", y, x), S!Un("!", S!Bin("==", x, y)),
   S!Bin("&&", S!Bin("!=", x, y), S!Bin(">=", x, y)),
   S!Bin("||", S!Bin("<=", x, y), S!Bin(">", Zero, x))}

Simple ==
  {S!PrintStmt(S!Un("-", x)), S!Assign(<<"x", "y">>, S!Bin("%", x, S!Const(2))),
   S!Block({"t"}, <<S!Assign(<<"t">>, S!Bin("*", x, y)), S!PrintStmt(t)>>),
   S!PrintStmt(S!Bin("/", x, S!Bin("-", y, S!Const(1))))}

(* A loop counts x down.                                                   *)
Loop(cond, st) ==
  S!While({}, S!Bin("&&", S!Bin(">", x, Zero), cond),
          Do(S!Block({}, <<st, S!Assign(<<"x">>, S!Bin("-", x, S!Const(1)))>>)))
Positive == S!Bin(">", x, Zero)

Control(st) ==
  {S!If({}, cond, Do(st), <<>>) : cond \in Conditions}
    \cup {S!If({}, Positive, Do(st), <<Do(S!PrintStmt(y))>>),
          S!If({}, S!Un("+", Zero), Do(S!PrintStmt(y)), <<Do(st)>>),
          Loop(Positive, st), Loop(S!Bin("!=", x, y), st)}

Nested == UNION {Control(st) : st \in
            UNION {Control(inner) : inner \in {S!PrintStmt(x)}}}

(* What the backend is not up to.                                          *)
Others ==
  {S!PrintStmt(S!Bin("<", x, y)), S!Assign(<<"y">>, S!Bin("==", x, x)),
   S!If({}, S!Un("!", x), Do(S!PrintStmt(x)), <<>>),
   S!If({}, S!Bin("&&", x, S!Const(4)), Do(S!PrintStmt(x)), <<>>),
   S!PrintStmt(S!ValueBlock({}, <<S!ReturnStmt(<<x>>)>>, "int"))}

(* Its parts declare what they assign; x and y are of the root block.      *)
Program(first, st) ==
  S!Program(<<S!Block({"x", "y"},
    <<S!Assign(<<"x">>, first), S!Assign(<<"y">>, S!Const(1)), st,
      S!PrintStmt(x)>>)>>, <<>>)

(* The programs, with the numbers they have to read.                       *)
Inputs(prog, numbers) ==
  [prog |-> prog, input |-> [k \in DOMAIN numbers |->
                               [ok |-> TRUE, val |-> numbers[k]]]]
Programs ==
  {Inputs(Program(S!Const(3), st), <<>>) :
     st \in Nested \cup UNION {Control(s) : s \in Simple} \cup Others}
    \cup {Inputs(Program(S!ReadInput, st), <<4>>) : st \in Simple}
    \cup {Inputs(Program(S!ReadInput, S!PrintStmt(y)), <<>>)}

(* What is meant is what the source means.                                 *)
Meant(run) ==
  LET meaning == S!Meaning(run.prog, run.input)
  IN  [parsed |-> H!ParsedFrom(run.prog), input |-> run.input,
       answer |-> meaning.output, fault |-> meaning.fault]

(* Nothing is meant by the others, which are made and run all the same.    *)
Unmeant(stmts) == [parsed |-> Y!Parse(stmts), input |-> <<>>,
                   answer |-> <<>>, fault |-> "unmeant"]

Array(size) == Y!Assign(<<Y!Typed(Y!ArrayOf(Y!IntType, size), "v")>>, Y!Const(0))
Elements ==
  {<<Y!Block(<<Array(2), Y!Assign(<<Y!Var("w"), Y!Subscript("v", i)>>, i),
               Y!PrintStmt(Y!Subscript("v", i))>>)>> :
     i \in {Y!Const(1), Y!Const(2), Y!Bin("==", Y!Const(1), Y!Const(1))}}
    \cup {<<Y!Block(<<Y!Set("v", Y!ReadInput)>>), Y!PrintStmt(Y!Var("v"))>>,
          <<Y!If(Y!Const(1), Y!Set("v", Y!Const(1))), Y!PrintStmt(Y!Var("v"))>>,
          <<Array(2)>>, <<Y!Block(<<Array(2), Y!PrintStmt(Y!Var("v"))>>)>>,
          <<Y!Set("w", Y!Const(1)), Y!PrintStmt(Y!Subscript("w", Y!Const(0)))>>,
          <<Y!Block(<<Y!Set("w", Y!Const(1)),
                      Y!PrintStmt(Y!Subscript("w", Y!Const(0)))>>)>>,
          <<Y!Block(<<Y!Assign(<<Y!Typed(Y!ArrayOf(Y!ArrayOf(Y!IntType, 2), 2),
                                         "v")>>, Y!Const(0))>>)>>}

FromTests ==
  {[parsed |-> Y!Parse(test.stmts), input |-> test.input,
    answer |-> test.answer, fault |-> "none"] :
      test \in R!AnsweredTests \cup R!ArrayTests
                 \cup {R!DivisorsTest, R!NestedBlocksTest}}

Files ==
  FromTests
    \cup {Meant(run) : run \in Programs}
    \cup {Unmeant(stmts) : stmts \in Elements}
    \cup {[parsed |-> Y!NothingParsed, input |-> <<>>, answer |-> <<>>,
           fault |-> "none"]}
=============================================================================
