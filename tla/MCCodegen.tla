----------------------------- MODULE MCCodegen -----------------------------
(***************************************************************************)
(* The generator on the sample programs.                                   *)
(***************************************************************************)
EXTENDS Codegen

S == INSTANCE SamplePrograms

Rejected == S!Rejected
Sound    == S!Tests \cup S!SmallPrograms
Samples  == Sound \cup Rejected

SampleNodes == S!NodesOf(Samples)

(* The asserts of codegen.hpp hold where the program can be translated: a  *)
(* scope never ends with fewer elements than it began with (line 243), and *)
(* no count of elements to pop has wrapped around.                         *)
AssertsHold == program \in Sound => outcome \notin {"assertion", "runaway"}

(* The nodes of the trees of a program, as often as they occur.            *)
RECURSIVE Walk(_)
Walk(ref) ==
  LET children == S!Children(ref)
  IN  <<ref>> \o FlattenSeq([k \in DOMAIN children |-> Walk(children[k])])

AllNodes(prog) ==
  FlattenSeq([k \in DOMAIN prog.main |-> Walk(prog.main[k])]) \o
  FlattenSeq([k \in 1 .. Cardinality(DOMAIN prog.functions) |->
               Walk(prog.functions[SetToSeq(DOMAIN prog.functions)[k]].body)])

(* generate_all skips nothing and repeats nothing: when it ends with a     *)
(* chunk, every print, read, test, operator, call, block with a value and  *)
(* return of the trees, the functions that are never called included, has  *)
(* given one instruction, whatever the order of the functions and whether  *)
(* or not anybody wants the value, and no node is left that the generator  *)
(* has no code for (codegen.hpp:251-258, 410-446, 732-750).                *)
TranslatedOnce ==
  outcome = "done" =>
    LET nodes == AllNodes(program)
        Count(Is(_)) == Cardinality({k \in DOMAIN nodes : Is(nodes[k])})
        Of(classes)   == Count(LAMBDA ref : ref.node \in classes)
        Emitted(ops)  == Cardinality({k \in DOMAIN code : code[k].op \in ops})
        IsUnary(op, ref) == ref.node = "unary" /\ ref.op = op
    IN  /\ Emitted({"print"}) = Of({"print"})
        /\ Emitted({"push_read"}) = Of({"read"})
        /\ Emitted({"jmp_false"}) = Of({"if", "while"})
        /\ Emitted(BinaryOps) = Of({"binary"})
                                  + Count(LAMBDA ref : IsUnary("-", ref))
        /\ Emitted({"not"}) = Count(LAMBDA ref : IsUnary("!", ref))
        /\ Emitted({"call_setup"}) = Of({"call"})
             + Count(LAMBDA ref : ref.node = "value_block" /\ ref.type # "void")
        /\ Emitted({"load_r0"}) =
             Count(LAMBDA ref : ref.node = "return" /\ ref.expr # <<>>)
        /\ Of({"subscript"}) = 0
        /\ Count(LAMBDA ref : ref.node = "call" /\ ref.type = "null") = 0
=============================================================================
