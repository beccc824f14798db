---------------------------- MODULE MCToolchain ----------------------------
(***************************************************************************)
(* Compilation and execution of the sample programs, on two inputs.        *)
(***************************************************************************)
EXTENDS Toolchain

Samples == INSTANCE SamplePrograms

Given(values) == [k \in DOMAIN values |-> [ok |-> TRUE, val |-> values[k]]]

MCInputs == {Given(<<1, 0, 2, 1, 4, 4>>), Given(<<0, 3, -1, -1>>)}

MCPrograms == Samples!Tests \cup Samples!FewPrograms
Nested     == {Samples!NestedInCall}
MCNodes    == Samples!NodesOf(MCPrograms \cup Nested)

(* The .ans files of the tests (with the inputs above where they read):    *)
(* the reference agrees with them.                                         *)
Prints(prog, input, lines) ==
  S!Meaning(prog, Given(input)) = [output |-> lines, fault |-> "none"]

ASSUME AnswersAssumption ==
  /\ Prints(Samples!NestedBlocksTest, <<>>, <<22>>)
  /\ Prints(Samples!EarlyReturnTest, <<>>, <<0, 1>>)
  /\ Prints(Samples!VoidTest, <<>>, <<1, 1, 1, 1>>)
  /\ Prints(Samples!TransparentTest, <<>>, <<3>>)
  /\ Prints(Samples!RecursiveTest, <<>>, <<2, 5>>)
  /\ Prints(Samples!BlockTest, <<0>>, <<20, 20>>)
  /\ Prints(Samples!WhileTest, <<1, 2, 3, 3>>, <<1, 1, 2>>)
=============================================================================
