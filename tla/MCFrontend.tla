----------------------------- MODULE MCFrontend -----------------------------
(***************************************************************************)
(* The front end on small source files, on the sources of the sample       *)
(* programs, and on the repository's tests of errors.                      *)
(***************************************************************************)
EXTENDS Frontend

S == INSTANCE SmallSources
R == INSTANCE RepositoryTests
H == INSTANCE Handover
C == INSTANCE AstCopier
Samples == INSTANCE SamplePrograms

Programs == (Samples!Tests \ {Samples!TransparentTest})
              \cup Samples!SmallPrograms \cup Samples!FewPrograms
              \cup Samples!NestedPrograms
              \cup Samples!Rejected

(* test/functions/args_of_different_types.pcl; the programs do not keep    *)
(* the types that parameters are declared with.                            *)
Transparent == H!Y!Parse(
  <<H!Y!Func("transparent",
      <<H!Y!Var("x"),
        H!Y!Typed(FuncType(IntType, <<IntType>>), "op")>>,
      <<H!Y!Ret(H!Y!Call("op", <<H!Y!Var("x")>>))>>),
    H!Y!Set("increment",
      H!Y!FuncValue("increment_", <<H!Y!Var("x")>>,
        <<H!Y!Ret(H!Y!Bin("+", H!Y!Var("x"), H!Y!Const(1)))>>)),
    H!Y!PrintStmt(H!Y!Call("transparent",
      <<H!Y!Const(2), H!Y!Var("increment")>>))>>)

Sources   == {H!ParsedFrom(prog) : prog \in Programs} \cup {Transparent}
IllFormed == {S!Parse(stmts) : stmts \in R!RefusedFiles}
Files     == S!Trees \cup Sources \cup IllFormed

VARIABLE file       \* what kind of file it is

MCInit == \/ file = "small" /\ \E tree \in S!Trees : Start(tree)
          \/ file = "sample" /\ \E tree \in Sources : Start(tree)
          \/ file = "error" /\ \E tree \in IllFormed : Start(tree)
MCSpec == /\ MCInit /\ [][Next /\ UNCHANGED file]_<<vars, file>>
          /\ WF_<<vars, file>>(Step /\ UNCHANGED file)

(* The programs the generator is checked with are real: each is what the   *)
(* analysis of its source hands to generate_all, with the symbol tables,   *)
(* the types, the callees and the return statements the analysis fills in. *)
HandsOverSamples ==
  file = "sample" /\ outcome \in A!Breaks \cup {"done"} =>
    /\ Accepted
    /\ H!HandedOver(ast, root, functions)
         \in Programs \cup {Samples!TransparentTest}

(* The files of test/errors, each wrong in its own way (a name defined     *)
(* twice or of two kinds, a call that does not fit, a void used as a       *)
(* value, returns of two types), are refused: scripts/test_fail.sh.        *)
RefusesErrors == file = "error" => ~Accepted

(* What a copy takes from its source.                                      *)
Shared(ref) == CASE ref.node = "function_definition" -> {ref.body}
                 [] ref.node = "subscript"           -> {ref.expr}
                 [] OTHER                            -> {}

(* What a container is copied to reads like its source, targets, arguments *)
(* and branches in their order, and is a tree of nodes of its own, but for *)
(* the bodies of functions and the indices of subscripts: those it takes   *)
(* from the source, which must not go before it.                           *)
CopiesReadAlike ==
  file = "sample" /\ root # Null /\ todo = <<E!Explore(root)>> =>
    LET copy   == C!CopyOf([ast |-> ast, root |-> root])
        nodes  == copy.nodes
        copied == Len(ast) + 1 .. Len(nodes)
        Own(n) == SelectSeq(Parts(nodes[n]),
                            LAMBDA part : part \notin Shared(nodes[n]))
        owned  == FlattenSeq([k \in 1 .. Cardinality(copied) |->
                                Own(Len(ast) + k)])
    IN  /\ H!ReadNode(nodes, copy.at) = H!ReadNode(ast, root)
        /\ Range(owned) = copied \ {copy.at}
        /\ Len(owned) = Cardinality(copied \ {copy.at})
        /\ \A n \in copied : Shared(nodes[n]) \subseteq DOMAIN ast
=============================================================================
