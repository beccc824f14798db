------------------------------ MODULE Frontend ------------------------------
(***************************************************************************)
(* frontend_driver::analyze: the explorer, then the analyser, over one     *)
(* tree, one table of functions and one queue of errors.                   *)
(***************************************************************************)
EXTENDS Tree, SequencesExt, FiniteSets

CONSTANT Parsed     \* the trees the parser may deliver: [ast, root]

(* Pointers to parts, by their owner and their place in it, and the nodes  *)
(* they point to.  Every node is part of one other at most, once; the root *)
(* of none.                                                                *)
Links(tree) == UNION {{n} \X DOMAIN Parts(tree[n]) : n \in DOMAIN tree}
Target(tree, link) == Parts(tree[link[1]])[link[2]]
Owned(tree) == {Target(tree, link) : link \in Links(tree)}
OwnedOnce(tree, top) == /\ Cardinality(Owned(tree)) = Cardinality(Links(tree))
                        /\ top \notin Owned(tree)

(* The expressions whose value is used as a number.                        *)
Operands(ref) ==
  CASE ref.node \in {"binary", "unary", "print"} -> Range(Parts(ref))
    [] ref.node \in {"if", "while"}              -> {ref.cond}
    [] OTHER                                     -> {}

(* The parser delivers whole trees.  In a table it only declares the       *)
(* parameters of a function, each of which has a type; the analyser alone  *)
(* collects returns (statement_block.hpp:25, 59).  Its actions make nodes  *)
(* of whole subtrees and append such to them, so that none is inside       *)
(* itself: they are listed with the parts of a node before it.  All that   *)
(* is listed is inside the root: what the actions have copied by value and *)
(* left behind, targets and parameters, nothing points to.  What is        *)
(* assigned, and what is used as a number, is an i_expression, with a      *)
(* place for a type (assignment_statement.hpp:26); a parameter is a        *)
(* variable_expression (function_decl.hpp:26).                       *)
ASSUME ParsedAssumption ==
  \A tree \in Parsed :
    /\ tree.ast \in Seq(Range(tree.ast))
    /\ tree.root \in DOMAIN tree.ast \cup {Null}
    /\ OwnedOnce(tree.ast, tree.root)
    /\ DOMAIN tree.ast \subseteq Owned(tree.ast) \cup {tree.root}
    /\ \A n \in DOMAIN tree.ast :
         /\ IsNode(tree.ast[n], DOMAIN tree.ast)
         /\ tree.ast[n].node \in Scopes => HoldsTyped(tree.ast, tree.ast[n].stab)
         /\ tree.ast[n].node \in Blocks => tree.ast[n].returns = <<>>
         /\ \A p \in Range(Parts(tree.ast[n])) : p < n
         /\ tree.ast[n].node = "assignment"
              => "type" \in DOMAIN tree.ast[tree.ast[n].right]
         /\ \A e \in Operands(tree.ast[n]) : "type" \in DOMAIN tree.ast[e]
         /\ tree.ast[n].node = "function_definition"
              => \A p \in Range(tree.ast[n].params) : tree.ast[p].node = "variable"

VARIABLES
  ast, root, functions, errors, todo,
  usegraph, functionStack,              \* the explorer
  globalStab, analyzer,                \* the analyser
  outcome

E == INSTANCE FunctionExplorer
A == INSTANCE SemanticAnalyzer

vars == <<ast, root, functions, errors, todo, usegraph, functionStack,
          globalStab, analyzer, outcome>>

Start(tree) == /\ E!Start(tree)
               /\ globalStab = Null
               /\ analyzer = A!MainAnalyzer

Init == \E tree \in Parsed : Start(tree)

ExploreTree == E!ExploreStep /\ UNCHANGED <<globalStab, analyzer>>

(* What has been explored is analysed, whatever the explorer reported.  A  *)
(* driver without a root has nothing to say.                               *)
BeginAnalysis ==
  /\ outcome = "exploring" /\ todo = <<>>
  /\ IF root = Null
       THEN outcome' = "done" /\ UNCHANGED todo
       ELSE /\ outcome' = "working"
            /\ todo' = <<A!AnalyzeMain(root)>>
  /\ UNCHANGED <<ast, root, functions, errors, usegraph, functionStack,
                 globalStab, analyzer>>

AnalyzeTree == A!AnalyzeStep /\ UNCHANGED <<usegraph, functionStack>>

Over == outcome \in A!Breaks \cup {"done"} /\ UNCHANGED vars

Step == ExploreTree \/ BeginAnalysis \/ AnalyzeTree
Next == Step \/ Over

(* One thread walks the tree and goes on while it can.                     *)
Spec == Init /\ [][Next]_vars /\ WF_vars(Step)

(* What analyze() returns.                                                 *)
Accepted == outcome = "done" /\ errors = <<>>

-----------------------------------------------------------------------------
(* Pointers point into the tree, what the walks keep is what C++ declares. *)
TypeOK ==
  LET nodes == DOMAIN ast
  IN  /\ root \in nodes \cup {Null} /\ globalStab \in nodes \cup {Null}
      /\ \A n \in nodes :
           /\ IsNode(ast[n], nodes)
           /\ ast[n].node \in Scopes => Range(ast[n].stab) \subseteq nodes
           /\ ast[n].node \in Blocks => Range(ast[n].returns) \subseteq nodes
      /\ \A f \in DOMAIN functions :
           functions[f] \in [definition : nodes, recursive : BOOLEAN]
      /\ usegraph.edge \subseteq usegraph.node \X usegraph.node
      /\ Range(functionStack) \subseteq DOMAIN functions
      /\ \A k \in DOMAIN errors : errors[k][2] \in nodes
      /\ analyzer \in [scopes : Seq(nodes), returns : nodes \cup {Null},
                       tolerant : BOOLEAN]
      /\ \A k \in DOMAIN todo :
           "node" \in DOMAIN todo[k] => todo[k].node \in nodes
      /\ outcome \in {"exploring", "working", "done"} \cup A!Breaks

(* The analysis rewrites the tree in place, a recursive function twice,    *)
(* and puts return statements where expressions were.  It stays a tree: no *)
(* node has two owners, which the generator would emit twice and whose     *)
(* type one owner would change under the other.                            *)
StaysTree == OwnedOnce(ast, root)

(* The node that owns a node, and the value block whose return it is.      *)
Owner == [n \in Owned(ast) |->
            CHOOSE p \in DOMAIN ast : n \in Range(Parts(ast[p]))]
Home == LET owner == Owner
            home[n \in DOMAIN ast] ==
              IF n \notin DOMAIN owner THEN Null
              ELSE IF ast[owner[n]].node = "value_block" THEN owner[n]
              ELSE home[owner[n]]
        IN  home
ReturnsOf(block) ==
  LET home == Home
  IN  {n \in DOMAIN ast : ast[n].node = "return" /\ home[n] = block}

(* The types of a value block's returns are compared over the list that    *)
(* m_return_statements has collected while it pointed to the block's own   *)
(* (semantic_analyzer.cc:150-188).  When a file is accepted each list      *)
(* holds the returns that leave that block, written or made, each once,    *)
(* also after the second pass over a recursive function.                   *)
ReturnsCollected ==
  Accepted =>
    \A n \in DOMAIN ast : ast[n].node = "value_block" =>
      LET returns == ast[n].returns
      IN  /\ Range(returns) = ReturnsOf(n)
          /\ Cardinality(Range(returns)) = Len(returns)

(* A name is declared with the type of what it is given, so that whatever  *)
(* the symbol tables hold has a type, for the analysis, for the generator  *)
(* and for the second pass over a recursive function.                      *)
DeclaredIsTyped ==
  outcome # "bad_type" =>
    \A n \in DOMAIN ast :
      ast[n].node \in Scopes => HoldsTyped(ast, ast[n].stab)

(* While the targets of an assignment are gone through, whatever is done   *)
(* for them in between, the right side has the type that it was seen to    *)
(* have: assigning never throws "Bad type dereference", which it would in  *)
(* the middle of a declaration.                                            *)
AssignedIsTyped ==
  \A k \in DOMAIN todo :
    todo[k].do \in {"assign_to", "check_target", "type_assignment"} =>
      ast[ast[todo[k].node].right].type # NoType

(* In an accepted file no function and no void is used as a number: the    *)
(* operands of operators, prints and conditions are ints, array variables, *)
(* or calls not yet typed when they are met.  Types are checked when an    *)
(* operand has been visited and may be written again by the second pass.   *)
OperandsAreInts ==
  Accepted => \A n \in DOMAIN ast : \A e \in Operands(ast[n]) :
                A!Passes(ast[e].type) \/ ast[e].type = IntType

(* In an accepted file the only expressions left without a type, for which *)
(* the generator throws, are calls before the end of the callee's          *)
(* definition; and of these a function's calls of itself, for whose sake   *)
(* it is analysed twice, have their type.                                  *)
Inside == LET owner == Owner
              inside[n \in DOMAIN ast] ==
                IF n \notin DOMAIN owner THEN Null
                ELSE IF ast[owner[n]].node = "function_definition"
                  THEN owner[n] ELSE inside[owner[n]]
          IN  inside
OnlyEarlyCallsUntyped ==
  Accepted =>
    LET inside == Inside
    IN  \A n \in DOMAIN ast :
          ast[n].node \in Expressions /\ ast[n].type = NoType =>
            /\ ast[n].node = "call" /\ ast[n].name \in DOMAIN functions
            /\ LET def == functions[ast[n].name].definition
               IN  n < def /\ inside[n] # def

(* A function nobody named is never taken for a second definition: the     *)
(* number in the name it gets counts the functions known, whichever of     *)
(* them are inside one another.                                            *)
Anonymous(n) == /\ ast[n].node = "function_definition"
                /\ \E k \in 0 .. Len(ast) : ast[n].name = E!AnonymousName(k)
AnonymousAreNew == \A k \in DOMAIN errors :
                     errors[k][1] = "redefinition" => ~Anonymous(errors[k][2])

(* Whatever the file, the two walks and the second passes they start come  *)
(* to an end.                                                              *)
Concludes == <>(outcome \in A!Breaks \cup {"done"})
=============================================================================
