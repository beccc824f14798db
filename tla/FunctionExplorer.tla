-------------------------- MODULE FunctionExplorer --------------------------
(***************************************************************************)
(* function_explorer: the first walk over the tree.  It fills the table of *)
(* named functions, names the anonymous ones, binds each call by name to   *)
(* the function known by that name so far, and records in a graph which    *)
(* function is used in which.                                              *)
(*                                                                         *)
(* todo is what the active handlers still have to do, first thing first.   *)
(***************************************************************************)
EXTENDS Tree, SequencesExt, FiniteSets

CONSTANT Parsed     \* the trees the parser may deliver: [ast, root]

VARIABLES
  ast,              \* m_ast: the nodes
  root,             \* its root
  functions,        \* named_functions: name -> [definition, recursive]
  usegraph,         \* usegraph: [node, edge], of names
  functionStack,    \* m_function_stack: the functions around, innermost last
  errors,           \* the error queue: <<message, node>>
  todo,             \* what is left to explore
  outcome           \* "exploring", or "unnamed": the assert on the name

exploreVars == <<ast, root, functions, usegraph, functionStack, errors, todo,
                 outcome>>

Explore(n)    == [do |-> "explore", node |-> n]
PopFunction   == [do |-> "pop_function"]
ExploreAll(s) == [k \in DOMAIN s |-> Explore(s[k])]

Task  == Head(todo)
Doing(what) == outcome = "exploring" /\ todo # <<>> /\ Task.do = what
Exploring(kinds) == Doing("explore") /\ ast[Task.node].node \in kinds
Ref   == ast[Task.node]

(* named_functions.lookup.                                                 *)
Known(name) == name \in DOMAIN functions

(* Fault: the user of a function is recorded, the function is not.         *)
UsedUnlisted(graph, name) ==
  IF functionStack = <<>> THEN graph
  ELSE [graph EXCEPT !.edge = @ \cup {<<name, Last(functionStack)>>}]

(* The graph with the function of that name in it, used in the innermost   *)
(* function around, if there is one.                                       *)
Used(graph, name) ==
  [node |-> graph.node \cup {name},
   edge |-> IF functionStack = <<>> THEN graph.edge
            ELSE graph.edge \cup {<<name, Last(functionStack)>>}]

-----------------------------------------------------------------------------
(* A new explorer, about to explore the tree.                              *)
Start(tree) ==
  /\ ast = tree.ast /\ root = tree.root
  /\ functions = <<>>
  /\ usegraph = [node |-> {}, edge |-> {}]
  /\ functionStack = <<>>
  /\ errors = <<>>
  /\ todo = IF root = Null THEN <<>> ELSE <<Explore(root)>>
  /\ outcome = "exploring"

Init == \E tree \in Parsed : Start(tree)

(* The children that are walked, in order: the right operand before the    *)
(* left.  A subscript is a leaf to the explorer, and so are the targets of *)
(* an assignment.                                                          *)
ExploredChildren(ref) ==
  CASE ref.node = "binary"             -> <<ref.right, ref.left>>
    [] ref.node \in {"print", "unary"} -> <<ref.expr>>
    [] ref.node = "assignment"         -> <<ref.right>>
    [] ref.node \in Blocks             -> ref.stmts
    [] ref.node = "while"              -> <<ref.cond, ref.block>>
    [] ref.node = "if"                 ->
         <<ref.cond, ref.true_block>>
           \o IF ref.else_block = Null THEN <<>> ELSE <<ref.else_block>>
    [] ref.node = "return"             ->
         IF ref.expr = Null THEN <<>> ELSE <<ref.expr>>
    [] OTHER                           -> <<>>

ExploreChildren ==
  /\ Doing("explore")
  /\ Ref.node \notin {"function_definition", "call", "fn_to_ptr"}
  /\ todo' = ExploreAll(ExploredChildren(Ref)) \o Tail(todo)
  /\ UNCHANGED <<ast, root, functions, usegraph, functionStack, errors,
                 outcome>>

(* The first definition of a name is kept; its body is walked inside it.   *)
ExploreDefinition ==
  /\ Exploring({"function_definition"})
  /\ Ref.name # "" /\ ~Known(Ref.name)
  /\ functions' = [name \in DOMAIN functions \cup {Ref.name} |->
                     IF name = Ref.name
                       THEN [definition |-> Task.node, recursive |-> FALSE]
                       ELSE functions[name]]
  /\ usegraph' = Used(usegraph, Ref.name)
  /\ functionStack' = Append(functionStack, Ref.name)
  /\ todo' = <<Explore(Ref.body), PopFunction>> \o Tail(todo)
  /\ UNCHANGED <<ast, root, errors, outcome>>

(* Fault: the second definition is passed over in silence.                 *)
ExploreRedefinitionSilent ==
  /\ Exploring({"function_definition"})
  /\ Known(Ref.name)
  /\ todo' = Tail(todo)
  /\ UNCHANGED <<ast, root, functions, usegraph, functionStack, errors,
                 outcome>>

ExploreRedefinition ==
  /\ Exploring({"function_definition"})
  /\ Known(Ref.name)
  /\ errors' = Append(errors, <<"redefinition", Task.node>>)
  /\ todo' = Tail(todo)
  /\ UNCHANGED <<ast, root, functions, usegraph, functionStack, outcome>>

(* Only a definition that is made a value is given a name.                 *)
ExploreUnnamed ==
  /\ Exploring({"function_definition"})
  /\ Ref.name = ""
  /\ outcome' = "unnamed"
  /\ todo' = <<>>
  /\ UNCHANGED <<ast, root, functions, usegraph, functionStack, errors>>

LeaveFunction ==
  /\ Doing("pop_function")
  /\ functionStack' = Front(functionStack)
  /\ todo' = Tail(todo)
  /\ UNCHANGED <<ast, root, functions, usegraph, errors, outcome>>

(* Fault: a function that calls itself is not marked.                      *)
ExploreCallUnmarked ==
  /\ Exploring({"call"})
  /\ LET name  == Ref.name
         found == Known(name)
     IN  /\ ast' = [ast EXCEPT ![Task.node].def =
                      IF found THEN functions[name].definition ELSE Null]
         /\ usegraph' = IF found THEN Used(usegraph, name) ELSE usegraph
  /\ todo' = ExploreAll(Ref.args) \o Tail(todo)
  /\ UNCHANGED <<root, functions, functionStack, errors, outcome>>

(* A call is bound to the function of that name if its definition has been *)
(* met.  A function that calls itself is marked, without an edge.          *)
ExploreCall ==
  /\ Exploring({"call"})
  /\ LET name  == Ref.name
         found == Known(name)
         self  == functionStack # <<>> /\ Last(functionStack) = name
     IN  /\ ast' = [ast EXCEPT ![Task.node].def =
                      IF found THEN functions[name].definition ELSE Null]
         /\ functions' = IF found /\ self
                           THEN [functions EXCEPT ![name].recursive = TRUE]
                           ELSE functions
         /\ usegraph' = IF found /\ ~self THEN Used(usegraph, name)
                                          ELSE usegraph
  /\ todo' = ExploreAll(Ref.args) \o Tail(todo)
  /\ UNCHANGED <<root, functionStack, errors, outcome>>

(* A function without a name gets one, from the number of functions known. *)
AnonymousName(size) == "$anon-func-" \o ToString(size)

(* Fault: the number is that of the functions around.                      *)
ExploreFunctionPtrByDepth ==
  /\ Exploring({"fn_to_ptr"})
  /\ LET def  == Ref.definition
         name == IF ast[def].name # "" THEN ast[def].name
                 ELSE AnonymousName(Len(functionStack))
     IN  /\ ast' = [ast EXCEPT ![def].name = name]
         /\ usegraph' = Used(usegraph, name)
         /\ todo' = <<Explore(def)>> \o Tail(todo)
  /\ UNCHANGED <<root, functions, functionStack, errors, outcome>>

ExploreFunctionPtr ==
  /\ Exploring({"fn_to_ptr"})
  /\ LET def  == Ref.definition
         name == IF ast[def].name # "" THEN ast[def].name
                 ELSE AnonymousName(Cardinality(DOMAIN functions))
     IN  /\ ast' = [ast EXCEPT ![def].name = name]
         /\ usegraph' = Used(usegraph, name)
         /\ todo' = <<Explore(def)>> \o Tail(todo)
  /\ UNCHANGED <<root, functions, functionStack, errors, outcome>>

ExploreStep ==
  \/ ExploreChildren \/ ExploreDefinition \/ ExploreRedefinition
  \/ ExploreUnnamed \/ LeaveFunction \/ ExploreCall \/ ExploreFunctionPtr
=============================================================================
