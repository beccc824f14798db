--------------------------- MODULE FrontendProofs ---------------------------
(***************************************************************************)
(* The symbol tables of the front end, and what its state points to, for   *)
(* every set of trees the parser may deliver: DeclarationsAreTyped, and    *)
(* FrontendTypeCorrect at the end.                                         *)
(*                                                                         *)
(* The tables alone are not inductive.  A name takes its type from the     *)
(* right side of an assignment, or is written over with the type of the    *)
(* declaration found in the scopes begun; so one has to know as well that  *)
(* the tree stays one while nodes are added to it and put in the place of  *)
(* others, that the scopes are blocks and functions of it, and that what   *)
(* is left to do is about nodes of the class its handler takes for granted.*)
(* IInv says this; there is one lemma per group of handlers.               *)
(* TypeInv, which builds on it, says what is true when a declaration has   *)
(* been broken off as well.                                                *)
(***************************************************************************)
EXTENDS Frontend, SequenceTheorems, WellFoundedInduction, TLAPS

-----------------------------------------------------------------------------
(* What may be done to a tree without harm: write a type, a callee or a    *)
(* list of returns into a node, declare a name, add a node, put it in the  *)
(* place of a statement.                                                   *)
Nodes(tree, kinds) == {n \in DOMAIN tree : tree[n].node \in kinds}

(* A sequence of records, of whole nodes, with tables whose declarations   *)
(* have types.                                                             *)
Places(tree) == tree \in Seq({tree[n] : n \in DOMAIN tree})
IsTree(tree) ==
  /\ Places(tree)
  /\ \A n \in DOMAIN tree :
       /\ IsNode(tree[n], DOMAIN tree)
       /\ tree[n].node \in Scopes => HoldsTyped(tree, tree[n].stab)

(* What it means to be a sequence, of whatever.                            *)
LEMMA PlacesAre ==
  ASSUME NEW tree
  PROVE  Places(tree) <=> /\ \E len \in Nat : DOMAIN tree = 1 .. len
                          /\ tree = [n \in DOMAIN tree |-> tree[n]]
<1> DEFINE All == {tree[n] : n \in DOMAIN tree}
<1>1. ASSUME Places(tree)
      PROVE  /\ \E len \in Nat : DOMAIN tree = 1 .. len
             /\ tree = [n \in DOMAIN tree |-> tree[n]]
  <2> HIDE DEF All
  <2>1. tree \in Seq(All)
    BY <1>1 DEF Places, All
  <2> QED
    BY <2>1, LenProperties
<1>2. ASSUME NEW len \in Nat, DOMAIN tree = 1 .. len,
             tree = [n \in DOMAIN tree |-> tree[n]]
      PROVE  Places(tree)
  <2>1. tree \in [1 .. len -> All]
    BY <1>2
  <2> QED
    BY <2>1 DEF Places
<1> QED
  BY <1>1, <1>2

(* Nodes keep their place, their class and, if they are assignments, their *)
(* targets.                                                                *)
Grows(tree, new) ==
  /\ DOMAIN tree \subseteq DOMAIN new
  /\ \A n \in DOMAIN tree :
       /\ new[n].node = tree[n].node
       /\ tree[n].node = "assignment" => new[n].lefts = tree[n].lefts

-----------------------------------------------------------------------------
(* The fields that are written into nodes of all classes.                  *)
Annotations == {"type", "returns", "return", "def", "name"}

(* A record with the same fields as a node, equal but for annotations, is  *)
(* a node as well.                                                         *)
LEMMA AnnotateNode ==
  ASSUME NEW ref, NEW nodes, IsNode(ref, nodes), NEW f \in Annotations, NEW new,
         DOMAIN new = DOMAIN ref,
         \A g \in DOMAIN ref : g # f => new[g] = ref[g]
  PROVE  IsNode(new, nodes)
<1>1. "node" \in DOMAIN ref /\ new.node = ref.node
  BY DEF IsNode, Annotations
<1> QED
  BY <1>1 DEF IsNode, Annotations, Blocks

(* Such a write leaves a tree, provided that a variable gets a type.       *)
LEMMA AnnotateTree ==
  ASSUME NEW tree, IsTree(tree), NEW n, NEW f \in Annotations, NEW v,
         n \in DOMAIN tree /\ tree[n].node = "variable" /\ f = "type" => v # NoType
  PROVE  LET new == [tree EXCEPT ![n] = [@ EXCEPT ![f] = v]]
         IN  IsTree(new) /\ Grows(tree, new)
<1> DEFINE new == [tree EXCEPT ![n] = [@ EXCEPT ![f] = v]]
<1>1. DOMAIN new = DOMAIN tree /\ Places(new)
  BY PlacesAre DEF IsTree
<1>2. \A m \in DOMAIN tree :
        /\ DOMAIN new[m] = DOMAIN tree[m]
        /\ \A g \in DOMAIN tree[m] : g # f => new[m][g] = tree[m][g]
        /\ m # n => new[m] = tree[m]
        /\ m = n /\ f \in DOMAIN tree[m] => new[m][f] = v
  OBVIOUS
<1> HIDE DEF new
<1>3. \A m \in DOMAIN tree : IsNode(new[m], DOMAIN tree)
  BY <1>2, AnnotateNode DEF IsTree
<1>4. \A m \in DOMAIN tree : "node" \in DOMAIN tree[m] /\ new[m].node = tree[m].node
  BY <1>2 DEF IsTree, IsNode, Annotations
<1>5. \A m \in DOMAIN tree : tree[m].node \in Scopes => new[m].stab = tree[m].stab
  BY <1>2 DEF IsTree, IsNode, Annotations, Scopes, Blocks
<1>6. \A m \in DOMAIN tree : tree[m].node = "assignment" => new[m].lefts = tree[m].lefts
  BY <1>2 DEF IsTree, IsNode, Annotations, Blocks
<1>7. \A m \in DOMAIN tree : tree[m].node = "variable" /\ tree[m].type # NoType => new[m].type # NoType
  BY <1>2 DEF IsTree, IsNode, Annotations, Blocks
<1>8. \A m \in DOMAIN tree : tree[m].node \in Scopes => HoldsTyped(new, tree[m].stab)
  BY <1>1, <1>4, <1>7 DEF IsTree, HoldsTyped
<1>9. \A m \in DOMAIN new : new[m].node \in Scopes => HoldsTyped(new, new[m].stab)
  BY <1>1, <1>4, <1>5, <1>8
<1>10. IsTree(new)
  BY <1>1, <1>3, <1>9 DEF IsTree
<1>11. Grows(tree, new)
  BY <1>1, <1>4, <1>6 DEF Grows
<1> QED
  BY <1>10, <1>11 DEF new

(* To declare a name is to add a typed variable to a table, or nothing.    *)
LEMMA DeclareTree ==
  ASSUME NEW tree, IsTree(tree), NEW n, NEW name,
         NEW def \in Nodes(tree, {"variable"}), tree[def].type # NoType
  PROVE  LET new == [tree EXCEPT ![n].stab = Declared(@, name, def)]
         IN  IsTree(new) /\ Grows(tree, new)
<1> DEFINE new == [tree EXCEPT ![n].stab = Declared(@, name, def)]
<1>1. DOMAIN new = DOMAIN tree /\ Places(new)
  BY PlacesAre DEF IsTree
<1>2. \A m \in DOMAIN tree :
        /\ DOMAIN new[m] = DOMAIN tree[m]
        /\ \A g \in DOMAIN tree[m] : g # "stab" => new[m][g] = tree[m][g]
        /\ m # n => new[m] = tree[m]
        /\ m = n /\ "stab" \in DOMAIN tree[m]
             => new[m].stab = Declared(tree[m].stab, name, def)
  OBVIOUS
<1> HIDE DEF new
<1>3. \A m \in DOMAIN tree : /\ "node" \in DOMAIN tree[m]
                              /\ new[m].node = tree[m].node
  BY <1>2 DEF IsTree, IsNode
<1>4. \A m \in DOMAIN tree : IsNode(new[m], DOMAIN tree)
  BY <1>2, <1>3 DEF IsTree, IsNode, Blocks
<1>5. \A m \in DOMAIN tree :
        /\ tree[m].node = "assignment" => new[m].lefts = tree[m].lefts
        /\ tree[m].node = "variable" => new[m].type = tree[m].type
  BY <1>2 DEF IsTree, IsNode, Blocks
<1>6. \A m \in DOMAIN tree : tree[m].node \in Scopes
        => new[m].stab = tree[m].stab \/ new[m].stab = Declared(tree[m].stab, name, def)
  BY <1>2 DEF IsTree, IsNode, Scopes, Blocks
<1>7. \A stab : HoldsTyped(tree, stab) => /\ HoldsTyped(new, stab)
                                         /\ HoldsTyped(new, Declared(stab, name, def))
  BY <1>1, <1>3, <1>5 DEF HoldsTyped, Declared, Nodes
<1>8. ASSUME NEW m \in DOMAIN new, new[m].node \in Scopes
      PROVE  HoldsTyped(new, new[m].stab)
  <2>1. m \in DOMAIN tree /\ tree[m].node \in Scopes
    BY <1>1, <1>3, <1>8
  <2>2. HoldsTyped(tree, tree[m].stab)
    BY <2>1 DEF IsTree
  <2> QED
    BY <1>6, <1>7, <2>1, <2>2
<1>9. IsTree(new)
  BY <1>1, <1>4, <1>8 DEF IsTree
<1>10. Grows(tree, new)
  BY <1>1, <1>3, <1>5 DEF Grows
<1> QED
  BY <1>9, <1>10 DEF new

(* A node that points into the tree can be added at its end.               *)
LEMMA AppendTree ==
  ASSUME NEW tree, IsTree(tree), NEW ref, IsNode(ref, DOMAIN tree),
         ref.node \notin Scopes
  PROVE  LET new == Append(tree, ref)
         IN  /\ IsTree(new) /\ Grows(tree, new)
             /\ DOMAIN new = DOMAIN tree \cup {Len(tree) + 1}
             /\ \A m \in DOMAIN tree : new[m] = tree[m]
<1> DEFINE new == Append(tree, ref)
<1>1. PICK len \in Nat : DOMAIN tree = 1 .. len
  BY PlacesAre DEF IsTree
<1> DEFINE All == {tree[m] : m \in DOMAIN tree} \cup {ref}
<1>2. tree \in [1 .. len -> All]
  BY <1>1, PlacesAre DEF IsTree
<1>3. tree \in Seq(All)
  BY <1>2
<1>4. Len(tree) = len
  BY <1>1, <1>3, LenProperties
<1>5. /\ DOMAIN new = 1 .. len + 1
      /\ \A m \in DOMAIN tree : new[m] = tree[m]
      /\ new[len + 1] = ref
      /\ new = [m \in DOMAIN new |-> new[m]]
  <2> HIDE DEF All
  <2>1. ref \in All
    BY DEF All
  <2>2. new \in Seq(All)
    BY <1>3, <2>1, AppendProperties
  <2>3. Len(new) = len + 1 /\ DOMAIN new = 1 .. Len(new)
    BY <1>4, <1>3, <2>1, <2>2, AppendProperties, LenProperties
  <2>4. new \in [1 .. Len(new) -> All]
    BY <2>2, LenProperties
  <2>5. new = [m \in DOMAIN new |-> new[m]]
    BY <2>3, <2>4
  <2> QED
    BY <1>1, <1>4, <1>3, <2>1, <2>3, <2>5, AppendProperties
<1> HIDE DEF new
<1>6. \A r : IsNode(r, DOMAIN tree) => IsNode(r, DOMAIN new)
  BY <1>1, <1>5, SeqMonotonic DEF IsNode
<1>7. \A stab : HoldsTyped(tree, stab) => HoldsTyped(new, stab)
  BY <1>1, <1>5 DEF HoldsTyped
<1>8. DOMAIN new = DOMAIN tree \cup {len + 1}
  BY <1>1, <1>5
<1>9. Places(new)
  BY <1>5, PlacesAre
<1> QED
  BY <1>4, <1>5, <1>6, <1>7, <1>8, <1>9 DEF IsTree, Grows, new

(* A statement of a block can be exchanged for another node.               *)
LEMMA StatementTree ==
  ASSUME NEW tree, IsTree(tree), NEW n \in Nodes(tree, Blocks), NEW k,
         NEW made \in DOMAIN tree
  PROVE  LET new == [tree EXCEPT ![n].stmts[k] = made]
         IN  IsTree(new) /\ Grows(tree, new)
<1> DEFINE new == [tree EXCEPT ![n].stmts[k] = made]
<1>1. DOMAIN new = DOMAIN tree /\ Places(new)
  BY PlacesAre DEF IsTree
<1>2. \A m \in DOMAIN tree :
        /\ DOMAIN new[m] = DOMAIN tree[m]
        /\ \A g \in DOMAIN tree[m] : g # "stmts" => new[m][g] = tree[m][g]
        /\ m # n => new[m] = tree[m]
        /\ m = n /\ "stmts" \in DOMAIN tree[m]
             => new[m].stmts = [tree[m].stmts EXCEPT ![k] = made]
  OBVIOUS
<1> HIDE DEF new
<1>3. \A m \in DOMAIN tree : /\ "node" \in DOMAIN tree[m]
                              /\ new[m].node = tree[m].node
  BY <1>2 DEF IsTree, IsNode
<1>4. tree[n].stmts \in Seq(DOMAIN tree) /\ "stmts" \in DOMAIN tree[n]
  BY DEF IsTree, IsNode, Nodes, Blocks
<1>5. [tree[n].stmts EXCEPT ![k] = made] \in Seq(DOMAIN tree)
  <2>1. CASE k \in 1 .. Len(tree[n].stmts)
    BY <1>4, <2>1, ExceptSeq
  <2>2. CASE k \notin 1 .. Len(tree[n].stmts)
    <3>1. tree[n].stmts \in [1 .. Len(tree[n].stmts) -> DOMAIN tree]
      BY <1>4, LenProperties
    <3>2. [tree[n].stmts EXCEPT ![k] = made] = tree[n].stmts
      BY <3>1, <2>2
    <3> QED
      BY <1>4, <3>2
  <2> QED
    BY <2>1, <2>2
<1>6. \A m \in DOMAIN tree : m # n => IsNode(new[m], DOMAIN tree)
  BY <1>2 DEF IsTree
<1>7. IsNode(new[n], DOMAIN tree)
  BY <1>2, <1>3, <1>4, <1>5 DEF IsTree, IsNode, Nodes, Blocks
<1>8. \A m \in DOMAIN tree :
        /\ tree[m].node = "assignment" => new[m].lefts = tree[m].lefts
        /\ tree[m].node = "variable" => new[m].type = tree[m].type
        /\ tree[m].node \in Scopes => new[m].stab = tree[m].stab
  BY <1>2 DEF IsTree, IsNode, Scopes, Blocks
<1>9. \A stab : HoldsTyped(tree, stab) => HoldsTyped(new, stab)
  BY <1>1, <1>3, <1>8 DEF HoldsTyped
<1> QED
  BY <1>1, <1>3, <1>6, <1>7, <1>8, <1>9 DEF IsTree, Grows, new

LEMMA GrowsOn ==
  ASSUME NEW t, NEW u, NEW v, Grows(t, u), Grows(u, v)
  PROVE  Grows(t, v)
BY DEF Grows

-----------------------------------------------------------------------------
(* A set of numbers below a bound has a greatest element.                  *)
LEMMA GreatestExists ==
  ASSUME NEW len \in Nat, NEW S, S \subseteq 1 .. len, S # {}
  PROVE  \E k \in S : \A j \in S : k >= j
<1> DEFINE R == {ss \in Nat \X Nat : ss[1] < ss[2]}
           T == {len - k : k \in S}
<1>1. IsWellFoundedOn(R, Nat)
  BY NatLessThanWellFounded DEF OpToRel
<1>2. T \subseteq Nat /\ T # {}
  <2>1. \A k \in S : len - k \in Nat
    OBVIOUS
  <2> QED
    BY <2>1
<1>3. PICK x \in T : \A y \in T : <<y, x>> \notin R
  <2> HIDE DEF R, T
  <2> QED BY <1>1, <1>2, WFMin
<1>4. PICK k \in S : x = len - k
  OBVIOUS
<1>5. ASSUME NEW j \in S PROVE k >= j
  <2>1. <<len - j, len - k>> \notin R
    BY <1>3, <1>4
  <2> QED
    BY <2>1
<1> QED
  BY <1>5

-----------------------------------------------------------------------------
(* The inductive invariant.  What is left to do is about nodes of the tree *)
(* of the right class, and the scopes begun belong to nodes that have a    *)
(* table.                                                                  *)
Analyzers(tree) == [scopes   : Seq(Nodes(tree, Scopes)),
                    returns  : DOMAIN tree \cup {Null},
                    tolerant : BOOLEAN]

AnyNode == {"explore", "apply", "expect_int", "set_return_type",
            "type_pointer", "analyze_main"}

Targeted(tree) ==
  {t \in [do : {"assign_to", "check_target"}, node : Nodes(tree, {"assignment"}),
          target : Nat] : t.target \in DOMAIN tree[t.node].lefts}

Tasks(tree) ==
  [do : AnyNode, node : DOMAIN tree]
    \cup [do : {"type_unary"}, node : Nodes(tree, {"unary"})]
    \cup [do : {"type_binary"}, node : Nodes(tree, {"binary"})]
    \cup [do : {"check_right", "type_assignment"},
          node : Nodes(tree, {"assignment"})]
    \cup Targeted(tree)
    \cup [do : {"resolve_call"}, node : Nodes(tree, {"call"})]
    \cup [do : {"last_of"}, node : Nodes(tree, Blocks)]
    \cup [do : {"deduce_type"}, node : Nodes(tree, {"value_block"}),
          outer : DOMAIN tree \cup {Null}]
    \cup [do : {"analyze_func"}, node : Nodes(tree, {"function_definition"}),
          recursive : BOOLEAN]
    \cup [do : {"leave_analyzer"}, outer : Analyzers(tree)]
    \cup [do : {"pop_function"}]

IInv == outcome # "bad_type" =>
          /\ IsTree(ast)
          /\ root \in DOMAIN ast \cup {Null}
          /\ todo \in Seq(Tasks(ast))
          /\ analyzer \in Analyzers(ast)

-----------------------------------------------------------------------------
(* What a task says of the node it is about.                               *)
LEMMA TaskOf ==
  ASSUME NEW tree, NEW t \in Tasks(tree)
  PROVE  /\ t.do \in AnyNode => t.node \in DOMAIN tree
         /\ t.do = "type_unary" => t.node \in Nodes(tree, {"unary"})
         /\ t.do = "type_binary" => t.node \in Nodes(tree, {"binary"})
         /\ t.do \in {"check_right", "type_assignment", "assign_to", "check_target"}
              => t.node \in Nodes(tree, {"assignment"})
         /\ t.do \in {"assign_to", "check_target"}
              => t.target \in DOMAIN tree[t.node].lefts
         /\ t.do = "resolve_call" => t.node \in Nodes(tree, {"call"})
         /\ t.do = "last_of" => t.node \in Nodes(tree, Blocks)
         /\ t.do = "deduce_type" => /\ t.node \in Nodes(tree, {"value_block"})
                                    /\ t.outer \in DOMAIN tree \cup {Null}
         /\ t.do = "analyze_func"
              => /\ t.node \in Nodes(tree, {"function_definition"})
                 /\ t.recursive \in BOOLEAN
         /\ t.do = "leave_analyzer" => t.outer \in Analyzers(tree)
BY DEF Tasks, Targeted, AnyNode

(* Tasks and analyzers remain what they are when the tree grows.           *)
LEMMA TasksGrow ==
  ASSUME NEW tree, NEW new, Grows(tree, new)
  PROVE  Tasks(tree) \subseteq Tasks(new) /\ Analyzers(tree) \subseteq Analyzers(new)
<1>1. \A kinds : Nodes(tree, kinds) \subseteq Nodes(new, kinds)
  BY DEF Grows, Nodes
<1>2. Seq(Nodes(tree, Scopes)) \subseteq Seq(Nodes(new, Scopes))
  BY <1>1, SeqMonotonic
<1>3. Analyzers(tree) \subseteq Analyzers(new)
  BY <1>2 DEF Analyzers, Grows
<1>4. Targeted(tree) \subseteq Targeted(new)
  BY <1>1 DEF Targeted, Grows, Nodes
<1> QED
  BY <1>1, <1>3, <1>4 DEF Tasks, Grows

(* Things to do in front of the rest of what is to do.                     *)
LEMMA InFront ==
  ASSUME NEW T, NEW U, T \subseteq U, NEW rest \in Seq(T), rest # <<>>,
         NEW s \in Seq(U)
  PROVE  Tail(rest) \in Seq(U) /\ s \o Tail(rest) \in Seq(U)
<1>1. Tail(rest) \in Seq(U)
  BY HeadTailProperties, SeqMonotonic
<1> QED
  BY <1>1, ConcatProperties

(* A step of a handler, from what it writes and goes on with.              *)
LEMMA HandlerKeeps ==
  ASSUME IInv, outcome # "bad_type", todo # <<>>,
         IsTree(ast'), Grows(ast, ast'), root' = root,
         analyzer' \in Analyzers(ast'),
         NEW s \in Seq(Tasks(ast')),
         todo' = s \o Tail(todo) \/ todo' = Tail(todo)
  PROVE  IInv'
<1>1. Tasks(ast) \subseteq Tasks(ast')
  BY TasksGrow
<1>2. todo' \in Seq(Tasks(ast'))
  BY <1>1, InFront DEF IInv
<1> QED
  BY <1>2 DEF IInv, Grows

(* The parts of a node are nodes of the tree.                              *)
LEMMA PartsAreNodes ==
  ASSUME NEW tree, IsTree(tree), NEW n \in DOMAIN tree
  PROVE  LET ref == tree[n]
         IN  /\ ref.node = "binary"
                  => ref.left \in DOMAIN tree /\ ref.right \in DOMAIN tree
             /\ ref.node \in {"unary", "print", "subscript"} => ref.expr \in DOMAIN tree
             /\ ref.node = "assignment" => /\ ref.lefts \in Seq(DOMAIN tree)
                                           /\ ref.lefts # <<>>
                                           /\ ref.right \in DOMAIN tree
             /\ ref.node = "call" => ref.args \in Seq(DOMAIN tree)
             /\ ref.node = "fn_to_ptr" => ref.definition \in DOMAIN tree
             /\ ref.node = "function_definition" => ref.body \in DOMAIN tree
             /\ ref.node \in Blocks => ref.stmts \in Seq(DOMAIN tree)
             /\ ref.node = "while" => ref.cond \in DOMAIN tree /\ ref.block \in DOMAIN tree
             /\ ref.node = "if" => /\ ref.cond \in DOMAIN tree
                                   /\ ref.true_block \in DOMAIN tree
                                   /\ ref.else_block \in DOMAIN tree \cup {Null}
             /\ ref.node = "return" => ref.expr \in DOMAIN tree \cup {Null}
<1>1. IsNode(tree[n], DOMAIN tree)
  BY DEF IsTree
<1> QED
  BY <1>1 DEF IsNode, Blocks

(* The explorer goes on with nodes of the tree.                            *)
LEMMA ExploredAreNodes ==
  ASSUME NEW tree, IsTree(tree), NEW n \in DOMAIN tree
  PROVE  E!ExploredChildren(tree[n]) \in Seq(DOMAIN tree)
<1> DEFINE ref == tree[n]
<1>1. CASE ref.node = "binary"
  <2>1. E!ExploredChildren(ref) = <<ref.right, ref.left>>
    BY <1>1 DEF E!ExploredChildren, E!Blocks
  <2> QED
    BY <1>1, <2>1, PartsAreNodes
<1>2. CASE ref.node \in {"print", "unary"}
  <2>1. E!ExploredChildren(ref) = <<ref.expr>>
    BY <1>2 DEF E!ExploredChildren, E!Blocks
  <2> QED
    BY <1>2, <2>1, PartsAreNodes
<1>3. CASE ref.node = "assignment"
  <2>1. E!ExploredChildren(ref) = <<ref.right>>
    BY <1>3 DEF E!ExploredChildren, E!Blocks
  <2> QED
    BY <1>3, <2>1, PartsAreNodes
<1>4. CASE ref.node \in Blocks
  <2>1. E!ExploredChildren(ref) = ref.stmts
    BY <1>4 DEF E!ExploredChildren, E!Blocks, Blocks
  <2> QED
    BY <1>4, <2>1, PartsAreNodes
<1>5. CASE ref.node = "while"
  <2>1. E!ExploredChildren(ref) = <<ref.cond, ref.block>>
    BY <1>5 DEF E!ExploredChildren, E!Blocks
  <2> QED
    BY <1>5, <2>1, PartsAreNodes
<1>6. CASE ref.node = "if"
  <2>1. E!ExploredChildren(ref) =
          <<ref.cond, ref.true_block>>
            \o (IF ref.else_block = Null THEN <<>> ELSE <<ref.else_block>>)
    BY <1>6 DEF E!ExploredChildren, E!Blocks, E!Null, Null
  <2>2. /\ ref.cond \in DOMAIN tree /\ ref.true_block \in DOMAIN tree
        /\ ref.else_block \in DOMAIN tree \cup {Null}
    BY <1>6, PartsAreNodes
  <2>3. CASE ref.else_block = Null
    <3>1. E!ExploredChildren(ref) = <<ref.cond, ref.true_block>> \o <<>>
      BY <2>1, <2>3
    <3> QED
      BY <2>2, <3>1, EmptySeq, ConcatProperties
  <2>4. CASE ref.else_block # Null
    <3>1. E!ExploredChildren(ref) = <<ref.cond, ref.true_block>> \o <<ref.else_block>>
      BY <2>1, <2>4
    <3> QED
      BY <2>2, <2>4, <3>1, ConcatProperties
  <2> QED
    BY <2>3, <2>4
<1>7. CASE ref.node = "return"
  <2>1. E!ExploredChildren(ref) = IF ref.expr = Null THEN <<>> ELSE <<ref.expr>>
    BY <1>7 DEF E!ExploredChildren, E!Blocks, E!Null, Null
  <2>2. CASE ref.expr = Null
    BY <2>1, <2>2, EmptySeq
  <2>3. CASE ref.expr # Null
    <3>1. E!ExploredChildren(ref) = <<ref.expr>>
      BY <2>1, <2>3
    <3> QED
      BY <1>7, <2>3, <3>1, PartsAreNodes
  <2> QED
    BY <2>2, <2>3
<1>8. CASE ref.node \notin {"binary", "print", "unary", "assignment", "while",
                           "if", "return"} \cup Blocks
  <2>1. E!ExploredChildren(ref) = <<>>
    BY <1>8 DEF E!ExploredChildren, E!Blocks, Blocks
  <2> QED
    BY <2>1
<1> QED
  BY <1>1, <1>2, <1>3, <1>4, <1>5, <1>6, <1>7, <1>8

(* What a list of nodes makes to do.                                       *)
LEMMA DoAll ==
  ASSUME NEW tree, NEW s \in Seq(DOMAIN tree)
  PROVE  E!ExploreAll(s) \in Seq(Tasks(tree)) /\ A!ApplyAll(s) \in Seq(Tasks(tree))
<1>1. DOMAIN s = 1 .. Len(s) /\ Len(s) \in Nat
  BY LenProperties
<1>2. \A k \in DOMAIN s : /\ E!Explore(s[k]) \in Tasks(tree)
                          /\ A!Apply(s[k]) \in Tasks(tree)
  BY <1>1, ElementOfSeq DEF Tasks, AnyNode, E!Explore, A!Apply
<1> QED
  BY <1>1, <1>2 DEF E!ExploreAll, A!ApplyAll

-----------------------------------------------------------------------------
(* The explorer.                                                           *)
LEMMA ExploreKeeps ==
  ASSUME IInv, ExploreTree
  PROVE  IInv'
<1>1. outcome = "exploring"
  BY DEF ExploreTree, E!ExploreStep, E!ExploreChildren, E!ExploreDefinition,
         E!ExploreRedefinition, E!ExploreUnnamed, E!LeaveFunction,
         E!ExploreCall, E!ExploreFunctionPtr, E!Exploring, E!Doing
<1>2. todo # <<>>
  BY DEF ExploreTree, E!ExploreStep, E!ExploreChildren, E!ExploreDefinition,
         E!ExploreRedefinition, E!ExploreUnnamed, E!LeaveFunction,
         E!ExploreCall, E!ExploreFunctionPtr, E!Exploring, E!Doing
<1>3. /\ IsTree(ast) /\ todo \in Seq(Tasks(ast)) /\ Head(todo) \in Tasks(ast)
      /\ analyzer \in Analyzers(ast) /\ analyzer' = analyzer
  BY <1>1, <1>2, HeadTailProperties DEF IInv, ExploreTree
<1>4. E!Task.do = "explore" => E!Task.node \in DOMAIN ast
  BY <1>3, TaskOf DEF E!Task, AnyNode
<1> DEFINE Kept(s) == /\ root' = root
                      /\ IsTree(ast') /\ Grows(ast, ast')
                      /\ s \in Seq(Tasks(ast'))
                      /\ todo' = s \o Tail(todo) \/ todo' = Tail(todo)
<1>5. ASSUME NEW s, Kept(s) PROVE IInv'
  <2>1. analyzer' \in Analyzers(ast')
    BY <1>3, <1>5, TasksGrow
  <2> QED
    BY <1>1, <1>2, <1>5, <2>1, HandlerKeeps
<1>6. \A n \in DOMAIN ast : <<E!Explore(n)>> \in Seq(Tasks(ast))
  BY DEF Tasks, AnyNode, E!Explore
<1>7. IsTree(ast) /\ Grows(ast, ast)
  BY <1>3 DEF Grows
<1>8. CASE E!ExploreChildren
  <2>1. E!ExploredChildren(E!Ref) \in Seq(DOMAIN ast)
    <3>1. E!Ref = ast[E!Task.node] /\ E!Task.node \in DOMAIN ast
      BY <1>8, <1>4 DEF E!ExploreChildren, E!Doing, E!Ref
    <3> QED
      BY <3>1, <1>3, ExploredAreNodes
  <2> QED
    BY <1>5, <1>7, <1>8, <2>1, DoAll DEF E!ExploreChildren
<1>9. CASE E!ExploreDefinition
  <2>1. E!Ref.body \in DOMAIN ast
    BY <1>3, <1>4, <1>9, PartsAreNodes DEF E!ExploreDefinition, E!Exploring, E!Doing, E!Ref
  <2>2. <<E!Explore(E!Ref.body), E!PopFunction>> \in Seq(Tasks(ast))
    BY <2>1 DEF Tasks, AnyNode, E!Explore, E!PopFunction
  <2> QED
    BY <1>5, <1>7, <1>9, <2>2 DEF E!ExploreDefinition
<1>10. CASE E!ExploreRedefinition \/ E!LeaveFunction
  BY <1>5, <1>7, <1>10, EmptySeq DEF E!ExploreRedefinition, E!LeaveFunction
<1>11. CASE E!ExploreUnnamed
  BY <1>1, <1>3, <1>11, EmptySeq DEF E!ExploreUnnamed, IInv
<1>12. CASE E!ExploreCall
  <2>1. /\ ast[E!Task.node].node = "call" /\ E!Task.node \in DOMAIN ast
    BY <1>4, <1>12 DEF E!ExploreCall, E!Exploring, E!Doing
  <2>2. E!Ref.args \in Seq(DOMAIN ast)
    BY <1>3, <2>1, PartsAreNodes DEF E!Ref
  <2>3. PICK v : ast' = [ast EXCEPT ![E!Task.node] = [@ EXCEPT !["def"] = v]]
    BY <1>12 DEF E!ExploreCall
  <2>4. IsTree(ast') /\ Grows(ast, ast')
    BY <1>3, <2>3, AnnotateTree DEF Annotations
  <2>5. E!ExploreAll(E!Ref.args) \in Seq(Tasks(ast'))
    BY <2>2, <2>4, DoAll, TasksGrow, SeqMonotonic
  <2> QED
    BY <1>5, <1>12, <2>4, <2>5 DEF E!ExploreCall
<1>13. CASE E!ExploreFunctionPtr
  <2> DEFINE def == E!Ref.definition
  <2>1. def \in DOMAIN ast
    BY <1>3, <1>4, <1>13, PartsAreNodes DEF E!ExploreFunctionPtr, E!Exploring, E!Doing, E!Ref
  <2>2. PICK v : ast' = [ast EXCEPT ![def] = [@ EXCEPT !["name"] = v]]
    BY <1>13 DEF E!ExploreFunctionPtr
  <2>3. IsTree(ast') /\ Grows(ast, ast')
    BY <1>3, <2>2, AnnotateTree DEF Annotations
  <2>4. <<E!Explore(def)>> \in Seq(Tasks(ast'))
    BY <1>6, <2>1, <2>3, TasksGrow, SeqMonotonic
  <2> QED
    BY <1>5, <1>13, <2>3, <2>4 DEF E!ExploreFunctionPtr
<1> QED
  BY <1>8, <1>9, <1>10, <1>11, <1>12, <1>13 DEF ExploreTree, E!ExploreStep

-----------------------------------------------------------------------------
(* The analyser.  What there is when a handler goes on.                    *)
LEMMA Working ==
  ASSUME IInv, NEW what, A!Doing(what)
  PROVE  /\ outcome = "working" /\ todo # <<>>
         /\ IsTree(ast) /\ analyzer \in Analyzers(ast)
         /\ A!Task \in Tasks(ast) /\ A!Task.do = what
         /\ root \in DOMAIN ast \cup {Null}
BY HeadTailProperties DEF IInv, A!Doing, A!Task

(* A handler that leaves the tree alone.                                   *)
LEMMA LeavesTree ==
  ASSUME IInv, NEW what, A!Doing(what), ast' = ast, root' = root,
         analyzer' \in Analyzers(ast), NEW s \in Seq(Tasks(ast)),
         A!GoOn(s) \/ A!Return
  PROVE  IInv'
<1>1. Grows(ast, ast') /\ IsTree(ast')
  BY Working DEF Grows
<1> QED
  BY <1>1, Working, HandlerKeeps DEF A!GoOn, A!Return

(* A handler that writes a type, or another annotation, into a node.       *)
LEMMA WritesTree ==
  ASSUME IInv, NEW what, A!Doing(what), NEW n, NEW f \in Annotations, NEW v,
         n \in DOMAIN ast /\ ast[n].node = "variable" /\ f = "type" => v # NoType,
         ast' = [ast EXCEPT ![n] = [@ EXCEPT ![f] = v]], root' = root,
         analyzer' \in Analyzers(ast), NEW s \in Seq(Tasks(ast)),
         A!GoOn(s) \/ A!Return
  PROVE  IInv'
<1>1. IsTree(ast) /\ outcome = "working" /\ todo # <<>>
  BY Working
<1>2. IsTree(ast') /\ Grows(ast, ast')
  BY <1>1, AnnotateTree
<1>3. Tasks(ast) \subseteq Tasks(ast') /\ Analyzers(ast) \subseteq Analyzers(ast')
  BY <1>2, TasksGrow
<1>4. s \in Seq(Tasks(ast'))
  BY <1>3, SeqMonotonic
<1> QED
  BY <1>1, <1>2, <1>3, <1>4, HandlerKeeps DEF A!GoOn, A!Return

(* A handler an exception leaves.                                          *)
LEMMA BreaksTree ==
  ASSUME IInv, NEW what, A!Doing(what), NEW how, A!Break(how)
  PROVE  IInv'
<1>1. todo' \in Seq(Tasks(ast))
  BY EmptySeq DEF A!Break, A!BreakWith
<1> QED
  BY <1>1, Working DEF IInv, A!Break, A!BreakWith

(* What the tasks a handler goes on with are made of.                      *)
LEMMA TasksMade ==
  ASSUME NEW tree, NEW n \in DOMAIN tree
  PROVE  /\ A!Apply(n) \in Tasks(tree) /\ A!ExpectInt(n) \in Tasks(tree)
         /\ tree[n].node = "unary" => A!TypeUnary(n) \in Tasks(tree)
         /\ tree[n].node = "binary" => A!TypeBinary(n) \in Tasks(tree)
         /\ A!SetReturnType(n) \in Tasks(tree) /\ A!TypePointer(n) \in Tasks(tree)
         /\ tree[n].node = "assignment"
              => A!CheckRight(n) \in Tasks(tree) /\ A!TypeAssignment(n) \in Tasks(tree)
         /\ tree[n].node = "call" => A!ResolveCall(n) \in Tasks(tree)
         /\ tree[n].node \in Blocks => A!LastOf(n) \in Tasks(tree)
         /\ tree[n].node = "value_block"
              => \A outer \in DOMAIN tree \cup {Null} :
                   A!DeduceType(n, outer) \in Tasks(tree)
         /\ tree[n].node = "function_definition"
              => \A recursive \in BOOLEAN :
                   A!AnalyzeFunc(n, recursive) \in Tasks(tree)
BY DEF Tasks, AnyNode, Nodes, A!Apply, A!ExpectInt, A!TypeUnary, A!TypeBinary,
       A!SetReturnType, A!TypePointer, A!CheckRight, A!TypeAssignment,
       A!ResolveCall, A!LastOf, A!DeduceType, A!AnalyzeFunc

(* A target is one of the left sides of the assignment.                    *)
LEMMA TargetsMade ==
  ASSUME NEW tree, NEW n \in Nodes(tree, {"assignment"}),
         NEW k \in Nat, k \in DOMAIN tree[n].lefts
  PROVE  A!AssignTo(n, k) \in Tasks(tree) /\ A!CheckTarget(n, k) \in Tasks(tree)
BY DEF Tasks, Targeted, A!AssignTo, A!CheckTarget

(* The analyser to go back to is one.                                      *)
LEMMA LeaveMade ==
  ASSUME NEW tree, NEW outer \in Analyzers(tree)
  PROVE  A!LeaveAnalyzer(outer) \in Tasks(tree)
BY DEF Tasks, A!LeaveAnalyzer

(* What the handlers that begin with the children go on with.              *)
LEMMA FirstAreTasks ==
  ASSUME NEW tree, IsTree(tree), NEW n \in DOMAIN tree,
         tree[n].node \in {"unary", "binary", "print", "while", "if",
                           "assignment", "call"}
  PROVE  A!ChildrenFirst(tree[n], n) \in Seq(Tasks(tree))
<1> DEFINE ref == tree[n]
<1>1. CASE ref.node = "unary"
  <2>1. A!ChildrenFirst(ref, n) = <<A!Apply(ref.expr), A!TypeUnary(n)>>
    BY <1>1 DEF A!ChildrenFirst
  <2> QED
    BY <1>1, <2>1, PartsAreNodes, TasksMade
<1>2. CASE ref.node = "binary"
  <2>1. A!ChildrenFirst(ref, n) =
          <<A!Apply(ref.right), A!Apply(ref.left), A!TypeBinary(n)>>
    BY <1>2 DEF A!ChildrenFirst
  <2> QED
    BY <1>2, <2>1, PartsAreNodes, TasksMade
<1>3. CASE ref.node = "print"
  <2>1. A!ChildrenFirst(ref, n) = <<A!Apply(ref.expr), A!ExpectInt(ref.expr)>>
    BY <1>3 DEF A!ChildrenFirst
  <2> QED
    BY <1>3, <2>1, PartsAreNodes, TasksMade
<1>4. CASE ref.node = "while"
  <2>1. A!ChildrenFirst(ref, n) =
          <<A!Apply(ref.cond), A!ExpectInt(ref.cond), A!Apply(ref.block)>>
    BY <1>4 DEF A!ChildrenFirst
  <2> QED
    BY <1>4, <2>1, PartsAreNodes, TasksMade
<1>5. CASE ref.node = "if"
  <2> DEFINE first == <<A!Apply(ref.cond), A!ExpectInt(ref.cond),
                        A!Apply(ref.true_block)>>
  <2>1. first \in Seq(Tasks(tree))
    BY <1>5, PartsAreNodes, TasksMade
  <2>2. A!ChildrenFirst(ref, n) =
          first \o (IF ref.else_block = Null THEN <<>>
                    ELSE <<A!Apply(ref.else_block)>>)
    BY <1>5 DEF A!ChildrenFirst, A!Null, Null
  <2>3. CASE ref.else_block = Null
    <3>1. A!ChildrenFirst(ref, n) = first \o <<>>
      BY <2>2, <2>3
    <3> HIDE DEF first
    <3> QED
      BY <2>1, <3>1, EmptySeq, ConcatProperties
  <2>4. CASE ref.else_block # Null
    <3>1. A!ChildrenFirst(ref, n) = first \o <<A!Apply(ref.else_block)>>
      BY <2>2, <2>4
    <3>2. <<A!Apply(ref.else_block)>> \in Seq(Tasks(tree))
      BY <1>5, <2>4, PartsAreNodes, TasksMade
    <3> HIDE DEF first
    <3> QED
      BY <2>1, <3>1, <3>2, ConcatProperties
  <2> QED
    BY <2>3, <2>4
<1>6. CASE ref.node = "assignment"
  <2>1. A!ChildrenFirst(ref, n) = <<A!Apply(ref.right), A!CheckRight(n)>>
    BY <1>6 DEF A!ChildrenFirst
  <2> QED
    BY <1>6, <2>1, PartsAreNodes, TasksMade
<1>7. CASE ref.node = "call"
  <2>1. A!ChildrenFirst(ref, n) = A!ApplyAll(ref.args) \o <<A!ResolveCall(n)>>
    BY <1>7 DEF A!ChildrenFirst
  <2>2. <<A!ResolveCall(n)>> \in Seq(Tasks(tree))
    BY <1>7, TasksMade
  <2> QED
    BY <1>7, <2>1, <2>2, PartsAreNodes, DoAll, ConcatProperties
<1> QED
  BY <1>1, <1>2, <1>3, <1>4, <1>5, <1>6, <1>7

(* A block or a function begins a scope.                                   *)
LEMMA ScopeBegun ==
  ASSUME analyzer \in Analyzers(ast), NEW n \in Nodes(ast, Scopes)
  PROVE  /\ A!WithScope(n) \in Analyzers(ast)
         /\ \A r \in DOMAIN ast \cup {Null} :
              [A!WithScope(n) EXCEPT !.returns = r] \in Analyzers(ast)
         /\ \A t \in BOOLEAN :
              [A!WithScope(n) EXCEPT !.tolerant = t] \in Analyzers(ast)
<1>1. Append(analyzer.scopes, n) \in Seq(Nodes(ast, Scopes))
  BY AppendProperties DEF Analyzers
<1> QED
  BY <1>1 DEF Analyzers, A!WithScope

(* A name that is found is found in a table, which gives it a typed node.  *)
LEMMA FoundIsTyped ==
  ASSUME IsTree(ast), analyzer \in Analyzers(ast), NEW name, A!IsDeclared(name)
  PROVE  /\ A!Definition(name) \in Nodes(ast, {"variable"})
         /\ ast[A!Definition(name)].type # NoType
<1> DEFINE scopes == analyzer.scopes
           found  == A!Holding(name)
<1>1. /\ scopes \in Seq(Nodes(ast, Scopes)) /\ Len(scopes) \in Nat
      /\ DOMAIN scopes = 1 .. Len(scopes)
  BY LenProperties DEF Analyzers
<1>2. found \subseteq 1 .. Len(scopes) /\ found # {}
  BY <1>1 DEF A!IsDeclared, A!Holding
<1>3. PICK k \in found : \A j \in found : k >= j
  BY <1>1, <1>2, GreatestExists
<1>4. A!Max(found) \in found
  BY <1>3 DEF A!Max
<1>5. /\ scopes[A!Max(found)] \in Nodes(ast, Scopes)
      /\ name \in DOMAIN ast[scopes[A!Max(found)]].stab
  BY <1>1, <1>2, <1>4, ElementOfSeq DEF A!Holding, A!Scope
<1> QED
  BY <1>5 DEF IsTree, HoldsTyped, Nodes, A!Definition, A!Scope

(* The types the analyser makes up are not the missing one.                *)
LEMMA TypesAreTypes ==
  /\ A!IntType # NoType
  /\ \A tree, def : A!TypeOfDefinition(tree, def) # NoType
BY DEF A!IntType, NoType, A!TypeOfDefinition, A!FuncType

-----------------------------------------------------------------------------
(* The handlers that write nothing into the tree.                          *)
LEMMA VisitsKeep ==
  ASSUME IInv, A!AnalyzeLeaf \/ A!AnalyzeErrorNode \/ A!AnalyzeChildrenFirst
               \/ A!ExpectIntStep \/ A!AnalyzeSubscript \/ A!LastStays
               \/ A!CallUnresolved \/ A!LeaveAnalyzerStep
  PROVE  IInv'
<1>1. <<>> \in Seq(Tasks(ast))
  BY EmptySeq
<1>2. CASE A!AnalyzeLeaf \/ A!AnalyzeErrorNode
  <2>1. A!Doing("apply")
    BY <1>2 DEF A!AnalyzeLeaf, A!AnalyzeErrorNode, A!Applying
  <2> QED
    BY <1>1, <1>2, <2>1, Working, LeavesTree DEF A!AnalyzeLeaf, A!AnalyzeErrorNode
<1>3. CASE A!AnalyzeChildrenFirst
  <2>1. A!Doing("apply") /\ A!Ref = ast[A!Task.node]
    BY <1>3 DEF A!AnalyzeChildrenFirst, A!Applying, A!Ref
  <2>2. A!Task.node \in DOMAIN ast
    BY <2>1, Working, TaskOf DEF AnyNode
  <2>3. A!ChildrenFirst(A!Ref, A!Task.node) \in Seq(Tasks(ast))
    BY <1>3, <2>1, <2>2, Working, FirstAreTasks DEF A!AnalyzeChildrenFirst, A!Applying
  <2> QED
    BY <1>3, <2>1, <2>3, Working, LeavesTree DEF A!AnalyzeChildrenFirst
<1>4. CASE A!ExpectIntStep
  BY <1>1, <1>4, Working, LeavesTree DEF A!ExpectIntStep
<1>5. CASE A!AnalyzeSubscript
  <2>1. A!Doing("apply") /\ A!Ref = ast[A!Task.node] /\ A!Ref.node = "subscript"
    BY <1>5 DEF A!AnalyzeSubscript, A!Applying, A!Ref
  <2>2. A!Task.node \in DOMAIN ast
    BY <2>1, Working, TaskOf DEF AnyNode
  <2>3. <<A!Apply(A!Ref.expr)>> \in Seq(Tasks(ast))
    BY <2>1, <2>2, Working, PartsAreNodes, TasksMade
  <2> QED
    BY <1>1, <1>5, <2>1, <2>3, Working, LeavesTree DEF A!AnalyzeSubscript
<1>6. CASE A!LastStays
  BY <1>1, <1>6, Working, LeavesTree DEF A!LastStays
<1>7. CASE A!CallUnresolved
  BY <1>1, <1>7, Working, LeavesTree DEF A!CallUnresolved
<1>8. CASE A!LeaveAnalyzerStep
  <2>1. A!Task.outer \in Analyzers(ast)
    BY <1>8, Working, TaskOf DEF A!LeaveAnalyzerStep
  <2> QED
    BY <1>1, <1>8, <2>1, Working, LeavesTree DEF A!LeaveAnalyzerStep
<1> QED
  BY <1>2, <1>3, <1>4, <1>5, <1>6, <1>7, <1>8

(* The handlers that end the analysis, and its own end.                    *)
LEMMA EndsKeep ==
  ASSUME IInv, A!LastTypeMissing \/ A!DeduceFromEmpty \/ A!ReturnOutside
               \/ A!AnalyzeUnnamed \/ A!Finish
  PROVE  IInv'
<1>1. CASE A!LastTypeMissing
  BY <1>1, BreaksTree DEF A!LastTypeMissing
<1>2. CASE A!DeduceFromEmpty
  BY <1>2, BreaksTree DEF A!DeduceFromEmpty
<1>3. CASE A!ReturnOutside
  BY <1>3, BreaksTree DEF A!ReturnOutside, A!Applying
<1>4. CASE A!AnalyzeUnnamed
  BY <1>4, BreaksTree DEF A!AnalyzeUnnamed, A!Applying
<1>5. CASE A!Finish
  BY <1>5 DEF A!Finish, IInv
<1> QED
  BY <1>1, <1>2, <1>3, <1>4, <1>5

(* Blocks and functions.                                                   *)
LEMMA ScopesKeep ==
  ASSUME IInv, A!BeginStatementBlock \/ A!BeginValueBlock \/ A!DeduceReturnType
               \/ A!AnalyzeReturn \/ A!AnalyzeDefinition \/ A!AnalyzeFuncStep
               \/ A!SetReturnTypeStep \/ A!AnalyzeFunctionPtr
               \/ A!TypePointerStep \/ A!AnalyzeMainStep
  PROVE  IInv'
<1> DEFINE n == A!Task.node
<1>1. <<>> \in Seq(Tasks(ast))
  BY EmptySeq
<1>2. A!Doing("apply") => /\ IsTree(ast) /\ analyzer \in Analyzers(ast)
                          /\ n \in DOMAIN ast /\ A!Ref = ast[n]
  BY Working, TaskOf DEF AnyNode, A!Ref
<1>3. CASE A!BeginStatementBlock
  <2>1. A!Doing("apply") /\ ast[n].node = "statement_block"
    BY <1>3 DEF A!BeginStatementBlock, A!Applying
  <2>2. A!ApplyAll(A!Ref.stmts) \o <<A!LastOf(n)>> \in Seq(Tasks(ast))
    <3>1. A!ApplyAll(A!Ref.stmts) \in Seq(Tasks(ast))
      BY <1>2, <2>1, PartsAreNodes, DoAll DEF Blocks
    <3>2. <<A!LastOf(n)>> \in Seq(Tasks(ast))
      BY <1>2, <2>1, TasksMade DEF Blocks
    <3> QED
      BY <3>1, <3>2, ConcatProperties
  <2>3. A!WithScope(n) \in Analyzers(ast)
    BY <1>2, <2>1, ScopeBegun DEF Nodes, Scopes, Blocks
  <2> QED
    BY <1>3, <2>1, <2>2, <2>3, LeavesTree DEF A!BeginStatementBlock
<1>4. CASE A!BeginValueBlock
  <2> DEFINE s == A!ApplyAll(A!Ref.stmts)
                    \o <<A!LastOf(n), A!DeduceType(n, A!Returns)>>
  <2>1. A!Doing("apply") /\ ast[n].node = "value_block"
    BY <1>4 DEF A!BeginValueBlock, A!Applying
  <2>2. A!Returns \in DOMAIN ast \cup {Null}
    BY <1>2, <2>1 DEF Analyzers, A!Returns
  <2>3. s \in Seq(Tasks(ast))
    <3>1. A!ApplyAll(A!Ref.stmts) \in Seq(Tasks(ast))
      BY <1>2, <2>1, PartsAreNodes, DoAll DEF Blocks
    <3>2. <<A!LastOf(n), A!DeduceType(n, A!Returns)>> \in Seq(Tasks(ast))
      BY <1>2, <2>1, <2>2, TasksMade DEF Blocks
    <3> QED
      BY <3>1, <3>2, ConcatProperties
  <2>4. [A!WithScope(n) EXCEPT !.returns = n] \in Analyzers(ast)
    BY <1>2, <2>1, ScopeBegun DEF Nodes, Scopes, Blocks
  <2>5. PICK v : ast' = [ast EXCEPT ![n] = [@ EXCEPT !["returns"] = v]]
    BY <1>4 DEF A!BeginValueBlock
  <2>6. root' = root /\ analyzer' \in Analyzers(ast) /\ A!GoOn(s)
    BY <1>4, <2>4 DEF A!BeginValueBlock
  <2> QED
    BY <2>1, <2>3, <2>5, <2>6, WritesTree DEF Annotations
<1>5. CASE A!DeduceReturnType
  <2>1. A!Doing("deduce_type")
    BY <1>5 DEF A!DeduceReturnType
  <2>2. /\ n \in Nodes(ast, {"value_block"})
        /\ A!Task.outer \in DOMAIN ast \cup {Null}
        /\ analyzer \in Analyzers(ast)
    BY <2>1, Working, TaskOf
  <2>3. PICK v : ast' = [ast EXCEPT ![n] = [@ EXCEPT !["type"] = v]]
    BY <1>5 DEF A!DeduceReturnType
  <2>4. root' = root /\ analyzer' \in Analyzers(ast) /\ A!Return
    BY <1>5, <2>2 DEF A!DeduceReturnType, Analyzers
  <2> QED
    BY <1>1, <2>1, <2>2, <2>3, <2>4, WritesTree DEF Annotations, Nodes
<1>6. CASE A!AnalyzeReturn
  <2> DEFINE s == IF A!Ref.expr = Null THEN <<>> ELSE <<A!Apply(A!Ref.expr)>>
  <2>1. A!Doing("apply") /\ ast[n].node = "return"
    BY <1>6 DEF A!AnalyzeReturn, A!Applying
  <2>2. s \in Seq(Tasks(ast))
    <3>1. CASE A!Ref.expr = Null
      BY <1>1, <3>1
    <3>2. CASE A!Ref.expr # Null
      <4>1. <<A!Apply(A!Ref.expr)>> \in Seq(Tasks(ast))
        BY <1>2, <2>1, <3>2, PartsAreNodes, TasksMade
      <4> QED
        BY <3>2, <4>1
    <3> QED
      BY <3>1, <3>2
  <2>3. PICK v : ast' = [ast EXCEPT ![A!Returns] = [@ EXCEPT !["returns"] = v]]
    BY <1>6 DEF A!AnalyzeReturn
  <2>4. root' = root /\ analyzer' \in Analyzers(ast) /\ A!GoOn(s)
    BY <1>2, <1>6, <2>1 DEF A!AnalyzeReturn, A!Null, Null
  <2> QED
    BY <2>1, <2>2, <2>3, <2>4, WritesTree DEF Annotations
<1>7. CASE A!AnalyzeDefinition
  <2> DEFINE recursive == A!IsFunction(A!Ref.name)
                            /\ functions[A!Ref.name].recursive
  <2>1. A!Doing("apply") /\ ast[n].node = "function_definition"
    BY <1>7 DEF A!AnalyzeDefinition, A!Applying
  <2>2. A!LeaveAnalyzer(analyzer) \in Tasks(ast)
    BY <1>2, <2>1, LeaveMade
  <2>3. A!AnalyzeFunc(n, recursive) \in Tasks(ast)
    BY <1>2, <2>1, TasksMade
  <2>4. root' = root /\ ast' = ast
        /\ A!GoOn(<<A!AnalyzeFunc(n, recursive), A!LeaveAnalyzer(analyzer)>>)
    BY <1>7 DEF A!AnalyzeDefinition
  <2>5. analyzer' \in Analyzers(ast)
    BY <1>2, <1>7, <2>1 DEF A!AnalyzeDefinition, Analyzers, A!Null, Null
  <2> HIDE DEF recursive
  <2>6. <<A!AnalyzeFunc(n, recursive), A!LeaveAnalyzer(analyzer)>> \in Seq(Tasks(ast))
    BY <2>2, <2>3
  <2> QED
    BY <2>1, <2>4, <2>5, <2>6, LeavesTree
<1>8. CASE A!AnalyzeFuncStep
  <2> DEFINE func  == A!AnalyzeFunc(n, FALSE)
             again == IF A!Task.recursive THEN <<func>> ELSE <<>>
             body  == <<A!Apply(A!Ref.body), A!SetReturnType(n)>>
  <2>1. A!Doing("analyze_func")
    BY <1>8 DEF A!AnalyzeFuncStep
  <2>2. /\ n \in DOMAIN ast /\ ast[n].node = "function_definition"
        /\ n \in Nodes(ast, Scopes) /\ A!Task.recursive \in BOOLEAN
        /\ analyzer \in Analyzers(ast) /\ IsTree(ast)
    BY <2>1, Working, TaskOf DEF Nodes, Scopes
  <2>3. analyzer' \in Analyzers(ast)
    BY <1>8, <2>2, ScopeBegun DEF A!AnalyzeFuncStep
  <2>4. again \in Seq(Tasks(ast))
    <3>1. func \in Tasks(ast)
      BY <2>2, TasksMade, Zenon
    <3> HIDE DEF func
    <3> QED
      BY <1>1, <3>1
  <2>5. body \in Seq(Tasks(ast))
    BY <2>2, PartsAreNodes, TasksMade DEF A!Ref
  <2>6. body \o again \in Seq(Tasks(ast))
    BY <2>4, <2>5, ConcatProperties
  <2>7. root' = root /\ ast' = ast /\ (A!GoOn(again) \/ A!GoOn(body \o again))
    BY <1>8 DEF A!AnalyzeFuncStep
  <2> QED
    BY <2>1, <2>3, <2>4, <2>6, <2>7, LeavesTree
<1>9. CASE A!SetReturnTypeStep
  <2>1. A!Doing("set_return_type") /\ root' = root /\ A!Return
    BY <1>9 DEF A!SetReturnTypeStep
  <2>2. PICK v : ast' = [ast EXCEPT ![n] = [@ EXCEPT !["return"] = v]]
    BY <1>9 DEF A!SetReturnTypeStep
  <2>3. analyzer' \in Analyzers(ast)
    BY <1>9, <2>1, Working DEF A!SetReturnTypeStep
  <2> QED
    BY <1>1, <2>1, <2>2, <2>3, WritesTree DEF Annotations
<1>10. CASE A!AnalyzeFunctionPtr
  <2>1. A!Doing("apply") /\ ast[n].node = "fn_to_ptr"
    BY <1>10 DEF A!AnalyzeFunctionPtr, A!Applying
  <2>2. <<A!Apply(A!Ref.definition), A!TypePointer(n)>> \in Seq(Tasks(ast))
    BY <1>2, <2>1, PartsAreNodes, TasksMade
  <2> QED
    BY <1>2, <1>10, <2>1, <2>2, LeavesTree DEF A!AnalyzeFunctionPtr
<1>11. CASE A!TypePointerStep
  <2>1. A!Doing("type_pointer") /\ root' = root /\ A!Return
    BY <1>11 DEF A!TypePointerStep
  <2>2. ast' = [ast EXCEPT ![n] = [@ EXCEPT !["type"] =
                                     A!TypeOfDefinition(ast, A!Ref.definition)]]
    BY <1>11 DEF A!TypePointerStep
  <2>3. analyzer' \in Analyzers(ast)
    BY <1>11, <2>1, Working DEF A!TypePointerStep
  <2> QED
    BY <1>1, <2>1, <2>2, <2>3, TypesAreTypes, WritesTree DEF Annotations
<1>12. CASE A!AnalyzeMainStep
  <2>1. A!Doing("analyze_main") /\ root' = root /\ ast' = ast
        /\ (A!Return \/ A!GoOn(<<A!Apply(n)>>))
    BY <1>12 DEF A!AnalyzeMainStep
  <2>2. n \in DOMAIN ast /\ analyzer \in Analyzers(ast)
    BY <2>1, Working, TaskOf DEF AnyNode
  <2>3. <<A!Apply(n)>> \in Seq(Tasks(ast)) /\ analyzer' \in Analyzers(ast)
    BY <1>12, <2>2, TasksMade DEF A!AnalyzeMainStep
  <2> QED
    BY <2>1, <2>3, LeavesTree
<1> QED
  BY <1>3, <1>4, <1>5, <1>6, <1>7, <1>8, <1>9, <1>10, <1>11, <1>12

(* Expressions and calls.                                                  *)
LEMMA ExpressionsKeep ==
  ASSUME IInv, A!TypeUnaryStep \/ A!TypeBinaryStep \/ A!AnalyzeVariable
               \/ A!TypeAssignmentStep \/ A!CallFunction \/ A!CallVariable
  PROVE  IInv'
<1> DEFINE n == A!Task.node
           Typed(v) == ast' = [ast EXCEPT ![n] = [@ EXCEPT !["type"] = v]]
<1>1. <<>> \in Seq(Tasks(ast)) /\ "type" \in Annotations
  BY EmptySeq DEF Annotations
<1>2. ASSUME NEW what, A!Doing(what), root' = root, analyzer' = analyzer,
             A!Return, NEW v, Typed(v) \/ ast' = ast,
             n \in DOMAIN ast /\ ast[n].node = "variable" => v # NoType
      PROVE  IInv'
  <2>1. analyzer' \in Analyzers(ast)
    BY <1>2, Working
  <2>2. CASE Typed(v)
    BY <1>1, <1>2, <2>1, <2>2, WritesTree
  <2>3. CASE ast' = ast
    BY <1>1, <1>2, <2>1, <2>3, LeavesTree
  <2> QED
    BY <1>2, <2>2, <2>3
<1>3. CASE A!TypeUnaryStep
  <2>1. /\ A!Doing("type_unary") /\ root' = root /\ analyzer' = analyzer
        /\ A!Return /\ (Typed(A!IntType) \/ ast' = ast)
    BY <1>3 DEF A!TypeUnaryStep
  <2> QED
    BY <1>2, <2>1, TypesAreTypes
<1>4. CASE A!TypeBinaryStep
  <2>1. /\ A!Doing("type_binary") /\ root' = root /\ analyzer' = analyzer
        /\ A!Return /\ (Typed(A!IntType) \/ ast' = ast)
    BY <1>4 DEF A!TypeBinaryStep
  <2> QED
    BY <1>2, <2>1, TypesAreTypes
<1>5. CASE A!AnalyzeVariable
  <2>1. /\ A!Doing("apply") /\ root' = root /\ analyzer' = analyzer /\ A!Return
    BY <1>5 DEF A!AnalyzeVariable, A!Applying
  <2>2. CASE A!IsDeclared(A!Ref.name)
    <3> DEFINE v == ast[A!Definition(A!Ref.name)].type
    <3>1. v # NoType
      BY <2>1, <2>2, Working, FoundIsTyped
    <3>2. Typed(v)
      BY <1>5, <2>2 DEF A!AnalyzeVariable
    <3> QED
      BY <1>2, <2>1, <3>1, <3>2
  <2>3. CASE ~A!IsDeclared(A!Ref.name)
    <3>1. ast' = ast
      BY <1>5, <2>3 DEF A!AnalyzeVariable
    <3> QED
      BY <1>2, <2>1, <3>1, TypesAreTypes
  <2> QED
    BY <2>2, <2>3
<1>6. CASE A!TypeAssignmentStep
  <2>1. /\ A!Doing("type_assignment") /\ root' = root /\ analyzer' = analyzer
        /\ A!Return /\ Typed(ast[A!Ref.right].type)
    BY <1>6 DEF A!TypeAssignmentStep
  <2>2. ast[n].node = "assignment"
    BY <2>1, Working, TaskOf DEF Nodes
  <2> QED
    BY <1>2, <2>1, <2>2
<1>7. ASSUME A!Doing("resolve_call") PROVE n \in DOMAIN ast /\ ast[n].node = "call"
  BY <1>7, Working, TaskOf DEF Nodes
<1>8. ASSUME NEW type, A!CheckCall(n, type)
      PROVE  Typed(A!ReturnType(type)) \/ ast' = ast
  BY <1>8 DEF A!CheckCall
<1>9. CASE A!CallFunction
  <2>1. PICK type : A!CheckCall(n, type)
    BY <1>9 DEF A!CallFunction
  <2>2. /\ A!Doing("resolve_call") /\ root' = root /\ analyzer' = analyzer
        /\ A!Return
    BY <1>9 DEF A!CallFunction
  <2>3. ast[n].node = "call" /\ (Typed(A!ReturnType(type)) \/ ast' = ast)
    BY <1>7, <1>8, <2>1, <2>2
  <2> QED
    BY <1>2, <2>2, <2>3
<1>10. CASE A!CallVariable
  <2> DEFINE type == ast[A!Definition(A!Ref.name)].type
  <2>1. CASE type = A!NoType
    BY <1>10, <2>1 DEF A!CallVariable, A!BreakWith, IInv
  <2>2. CASE type # A!NoType
    <3>1. /\ A!Doing("resolve_call") /\ root' = root /\ analyzer' = analyzer
          /\ A!Return /\ (A!CheckCall(n, type) \/ ast' = ast)
      BY <1>10, <2>2 DEF A!CallVariable
    <3>2. ast[n].node = "call" /\ (Typed(A!ReturnType(type)) \/ ast' = ast)
      BY <1>7, <1>8, <3>1
    <3> QED
      BY <1>2, <3>1, <3>2
  <2> QED
    BY <2>1, <2>2
<1> QED
  BY <1>3, <1>4, <1>5, <1>6, <1>9, <1>10

(* What is left of an assignment after one of its targets.                 *)
LEMMA TargetsLeft ==
  ASSUME NEW tree, IsTree(tree), NEW n \in Nodes(tree, {"assignment"}),
         NEW k \in Nat, k \in DOMAIN tree[n].lefts
  PROVE  A!TheRest(n, k) \in Seq(Tasks(tree))
<1>1. tree[n].lefts \in Seq(DOMAIN tree) /\ n \in DOMAIN tree
      /\ tree[n].node = "assignment"
  BY PartsAreNodes DEF Nodes
<1>2. CASE k = 1
  <2>1. A!TypeAssignment(n) \in Tasks(tree)
    BY <1>1, TasksMade
  <2> QED
    BY <1>2, <2>1 DEF A!TheRest
<1>3. CASE k # 1
  <2>1. k - 1 \in Nat /\ k - 1 \in DOMAIN tree[n].lefts
    BY <1>1, <1>3, LenProperties
  <2>2. A!AssignTo(n, k - 1) \in Tasks(tree)
    BY <2>1, TargetsMade
  <2> QED
    BY <1>3, <2>2 DEF A!TheRest
<1> QED
  BY <1>2, <1>3

(* What a target task is about.                                            *)
LEMMA TargetOf ==
  ASSUME IInv, A!Doing("assign_to") \/ A!Doing("check_target")
  PROVE  LET n == A!Task.node
             k == A!Task.target
         IN  /\ n \in Nodes(ast, {"assignment"}) /\ A!Ref = ast[n]
             /\ k \in Nat /\ k \in DOMAIN ast[n].lefts
             /\ A!Ref.lefts[k] \in DOMAIN ast
             /\ A!TheRest(n, k) \in Seq(Tasks(ast))
<1> DEFINE n == A!Task.node
           k == A!Task.target
<1>1. A!Task \in Tasks(ast) /\ A!Task.do \in {"assign_to", "check_target"} /\ IsTree(ast)
  BY Working
<1>2. A!Task \in Targeted(ast)
  BY <1>1 DEF Tasks, AnyNode
<1>3. n \in Nodes(ast, {"assignment"}) /\ k \in Nat /\ k \in DOMAIN ast[n].lefts
  BY <1>2 DEF Targeted
<1>4. ast[n].lefts \in Seq(DOMAIN ast)
  BY <1>1, <1>3, PartsAreNodes DEF Nodes
<1> QED
  BY <1>1, <1>3, <1>4, LenProperties, ElementOfSeq, TargetsLeft DEF A!Ref

(* Assignments to what there is.                                           *)
LEMMA AssignmentsKeep ==
  ASSUME IInv, A!CheckRightStep \/ A!AssignVariable \/ A!AssignElement
               \/ A!CheckTargetStep
  PROVE  IInv'
<1> DEFINE n == A!Task.node
           k == A!Task.target
           target == A!Ref.lefts[k]
<1>1. <<>> \in Seq(Tasks(ast))
  BY EmptySeq
<1>2. CASE A!CheckRightStep
  <2>1. A!Doing("check_right") /\ root' = root /\ ast' = ast
        /\ analyzer' = analyzer
    BY <1>2 DEF A!CheckRightStep
  <2>2. A!Return \/ A!GoOn(<<A!AssignTo(n, Len(A!Ref.lefts))>>)
    BY <1>2 DEF A!CheckRightStep
  <2>3. n \in Nodes(ast, {"assignment"}) /\ analyzer \in Analyzers(ast)
    BY <2>1, Working, TaskOf
  <2>4. A!Ref.lefts \in Seq(DOMAIN ast) \ {<<>>} /\ A!Ref = ast[n]
    BY <2>1, <2>3, Working, PartsAreNodes DEF Nodes, A!Ref
  <2>5. Len(A!Ref.lefts) \in Nat /\ Len(A!Ref.lefts) \in DOMAIN A!Ref.lefts
    BY <2>4, LenProperties, EmptySeq
  <2>6. <<A!AssignTo(n, Len(A!Ref.lefts))>> \in Seq(Tasks(ast))
    BY <2>3, <2>4, <2>5, TargetsMade
  <2> QED
    BY <1>1, <2>1, <2>2, <2>3, <2>6, LeavesTree
<1>3. CASE A!AssignVariable
  <2> DEFINE v == ast[A!Definition(ast[target].name)].type
  <2>1. /\ A!Doing("assign_to") /\ root' = root /\ analyzer' = analyzer
        /\ A!GoOn(<<A!CheckTarget(n, k)>>) /\ A!IsDeclared(ast[target].name)
    BY <1>3 DEF A!AssignVariable
  <2>2. ast' = [ast EXCEPT ![target] = [@ EXCEPT !["type"] = v]]
    BY <1>3 DEF A!AssignVariable
  <2>3. v # NoType /\ analyzer \in Analyzers(ast)
    BY <2>1, Working, FoundIsTyped
  <2>4. <<A!CheckTarget(n, k)>> \in Seq(Tasks(ast))
    BY <2>1, TargetOf, TargetsMade
  <2> HIDE DEF v, target
  <2> QED
    BY <2>1, <2>2, <2>3, <2>4, WritesTree DEF Annotations
<1>4. CASE A!AssignElement
  <2>1. /\ A!Doing("assign_to") /\ root' = root /\ analyzer' = analyzer
        /\ ast' = ast /\ A!GoOn(<<A!Apply(target), A!CheckTarget(n, k)>>)
    BY <1>4 DEF A!AssignElement
  <2>2. <<A!Apply(target), A!CheckTarget(n, k)>> \in Seq(Tasks(ast))
    BY <2>1, TargetOf, TargetsMade, TasksMade
  <2> QED
    BY <2>1, <2>2, Working, LeavesTree
<1>5. CASE A!CheckTargetStep
  <2>1. CASE ast[A!Ref.right].type = A!NoType
    BY <1>5, <2>1 DEF A!CheckTargetStep, A!BreakWith, IInv
  <2>2. CASE ast[A!Ref.right].type # A!NoType
    <3>1. /\ A!Doing("check_target") /\ root' = root /\ analyzer' = analyzer
          /\ ast' = ast /\ (A!Return \/ A!GoOn(A!TheRest(n, k)))
      BY <1>5, <2>2 DEF A!CheckTargetStep
    <3>2. A!TheRest(n, k) \in Seq(Tasks(ast))
      BY <3>1, TargetOf
    <3> QED
      BY <3>1, <3>2, Working, LeavesTree
  <2> QED
    BY <2>1, <2>2
<1> QED
  BY <1>2, <1>3, <1>4, <1>5

(* A name is declared with a node that has a type, or has got it before.   *)
LEMMA DeclarationKeeps ==
  ASSUME IInv, A!AssignNewVariable
  PROVE  IInv'
<1> DEFINE n == A!Task.node
           k == A!Task.target
           target == A!Ref.lefts[k]
           type == ast[A!Ref.right].type
           name == ast[target].name
           block == A!Last(analyzer.scopes)
           declared == [ast EXCEPT ![block].stab = A!Declared(@, name, target)]
           typed == [ast EXCEPT ![target] = [@ EXCEPT !["type"] = type]]
<1>1. /\ A!Doing("assign_to") /\ root' = root /\ analyzer' = analyzer
      /\ ast[target].node = "variable"
  BY DEF A!AssignNewVariable
<1>2. /\ outcome = "working" /\ todo # <<>> /\ IsTree(ast)
      /\ analyzer \in Analyzers(ast) /\ target \in DOMAIN ast
      /\ A!TheRest(n, k) \in Seq(Tasks(ast))
  BY <1>1, Working, TargetOf
<1>3. ASSUME IsTree(ast'), Grows(ast, ast'),
             A!Return \/ A!GoOn(A!TheRest(n, k))
      PROVE  IInv'
  <2>1. Tasks(ast) \subseteq Tasks(ast') /\ analyzer' \in Analyzers(ast')
    BY <1>1, <1>2, <1>3, TasksGrow
  <2>2. A!TheRest(n, k) \in Seq(Tasks(ast'))
    BY <1>2, <2>1, SeqMonotonic
  <2> QED
    BY <1>1, <1>2, <1>3, <2>1, <2>2, HandlerKeeps DEF A!GoOn, A!Return
<1>4. CASE type = A!NoType
  BY <1>4 DEF A!AssignNewVariable, A!BreakWith, IInv
<1>5. CASE type # A!NoType /\ ast[target].type = A!NoType
  <2>1. ast' = [declared EXCEPT ![target].type = type] /\ A!GoOn(A!TheRest(n, k))
    BY <1>5 DEF A!AssignNewVariable
  <2>2. IsTree(typed) /\ Grows(ast, typed)
    BY <1>2, <1>5, AnnotateTree DEF Annotations, A!NoType, NoType
  <2>3. /\ target \in Nodes(typed, {"variable"}) /\ typed[target].type # NoType
        /\ typed[target].name = name
    <3>1. IsNode(ast[target], DOMAIN ast)
      BY <1>2 DEF IsTree
    <3>2. "type" \in DOMAIN ast[target]
      BY <1>1, <3>1 DEF IsNode, Blocks
    <3>3. type # NoType
      BY <1>5 DEF A!NoType, NoType
    <3> HIDE DEF target, type
    <3> QED
      BY <1>1, <1>2, <3>2, <3>3 DEF Nodes
  <2> DEFINE new == [typed EXCEPT ![block].stab = Declared(@, name, target)]
  <2>4. ast' = new
    <3> HIDE DEF block, target, type, name
    <3> QED
      BY <2>1 DEF A!Declared, Declared
  <2>5. IsTree(new) /\ Grows(typed, new)
    <3> HIDE DEF typed, block, target, name
    <3> QED
      BY <2>2, <2>3, DeclareTree
  <2>6. IsTree(ast') /\ Grows(ast, ast')
    BY <2>2, <2>4, <2>5, GrowsOn
  <2> QED
    BY <1>3, <2>1, <2>6
<1>6. CASE type # A!NoType /\ ast[target].type # A!NoType
  <2>1. ast' = declared /\ (A!Return \/ A!GoOn(A!TheRest(n, k)))
    BY <1>6 DEF A!AssignNewVariable
  <2>2. target \in Nodes(ast, {"variable"}) /\ ast[target].type # NoType
    BY <1>1, <1>2, <1>6 DEF Nodes, A!NoType, NoType
  <2>3. ast' = [ast EXCEPT ![block].stab = Declared(@, name, target)]
    BY <2>1 DEF A!Declared, Declared
  <2>4. IsTree(ast') /\ Grows(ast, ast')
    <3> HIDE DEF block, target, name
    <3> QED
      BY <1>2, <2>2, <2>3, DeclareTree
  <2> QED
    BY <1>3, <2>1, <2>4
<1> QED
  BY <1>4, <1>5, <1>6

(* The last expression of a block becomes a return statement of a value    *)
(* block: a node is added, put in its place, and collected.                *)
WithReturn(tree, n) ==
  LET k    == Len(tree[n].stmts)
      made == [node |-> "return", expr |-> tree[n].stmts[k]]
  IN  [Append(tree, made) EXCEPT ![n].stmts[k] = Len(tree) + 1]

(* The tree after that, in two steps, and what they leave alone.           *)
LEMMA ReturnMade ==
  ASSUME IInv, A!LastReturns
  PROVE  LET n     == A!Task.node
             block == A!Returns
             put   == WithReturn(ast, n)
         IN  /\ n \in Nodes(ast, Blocks) /\ ast[n].stmts # <<>>
             /\ IsTree(ast) /\ IsTree(put) /\ Grows(ast, put)
             /\ \E v : /\ ast' = [put EXCEPT ![block] = [@ EXCEPT !["returns"] = v]]
                       /\ v = Append(put[block].returns, Len(ast) + 1)
             /\ DOMAIN put = DOMAIN ast \cup {Len(ast) + 1}
             /\ put[Len(ast) + 1].node = "return"
             /\ \A m \in Nodes(ast, Blocks) : put[m].returns = ast[m].returns
<1> DEFINE n == A!Task.node
           k == Len(ast[n].stmts)
           last == ast[n].stmts[k]
           ret == [node |-> "return", expr |-> last]
           made == Len(ast) + 1
           block == A!Returns
           longer == Append(ast, ret)
           put == [longer EXCEPT ![n].stmts[k] = made]
           v == Append(put[block].returns, made)
           new == [put EXCEPT ![block] = [@ EXCEPT !["returns"] = v]]
           replaced == [ast EXCEPT ![n].stmts[k] = made,
                                   ![block].returns = Append(@, made)]
<1>1. /\ A!Doing("last_of") /\ root' = root /\ analyzer' = analyzer
      /\ A!Return /\ ast[n].stmts # <<>>
      /\ block # Null
  BY DEF A!LastReturns, A!EndsInExpression, A!Ref, A!Null, Null
<1>2. ast' = Append(replaced, ret)
  BY DEF A!LastReturns, A!Ref, A!LastStatement, A!Last
<1>3. /\ outcome = "working" /\ todo # <<>> /\ IsTree(ast)
      /\ analyzer \in Analyzers(ast) /\ n \in Nodes(ast, Blocks)
      /\ n \in DOMAIN ast
  BY <1>1, Working, TaskOf DEF Nodes
<1>4. block \in DOMAIN ast
  BY <1>1, <1>3 DEF Analyzers, A!Returns
<1>5. last \in DOMAIN ast
  <2>1. ast[n].stmts \in Seq(DOMAIN ast)
    BY <1>3, PartsAreNodes DEF Nodes
  <2> QED
    BY <1>1, <2>1, LenProperties, EmptySeq, ElementOfSeq
<1>6. /\ IsTree(longer) /\ Grows(ast, longer)
      /\ DOMAIN longer = DOMAIN ast \cup {made}
      /\ \A m \in DOMAIN ast : longer[m] = ast[m]
  <2>1. IsNode(ret, DOMAIN ast) /\ ret.node \notin Scopes
    BY <1>5 DEF IsNode, Scopes, Blocks
  <2> HIDE DEF ret
  <2> QED
    BY <1>3, <2>1, AppendTree
<1>7. IsTree(put) /\ Grows(longer, put)
  <2>1. n \in Nodes(longer, Blocks)
    BY <1>3, <1>6 DEF Nodes
  <2> HIDE DEF longer, k, made
  <2> QED
    BY <1>6, <2>1, StatementTree
<1>8. IsTree(new) /\ Grows(put, new)
  <2> HIDE DEF put, v, block
  <2> QED
    BY <1>7, AnnotateTree DEF Annotations
<1>9. ast' = new
  <2>1. /\ DOMAIN replaced = DOMAIN ast
        /\ replaced = [m \in DOMAIN replaced |-> replaced[m]]
    <3> HIDE DEF n, k, made, block
    <3> QED
      OBVIOUS
  <2>2. PICK len \in Nat : DOMAIN ast = 1 .. len
    BY <1>3, PlacesAre DEF IsTree
  <2> DEFINE All == {replaced[m] : m \in DOMAIN replaced}
  <2>3. replaced \in Seq(All)
    <3> HIDE DEF replaced
    <3>1. Places(replaced)
      BY <2>1, <2>2, PlacesAre
    <3> QED
      BY <3>1 DEF Places
  <2>4. Len(replaced) = len /\ Len(ast) = len
    <3> HIDE DEF replaced
    <3>1. ast \in Seq({ast[m] : m \in DOMAIN ast})
      BY <1>3 DEF IsTree, Places
    <3> HIDE DEF All
    <3> QED
      BY <2>1, <2>2, <2>3, <3>1, LenProperties
  <2>5. /\ DOMAIN ast' = 1 .. len + 1
        /\ \A m \in 1 .. len : ast'[m] = replaced[m]
        /\ ast'[len + 1] = ret
        /\ ast' = [m \in DOMAIN ast' |-> ast'[m]]
    <3> HIDE DEF replaced, All
    <3>1. /\ replaced \in Seq(All \cup {ret}) /\ ret \in All \cup {ret}
      BY <2>3, SeqMonotonic
    <3> HIDE DEF ret
    <3>2. ast' \in Seq(All \cup {ret})
      BY <1>2, <3>1, AppendProperties
    <3>3. ast' = [m \in DOMAIN ast' |-> ast'[m]]
      <4>1. Places(ast')
        <5>1. \E N \in Nat : DOMAIN ast' = 1 .. N
          BY <3>2, LenProperties
        <5>2. ast' \in [1 .. Len(ast') -> All \cup {ret}]
          BY <3>2, LenProperties
        <5>3. ast' = [m \in DOMAIN ast' |-> ast'[m]]
          BY <5>2
        <5> QED
          BY <5>1, <5>3, PlacesAre
      <4> QED
        BY <4>1, PlacesAre
    <3> QED
      BY <1>2, <2>2, <2>4, <3>1, <3>2, <3>3, AppendProperties, LenProperties
  <2>6. \A m \in 1 .. len : new[m] = replaced[m]
    <3>1. n \in DOMAIN ast /\ block \in DOMAIN ast /\ DOMAIN ast = 1 .. len
      BY <1>3, <1>4, <2>2
    <3>2. \A m \in DOMAIN ast : m \in DOMAIN longer /\ longer[m] = ast[m]
      BY <1>6
    <3> HIDE DEF n, k, made, block, longer
    <3> QED
      BY <3>1, <3>2
  <2>7. DOMAIN new = 1 .. len + 1 /\ new[len + 1] = ret
        /\ new = [m \in DOMAIN new |-> new[m]]
    <3>1. DOMAIN longer = 1 .. len + 1 /\ longer[len + 1] = ret
      <4>1. ast \in Seq({ast[m] : m \in DOMAIN ast} \cup {ret})
        BY <1>3, SeqMonotonic DEF IsTree, Places
      <4> HIDE DEF ret
      <4> QED
        BY <2>2, <2>4, <4>1, AppendProperties, LenProperties
    <3>2. n # len + 1 /\ block # len + 1 /\ len + 1 \in 1 .. len + 1
      BY <1>3, <1>4, <2>2
    <3> HIDE DEF n, k, made, block, longer, ret
    <3>3. DOMAIN put = 1 .. len + 1 /\ put[len + 1] = ret
      BY <3>1, <3>2
    <3> HIDE DEF put, v
    <3> QED
      BY <3>2, <3>3
  <2> HIDE DEF new, replaced
  <2> QED
    BY <2>5, <2>6, <2>7
<1>10. put = WithReturn(ast, n)
  BY DEF WithReturn
<1>11. \E w : /\ ast' = [put EXCEPT ![block] = [@ EXCEPT !["returns"] = w]]
              /\ w = Append(put[block].returns, Len(ast) + 1)
  <2>1. v = Append(put[block].returns, Len(ast) + 1)
    OBVIOUS
  <2> HIDE DEF put, v
  <2> QED
    BY <1>9, <2>1
<1>12. Grows(ast, put)
  <2> HIDE DEF put, longer
  <2> QED
    BY <1>6, <1>7, GrowsOn
<1>13. DOMAIN put = DOMAIN ast \cup {made} /\ put[made].node = "return"
  <2>1. longer[made] = ret /\ made \notin DOMAIN ast
    <3>1. ast \in Seq({ast[m] : m \in DOMAIN ast} \cup {ret})
      BY <1>3, SeqMonotonic DEF IsTree, Places
    <3> HIDE DEF ret
    <3> QED
      BY <3>1, AppendProperties, LenProperties
  <2>2. n # made /\ made \in DOMAIN longer /\ ret.node = "return"
    BY <1>3, <1>6, <2>1
  <2> HIDE DEF n, k, made, longer, ret
  <2> QED
    BY <1>6, <2>1, <2>2
<1>14. \A m \in Nodes(ast, Blocks) : put[m].returns = ast[m].returns
  <2> SUFFICES ASSUME NEW m \in Nodes(ast, Blocks) PROVE put[m].returns = ast[m].returns
    OBVIOUS
  <2>1. "returns" \in DOMAIN ast[m] /\ m \in DOMAIN longer /\ longer[m] = ast[m]
    BY <1>3, <1>6 DEF Nodes, IsTree, IsNode, Blocks
  <2> HIDE DEF n, k, made, longer
  <2> QED
    BY <2>1
<1> HIDE DEF put
<1> QED
  BY <1>1, <1>3, <1>7, <1>10, <1>11, <1>12, <1>13, <1>14

(* It stays a tree, and the invariant holds on.                            *)
LEMMA ReturnKeeps ==
  ASSUME IInv, A!LastReturns
  PROVE  IInv'
<1> DEFINE put == WithReturn(ast, A!Task.node)
<1>1. /\ A!Doing("last_of") /\ root' = root /\ analyzer' = analyzer
      /\ A!Return
  BY DEF A!LastReturns
<1>2. /\ outcome = "working" /\ todo # <<>> /\ analyzer \in Analyzers(ast)
  BY <1>1, Working
<1>3. IsTree(put) /\ Grows(ast, put)
  BY ReturnMade
<1>4. PICK v : ast' = [put EXCEPT ![A!Returns] = [@ EXCEPT !["returns"] = v]]
  BY ReturnMade
<1> HIDE DEF put
<1>5. IsTree(ast') /\ Grows(put, ast')
  BY <1>3, <1>4, AnnotateTree DEF Annotations
<1>6. Grows(ast, ast')
  BY <1>3, <1>5, GrowsOn
<1>7. analyzer' \in Analyzers(ast') /\ <<>> \in Seq(Tasks(ast'))
  BY <1>1, <1>2, <1>6, TasksGrow, EmptySeq
<1> QED
  BY <1>1, <1>2, <1>5, <1>6, <1>7, HandlerKeeps DEF A!Return

-----------------------------------------------------------------------------
(* Every step of the front end.                                            *)
LEMMA InitIInv == Init => IInv
<1> SUFFICES ASSUME NEW tree \in Parsed, Start(tree) PROVE IInv
  BY DEF Init
<1>1. ast = tree.ast /\ root = tree.root /\ analyzer = A!MainAnalyzer
  BY DEF Start, E!Start
<1>2. IsTree(ast)
  <2>1. /\ ast \in Seq(Range(ast))
        /\ \A n \in DOMAIN ast :
             /\ IsNode(ast[n], DOMAIN ast)
             /\ ast[n].node \in Scopes => HoldsTyped(ast, ast[n].stab)
    BY <1>1, ParsedAssumption
  <2>2. Places(ast)
    BY <2>1 DEF Range, Places
  <2> QED
    BY <2>1, <2>2 DEF IsTree
<1>3. root \in DOMAIN ast \cup {Null}
  BY <1>1, ParsedAssumption
<1>4. todo \in Seq(Tasks(ast))
  <2>1. CASE root = Null
    BY <2>1, EmptySeq DEF Start, E!Start, E!Null, Null
  <2>2. CASE root # Null
    <3>1. todo = <<E!Explore(root)>>
      BY <2>2 DEF Start, E!Start, E!Null, Null
    <3>2. <<E!Explore(root)>> \in Seq(Tasks(ast))
      BY <1>3, <2>2 DEF Tasks, AnyNode, E!Explore
    <3> QED
      BY <3>1, <3>2
  <2> QED
    BY <2>1, <2>2
<1>5. analyzer \in Analyzers(ast)
  BY <1>1, EmptySeq DEF Analyzers, A!MainAnalyzer, A!Null, Null
<1> QED
  BY <1>2, <1>3, <1>4, <1>5 DEF IInv

(* The explorer, what is between the walks, and the analyser.              *)
LEMMA NextIInv ==
  ASSUME IInv, [Next]_vars
  PROVE  IInv'
<1>1. CASE ExploreTree
  BY <1>1, ExploreKeeps
<1>2. CASE BeginAnalysis
  <2>1. /\ IsTree(ast) /\ root \in DOMAIN ast \cup {Null}
        /\ todo \in Seq(Tasks(ast)) /\ analyzer \in Analyzers(ast)
    BY <1>2 DEF BeginAnalysis, IInv
  <2>2. todo' \in Seq(Tasks(ast))
    <3>1. CASE root = Null
      BY <1>2, <2>1, <3>1 DEF BeginAnalysis
    <3>2. CASE root # Null
      <4>1. todo' = <<A!AnalyzeMain(root)>>
        BY <1>2, <3>2 DEF BeginAnalysis
      <4>2. <<A!AnalyzeMain(root)>> \in Seq(Tasks(ast))
        BY <2>1, <3>2 DEF Tasks, AnyNode, A!AnalyzeMain
      <4> QED
        BY <4>1, <4>2
    <3> QED
      BY <3>1, <3>2
  <2> QED
    BY <1>2, <2>1, <2>2 DEF BeginAnalysis, IInv
<1>3. CASE AnalyzeTree
  BY <1>3, VisitsKeep, EndsKeep, ScopesKeep, ExpressionsKeep, AssignmentsKeep,
     DeclarationKeeps, ReturnKeeps DEF AnalyzeTree, A!AnalyzeStep
<1>4. CASE Over \/ UNCHANGED vars
  BY <1>4 DEF Over, vars, IInv
<1> QED
  BY <1>1, <1>2, <1>3, <1>4 DEF Next, Step

(* Whatever file is parsed, and however its analysis goes, a symbol table  *)
(* never gives a name an undeclared node or one without a type: the        *)
(* generator, which allocates what the tables hold, and every later use of *)
(* a name find a typed variable there.  The second pass over a recursive   *)
(* function works on the tables of the first, and the theorem covers it.   *)
THEOREM DeclarationsAreTyped == Spec => []DeclaredIsTyped
<1>1. Init => IInv
  BY InitIInv
<1>2. IInv /\ [Next]_vars => IInv'
  BY NextIInv
<1>3. IInv => DeclaredIsTyped
  BY DEF IInv, IsTree, DeclaredIsTyped
<1> QED
  BY <1>1, <1>2, <1>3, PTL DEF Spec

-----------------------------------------------------------------------------
(* The types of the state.  Beside IInv, which says nothing of a broken    *)
(* declaration, of the errors and of what the explorer keeps:              *)
IsWhole(tree) ==
  \A n \in DOMAIN tree :
    /\ IsNode(tree[n], DOMAIN tree)
    /\ tree[n].node \in Scopes => Range(tree[n].stab) \subseteq DOMAIN tree

(* Nodes are collected as returns,                                         *)
Collects(tree) == \A n \in Nodes(tree, Blocks) : tree[n].returns \in Seq(DOMAIN tree)

(* the functions known are definitions of the tree, those around are known *)
(* and in the graph, as is whatever an edge joins,                         *)
Explored(tree) ==
  /\ \A f \in DOMAIN functions :
       functions[f] \in [definition : DOMAIN tree, recursive : BOOLEAN]
  /\ DOMAIN functions \subseteq usegraph.node
  /\ usegraph.edge \subseteq usegraph.node \X usegraph.node
  /\ functionStack \in Seq(DOMAIN functions)

(* and an error is a message about a node.                                 *)
Messages == {"redefinition", "syntax_error", "undeclared", "unknown_type",
             "void_value", "type_mismatch", "deduction", "call_mismatch",
             "ambiguous", "unknown_function"}
Reports(tree) == Seq(Messages \X DOMAIN tree)

Outcomes == {"exploring", "working", "done"} \cup A!Breaks

TypeInv ==
  /\ IsWhole(ast) /\ Collects(ast) /\ Explored(ast) /\ errors \in Reports(ast)
  /\ root \in DOMAIN ast \cup {Null} /\ globalStab \in DOMAIN ast \cup {Null}
  /\ todo \in Seq(Tasks(ast)) /\ analyzer \in Analyzers(ast)
  /\ outcome \in Outcomes

(* The invariant says what TypeOK says.                                    *)
LEMMA TypeInvIsEnough == ASSUME TypeInv PROVE TypeOK
<1>1. \A n \in DOMAIN ast :
        /\ IsNode(ast[n], DOMAIN ast)
        /\ ast[n].node \in Scopes => Range(ast[n].stab) \subseteq DOMAIN ast
        /\ ast[n].node \in Blocks => Range(ast[n].returns) \subseteq DOMAIN ast
  <2>1. \A n \in Nodes(ast, Blocks) : Range(ast[n].returns) \subseteq DOMAIN ast
    BY ElementOfSeq, LenProperties DEF TypeInv, Collects, Range
  <2> QED
    BY <2>1 DEF TypeInv, IsWhole, Nodes
<1>2. Range(functionStack) \subseteq DOMAIN functions
  BY ElementOfSeq, LenProperties DEF TypeInv, Explored, Range
<1>3. \A k \in DOMAIN errors : errors[k][2] \in DOMAIN ast
  BY ElementOfSeq, LenProperties DEF TypeInv, Reports
<1>4. analyzer \in [scopes : Seq(DOMAIN ast), returns : DOMAIN ast \cup {Null},
                    tolerant : BOOLEAN]
  <2>1. Nodes(ast, Scopes) \subseteq DOMAIN ast
    BY DEF Nodes
  <2>2. Seq(Nodes(ast, Scopes)) \subseteq Seq(DOMAIN ast)
    BY <2>1, SeqMonotonic
  <2> QED
    BY <2>2 DEF TypeInv, Analyzers
<1>5. \A k \in DOMAIN todo : "node" \in DOMAIN todo[k] => todo[k].node \in DOMAIN ast
  <2>1. \A t \in Tasks(ast) : "node" \in DOMAIN t => t.node \in DOMAIN ast
    BY DEF Tasks, Targeted, Nodes
  <2>2. \A k \in DOMAIN todo : todo[k] \in Tasks(ast)
    BY ElementOfSeq, LenProperties DEF TypeInv
  <2> QED
    BY <2>1, <2>2
<1> QED
  BY <1>1, <1>2, <1>3, <1>4, <1>5 DEF TypeInv, TypeOK, Explored, Outcomes

-----------------------------------------------------------------------------
(* What is true of a tree that is rewritten, whether or not its tables     *)
(* hold typed names.                                                       *)
LEMMA TreeIsWhole == ASSUME NEW tree, IsTree(tree) PROVE IsWhole(tree)
BY DEF IsTree, IsWhole, HoldsTyped, Range

(* Nodes have the fields by which they are told apart.                     *)
LEMMA FieldsAre ==
  ASSUME NEW tree, IsWhole(tree), NEW n \in DOMAIN tree
  PROVE  /\ "node" \in DOMAIN tree[n]
         /\ tree[n].node = "assignment" => "lefts" \in DOMAIN tree[n]
         /\ tree[n].node \in Blocks => "returns" \in DOMAIN tree[n]
<1>1. IsNode(tree[n], DOMAIN tree)
  BY DEF IsWhole
<1> QED
  BY <1>1 DEF IsNode, Blocks

(* A field is written that is none of those a node is told apart by.       *)
LEMMA WriteGrows ==
  ASSUME NEW tree, IsWhole(tree), Collects(tree), NEW n,
         NEW f \in Annotations \cup {"stab"}, NEW v,
         f = "returns" /\ n \in Nodes(tree, Blocks) => v \in Seq(DOMAIN tree)
  PROVE  LET new == [tree EXCEPT ![n] = [@ EXCEPT ![f] = v]]
         IN  /\ DOMAIN new = DOMAIN tree /\ Grows(tree, new) /\ Collects(new)
             /\ \A m \in DOMAIN tree : m # n => new[m] = tree[m]
             /\ n \in DOMAIN tree
                  => /\ DOMAIN new[n] = DOMAIN tree[n]
                     /\ \A g \in DOMAIN tree[n] : g # f => new[n][g] = tree[n][g]
                     /\ f \in DOMAIN tree[n] => new[n][f] = v
<1> DEFINE new == [tree EXCEPT ![n] = [@ EXCEPT ![f] = v]]
<1>1. /\ DOMAIN new = DOMAIN tree
      /\ \A m \in DOMAIN tree : m # n => new[m] = tree[m]
      /\ n \in DOMAIN tree
           => /\ DOMAIN new[n] = DOMAIN tree[n]
              /\ \A g \in DOMAIN tree[n] : g # f => new[n][g] = tree[n][g]
              /\ f \in DOMAIN tree[n] => new[n][f] = v
  OBVIOUS
<1> HIDE DEF new
<1>2. \A m \in DOMAIN tree : new[m].node = tree[m].node
  BY <1>1, FieldsAre DEF Annotations
<1>3. Grows(tree, new)
  BY <1>1, <1>2, FieldsAre DEF Grows, Annotations
<1>4. ASSUME NEW m \in Nodes(new, Blocks) PROVE new[m].returns \in Seq(DOMAIN new)
  <2>1. m \in Nodes(tree, Blocks) /\ "returns" \in DOMAIN tree[m]
    BY <1>1, <1>2, <1>4, FieldsAre DEF Nodes
  <2>2. tree[m].returns \in Seq(DOMAIN tree)
    BY <2>1 DEF Collects
  <2>3. CASE m = n /\ f = "returns"
    BY <1>1, <2>1, <2>3 DEF Nodes
  <2>4. CASE m # n \/ f # "returns"
    BY <1>1, <2>1, <2>2, <2>4 DEF Nodes
  <2> QED
    BY <2>3, <2>4
<1>5. Collects(new)
  BY <1>4 DEF Collects
<1> QED
  BY <1>1, <1>3, <1>5 DEF new

(* A declaration adds a node to a table.                                   *)
LEMMA DeclareWhole ==
  ASSUME NEW tree, IsWhole(tree), Collects(tree), NEW n, NEW name,
         NEW def \in DOMAIN tree
  PROVE  LET new == [tree EXCEPT ![n].stab = Declared(@, name, def)]
         IN  /\ DOMAIN new = DOMAIN tree /\ Grows(tree, new) /\ Collects(new)
             /\ IsWhole(new)
<1> DEFINE v   == Declared(tree[n].stab, name, def)
           new == [tree EXCEPT ![n] = [@ EXCEPT !["stab"] = v]]
<1>1. new = [tree EXCEPT ![n].stab = Declared(@, name, def)]
  OBVIOUS
<1>2. /\ DOMAIN new = DOMAIN tree /\ Grows(tree, new) /\ Collects(new)
      /\ \A m \in DOMAIN tree : m # n => new[m] = tree[m]
      /\ n \in DOMAIN tree
           => /\ DOMAIN new[n] = DOMAIN tree[n]
              /\ \A g \in DOMAIN tree[n] : g # "stab" => new[n][g] = tree[n][g]
              /\ "stab" \in DOMAIN tree[n] => new[n].stab = v
  <2> HIDE DEF v
  <2> QED
    BY WriteGrows DEF Annotations
<1> HIDE DEF new
<1>3. ASSUME NEW m \in DOMAIN tree PROVE IsNode(new[m], DOMAIN tree)
  <2>1. IsNode(tree[m], DOMAIN tree)
    BY DEF IsWhole
  <2>2. CASE m # n
    BY <1>2, <2>1, <2>2
  <2>3. CASE m = n
    <3>1. /\ DOMAIN new[m] = DOMAIN tree[m]
          /\ \A g \in DOMAIN tree[m] : g # "stab" => new[m][g] = tree[m][g]
      BY <1>2, <2>3
    <3>2. "node" \in DOMAIN tree[m] /\ new[m].node = tree[m].node
      BY <3>1, FieldsAre
    <3> QED
      BY <2>1, <3>1, <3>2 DEF IsNode, Blocks
  <2> QED
    BY <2>2, <2>3
<1>4. ASSUME NEW m \in DOMAIN tree, new[m].node \in Scopes
      PROVE  Range(new[m].stab) \subseteq DOMAIN tree
  <2>1. tree[m].node \in Scopes /\ IsNode(tree[m], DOMAIN tree)
    BY <1>2, <1>4 DEF Grows, IsWhole
  <2>2. Range(tree[m].stab) \subseteq DOMAIN tree /\ "stab" \in DOMAIN tree[m]
    BY <2>1 DEF IsWhole, IsNode, Scopes, Blocks
  <2>3. CASE m # n
    BY <1>2, <2>2, <2>3
  <2>4. CASE m = n
    <3>1. new[m].stab = v
      BY <1>2, <2>2, <2>4
    <3>2. Range(v) \subseteq Range(tree[m].stab) \cup {def}
      BY <2>4 DEF Declared, Range
    <3> QED
      BY <2>2, <3>1, <3>2
  <2> QED
    BY <2>3, <2>4
<1>5. IsWhole(new)
  BY <1>2, <1>3, <1>4 DEF IsWhole
<1> QED
  BY <1>1, <1>2, <1>5

(* What every handler does to the tree.                                    *)
Rewritten == Grows(ast, ast') /\ Collects(ast')

(* A step that writes one annotation.                                      *)
LEMMA Written ==
  ASSUME IsTree(ast), Collects(ast), NEW n, NEW f \in Annotations, NEW v,
         f = "returns" /\ n \in Nodes(ast, Blocks) => v \in Seq(DOMAIN ast),
         ast' = [ast EXCEPT ![n] = [@ EXCEPT ![f] = v]]
  PROVE  Rewritten
BY TreeIsWhole, WriteGrows DEF Rewritten

(* A step that writes none.                                                *)
LEMMA Untouched == ASSUME Collects(ast), ast' = ast PROVE Rewritten
BY DEF Rewritten, Grows

QuietSteps ==
  \/ A!AnalyzeLeaf \/ A!AnalyzeErrorNode \/ A!AnalyzeChildrenFirst
  \/ A!ExpectIntStep \/ A!AnalyzeSubscript \/ A!CheckRightStep
  \/ A!AssignElement \/ A!CheckTargetStep \/ A!BeginStatementBlock
  \/ A!LastTypeMissing \/ A!LastStays \/ A!DeduceFromEmpty
  \/ A!ReturnOutside \/ A!CallUnresolved \/ A!AnalyzeDefinition
  \/ A!AnalyzeUnnamed \/ A!AnalyzeFuncStep \/ A!LeaveAnalyzerStep
  \/ A!AnalyzeFunctionPtr \/ A!AnalyzeMainStep \/ A!Finish

WritingSteps ==
  \/ A!TypeUnaryStep \/ A!TypeBinaryStep \/ A!AnalyzeVariable
  \/ A!AssignVariable \/ A!TypeAssignmentStep \/ A!BeginValueBlock
  \/ A!DeduceReturnType \/ A!AnalyzeReturn \/ A!CallFunction
  \/ A!CallVariable \/ A!SetReturnTypeStep \/ A!TypePointerStep

(* The handlers that leave the tree as it is.                              *)
LEMMA QuietRewrite == ASSUME Collects(ast), QuietSteps PROVE Rewritten /\ ast' = ast
<1>1. ast' = ast
  <2>1. CASE A!AnalyzeLeaf \/ A!AnalyzeErrorNode \/ A!AnalyzeChildrenFirst
             \/ A!ExpectIntStep \/ A!AnalyzeSubscript \/ A!CheckRightStep
    BY <2>1 DEF A!AnalyzeLeaf, A!AnalyzeErrorNode, A!AnalyzeChildrenFirst,
                A!ExpectIntStep, A!AnalyzeSubscript, A!CheckRightStep
  <2>2. CASE A!AssignElement \/ A!CheckTargetStep \/ A!BeginStatementBlock
             \/ A!LastTypeMissing \/ A!LastStays \/ A!DeduceFromEmpty
             \/ A!ReturnOutside
    BY <2>2 DEF A!AssignElement, A!CheckTargetStep, A!BeginStatementBlock,
                A!LastTypeMissing, A!LastStays, A!DeduceFromEmpty,
                A!ReturnOutside, A!Break, A!BreakWith
  <2>3. CASE A!CallUnresolved \/ A!AnalyzeDefinition \/ A!AnalyzeUnnamed
             \/ A!AnalyzeFuncStep \/ A!LeaveAnalyzerStep
             \/ A!AnalyzeFunctionPtr \/ A!AnalyzeMainStep \/ A!Finish
    BY <2>3 DEF A!CallUnresolved, A!AnalyzeDefinition, A!AnalyzeUnnamed,
                A!AnalyzeFuncStep, A!LeaveAnalyzerStep, A!AnalyzeFunctionPtr,
                A!AnalyzeMainStep, A!Finish, A!Break, A!BreakWith
  <2> QED
    BY <2>1, <2>2, <2>3 DEF QuietSteps
<1> QED
  BY <1>1, Untouched

(* The handlers that write one field of one node.                          *)
LEMMA WritingRewrite ==
  ASSUME IInv, Collects(ast), WritingSteps
  PROVE  Rewritten /\ (outcome' = "bad_type" => ast' = ast)
<1> DEFINE n == A!Task.node
           Typed(m) == \E v : ast' = [ast EXCEPT ![m] = [@ EXCEPT !["type"] = v]]
<1>1. (\E what : A!Doing(what)) /\ outcome = "working"
  BY DEF WritingSteps, A!Doing, A!TypeUnaryStep, A!TypeBinaryStep, A!AnalyzeVariable,
         A!AssignVariable, A!TypeAssignmentStep, A!BeginValueBlock,
         A!DeduceReturnType, A!AnalyzeReturn, A!CallFunction, A!CallVariable,
         A!SetReturnTypeStep, A!TypePointerStep, A!Applying
<1>2. IsTree(ast) /\ analyzer \in Analyzers(ast)
  BY <1>1, Working
<1>3. ASSUME NEW m, Typed(m) PROVE Rewritten
  BY <1>2, <1>3, Written DEF Annotations
<1>4. ASSUME NEW type, A!CheckCall(n, type) PROVE Rewritten
  <2>1. ast' = ast \/ Typed(n)
    BY <1>4 DEF A!CheckCall
  <2> QED
    BY <1>3, <2>1, Untouched
<1>5. CASE A!TypeUnaryStep \/ A!TypeBinaryStep \/ A!AnalyzeVariable
  <2>1. (ast' = ast \/ Typed(n)) /\ outcome' = outcome
    BY <1>5 DEF A!TypeUnaryStep, A!TypeBinaryStep, A!AnalyzeVariable
  <2> QED
    BY <1>1, <1>3, <2>1, Untouched
<1>6. CASE A!AssignVariable
  <2>1. Typed(A!Ref.lefts[A!Task.target]) /\ outcome' = outcome
    BY <1>6 DEF A!AssignVariable
  <2> QED
    BY <1>1, <1>3, <2>1
<1>7. CASE A!TypeAssignmentStep \/ A!DeduceReturnType \/ A!TypePointerStep
  <2>1. Typed(n) /\ outcome' = outcome
    BY <1>7 DEF A!TypeAssignmentStep, A!DeduceReturnType, A!TypePointerStep
  <2> QED
    BY <1>1, <1>3, <2>1
<1>8. CASE A!BeginValueBlock
  <2>1. ast' = [ast EXCEPT ![n] = [@ EXCEPT !["returns"] = <<>>]] /\ outcome' = outcome
    BY <1>8 DEF A!BeginValueBlock
  <2>2. <<>> \in Seq(DOMAIN ast)
    BY EmptySeq
  <2> QED
    BY <1>1, <1>2, <2>1, <2>2, Written DEF Annotations
<1>9. CASE A!AnalyzeReturn
  <2> DEFINE block == A!Returns
             v     == Append(ast[block].returns, n)
  <2>1. ast' = [ast EXCEPT ![block] = [@ EXCEPT !["returns"] = v]] /\ outcome' = outcome
    BY <1>9 DEF A!AnalyzeReturn
  <2>2. n \in DOMAIN ast
    BY <1>9, Working, TaskOf DEF A!AnalyzeReturn, A!Applying, AnyNode
  <2>3. block \in Nodes(ast, Blocks) => v \in Seq(DOMAIN ast)
    BY <2>2, AppendProperties DEF Collects
  <2> HIDE DEF v, block
  <2> QED
    BY <1>1, <1>2, <2>1, <2>3, Written DEF Annotations
<1>10. CASE A!SetReturnTypeStep
  <2>1. (\E v : ast' = [ast EXCEPT ![n] = [@ EXCEPT !["return"] = v]]) /\ outcome' = outcome
    BY <1>10 DEF A!SetReturnTypeStep
  <2> QED
    BY <1>1, <1>2, <2>1, Written DEF Annotations
<1>11. CASE A!CallFunction
  <2>1. (\E type : A!CheckCall(n, type)) /\ outcome' = outcome
    BY <1>11 DEF A!CallFunction
  <2> QED
    BY <1>1, <1>4, <2>1
<1>12. CASE A!CallVariable
  <2>1. \/ ast' = ast
        \/ (\E type : A!CheckCall(n, type)) /\ outcome' = outcome
    BY <1>12 DEF A!CallVariable, A!BreakWith
  <2> QED
    BY <1>1, <1>4, <2>1, Untouched
<1> QED
  BY <1>5, <1>6, <1>7, <1>8, <1>9, <1>10, <1>11, <1>12 DEF WritingSteps

(* A declaration, finished or broken off.                                  *)
LEMMA DeclarationRewrite ==
  ASSUME IInv, Collects(ast), A!AssignNewVariable
  PROVE  Rewritten /\ (outcome' = "bad_type" => IsWhole(ast'))
<1> DEFINE target == A!Ref.lefts[A!Task.target]
           type   == ast[A!Ref.right].type
           block  == A!Last(analyzer.scopes)
           name   == ast[target].name
           declared == [ast EXCEPT ![block].stab = Declared(@, name, target)]
<1>1. IsTree(ast) /\ target \in DOMAIN ast /\ outcome = "working"
  BY Working, TargetOf DEF A!AssignNewVariable
<1>2. /\ DOMAIN declared = DOMAIN ast /\ Grows(ast, declared)
      /\ Collects(declared) /\ IsWhole(declared)
  <2> HIDE DEF target, block, name
  <2> QED
    BY <1>1, TreeIsWhole, DeclareWhole
<1>3. \/ ast' = declared
      \/ /\ ast' = [declared EXCEPT ![target] = [@ EXCEPT !["type"] = type]]
         /\ outcome' = outcome
  BY DEF A!AssignNewVariable, A!BreakWith, A!Declared, Declared
<1> HIDE DEF declared, target, type
<1>4. CASE ast' = declared
  BY <1>2, <1>4 DEF Rewritten
<1>5. CASE /\ ast' = [declared EXCEPT ![target] = [@ EXCEPT !["type"] = type]]
           /\ outcome' = outcome
  <2>1. Grows(declared, ast') /\ Collects(ast')
    BY <1>2, <1>5, WriteGrows DEF Annotations
  <2> QED
    BY <1>1, <1>2, <1>5, <2>1, GrowsOn DEF Rewritten
<1> QED
  BY <1>3, <1>4, <1>5

(* A return statement is added, put in its place and collected.            *)
LEMMA ReturnRewrite ==
  ASSUME IInv, Collects(ast), A!LastReturns
  PROVE  Rewritten
<1> DEFINE n    == A!Task.node
           put  == WithReturn(ast, n)
           made == Len(ast) + 1
           block == A!Returns
<1>1. /\ IsTree(put) /\ Grows(ast, put)
      /\ DOMAIN put = DOMAIN ast \cup {made} /\ put[made].node = "return"
      /\ \A m \in Nodes(ast, Blocks) : put[m].returns = ast[m].returns
  BY ReturnMade
<1>2. PICK v : /\ ast' = [put EXCEPT ![block] = [@ EXCEPT !["returns"] = v]]
               /\ v = Append(put[block].returns, made)
  BY ReturnMade
<1> HIDE DEF put, made, block
<1>3. ASSUME NEW m \in Nodes(put, Blocks) PROVE put[m].returns \in Seq(DOMAIN put)
  <2>1. m \in Nodes(ast, Blocks)
    BY <1>1, <1>3 DEF Nodes, Grows, Blocks
  <2>2. ast[m].returns \in Seq(DOMAIN ast)
    BY <2>1 DEF Collects
  <2> QED
    BY <1>1, <2>1, <2>2, SeqMonotonic
<1>4. block \in Nodes(put, Blocks) => v \in Seq(DOMAIN put)
  BY <1>1, <1>2, <1>3, AppendProperties
<1>5. Collects(put) /\ IsWhole(put)
  BY <1>1, <1>3, TreeIsWhole DEF Collects
<1>6. Grows(put, ast') /\ Collects(ast')
  BY <1>2, <1>4, <1>5, WriteGrows DEF Annotations
<1> QED
  BY <1>1, <1>6, GrowsOn DEF Rewritten

(* The analyser does something only when there is something to do, or to   *)
(* end.                                                                    *)
LEMMA StepIsWorking == ASSUME A!AnalyzeStep PROVE outcome = "working"
BY DEF A!AnalyzeStep, A!TypeUnaryStep, A!TypeBinaryStep, A!AnalyzeVariable,
       A!AssignVariable, A!TypeAssignmentStep, A!BeginValueBlock,
       A!DeduceReturnType, A!AnalyzeReturn, A!CallFunction, A!CallVariable,
       A!SetReturnTypeStep, A!TypePointerStep, A!AnalyzeLeaf,
       A!AnalyzeErrorNode, A!AnalyzeChildrenFirst, A!ExpectIntStep,
       A!AnalyzeSubscript, A!CheckRightStep, A!AssignNewVariable,
       A!LastReturns, A!AssignElement, A!CheckTargetStep,
       A!BeginStatementBlock, A!LastTypeMissing, A!LastStays,
       A!DeduceFromEmpty, A!ReturnOutside, A!CallUnresolved,
       A!AnalyzeDefinition, A!AnalyzeUnnamed, A!AnalyzeFuncStep,
       A!LeaveAnalyzerStep, A!AnalyzeFunctionPtr, A!AnalyzeMainStep,
       A!Finish, A!Applying, A!Doing

(* Every step of the analyser.                                             *)
LEMMA AnalyzeRewrites ==
  ASSUME IInv, Collects(ast), A!AnalyzeStep
  PROVE  Rewritten /\ (outcome' = "bad_type" => IsWhole(ast'))
<1>1. A!AnalyzeStep => QuietSteps \/ WritingSteps \/ A!AssignNewVariable \/ A!LastReturns
  BY DEF A!AnalyzeStep, QuietSteps, WritingSteps
<1>2. outcome = "working" /\ IsTree(ast)
  BY StepIsWorking DEF IInv
<1>3. IsWhole(ast)
  BY <1>2, TreeIsWhole
<1>4. CASE QuietSteps
  BY <1>3, <1>4, QuietRewrite
<1>5. CASE WritingSteps
  BY <1>3, <1>5, WritingRewrite
<1>6. CASE A!AssignNewVariable
  BY <1>6, DeclarationRewrite
<1>7. CASE A!LastReturns
  BY <1>2, <1>7, ReturnRewrite DEF A!LastReturns
<1> QED
  BY <1>1, <1>4, <1>5, <1>6, <1>7

-----------------------------------------------------------------------------
(* What is reported is about a node.                                       *)
LEMMA LeastExists ==
  ASSUME NEW S, S \subseteq Nat, S # {}
  PROVE  \E k \in S : \A j \in S : k <= j
<1> DEFINE R == {ss \in Nat \X Nat : ss[1] < ss[2]}
<1>1. IsWellFoundedOn(R, Nat)
  BY NatLessThanWellFounded DEF OpToRel
<1>2. PICK x \in S : \A y \in S : <<y, x>> \notin R
  <2> HIDE DEF R
  <2> QED BY <1>1, WFMin
<1>3. ASSUME NEW j \in S PROVE x <= j
  <2>1. <<j, x>> \notin R
    BY <1>2
  <2> QED BY <2>1
<1> QED
  BY <1>3

Reported(n) == \E message \in Messages : A!Report(message, n)

(* A message of the handlers is one of those listed.                       *)
LEMMA MessagesAre ==
  ASSUME NEW n, NEW message \in Messages, A!Report(message, n)
  PROVE  Reported(n)
BY DEF Reported

(* One more error, about a node.                                           *)
LEMMA ReportsOne ==
  ASSUME errors \in Reports(ast), NEW n \in DOMAIN ast, Reported(n)
  PROVE  errors' \in Reports(ast)
BY AppendProperties DEF Reports, Reported, A!Report

(* Types compared for a node are reported for it.                          *)
LEMMA ReportsTypes ==
  ASSUME errors \in Reports(ast), NEW n \in DOMAIN ast, NEW type,
         A!ExpectTypeEq(n, type)
  PROVE  errors' \in Reports(ast)
BY ReportsOne, MessagesAre DEF Messages, A!ExpectTypeEq

(* A call reports at most the first argument that differs, and itself.     *)
LEMMA CallReports ==
  ASSUME errors \in Reports(ast), NEW n \in DOMAIN ast,
         ast[n].args \in Seq(DOMAIN ast), NEW type, A!CheckCall(n, type)
  PROVE  errors' \in Reports(ast)
<1> DEFINE args   == ast[n].args
           params == A!ArgTypes(type)
           bad    == A!Unmatched(args, params)
           first  == A!Min(bad)
           wrong  == IF bad # {} /\ A!Reports(ast[args[first]].type, params[first])
                       THEN <<<<"type_mismatch", args[first]>>>> ELSE <<>>
           call   == IF A!Tolerant \/ A!ArgumentsMatch(args, params) THEN <<>>
                       ELSE <<<<"call_mismatch", n>>>>
<1>1. errors' = errors \o (wrong \o call)
  BY DEF A!CheckCall, A!CallErrors
<1>2. bad # {} => args[first] \in DOMAIN ast
  <2> SUFFICES ASSUME bad # {} PROVE args[first] \in DOMAIN ast
    OBVIOUS
  <2>1. bad \subseteq DOMAIN args /\ DOMAIN args = 1 .. Len(args) /\ Len(args) \in Nat
    BY LenProperties DEF A!Unmatched
  <2>2. PICK k \in bad : \A j \in bad : k <= j
    <3>1. bad \subseteq Nat
      BY <2>1
    <3> HIDE DEF bad
    <3> QED
      BY <3>1, LeastExists
  <2>3. first \in bad
    BY <2>2 DEF A!Min
  <2> HIDE DEF bad, first, args
  <2> QED
    BY <2>1, <2>3, ElementOfSeq DEF args
<1>3. wrong \in Reports(ast)
  <2>1. CASE wrong = <<>>
    BY <2>1, EmptySeq DEF Reports
  <2>2. CASE wrong # <<>>
    <3>1. bad # {} /\ wrong = <<<<"type_mismatch", args[first]>>>>
      BY <2>2
    <3> HIDE DEF wrong, bad, first, args
    <3> QED
      BY <1>2, <3>1 DEF Reports, Messages
  <2> QED
    BY <2>1, <2>2
<1>4. call \in Reports(ast)
  <2>1. CASE call = <<>>
    BY <2>1, EmptySeq DEF Reports
  <2>2. CASE call # <<>>
    <3>1. call = <<<<"call_mismatch", n>>>>
      BY <2>2
    <3> HIDE DEF call
    <3> QED
      BY <3>1 DEF Reports, Messages
  <2> QED
    BY <2>1, <2>2
<1> HIDE DEF wrong, call
<1> QED
  BY <1>1, <1>3, <1>4, ConcatProperties DEF Reports

(* Whatever the handler, it reports parts of the node it is about.         *)
LEMMA AnalyzeReports ==
  ASSUME IInv, errors \in Reports(ast), A!AnalyzeStep
  PROVE  errors' \in Reports(ast)
<1> DEFINE n == A!Task.node
           Fine == errors' \in Reports(ast)
<1>1. errors' = errors => Fine
  OBVIOUS
<1>2. ASSUME NEW kinds, A!Applying(kinds)
      PROVE  n \in DOMAIN ast /\ IsTree(ast)
  BY <1>2, Working, TaskOf DEF A!Applying, AnyNode
<1>3. CASE A!AnalyzeErrorNode \/ A!AnalyzeVariable \/ A!AnalyzeSubscript
  <2>1. n \in DOMAIN ast
    BY <1>2, <1>3 DEF A!AnalyzeErrorNode, A!AnalyzeVariable, A!AnalyzeSubscript
  <2>2. errors' = errors \/ Reported(n)
    BY <1>3, MessagesAre
       DEF Messages, A!AnalyzeErrorNode, A!AnalyzeVariable, A!AnalyzeSubscript
  <2> QED
    BY <2>1, <2>2, ReportsOne
<1>4. CASE A!ExpectIntStep
  <2>1. n \in DOMAIN ast
    BY <1>4, Working, TaskOf DEF A!ExpectIntStep, AnyNode
  <2> QED
    BY <1>4, <2>1, ReportsTypes DEF A!ExpectIntStep
<1>5. CASE A!TypeUnaryStep
  <2>1. A!Ref.expr \in DOMAIN ast
    <3>1. n \in Nodes(ast, {"unary"}) /\ IsTree(ast)
      BY <1>5, Working, TaskOf DEF A!TypeUnaryStep
    <3> QED
      BY <3>1, PartsAreNodes DEF Nodes, A!Ref
  <2> QED
    BY <1>5, <2>1, ReportsTypes DEF A!TypeUnaryStep
<1>6. CASE A!TypeBinaryStep
  <2>1. A!Ref.left \in DOMAIN ast /\ A!Ref.right \in DOMAIN ast
    <3>1. n \in Nodes(ast, {"binary"}) /\ IsTree(ast)
      BY <1>6, Working, TaskOf DEF A!TypeBinaryStep
    <3> QED
      BY <3>1, PartsAreNodes DEF Nodes, A!Ref
  <2>2. A!ExpectTypeEq(A!Ref.left, A!IntType) \/ A!ExpectTypeEq(A!Ref.right, A!IntType)
    BY <1>6 DEF A!TypeBinaryStep
  <2> QED
    BY <2>1, <2>2, ReportsTypes
<1>7. CASE A!CheckRightStep
  <2>1. A!Ref.right \in DOMAIN ast
    <3>1. n \in Nodes(ast, {"assignment"}) /\ IsTree(ast)
      BY <1>7, Working, TaskOf DEF A!CheckRightStep
    <3> QED
      BY <3>1, PartsAreNodes DEF Nodes, A!Ref
  <2>2. errors' = errors \/ Reported(A!Ref.right)
    BY <1>7, MessagesAre DEF Messages, A!CheckRightStep
  <2> QED
    BY <2>1, <2>2, ReportsOne
<1>8. CASE A!AssignNewVariable \/ A!CheckTargetStep
  <2> DEFINE target == A!Ref.lefts[A!Task.target]
             type   == ast[A!Ref.right].type
  <2>1. target \in DOMAIN ast
    BY <1>8, TargetOf DEF A!AssignNewVariable, A!CheckTargetStep
  <2>2. errors' = errors \/ A!ExpectTypeEq(target, type)
    BY <1>8 DEF A!AssignNewVariable, A!CheckTargetStep, A!BreakWith
  <2> QED
    BY <2>1, <2>2, ReportsTypes
<1>9. CASE A!DeduceReturnType
  <2>1. n \in DOMAIN ast
    BY <1>9, Working, TaskOf DEF A!DeduceReturnType, Nodes
  <2>2. errors' = errors \/ Reported(n)
    BY <1>9, MessagesAre DEF Messages, A!DeduceReturnType
  <2> QED
    BY <2>1, <2>2, ReportsOne
<1>10. CASE A!CallFunction \/ A!CallVariable \/ A!CallUnresolved
  <2>1. n \in DOMAIN ast /\ ast[n].args \in Seq(DOMAIN ast)
    <3>1. n \in Nodes(ast, {"call"}) /\ IsTree(ast)
      BY <1>10, Working, TaskOf DEF A!CallFunction, A!CallVariable, A!CallUnresolved
    <3> QED
      BY <3>1, PartsAreNodes DEF Nodes
  <2>2. \/ errors' = errors
        \/ Reported(n)
        \/ \E type : A!CheckCall(n, type)
    <3>1. CASE A!CallFunction
      BY <3>1 DEF A!CallFunction
    <3>2. CASE A!CallVariable
      BY <3>2, MessagesAre DEF Messages, A!CallVariable, A!BreakWith
    <3>3. CASE A!CallUnresolved
      BY <3>3, MessagesAre DEF Messages, A!CallUnresolved
    <3> QED
      BY <1>10, <3>1, <3>2, <3>3
  <2> QED
    BY <2>1, <2>2, ReportsOne, CallReports
<1>11. CASE A!AnalyzeFuncStep
  <2>1. A!Ref.body \in DOMAIN ast
    <3>1. n \in Nodes(ast, {"function_definition"}) /\ IsTree(ast)
      BY <1>11, Working, TaskOf DEF A!AnalyzeFuncStep
    <3> QED
      BY <3>1, PartsAreNodes DEF Nodes, A!Ref
  <2>2. errors' = errors \/ Reported(A!Ref.body)
    BY <1>11, MessagesAre DEF Messages, A!AnalyzeFuncStep
  <2> QED
    BY <2>1, <2>2, ReportsOne
<1>12. CASE A!AnalyzeMainStep
  <2>1. n \in DOMAIN ast
    BY <1>12, Working, TaskOf DEF A!AnalyzeMainStep, AnyNode
  <2>2. errors' = errors \/ Reported(n)
    BY <1>12, MessagesAre DEF Messages, A!AnalyzeMainStep
  <2> QED
    BY <2>1, <2>2, ReportsOne
<1>13. CASE \/ A!AnalyzeLeaf \/ A!AnalyzeChildrenFirst \/ A!AssignVariable
            \/ A!AssignElement \/ A!TypeAssignmentStep \/ A!BeginValueBlock
            \/ A!BeginStatementBlock \/ A!LastTypeMissing \/ A!LastReturns
            \/ A!LastStays \/ A!DeduceFromEmpty \/ A!AnalyzeReturn
  <2>1. errors' = errors
    BY <1>13 DEF A!AnalyzeLeaf, A!AnalyzeChildrenFirst, A!AssignVariable,
            A!AssignElement, A!TypeAssignmentStep, A!BeginValueBlock,
            A!BeginStatementBlock, A!LastTypeMissing, A!LastReturns,
            A!LastStays, A!DeduceFromEmpty, A!AnalyzeReturn, A!Break, A!BreakWith
  <2> QED
    BY <2>1
<1>14. CASE \/ A!ReturnOutside \/ A!AnalyzeDefinition \/ A!AnalyzeUnnamed
            \/ A!SetReturnTypeStep \/ A!LeaveAnalyzerStep
            \/ A!AnalyzeFunctionPtr \/ A!TypePointerStep \/ A!Finish
  <2>1. errors' = errors
    BY <1>14 DEF A!ReturnOutside, A!AnalyzeDefinition, A!AnalyzeUnnamed,
            A!SetReturnTypeStep, A!LeaveAnalyzerStep,
            A!AnalyzeFunctionPtr, A!TypePointerStep, A!Finish, A!Break, A!BreakWith
  <2> QED
    BY <2>1
<1> QED
  BY <1>3, <1>4, <1>5, <1>6, <1>7, <1>8, <1>9, <1>10, <1>11, <1>12, <1>13, <1>14
     DEF A!AnalyzeStep

(* How a step of the analyser leaves the rest.                             *)
LEMMA AnalyzeLeaves ==
  ASSUME IInv, globalStab \in DOMAIN ast \cup {Null}, A!AnalyzeStep
  PROVE  /\ outcome' \in Outcomes
         /\ outcome' = "bad_type" => todo' = <<>> /\ analyzer' = analyzer
         /\ root' = root /\ functions' = functions
         /\ globalStab' \in DOMAIN ast \cup {Null}
<1> DEFINE Same == root' = root /\ functions' = functions /\ globalStab' = globalStab
           Stays == outcome' = outcome
           Broken(how) == outcome' = how /\ todo' = <<>> /\ analyzer' = analyzer
<1>1. outcome = "working"
  BY StepIsWorking
<1>2. ASSUME Same, Stays \/ \E how \in A!Breaks : Broken(how)
      PROVE  /\ outcome' \in Outcomes
             /\ outcome' = "bad_type" => todo' = <<>> /\ analyzer' = analyzer
             /\ root' = root /\ functions' = functions
             /\ globalStab' \in DOMAIN ast \cup {Null}
  BY <1>1, <1>2 DEF Outcomes
<1>3. CASE \/ A!AnalyzeLeaf \/ A!AnalyzeErrorNode \/ A!AnalyzeChildrenFirst
           \/ A!ExpectIntStep \/ A!TypeUnaryStep \/ A!TypeBinaryStep
           \/ A!AnalyzeVariable \/ A!AnalyzeSubscript \/ A!CheckRightStep
           \/ A!AssignVariable \/ A!AssignElement \/ A!TypeAssignmentStep
  <2>1. Same /\ Stays
    BY <1>3 DEF A!AnalyzeLeaf, A!AnalyzeErrorNode, A!AnalyzeChildrenFirst,
            A!ExpectIntStep, A!TypeUnaryStep, A!TypeBinaryStep,
            A!AnalyzeVariable, A!AnalyzeSubscript, A!CheckRightStep,
            A!AssignVariable, A!AssignElement, A!TypeAssignmentStep
  <2> QED
    BY <1>2, <2>1
<1>4. CASE A!AssignNewVariable \/ A!CheckTargetStep \/ A!CallVariable
  <2>1. Same /\ (Stays \/ Broken("bad_type"))
    BY <1>4 DEF A!AssignNewVariable, A!CheckTargetStep, A!CallVariable, A!BreakWith
  <2> QED
    BY <1>2, <2>1 DEF A!Breaks
<1>5. CASE A!LastTypeMissing \/ A!DeduceFromEmpty \/ A!ReturnOutside \/ A!AnalyzeUnnamed
  <2>1. Same /\ \E how \in A!Breaks : Broken(how)
    BY <1>5 DEF A!LastTypeMissing, A!DeduceFromEmpty, A!ReturnOutside,
            A!AnalyzeUnnamed, A!Break, A!BreakWith, A!Breaks
  <2> QED
    BY <1>2, <2>1
<1>6. CASE \/ A!BeginValueBlock \/ A!BeginStatementBlock \/ A!LastReturns
           \/ A!LastStays \/ A!DeduceReturnType \/ A!AnalyzeReturn
           \/ A!CallFunction \/ A!CallUnresolved \/ A!AnalyzeDefinition
           \/ A!AnalyzeFuncStep \/ A!SetReturnTypeStep \/ A!LeaveAnalyzerStep
           \/ A!AnalyzeFunctionPtr \/ A!TypePointerStep
  <2>1. Same /\ Stays
    BY <1>6 DEF A!BeginValueBlock, A!BeginStatementBlock, A!LastReturns,
            A!LastStays, A!DeduceReturnType, A!AnalyzeReturn,
            A!CallFunction, A!CallUnresolved, A!AnalyzeDefinition,
            A!AnalyzeFuncStep, A!SetReturnTypeStep, A!LeaveAnalyzerStep,
            A!AnalyzeFunctionPtr, A!TypePointerStep
  <2> QED
    BY <1>2, <2>1
<1>7. CASE A!AnalyzeMainStep
  <2>1. A!Task.node \in DOMAIN ast
    BY <1>7, Working, TaskOf DEF A!AnalyzeMainStep, AnyNode
  <2>2. /\ Stays /\ root' = root /\ functions' = functions
        /\ globalStab' \in {globalStab, A!Task.node}
    BY <1>7 DEF A!AnalyzeMainStep
  <2> QED
    BY <1>1, <2>1, <2>2 DEF Outcomes
<1>8. CASE A!Finish
  BY <1>8 DEF A!Finish, Outcomes
<1> QED
  BY <1>3, <1>4, <1>5, <1>6, <1>7, <1>8 DEF A!AnalyzeStep

(* What the explorer keeps and what is reported stay what they are in a    *)
(* tree that grows.                                                        *)
LEMMA Remain ==
  ASSUME NEW tree, NEW new, Grows(tree, new)
  PROVE  /\ Explored(tree) => Explored(new)
         /\ Reports(tree) \subseteq Reports(new)
<1>1. DOMAIN tree \subseteq DOMAIN new
  BY DEF Grows
<1> QED
  BY <1>1, SeqMonotonic DEF Explored, Reports

(* The invariant, in a step of the analyser.                               *)
LEMMA AnalyzeTypes ==
  ASSUME IInv, TypeInv, AnalyzeTree, IInv'
  PROVE  TypeInv'
<1>1. A!AnalyzeStep /\ usegraph' = usegraph /\ functionStack' = functionStack
  BY DEF AnalyzeTree
<1>2. /\ Grows(ast, ast') /\ Collects(ast')
      /\ outcome' = "bad_type" => IsWhole(ast')
  BY <1>1, AnalyzeRewrites DEF TypeInv, Rewritten
<1>3. /\ outcome' \in Outcomes
      /\ outcome' = "bad_type" => todo' = <<>> /\ analyzer' = analyzer
      /\ root' = root /\ functions' = functions
      /\ globalStab' \in DOMAIN ast \cup {Null}
  BY <1>1, AnalyzeLeaves DEF TypeInv
<1>4. errors' \in Reports(ast)
  BY <1>1, AnalyzeReports DEF TypeInv
<1>5. Explored(ast)'
  <2>1. Explored(ast')
    BY <1>2, Remain DEF TypeInv
  <2> QED
    BY <1>1, <1>3, <2>1 DEF Explored
<1>6. errors' \in Reports(ast')
  BY <1>2, <1>4, Remain
<1>7. root' \in DOMAIN ast' \cup {Null} /\ globalStab' \in DOMAIN ast' \cup {Null}
  BY <1>2, <1>3 DEF TypeInv, Grows
<1>8. IsWhole(ast') /\ todo' \in Seq(Tasks(ast')) /\ analyzer' \in Analyzers(ast')
  <2>1. CASE outcome' = "bad_type"
    BY <1>2, <1>3, <2>1, TasksGrow, EmptySeq DEF TypeInv
  <2>2. CASE outcome' # "bad_type"
    BY <2>2, TreeIsWhole DEF IInv
  <2> QED
    BY <2>1, <2>2
<1> QED
  BY <1>2, <1>3, <1>5, <1>6, <1>7, <1>8 DEF TypeInv

-----------------------------------------------------------------------------
(* The explorer.                                                           *)
LEMMA GraphGrows ==
  ASSUME Explored(ast), NEW name
  PROVE  /\ usegraph.node \subseteq E!Used(usegraph, name).node
         /\ name \in E!Used(usegraph, name).node
         /\ E!Used(usegraph, name).edge
              \subseteq E!Used(usegraph, name).node \X E!Used(usegraph, name).node
<1>1. E!Used(usegraph, name).node = usegraph.node \cup {name}
  BY DEF E!Used
<1>2. functionStack # <<>> => Last(functionStack) \in usegraph.node
  <2>1. functionStack # <<>> => Last(functionStack) \in DOMAIN functions
    BY LenProperties, EmptySeq, ElementOfSeq DEF Explored, Last
  <2> QED
    BY <2>1 DEF Explored
<1>3. \/ E!Used(usegraph, name).edge = usegraph.edge
      \/ /\ functionStack # <<>>
         /\ E!Used(usegraph, name).edge
              = usegraph.edge \cup {<<name, Last(functionStack)>>}
  BY DEF E!Used, E!Last, Last
<1> HIDE DEF Last
<1> QED
  BY <1>1, <1>2, <1>3 DEF Explored

(* The invariant, in a step of the explorer.                               *)
LEMMA ExploreTypes ==
  ASSUME IInv, TypeInv, ExploreTree, IInv'
  PROVE  TypeInv'
<1> DEFINE n == E!Task.node
<1>1. /\ outcome = "exploring" /\ todo # <<>>
      /\ globalStab' = globalStab /\ root' = root
  BY DEF ExploreTree, E!ExploreStep, E!ExploreChildren, E!ExploreDefinition,
         E!ExploreRedefinition, E!ExploreUnnamed, E!LeaveFunction,
         E!ExploreCall, E!ExploreFunctionPtr, E!Exploring, E!Doing
<1>2. IsTree(ast) /\ Collects(ast) /\ Explored(ast) /\ errors \in Reports(ast)
  BY <1>1 DEF IInv, TypeInv
<1>3. E!Task.do = "explore" => n \in DOMAIN ast
  <2>1. E!Task \in Tasks(ast)
    BY <1>1, HeadTailProperties DEF TypeInv, E!Task
  <2> QED
    BY <2>1, TaskOf DEF AnyNode
<1> DEFINE Kept == /\ Rewritten /\ outcome' \in {"exploring", "unnamed"}
                   /\ Explored(ast)' /\ errors' \in Reports(ast')
<1>4. ASSUME Kept PROVE TypeInv'
  <2>1. /\ IsWhole(ast') /\ todo' \in Seq(Tasks(ast'))
        /\ analyzer' \in Analyzers(ast')
    BY <1>4, TreeIsWhole DEF IInv
  <2>2. root' \in DOMAIN ast' \cup {Null} /\ globalStab' \in DOMAIN ast' \cup {Null}
    BY <1>1, <1>4 DEF TypeInv, Rewritten, Grows
  <2>3. outcome' \in Outcomes
    BY <1>4 DEF Outcomes, A!Breaks
  <2> QED
    BY <1>4, <2>1, <2>2, <2>3 DEF TypeInv, Rewritten
<1>5. ASSUME Rewritten PROVE Explored(ast') /\ Reports(ast) \subseteq Reports(ast')
  BY <1>2, <1>5, Remain DEF Rewritten
<1>6. CASE E!ExploreChildren \/ E!ExploreUnnamed
  <2>1. /\ ast' = ast /\ functions' = functions /\ usegraph' = usegraph
        /\ functionStack' = functionStack /\ errors' = errors
        /\ outcome' \in {"exploring", "unnamed"}
    BY <1>1, <1>6 DEF E!ExploreChildren, E!ExploreUnnamed
  <2> QED
    BY <1>2, <1>4, <2>1, Untouched DEF Explored
<1>7. CASE E!ExploreDefinition
  <2> DEFINE name == E!Ref.name
  <2>1. /\ n \in DOMAIN ast /\ ast' = ast /\ errors' = errors
        /\ outcome' = outcome
        /\ usegraph' = E!Used(usegraph, name)
        /\ functionStack' = Append(functionStack, name)
    BY <1>3, <1>7 DEF E!ExploreDefinition, E!Exploring, E!Doing
  <2>2. /\ DOMAIN functions' = DOMAIN functions \cup {name}
        /\ \A f \in DOMAIN functions' :
             functions'[f] = IF f = name THEN [definition |-> n, recursive |-> FALSE]
                                         ELSE functions[f]
    BY <1>7 DEF E!ExploreDefinition
  <2> HIDE DEF name
  <2>3. functionStack' \in Seq(DOMAIN functions')
    <3>1. functionStack \in Seq(DOMAIN functions')
      BY <1>2, <2>2, SeqMonotonic DEF Explored
    <3> QED
      BY <2>1, <2>2, <3>1, AppendProperties
  <2>4. \A f \in DOMAIN functions' :
          functions'[f] \in [definition : DOMAIN ast, recursive : BOOLEAN]
    <3> SUFFICES ASSUME NEW f \in DOMAIN functions'
                 PROVE  functions'[f] \in [definition : DOMAIN ast, recursive : BOOLEAN]
      OBVIOUS
    <3> HIDE DEF n
    <3>1. CASE f = name
      <4>1. functions'[f] = [definition |-> n, recursive |-> FALSE]
        BY <2>2, <3>1
      <4>2. n \in DOMAIN ast
        BY <2>1
      <4> QED
        BY <4>1, <4>2
    <3>2. CASE f # name
      <4>1. f \in DOMAIN functions /\ functions'[f] = functions[f]
        BY <2>2, <3>2
      <4> QED
        BY <1>2, <4>1 DEF Explored
    <3> QED
      BY <3>1, <3>2
  <2>5. /\ DOMAIN functions' \subseteq usegraph'.node
        /\ usegraph'.edge \subseteq usegraph'.node \X usegraph'.node
    BY <1>2, <2>1, <2>2, GraphGrows DEF Explored
  <2> QED
    BY <1>1, <1>2, <1>4, <2>1, <2>3, <2>4, <2>5, Untouched DEF Explored
<1>8. CASE E!ExploreRedefinition
  <2>1. /\ n \in DOMAIN ast /\ ast' = ast /\ functions' = functions
        /\ usegraph' = usegraph /\ functionStack' = functionStack
        /\ outcome' = outcome
        /\ errors' = Append(errors, <<"redefinition", n>>)
    BY <1>3, <1>8 DEF E!ExploreRedefinition, E!Exploring, E!Doing
  <2>2. errors' \in Reports(ast)
    BY <1>2, <2>1, AppendProperties DEF Reports, Messages
  <2> QED
    BY <1>1, <1>2, <1>4, <2>1, <2>2, Untouched DEF Explored
<1>9. CASE E!LeaveFunction
  <2>1. /\ ast' = ast /\ functions' = functions /\ usegraph' = usegraph
        /\ functionStack' = E!Front(functionStack) /\ errors' = errors
        /\ outcome' = outcome
    BY <1>9 DEF E!LeaveFunction
  <2>2. functionStack' \in Seq(DOMAIN functions)
    <3>1. functionStack \in Seq(DOMAIN functions) /\ Len(functionStack) \in Nat
      BY <1>2, LenProperties DEF Explored
    <3>2. functionStack' = SubSeq(functionStack, 1, Len(functionStack) - 1)
      BY <2>1 DEF E!Front
    <3> QED
      BY <3>1, <3>2, SubSeqProperties
  <2> QED
    BY <1>1, <1>2, <1>4, <2>1, <2>2, Untouched DEF Explored
<1>10. CASE E!ExploreCall
  <2> DEFINE name == E!Ref.name
  <2>1. PICK v : ast' = [ast EXCEPT ![n] = [@ EXCEPT !["def"] = v]]
    BY <1>10 DEF E!ExploreCall
  <2>2. Rewritten
    BY <1>2, <2>1, Written DEF Annotations
  <2>3. /\ outcome' = outcome /\ functionStack' = functionStack /\ errors' = errors
        /\ functions' \in {functions, [functions EXCEPT ![name].recursive = TRUE]}
        /\ usegraph' \in {usegraph, E!Used(usegraph, name)}
    BY <1>10 DEF E!ExploreCall
  <2> HIDE DEF name
  <2>4. /\ DOMAIN functions' = DOMAIN functions
        /\ \A f \in DOMAIN functions' :
             functions'[f] \in [definition : DOMAIN ast, recursive : BOOLEAN]
    BY <1>2, <2>3 DEF Explored
  <2>5. /\ usegraph.node \subseteq usegraph'.node
        /\ usegraph'.edge \subseteq usegraph'.node \X usegraph'.node
    BY <1>2, <2>3, GraphGrows DEF Explored
  <2>6. \A f \in DOMAIN functions' :
          functions'[f] \in [definition : DOMAIN ast', recursive : BOOLEAN]
    BY <2>2, <2>4 DEF Rewritten, Grows
  <2>7. Explored(ast)'
    BY <1>2, <2>3, <2>4, <2>5, <2>6 DEF Explored
  <2> QED
    BY <1>1, <1>2, <1>4, <1>5, <2>2, <2>3, <2>7
<1>11. CASE E!ExploreFunctionPtr
  <2> DEFINE def == E!Ref.definition
  <2>1. PICK v : ast' = [ast EXCEPT ![def] = [@ EXCEPT !["name"] = v]]
    BY <1>11 DEF E!ExploreFunctionPtr
  <2>2. Rewritten
    BY <1>2, <2>1, Written DEF Annotations
  <2>3. /\ outcome' = outcome /\ functionStack' = functionStack /\ errors' = errors
        /\ functions' = functions
        /\ \E name : usegraph' = E!Used(usegraph, name)
    BY <1>11 DEF E!ExploreFunctionPtr
  <2>4. /\ usegraph.node \subseteq usegraph'.node
        /\ usegraph'.edge \subseteq usegraph'.node \X usegraph'.node
    BY <1>2, <2>3, GraphGrows
  <2>5. Explored(ast')
    BY <1>5, <2>2
  <2>6. Explored(ast)'
    BY <2>3, <2>4, <2>5 DEF Explored
  <2> QED
    BY <1>1, <1>2, <1>4, <1>5, <2>2, <2>3, <2>6
<1> QED
  BY <1>6, <1>7, <1>8, <1>9, <1>10, <1>11 DEF ExploreTree, E!ExploreStep

-----------------------------------------------------------------------------
(* Every step of the front end.                                            *)
LEMMA InitTypes == ASSUME Init PROVE TypeInv
<1>1. PICK tree \in Parsed : Start(tree)
  BY DEF Init
<1>2. /\ ast = tree.ast /\ outcome = "exploring" /\ globalStab = Null
      /\ functions = <<>> /\ functionStack = <<>> /\ errors = <<>>
      /\ usegraph = [node |-> {}, edge |-> {}]
  BY <1>1 DEF Start, E!Start
<1>3. /\ IsTree(ast) /\ root \in DOMAIN ast \cup {Null}
      /\ todo \in Seq(Tasks(ast)) /\ analyzer \in Analyzers(ast)
  BY <1>2, InitIInv DEF IInv
<1>4. Collects(ast)
  BY <1>2, ParsedAssumption, EmptySeq DEF Collects, Nodes
<1>5. Explored(ast) /\ errors \in Reports(ast)
  BY <1>2, EmptySeq DEF Explored, Reports
<1> QED
  BY <1>2, <1>3, <1>4, <1>5, TreeIsWhole DEF TypeInv, Outcomes

(* The invariant, in every step.                                           *)
LEMMA NextTypes ==
  ASSUME IInv, TypeInv, [Next]_vars
  PROVE  TypeInv'
<1>1. IInv'
  BY NextIInv
<1>2. CASE ExploreTree
  BY <1>1, <1>2, ExploreTypes
<1>3. CASE BeginAnalysis
  <2>1. /\ ast' = ast /\ functions' = functions /\ errors' = errors
        /\ usegraph' = usegraph /\ functionStack' = functionStack
        /\ globalStab' = globalStab /\ outcome' \in {"done", "working"}
    BY <1>3 DEF BeginAnalysis
  <2>2. /\ root' \in DOMAIN ast' \cup {Null} /\ todo' \in Seq(Tasks(ast'))
        /\ analyzer' \in Analyzers(ast')
    BY <1>1, <2>1 DEF IInv
  <2>3. Explored(ast)'
    BY <2>1 DEF TypeInv, Explored
  <2> QED
    BY <2>1, <2>2, <2>3 DEF TypeInv, Outcomes
<1>4. CASE AnalyzeTree
  BY <1>1, <1>4, AnalyzeTypes
<1>5. CASE Over \/ UNCHANGED vars
  <2>1. UNCHANGED vars
    BY <1>5 DEF Over
  <2>2. Explored(ast)'
    BY <2>1 DEF vars, TypeInv, Explored
  <2> QED
    BY <2>1, <2>2 DEF vars, TypeInv
<1> QED
  BY <1>2, <1>3, <1>4, <1>5 DEF Next, Step

(* Whatever is parsed, and also when the analysis has broken off, in the   *)
(* middle of a declaration too, the bare pointers that the two walks keep  *)
(* point to nodes of the tree: parts, tables, collected returns, errors,   *)
(* scopes, functions, and what is left to do; and the functions around the *)
(* node explored are known ones.                                           *)
THEOREM FrontendTypeCorrect == Spec => []TypeOK
<1>1. Init => IInv /\ TypeInv
  BY InitIInv, InitTypes
<1>2. IInv /\ TypeInv /\ [Next]_vars => IInv' /\ TypeInv'
  BY NextIInv, NextTypes
<1>3. TypeInv => TypeOK
  BY TypeInvIsEnough
<1> QED
  BY <1>1, <1>2, <1>3, PTL DEF Spec
=============================================================================
