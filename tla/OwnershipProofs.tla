-------------------------- MODULE OwnershipProofs --------------------------
(***************************************************************************)
(* The tree of the front end stays a tree, for every set of trees the      *)
(* parser may deliver: NoNodeIsShared; and no assignment ever asks for a   *)
(* type that is not there: AssignmentsAreTyped, at the end.                *)
(*                                                                         *)
(* StaysTree counts.  What is proved is that no two links have the same    *)
(* target (Single).  All handlers but one write into nodes what is no      *)
(* part of them; the one that makes a return statement of an expression    *)
(* puts the new node where the expression was, and hangs the expression    *)
(* into the new node, so that the link to it moves and none is added but   *)
(* the one to the new node.                                                *)
(*                                                                         *)
(* The second theorem rests on the first.  Between the look at the right   *)
(* side of an assignment and its targets, subscripts are visited, with     *)
(* whatever they contain, and visiting a node may take its type away.  But *)
(* what is visited is inside the target, and in a tree the right side is   *)
(* not: AssignInv says so of everything that is still to be done.          *)
(***************************************************************************)
EXTENDS FrontendProofs, FiniteSetTheorems

Single(tree) == \A l, m \in Links(tree) : Target(tree, l) = Target(tree, m) => l = m

-----------------------------------------------------------------------------
(* What a node owns, by its class.                                         *)
LEMMA PartsBy ==
  ASSUME NEW ref
  PROVE  /\ ref.node = "binary" => Parts(ref) = <<ref.left, ref.right>>
         /\ ref.node \in {"unary", "print", "subscript"} => Parts(ref) = <<ref.expr>>
         /\ ref.node = "assignment" => Parts(ref) = ref.lefts \o <<ref.right>>
         /\ ref.node = "call" => Parts(ref) = ref.args
         /\ ref.node = "fn_to_ptr" => Parts(ref) = <<ref.definition>>
         /\ ref.node = "function_definition" => Parts(ref) = Append(ref.params, ref.body)
         /\ ref.node \in Blocks => Parts(ref) = ref.stmts
         /\ ref.node = "while" => Parts(ref) = <<ref.cond, ref.block>>
         /\ ref.node = "if" => Parts(ref) = IF ref.else_block = Null
                                THEN <<ref.cond, ref.true_block>>
                                ELSE <<ref.cond, ref.true_block, ref.else_block>>
         /\ ref.node = "return" => Parts(ref) = IF ref.expr = Null THEN <<>> ELSE <<ref.expr>>
         /\ ref.node \in {"constant", "read", "error_node", "variable"} => Parts(ref) = <<>>
<1>1. ref.node = "binary" => Parts(ref) = <<ref.left, ref.right>>
  BY DEF Parts, Blocks
<1>2. ref.node \in {"unary", "print", "subscript"} => Parts(ref) = <<ref.expr>>
  BY DEF Parts, Blocks
<1>3. ref.node = "assignment" => Parts(ref) = ref.lefts \o <<ref.right>>
  BY DEF Parts, Blocks
<1>4. ref.node = "call" => Parts(ref) = ref.args
  BY DEF Parts, Blocks
<1>5. ref.node = "fn_to_ptr" => Parts(ref) = <<ref.definition>>
  BY DEF Parts, Blocks
<1>6. ref.node = "function_definition" => Parts(ref) = Append(ref.params, ref.body)
  BY DEF Parts, Blocks
<1>7. ref.node \in Blocks => Parts(ref) = ref.stmts
  BY DEF Parts, Blocks
<1>8. ref.node = "while" => Parts(ref) = <<ref.cond, ref.block>>
  BY DEF Parts, Blocks
<1>9. ref.node = "if" => Parts(ref) = IF ref.else_block = Null
                           THEN <<ref.cond, ref.true_block>>
                           ELSE <<ref.cond, ref.true_block, ref.else_block>>
  BY DEF Parts, Blocks
<1>10. ref.node = "return" => Parts(ref) = IF ref.expr = Null THEN <<>> ELSE <<ref.expr>>
  BY DEF Parts, Blocks
<1>11. ref.node \in {"constant", "read", "error_node", "variable"} => Parts(ref) = <<>>
  BY DEF Parts, Blocks
<1> QED
  BY <1>1, <1>2, <1>3, <1>4, <1>5, <1>6, <1>7, <1>8, <1>9, <1>10, <1>11

(* The parts of a node are a sequence of nodes.                            *)
LEMMA PartsOfNode ==
  ASSUME NEW ref, NEW nodes, IsNode(ref, nodes)
  PROVE  Parts(ref) \in Seq(nodes)
<1>1. CASE ref.node = "binary"
  <2>1. ref.left \in nodes /\ ref.right \in nodes
    BY <1>1 DEF IsNode, Blocks
  <2>2. Parts(ref) = <<ref.left, ref.right>>
    BY <1>1, PartsBy
  <2> QED
    BY <2>1, <2>2
<1>2. CASE ref.node \in {"unary", "print", "subscript"}
  <2>1. ref.expr \in nodes
    BY <1>2 DEF IsNode, Blocks
  <2>2. Parts(ref) = <<ref.expr>>
    BY <1>2, PartsBy
  <2> QED
    BY <2>1, <2>2
<1>3. CASE ref.node = "assignment"
  <2>1. ref.lefts \in Seq(nodes) /\ ref.right \in nodes
    BY <1>3 DEF IsNode, Blocks
  <2>2. Parts(ref) = ref.lefts \o <<ref.right>>
    BY <1>3, PartsBy
  <2>3. <<ref.right>> \in Seq(nodes)
    BY <2>1
  <2> QED
    BY <2>1, <2>2, <2>3, ConcatProperties
<1>4. CASE ref.node = "call"
  <2>1. ref.args \in Seq(nodes)
    BY <1>4 DEF IsNode, Blocks
  <2>2. Parts(ref) = ref.args
    BY <1>4, PartsBy
  <2> QED
    BY <2>1, <2>2
<1>5. CASE ref.node = "fn_to_ptr"
  <2>1. ref.definition \in nodes
    BY <1>5 DEF IsNode, Blocks
  <2>2. Parts(ref) = <<ref.definition>>
    BY <1>5, PartsBy
  <2> QED
    BY <2>1, <2>2
<1>6. CASE ref.node = "function_definition"
  <2>1. ref.params \in Seq(nodes) /\ ref.body \in nodes
    BY <1>6 DEF IsNode, Blocks
  <2>2. Parts(ref) = Append(ref.params, ref.body)
    BY <1>6, PartsBy
  <2> QED
    BY <2>1, <2>2, AppendProperties
<1>7. CASE ref.node \in Blocks
  <2>1. ref.stmts \in Seq(nodes)
    BY <1>7 DEF IsNode, Blocks
  <2>2. Parts(ref) = ref.stmts
    BY <1>7, PartsBy
  <2> QED
    BY <2>1, <2>2
<1>8. CASE ref.node = "while"
  <2>1. ref.cond \in nodes /\ ref.block \in nodes
    BY <1>8 DEF IsNode, Blocks
  <2>2. Parts(ref) = <<ref.cond, ref.block>>
    BY <1>8, PartsBy
  <2> QED
    BY <2>1, <2>2
<1>9. CASE ref.node = "if"
  <2>1. /\ ref.cond \in nodes /\ ref.true_block \in nodes
        /\ ref.else_block # Null => ref.else_block \in nodes
    BY <1>9 DEF IsNode, Blocks
  <2>2. Parts(ref) = IF ref.else_block = Null
                       THEN <<ref.cond, ref.true_block>>
                       ELSE <<ref.cond, ref.true_block, ref.else_block>>
    BY <1>9, PartsBy
  <2> QED
    BY <2>1, <2>2
<1>10. CASE ref.node = "return"
  <2>1. ref.expr # Null => ref.expr \in nodes
    BY <1>10 DEF IsNode, Blocks
  <2>2. Parts(ref) = IF ref.expr = Null THEN <<>> ELSE <<ref.expr>>
    BY <1>10, PartsBy
  <2> QED
    BY <2>1, <2>2
<1>11. CASE ref.node \in {"constant", "read", "error_node", "variable"}
  <2>1. Parts(ref) = <<>>
    BY <1>11, PartsBy
  <2> QED
    BY <2>1, EmptySeq
<1> QED
  BY <1>1, <1>2, <1>3, <1>4, <1>5, <1>6, <1>7, <1>8, <1>9, <1>10, <1>11 DEF IsNode

LEMMA PartsAreSeq ==
  ASSUME NEW tree, IsTree(tree), NEW n \in DOMAIN tree
  PROVE  Parts(tree[n]) \in Seq(DOMAIN tree)
BY PartsOfNode DEF IsTree

(* The links of a tree are finitely many.                                  *)
LEMMA LinksAreFinite ==
  ASSUME NEW tree, IsTree(tree)
  PROVE  IsFiniteSet(Links(tree))
<1> DEFINE Of(n) == {n} \X DOMAIN Parts(tree[n])
           All == {Of(n) : n \in DOMAIN tree}
           f == [n \in DOMAIN tree |-> Of(n)]
<1>1. IsFiniteSet(DOMAIN tree)
  <2>1. PICK len \in Nat : DOMAIN tree = 1 .. len
    BY PlacesAre DEF IsTree
  <2> QED
    BY <2>1, FS_Interval
<1>2. ASSUME NEW n \in DOMAIN tree PROVE IsFiniteSet(Of(n))
  <2>1. DOMAIN Parts(tree[n]) = 1 .. Len(Parts(tree[n])) /\ Len(Parts(tree[n])) \in Nat
    BY PartsAreSeq, LenProperties
  <2>2. IsFiniteSet(DOMAIN Parts(tree[n]))
    BY <2>1, FS_Interval
  <2>3. IsFiniteSet({n})
    BY FS_Singleton
  <2> QED
    BY <2>2, <2>3, FS_Product
<1>3. IsFiniteSet(All)
  <2>1. f \in Surjection(DOMAIN tree, All)
    <3> HIDE DEF Of
    <3> QED
      BY DEF Surjection
  <2> HIDE DEF f, All
  <2> QED
    BY <1>1, <2>1, FS_Surjection
<1>4. \A T \in All : IsFiniteSet(T)
  BY <1>2
<1> HIDE DEF All
<1>5. IsFiniteSet(UNION All)
  BY <1>3, <1>4, FS_UNION
<1> QED
  BY <1>5 DEF Links, All

(* No more targets than links means no target of two.                      *)
LEMMA OnceIsSingle ==
  ASSUME NEW tree, IsTree(tree), NEW top
  PROVE  OwnedOnce(tree, top) <=> Single(tree) /\ top \notin Owned(tree)
<1> DEFINE f == [l \in Links(tree) |-> Target(tree, l)]
<1>1. f \in Surjection(Links(tree), Owned(tree))
  BY DEF Surjection, Owned
<1>2. f \in Injection(Links(tree), Owned(tree)) <=> Single(tree)
  <2>1. f \in [Links(tree) -> Owned(tree)]
    BY DEF Owned
  <2> QED
    BY <2>1 DEF Injection, IsInjective, Single
<1> HIDE DEF f
<1>3. Cardinality(Owned(tree)) = Cardinality(Links(tree)) <=> Single(tree)
  BY <1>1, <1>2, LinksAreFinite, FS_Surjection
<1> QED
  BY <1>3 DEF OwnedOnce

-----------------------------------------------------------------------------
(* What is written into nodes without touching their parts.                *)
SameParts(tree, new) ==
  /\ DOMAIN new = DOMAIN tree
  /\ \A n \in DOMAIN tree : Parts(new[n]) = Parts(tree[n])

LEMMA SameOnce ==
  ASSUME NEW tree, NEW new, SameParts(tree, new), NEW top, OwnedOnce(tree, top)
  PROVE  OwnedOnce(new, top)
<1>1. Links(new) = Links(tree)
  BY DEF SameParts, Links
<1>2. \A l \in Links(tree) : l[1] \in DOMAIN tree
  BY DEF Links
<1>3. \A l \in Links(tree) : Target(new, l) = Target(tree, l)
  BY <1>2 DEF SameParts, Target
<1>4. Owned(new) = Owned(tree)
  BY <1>1, <1>3 DEF Owned
<1> QED
  BY <1>1, <1>4 DEF OwnedOnce

(* A record with the same fields as a node, equal but for what is written  *)
(* later, has the same parts.                                              *)
LEMMA PartsStay ==
  ASSUME NEW ref, NEW nodes, IsNode(ref, nodes), NEW new,
         NEW f \in Annotations \cup {"stab"},
         DOMAIN new = DOMAIN ref,
         \A g \in DOMAIN ref : g # f => new[g] = ref[g]
  PROVE  Parts(new) = Parts(ref)
<1>1. "node" \in DOMAIN ref /\ new.node = ref.node
  BY DEF IsNode, Annotations
<1>2. CASE ref.node \in {"binary", "unary", "print", "subscript"}
  BY <1>1, <1>2 DEF IsNode, Annotations, Parts, Blocks
<1>3. CASE ref.node \in {"assignment", "call", "fn_to_ptr", "function_definition"}
  BY <1>1, <1>3 DEF IsNode, Annotations, Parts, Blocks
<1>4. CASE ref.node \in Blocks
  BY <1>1, <1>4 DEF IsNode, Annotations, Parts, Blocks
<1>5. CASE ref.node \in {"while", "if", "return"}
  BY <1>1, <1>5 DEF IsNode, Annotations, Parts, Blocks
<1>6. CASE ref.node \in {"constant", "read", "error_node", "variable"}
  BY <1>1, <1>6 DEF IsNode, Annotations, Parts, Blocks
<1> QED
  BY <1>2, <1>3, <1>4, <1>5, <1>6 DEF IsNode

LEMMA AnnotateParts ==
  ASSUME NEW tree, IsTree(tree), NEW n, NEW f \in Annotations, NEW v
  PROVE  SameParts(tree, [tree EXCEPT ![n] = [@ EXCEPT ![f] = v]])
<1> DEFINE new == [tree EXCEPT ![n] = [@ EXCEPT ![f] = v]]
<1>1. DOMAIN new = DOMAIN tree
  OBVIOUS
<1>2. \A m \in DOMAIN tree :
        /\ DOMAIN new[m] = DOMAIN tree[m]
        /\ \A g \in DOMAIN tree[m] : g # f => new[m][g] = tree[m][g]
  OBVIOUS
<1> HIDE DEF new
<1>3. \A m \in DOMAIN tree : Parts(new[m]) = Parts(tree[m])
  BY <1>2, PartsStay DEF IsTree
<1> QED
  BY <1>1, <1>3 DEF SameParts, new

LEMMA DeclareParts ==
  ASSUME NEW tree, IsTree(tree), NEW n, NEW v
  PROVE  SameParts(tree, [tree EXCEPT ![n].stab = v])
<1> DEFINE new == [tree EXCEPT ![n].stab = v]
<1>1. DOMAIN new = DOMAIN tree
  OBVIOUS
<1>2. \A m \in DOMAIN tree :
        /\ DOMAIN new[m] = DOMAIN tree[m]
        /\ \A g \in DOMAIN tree[m] : g # "stab" => new[m][g] = tree[m][g]
  OBVIOUS
<1> HIDE DEF new
<1>3. \A m \in DOMAIN tree : Parts(new[m]) = Parts(tree[m])
  BY <1>2, PartsStay DEF IsTree
<1> QED
  BY <1>1, <1>3 DEF SameParts, new

(* A new node takes the place of a part and owns it; nothing else has      *)
(* other parts than before.                                                *)
Returned(tree, put, n, k, made) ==
  LET old == Parts(tree[n])
      new == Parts(put[n])
  IN  /\ made \notin DOMAIN tree /\ made # Null
      /\ DOMAIN put = DOMAIN tree \cup {made}
      /\ \A m \in DOMAIN tree : m # n => put[m] = tree[m]
      /\ DOMAIN put[n] = DOMAIN tree[n]
      /\ \A g \in DOMAIN tree[n] : g # "stmts" => put[n][g] = tree[n][g]
      /\ k \in DOMAIN old /\ DOMAIN new = DOMAIN old /\ new[k] = made
      /\ \A j \in DOMAIN old : j # k => new[j] = old[j]
      /\ put[made].node = "return" /\ Parts(put[made]) = <<old[k]>>

(* The last statement of a block becomes the expression of a return.       *)
LEMMA ReturnParts ==
  ASSUME NEW tree, IsTree(tree), NEW n \in Nodes(tree, Blocks), tree[n].stmts # <<>>
  PROVE  LET k == Len(tree[n].stmts)
         IN  /\ Returned(tree, WithReturn(tree, n), n, k, Len(tree) + 1)
             /\ Parts(tree[n])[k] = tree[n].stmts[k] /\ tree[n].stmts[k] \in DOMAIN tree
<1> DEFINE k      == Len(tree[n].stmts)
           last   == tree[n].stmts[k]
           made   == Len(tree) + 1
           ret    == [node |-> "return", expr |-> last]
           longer == Append(tree, ret)
           put    == [longer EXCEPT ![n].stmts[k] = made]
<1>1. n \in DOMAIN tree /\ tree[n].node \in Blocks
  BY DEF Nodes
<1>2. /\ tree[n].stmts \in Seq(DOMAIN tree) /\ Parts(tree[n]) = tree[n].stmts
      /\ {"node", "stmts"} \subseteq DOMAIN tree[n]
  <2>1. IsNode(tree[n], DOMAIN tree)
    BY <1>1 DEF IsTree
  <2> QED
    BY <1>1, <2>1, PartsBy DEF IsNode, Blocks
<1>3. k \in DOMAIN tree[n].stmts /\ last \in DOMAIN tree
  BY <1>2, LenProperties, EmptySeq, ElementOfSeq
<1>4. /\ DOMAIN longer = DOMAIN tree \cup {made} /\ longer[made] = ret
      /\ \A m \in DOMAIN tree : longer[m] = tree[m]
      /\ made \notin DOMAIN tree /\ made # Null
  <2>1. tree \in Seq({tree[m] : m \in DOMAIN tree} \cup {ret})
    BY SeqMonotonic DEF IsTree, Places
  <2>2. DOMAIN tree = 1 .. Len(tree) /\ Len(tree) \in Nat
    BY <2>1, LenProperties
  <2> HIDE DEF ret
  <2>3. /\ longer \in Seq({tree[m] : m \in DOMAIN tree} \cup {ret})
        /\ Len(longer) = made /\ longer[made] = ret
        /\ \A m \in 1 .. Len(tree) : longer[m] = tree[m]
    BY <2>1, AppendProperties
  <2>4. DOMAIN longer = 1 .. made
    BY <2>3, LenProperties
  <2> QED
    BY <2>2, <2>3, <2>4 DEF Null
<1>5. put = WithReturn(tree, n)
  BY DEF WithReturn
<1>6. /\ DOMAIN put = DOMAIN tree \cup {made} /\ put[made] = ret
      /\ \A m \in DOMAIN tree : m # n => put[m] = tree[m]
      /\ put[n].node = tree[n].node /\ DOMAIN put[n] = DOMAIN tree[n]
      /\ \A g \in DOMAIN tree[n] : g # "stmts" => put[n][g] = tree[n][g]
      /\ put[n].stmts = [tree[n].stmts EXCEPT ![k] = made]
  <2> HIDE DEF longer, k, made, ret
  <2> QED
    BY <1>1, <1>2, <1>4
<1> HIDE DEF put, longer
<1>7. /\ \A m \in DOMAIN tree : m # n => Parts(put[m]) = Parts(tree[m])
      /\ Parts(put[n]) = [Parts(tree[n]) EXCEPT ![k] = made]
      /\ Parts(put[made]) = <<last>>
  <2>1. Parts(put[n]) = put[n].stmts
    BY <1>1, <1>6, PartsBy
  <2>2. Parts(ret) = <<last>>
    <3>1. ret.node = "return" /\ ret.expr = last /\ last # Null
      <4>1. tree \in Seq({tree[m] : m \in DOMAIN tree})
        BY DEF IsTree, Places
      <4>2. DOMAIN tree = 1 .. Len(tree)
        BY <4>1, LenProperties
      <4> QED
        BY <1>3, <4>2 DEF Null
    <3> HIDE DEF ret, last
    <3> QED
      BY <3>1, PartsBy
  <2> QED
    BY <1>2, <1>6, <2>1, <2>2
<1>8. k \in DOMAIN Parts(tree[n]) /\ Parts(tree[n])[k] = last
  BY <1>2, <1>3
<1>9. put[made].node = "return"
  BY <1>6 DEF ret
<1>10. \A j \in DOMAIN Parts(tree[n]) : j # k => Parts(put[n])[j] = Parts(tree[n])[j]
  BY <1>7
<1>11. Parts(put[n])[k] = made /\ DOMAIN Parts(put[n]) = DOMAIN Parts(tree[n])
  BY <1>7, <1>8
<1> HIDE DEF ret, last, made, k
<1>12. Returned(tree, put, n, k, made)
  BY <1>4, <1>6, <1>7, <1>8, <1>9, <1>10, <1>11 DEF Returned
<1> QED
  BY <1>3, <1>5, <1>8, <1>12 DEF last, made, k

(* One link moves to the new node and one is added, from it.               *)
LEMMA ReturnOnce ==
  ASSUME NEW tree, IsTree(tree), NEW n \in Nodes(tree, Blocks), tree[n].stmts # <<>>,
         NEW top \in DOMAIN tree \cup {Null}, OwnedOnce(tree, top),
         IsTree(WithReturn(tree, n))
  PROVE  OwnedOnce(WithReturn(tree, n), top)
<1> DEFINE k     == Len(tree[n].stmts)
           last  == Parts(tree[n])[k]
           made  == Len(tree) + 1
           put   == WithReturn(tree, n)
           moved == <<n, k>>
           added == <<made, 1>>
<1>1. n \in DOMAIN tree
  BY DEF Nodes
<1>2. Returned(tree, put, n, k, made) /\ last \in DOMAIN tree
  BY ReturnParts
<1> HIDE DEF put, made, k
<1>3. /\ made \notin DOMAIN tree /\ made # Null
      /\ DOMAIN put = DOMAIN tree \cup {made}
      /\ \A m \in DOMAIN tree : m # n => Parts(put[m]) = Parts(tree[m])
      /\ k \in DOMAIN Parts(tree[n]) /\ DOMAIN Parts(put[n]) = DOMAIN Parts(tree[n])
      /\ Parts(put[n])[k] = made
      /\ \A j \in DOMAIN Parts(tree[n]) : j # k => Parts(put[n])[j] = Parts(tree[n])[j]
      /\ Parts(put[made]) = <<last>>
  BY <1>2 DEF Returned
<1> HIDE DEF last
<1>4. Links(put) = Links(tree) \cup {added} /\ moved \in Links(tree)
  <2>1. \A m \in DOMAIN tree : DOMAIN Parts(put[m]) = DOMAIN Parts(tree[m])
    BY <1>3
  <2>2. DOMAIN Parts(put[made]) = {1}
    BY <1>3
  <2>3. moved \in Links(tree)
    BY <1>1, <1>3 DEF Links
  <2> QED
    BY <1>3, <2>1, <2>2, <2>3 DEF Links
<1>5. \A l \in Links(tree) :
        /\ l[1] \in DOMAIN tree /\ l[2] \in DOMAIN Parts(tree[l[1]])
        /\ l = <<l[1], l[2]>>
  BY DEF Links
<1>6. /\ Target(tree, moved) = last /\ Target(put, moved) = made
      /\ Target(put, added) = last
  BY <1>3 DEF Target, last
<1>7. \A l \in Links(tree) : l # moved => Target(put, l) = Target(tree, l)
  BY <1>3, <1>5 DEF Target
<1>8. \A l \in Links(tree) : Target(tree, l) \in DOMAIN tree
  <2>1. ASSUME NEW l \in Links(tree) PROVE Target(tree, l) \in DOMAIN tree
    <3>1. Parts(tree[l[1]]) \in Seq(DOMAIN tree)
      BY <1>5, PartsAreSeq
    <3> QED
      BY <1>5, <3>1, ElementOfSeq, LenProperties DEF Target
  <2> QED
    BY <2>1
<1>9. Single(tree) /\ top \notin Owned(tree)
  BY OnceIsSingle
<1> HIDE DEF moved, added
<1>10. Single(put)
  <2> SUFFICES ASSUME NEW l \in Links(put), NEW m \in Links(put),
                      Target(put, l) = Target(put, m), l # m
               PROVE  FALSE
    BY DEF Single
  <2>1. CASE l = moved \/ m = moved
    BY <1>2, <1>3, <1>4, <1>6, <1>7, <1>8, <2>1
  <2>2. CASE l # moved /\ m # moved
    BY <1>4, <1>6, <1>7, <1>9, <2>2 DEF Single
  <2> QED
    BY <2>1, <2>2
<1>11. top \notin Owned(put)
  <2>1. ASSUME NEW l \in Links(put) PROVE Target(put, l) # top
    BY <1>3, <1>4, <1>6, <1>7, <1>9, <2>1 DEF Owned
  <2> QED
    BY <2>1 DEF Owned
<1> QED
  BY <1>10, <1>11, OnceIsSingle DEF put

-----------------------------------------------------------------------------
(* What the steps of the front end write.                                  *)
Annotated(tree, new) ==
  \E n, v : \E f \in Annotations : new = [tree EXCEPT ![n] = [@ EXCEPT ![f] = v]]

LEMMA AnnotatedOnce ==
  ASSUME IsTree(ast), StaysTree, ast' = ast \/ Annotated(ast, ast'), root' = root
  PROVE  StaysTree'
<1>1. CASE ast' = ast
  BY <1>1 DEF StaysTree
<1>2. CASE Annotated(ast, ast')
  <2>1. PICK n, v : \E f \in Annotations :
                      ast' = [ast EXCEPT ![n] = [@ EXCEPT ![f] = v]]
    BY <1>2 DEF Annotated
  <2>2. PICK f \in Annotations : ast' = [ast EXCEPT ![n] = [@ EXCEPT ![f] = v]]
    BY <2>1
  <2>3. SameParts(ast, ast')
    BY <2>2, AnnotateParts
  <2> QED
    BY <2>3, SameOnce DEF StaysTree
<1> QED
  BY <1>1, <1>2

LEMMA ExploreOnce ==
  ASSUME IInv, StaysTree, ExploreTree
  PROVE  StaysTree'
<1>1. root' = root
  BY DEF ExploreTree, E!ExploreStep, E!ExploreChildren, E!ExploreDefinition,
         E!ExploreRedefinition, E!ExploreUnnamed, E!LeaveFunction,
         E!ExploreCall, E!ExploreFunctionPtr
<1>2. IsTree(ast)
  BY DEF IInv, ExploreTree, E!ExploreStep, E!ExploreChildren,
         E!ExploreDefinition, E!ExploreRedefinition, E!ExploreUnnamed,
         E!LeaveFunction, E!ExploreCall, E!ExploreFunctionPtr, E!Exploring,
         E!Doing
<1>3. CASE E!ExploreCall
  <2>1. \E v : ast' = [ast EXCEPT ![E!Task.node] = [@ EXCEPT !["def"] = v]]
    BY <1>3 DEF E!ExploreCall
  <2> QED
    BY <1>1, <1>2, <2>1, AnnotatedOnce DEF Annotated, Annotations
<1>4. CASE E!ExploreFunctionPtr
  <2>1. \E v : ast' = [ast EXCEPT ![E!Ref.definition] = [@ EXCEPT !["name"] = v]]
    BY <1>4 DEF E!ExploreFunctionPtr
  <2> QED
    BY <1>1, <1>2, <2>1, AnnotatedOnce DEF Annotated, Annotations
<1>5. CASE E!ExploreChildren \/ E!ExploreDefinition \/ E!ExploreRedefinition
           \/ E!ExploreUnnamed \/ E!LeaveFunction
  <2>1. ast' = ast
    BY <1>5 DEF E!ExploreChildren, E!ExploreDefinition, E!ExploreRedefinition,
                E!ExploreUnnamed, E!LeaveFunction
  <2> QED
    BY <1>1, <2>1 DEF StaysTree
<1> QED
  BY <1>3, <1>4, <1>5 DEF ExploreTree, E!ExploreStep

(* Handlers that leave the tree alone, or an exception does.               *)
LEMMA QuietOnce ==
  ASSUME StaysTree,
         \/ A!AnalyzeLeaf \/ A!AnalyzeErrorNode \/ A!AnalyzeChildrenFirst
         \/ A!ExpectIntStep \/ A!AnalyzeSubscript \/ A!CheckRightStep
         \/ A!AssignElement \/ A!CheckTargetStep \/ A!BeginStatementBlock
         \/ A!LastTypeMissing \/ A!LastStays \/ A!DeduceFromEmpty
         \/ A!ReturnOutside \/ A!CallUnresolved \/ A!AnalyzeDefinition
         \/ A!AnalyzeUnnamed \/ A!AnalyzeFuncStep \/ A!LeaveAnalyzerStep
         \/ A!AnalyzeFunctionPtr \/ A!AnalyzeMainStep \/ A!Finish
  PROVE  StaysTree'
<1>1. ast' = ast /\ root' = root
  <2>1. CASE A!AnalyzeLeaf \/ A!AnalyzeErrorNode \/ A!AnalyzeChildrenFirst
             \/ A!ExpectIntStep \/ A!AnalyzeSubscript \/ A!CheckRightStep
    BY <2>1 DEF A!AnalyzeLeaf, A!AnalyzeErrorNode, A!AnalyzeChildrenFirst,
                A!ExpectIntStep, A!AnalyzeSubscript, A!CheckRightStep
  <2>2. CASE A!AssignElement \/ A!CheckTargetStep \/ A!BeginStatementBlock
             \/ A!LastTypeMissing \/ A!LastStays \/ A!DeduceFromEmpty
             \/ A!ReturnOutside
    BY <2>2 DEF A!AssignElement, A!CheckTargetStep, A!BeginStatementBlock,
                A!LastTypeMissing, A!LastStays, A!DeduceFromEmpty,
                A!ReturnOutside, A!Break, A!BreakWith
  <2>3. CASE A!CallUnresolved \/ A!AnalyzeDefinition \/ A!AnalyzeUnnamed
             \/ A!AnalyzeFuncStep \/ A!LeaveAnalyzerStep
             \/ A!AnalyzeFunctionPtr \/ A!AnalyzeMainStep \/ A!Finish
    BY <2>3 DEF A!CallUnresolved, A!AnalyzeDefinition, A!AnalyzeUnnamed,
                A!AnalyzeFuncStep, A!LeaveAnalyzerStep, A!AnalyzeFunctionPtr,
                A!AnalyzeMainStep, A!Finish, A!Break, A!BreakWith
  <2> QED
    BY <2>1, <2>2, <2>3
<1> QED
  BY <1>1 DEF StaysTree

(* Handlers that write a type, or another annotation, into a node.         *)
LEMMA AnnotatingOnce ==
  ASSUME IInv, StaysTree,
         \/ A!TypeUnaryStep \/ A!TypeBinaryStep \/ A!AnalyzeVariable
         \/ A!AssignVariable \/ A!TypeAssignmentStep \/ A!BeginValueBlock
         \/ A!DeduceReturnType \/ A!AnalyzeReturn \/ A!CallFunction
         \/ A!CallVariable \/ A!SetReturnTypeStep \/ A!TypePointerStep
  PROVE  StaysTree'
<1> DEFINE n == A!Task.node
           Typed(m) == \E v : ast' = [ast EXCEPT ![m] = [@ EXCEPT !["type"] = v]]
<1>1. root' = root
  BY DEF A!TypeUnaryStep, A!TypeBinaryStep, A!AnalyzeVariable,
         A!AssignVariable, A!TypeAssignmentStep, A!BeginValueBlock,
         A!DeduceReturnType, A!AnalyzeReturn, A!CallFunction, A!CallVariable,
         A!SetReturnTypeStep, A!TypePointerStep
<1>2. IsTree(ast)
  <2>1. \E what : A!Doing(what)
    BY DEF A!TypeUnaryStep, A!TypeBinaryStep, A!AnalyzeVariable,
           A!AssignVariable, A!TypeAssignmentStep, A!BeginValueBlock,
           A!DeduceReturnType, A!AnalyzeReturn, A!CallFunction, A!CallVariable,
           A!SetReturnTypeStep, A!TypePointerStep, A!Applying
  <2> QED
    BY <2>1, Working
<1>3. ASSUME NEW m, Typed(m) PROVE Annotated(ast, ast')
  BY <1>3 DEF Annotated, Annotations
<1>4. ASSUME NEW type, A!CheckCall(n, type)
      PROVE  ast' = ast \/ Annotated(ast, ast')
  <2>1. ast' = ast \/ Typed(n)
    BY <1>4 DEF A!CheckCall
  <2> QED
    BY <1>3, <2>1
<1>5. CASE A!TypeUnaryStep \/ A!TypeBinaryStep \/ A!AnalyzeVariable
  <2>1. ast' = ast \/ Typed(n)
    BY <1>5 DEF A!TypeUnaryStep, A!TypeBinaryStep, A!AnalyzeVariable
  <2> QED
    BY <1>1, <1>2, <1>3, <2>1, AnnotatedOnce
<1>6. CASE A!AssignVariable
  <2>1. Typed(A!Ref.lefts[A!Task.target])
    BY <1>6 DEF A!AssignVariable
  <2> QED
    BY <1>1, <1>2, <1>3, <2>1, AnnotatedOnce
<1>7. CASE A!TypeAssignmentStep \/ A!DeduceReturnType \/ A!TypePointerStep
  <2>1. Typed(n)
    BY <1>7 DEF A!TypeAssignmentStep, A!DeduceReturnType, A!TypePointerStep
  <2> QED
    BY <1>1, <1>2, <1>3, <2>1, AnnotatedOnce
<1>8. CASE A!BeginValueBlock \/ A!AnalyzeReturn
  <2>1. \E m, v : ast' = [ast EXCEPT ![m] = [@ EXCEPT !["returns"] = v]]
    BY <1>8 DEF A!BeginValueBlock, A!AnalyzeReturn
  <2> QED
    BY <1>1, <1>2, <2>1, AnnotatedOnce DEF Annotated, Annotations
<1>9. CASE A!SetReturnTypeStep
  <2>1. \E v : ast' = [ast EXCEPT ![n] = [@ EXCEPT !["return"] = v]]
    BY <1>9 DEF A!SetReturnTypeStep
  <2> QED
    BY <1>1, <1>2, <2>1, AnnotatedOnce DEF Annotated, Annotations
<1>10. CASE A!CallFunction
  <2>1. PICK type : A!CheckCall(n, type)
    BY <1>10 DEF A!CallFunction
  <2> QED
    BY <1>1, <1>2, <1>4, <2>1, AnnotatedOnce
<1>11. CASE A!CallVariable
  <2>1. ast' = ast \/ \E type : A!CheckCall(n, type)
    BY <1>11 DEF A!CallVariable, A!BreakWith
  <2> QED
    BY <1>1, <1>2, <1>4, <2>1, AnnotatedOnce
<1> QED
  BY <1>5, <1>6, <1>7, <1>8, <1>9, <1>10, <1>11

(* A declaration, finished or broken off.                                  *)
LEMMA DeclarationOnce ==
  ASSUME IInv, StaysTree, A!AssignNewVariable
  PROVE  StaysTree'
<1> DEFINE target == A!Ref.lefts[A!Task.target]
           type   == ast[A!Ref.right].type
           block  == A!Last(analyzer.scopes)
           v      == A!Declared(ast[block].stab, ast[target].name, target)
           declared == [ast EXCEPT ![block].stab = v]
           typed    == [ast EXCEPT ![target] = [@ EXCEPT !["type"] = type]]
<1>1. IsTree(ast) /\ root' = root
  BY Working DEF A!AssignNewVariable
<1>2. CASE ast' = declared
  <2>1. SameParts(ast, ast')
    <3> HIDE DEF v, block
    <3> QED
      BY <1>1, <1>2, DeclareParts
  <2> QED
    BY <1>1, <2>1, SameOnce DEF StaysTree
<1>3. CASE /\ ast' = [declared EXCEPT ![target].type = type]
           /\ type # NoType
  <2> DEFINE new == [typed EXCEPT ![block].stab = v]
  <2>1. ast' = new
    <3> HIDE DEF block, target, type, v
    <3> QED
      BY <1>3
  <2> HIDE DEF v, block, target, type
  <2>2. SameParts(ast, typed) /\ IsTree(typed)
    BY <1>1, <1>3, AnnotateParts, AnnotateTree DEF Annotations
  <2>3. SameParts(typed, new)
    <3> HIDE DEF typed
    <3> QED
      BY <2>2, DeclareParts
  <2>4. OwnedOnce(typed, root)
    <3> HIDE DEF typed
    <3> QED
      BY <2>2, SameOnce DEF StaysTree
  <2>5. OwnedOnce(new, root)
    <3> HIDE DEF typed, new
    <3> QED
      BY <2>3, <2>4, SameOnce
  <2> QED
    BY <1>1, <2>1, <2>5 DEF StaysTree
<1>4. \/ ast' = declared
      \/ ast' = [declared EXCEPT ![target].type = type] /\ type # NoType
  BY DEF A!AssignNewVariable, A!BreakWith, A!NoType, NoType
<1> QED
  BY <1>2, <1>3, <1>4

LEMMA LastReturnsOnce ==
  ASSUME IInv, StaysTree, A!LastReturns
  PROVE  StaysTree'
<1> DEFINE put == WithReturn(ast, A!Task.node)
<1>1. root' = root /\ root \in DOMAIN ast \cup {Null}
  BY Working DEF A!LastReturns
<1>2. IsTree(put) /\ OwnedOnce(put, root)
  BY <1>1, ReturnMade, ReturnOnce DEF StaysTree
<1>3. PICK v : ast' = [put EXCEPT ![A!Returns] = [@ EXCEPT !["returns"] = v]]
  BY ReturnMade
<1> HIDE DEF put
<1>4. SameParts(put, ast')
  BY <1>2, <1>3, AnnotateParts DEF Annotations
<1> QED
  BY <1>1, <1>2, <1>4, SameOnce DEF StaysTree

LEMMA InitOnce == ASSUME Init PROVE StaysTree
<1> SUFFICES ASSUME NEW tree \in Parsed, Start(tree) PROVE StaysTree
  BY DEF Init
<1>1. ast = tree.ast /\ root = tree.root
  BY DEF Start, E!Start
<1> QED
  BY <1>1, ParsedAssumption DEF StaysTree

LEMMA StepOnce ==
  ASSUME IInv, StaysTree, [Next]_vars
  PROVE  StaysTree'
<1>1. CASE ExploreTree
  BY <1>1, ExploreOnce
<1>2. CASE AnalyzeTree
  BY <1>2, QuietOnce, AnnotatingOnce, DeclarationOnce, LastReturnsOnce
     DEF AnalyzeTree, A!AnalyzeStep
<1>3. CASE BeginAnalysis \/ Over \/ UNCHANGED vars
  <2>1. ast' = ast /\ root' = root
    BY <1>3 DEF BeginAnalysis, Over, vars
  <2> QED
    BY <2>1 DEF StaysTree
<1> QED
  BY <1>1, <1>2, <1>3 DEF Next, Step

(* Whatever file is parsed, and however often its functions are analysed:  *)
(* the tree that is rewritten in place stays a tree.  No node has two      *)
(* owners, so none is emitted twice, and none changes under one owner      *)
(* while another is worked on.                                             *)
THEOREM NoNodeIsShared == Spec => []StaysTree
<1>1. Init => IInv /\ StaysTree
  BY InitIInv, InitOnce
<1>2. IInv /\ StaysTree /\ [Next]_vars => IInv' /\ StaysTree'
  BY NextIInv, StepOnce
<1> QED
  BY <1>1, <1>2, PTL DEF Spec

-----------------------------------------------------------------------------
(* No node is inside itself.  The parser's nodes are numbered from the     *)
(* leaves up; a return that was made has its place between the expression  *)
(* it returns and the block it is put in.                                  *)
Rank(tree, n) ==
  IF tree[n].node = "return" /\ Parts(tree[n]) # <<>>
    THEN 2 * Parts(tree[n])[1] + 1 ELSE 2 * n
Ordered(tree) ==
  \A n \in DOMAIN tree : \A p \in Range(Parts(tree[n])) : Rank(tree, p) < Rank(tree, n)

(* What is assigned has a place for a type.                                *)
HasPlaces(tree) == \A n \in Nodes(tree, {"assignment"}) :
                     "type" \in DOMAIN tree[tree[n].right]

(* The tasks between the look at the right side of an assignment and the   *)
(* assigning are about nodes inside the assignment, and not about the      *)
(* right side.                                                             *)
Assigning == {"assign_to", "check_target", "type_assignment"}
Nodeless  == {"leave_analyzer", "pop_function"}
Before(tree, t, n) == t.do \in Nodeless \/ /\ Rank(tree, t.node) < Rank(tree, n)
                                           /\ t.node # tree[n].right
Apart(tree, tasks) ==
  \A k \in DOMAIN tasks :
    /\ tasks[k].do \in {"assign_to", "type_assignment"} => k = 1
    /\ tasks[k].do \in Assigning => tree[tree[tasks[k].node].right].type # NoType
    /\ tasks[k].do = "check_target"
         => \A j \in 1 .. k - 1 : Before(tree, tasks[j], tasks[k].node)

AssignInv ==
  /\ outcome = "bad_type" => todo = <<>>
  /\ outcome = "exploring"
       => \A k \in DOMAIN todo : todo[k].do \in {"explore", "pop_function"}
  /\ outcome # "bad_type" => Ordered(ast) /\ HasPlaces(ast) /\ Apart(ast, todo)

-----------------------------------------------------------------------------
(* A right side is a part of its assignment alone.                         *)
LEMMA RightIsPart ==
  ASSUME NEW tree, IsTree(tree), NEW n \in Nodes(tree, {"assignment"})
  PROVE  LET parts == Parts(tree[n])
             last  == Len(tree[n].lefts) + 1
         IN  /\ last \in DOMAIN parts /\ parts[last] = tree[n].right
             /\ \A k \in DOMAIN tree[n].lefts :
                  k \in DOMAIN parts /\ k # last /\ parts[k] = tree[n].lefts[k]
             /\ tree[n].right \in DOMAIN tree
<1> DEFINE lefts == tree[n].lefts
           right == tree[n].right
<1>1. lefts \in Seq(DOMAIN tree) /\ right \in DOMAIN tree
  BY PartsAreNodes DEF Nodes
<1>2. Parts(tree[n]) = lefts \o <<right>>
  BY PartsBy DEF Nodes
<1>3. <<right>> \in Seq(DOMAIN tree) /\ Len(<<right>>) = 1 /\ <<right>>[1] = right
  BY <1>1
<1>4. Len(lefts) \in Nat /\ DOMAIN lefts = 1 .. Len(lefts)
  BY <1>1, LenProperties
<1> DEFINE parts == lefts \o <<right>>
<1>5. /\ parts \in Seq(DOMAIN tree) /\ Len(parts) = Len(lefts) + 1
      /\ \A k \in 1 .. Len(parts) :
           parts[k] = IF k <= Len(lefts) THEN lefts[k] ELSE <<right>>[k - Len(lefts)]
  <2> HIDE DEF lefts, right
  <2> QED
    BY <1>1, <1>3, ConcatProperties
<1> HIDE DEF parts, lefts, right
<1>6. DOMAIN parts = 1 .. Len(lefts) + 1
  BY <1>4, <1>5, LenProperties
<1>7. parts[Len(lefts) + 1] = right
  BY <1>3, <1>4, <1>5
<1>8. \A k \in DOMAIN lefts : parts[k] = lefts[k] /\ k \in DOMAIN parts
                              /\ k # Len(lefts) + 1
  BY <1>4, <1>5, <1>6
<1> QED
  BY <1>1, <1>2, <1>4, <1>6, <1>7, <1>8 DEF parts, lefts, right

LEMMA OwnedBy ==
  ASSUME NEW tree, Single(tree), NEW n \in DOMAIN tree, NEW m \in DOMAIN tree,
         NEW j \in DOMAIN Parts(tree[n]), NEW k \in DOMAIN Parts(tree[m]),
         Parts(tree[n])[j] = Parts(tree[m])[k]
  PROVE  n = m /\ j = k
<1>1. <<n, j>> \in Links(tree) /\ <<m, k>> \in Links(tree)
  BY DEF Links
<1>2. Target(tree, <<n, j>>) = Target(tree, <<m, k>>)
  BY DEF Target
<1>3. <<n, j>> = <<m, k>>
  BY <1>1, <1>2 DEF Single
<1> QED
  BY <1>3

LEMMA RightIsOnly ==
  ASSUME NEW tree, IsTree(tree), Single(tree), NEW n \in Nodes(tree, {"assignment"}),
         NEW m \in DOMAIN tree, NEW p \in Range(Parts(tree[m])), m # n
  PROVE  p # tree[n].right
<1>1. PICK j \in DOMAIN Parts(tree[m]) : p = Parts(tree[m])[j]
  BY DEF Range
<1>2. PICK k \in DOMAIN Parts(tree[n]) : Parts(tree[n])[k] = tree[n].right
  BY RightIsPart
<1> QED
  BY <1>1, <1>2, OwnedBy DEF Nodes

LEMMA TargetIsOther ==
  ASSUME NEW tree, IsTree(tree), Single(tree), NEW n \in Nodes(tree, {"assignment"}),
         NEW k \in DOMAIN tree[n].lefts
  PROVE  /\ tree[n].lefts[k] \in Range(Parts(tree[n]))
         /\ tree[n].lefts[k] # tree[n].right
<1>1. n \in DOMAIN tree
  BY DEF Nodes
<1>2. /\ k \in DOMAIN Parts(tree[n]) /\ Parts(tree[n])[k] = tree[n].lefts[k]
      /\ Len(tree[n].lefts) + 1 \in DOMAIN Parts(tree[n])
      /\ Parts(tree[n])[Len(tree[n].lefts) + 1] = tree[n].right
      /\ k # Len(tree[n].lefts) + 1
  BY RightIsPart
<1>3. tree[n].lefts[k] # tree[n].right
  BY <1>1, <1>2, OwnedBy
<1> QED
  BY <1>2, <1>3 DEF Range

LEMMA RankIsNat ==
  ASSUME NEW tree, IsTree(tree), NEW n \in DOMAIN tree
  PROVE  Rank(tree, n) \in Nat
<1>1. DOMAIN tree \subseteq Nat
  BY PlacesAre DEF IsTree
<1>2. Parts(tree[n]) \in Seq(DOMAIN tree)
  BY PartsAreSeq
<1>3. Parts(tree[n]) # <<>> => Parts(tree[n])[1] \in DOMAIN tree
  BY <1>2, EmptySeq, LenProperties, ElementOfSeq
<1> QED
  BY <1>1, <1>3 DEF Rank

-----------------------------------------------------------------------------
(* What a step may do to a tree: the order and the right sides stay, and   *)
(* no node but n loses its type.                                           *)
Steady(tree, new, n) ==
  /\ DOMAIN tree \subseteq DOMAIN new
  /\ \A m \in DOMAIN tree : /\ Rank(new, m) = Rank(tree, m)
                            /\ DOMAIN new[m] = DOMAIN tree[m]
  /\ \A m \in Nodes(tree, {"assignment"}) : new[m].right = tree[m].right
  /\ \A m \in DOMAIN tree \ {n} :
       "type" \in DOMAIN tree[m] /\ tree[m].type # NoType => new[m].type # NoType
  /\ Ordered(tree) => Ordered(new)
  /\ HasPlaces(tree) => HasPlaces(new)

LEMMA SteadyOn ==
  ASSUME NEW t, NEW u, NEW v, NEW n, Grows(t, u), Steady(t, u, n), Steady(u, v, n)
  PROVE  Steady(t, v, n)
<1>1. \A m \in Nodes(t, {"assignment"}) : m \in Nodes(u, {"assignment"})
  BY DEF Grows, Nodes
<1> QED
  BY <1>1 DEF Steady

LEMMA SteadyStays == ASSUME NEW tree, NEW n PROVE Steady(tree, tree, n)
BY DEF Steady

(* A field is written that is neither a part nor the class of a node.      *)
LEMMA WriteSteady ==
  ASSUME NEW tree, IsTree(tree), NEW m, NEW f \in Annotations \cup {"stab"}, NEW v,
         NEW n, f = "type" => m = n \/ v # NoType
  PROVE  Steady(tree, [tree EXCEPT ![m] = [@ EXCEPT ![f] = v]], n)
<1> DEFINE new == [tree EXCEPT ![m] = [@ EXCEPT ![f] = v]]
<1>1. /\ DOMAIN new = DOMAIN tree
      /\ \A k \in DOMAIN tree :
           /\ DOMAIN new[k] = DOMAIN tree[k]
           /\ \A g \in DOMAIN tree[k] : g # f => new[k][g] = tree[k][g]
           /\ k # m => new[k] = tree[k]
           /\ k = m /\ f \in DOMAIN tree[k] => new[k][f] = v
  OBVIOUS
<1> HIDE DEF new
<1>2. \A k \in DOMAIN tree : IsNode(tree[k], DOMAIN tree)
  BY DEF IsTree
<1>3. \A k \in DOMAIN tree : Parts(new[k]) = Parts(tree[k])
  BY <1>1, <1>2, PartsStay
<1>4. \A k \in DOMAIN tree : new[k].node = tree[k].node
  BY <1>1, <1>2 DEF IsNode, Annotations
<1>5. \A k \in DOMAIN tree : Rank(new, k) = Rank(tree, k)
  BY <1>3, <1>4 DEF Rank
<1>6. \A k \in Nodes(tree, {"assignment"}) :
        /\ new[k].right = tree[k].right
        /\ tree[k].right \in DOMAIN tree
  BY <1>1, <1>2 DEF Nodes, IsNode, Annotations, Blocks
<1>7. \A k \in DOMAIN tree \ {n} :
        "type" \in DOMAIN tree[k] /\ tree[k].type # NoType => new[k].type # NoType
  BY <1>1
<1>8. Ordered(tree) => Ordered(new)
  <2> SUFFICES ASSUME Ordered(tree), NEW k \in DOMAIN tree,
                      NEW p \in Range(Parts(tree[k]))
               PROVE  Rank(new, p) < Rank(new, k)
    BY <1>1, <1>3 DEF Ordered
  <2>1. Parts(tree[k]) \in Seq(DOMAIN tree)
    BY PartsAreSeq
  <2>2. p \in DOMAIN tree
    BY <2>1, LenProperties, ElementOfSeq DEF Range
  <2> QED
    BY <1>5, <2>2 DEF Ordered
<1>9. HasPlaces(tree) => HasPlaces(new)
  BY <1>1, <1>4, <1>6 DEF HasPlaces, Nodes
<1> QED
  BY <1>1, <1>5, <1>6, <1>7, <1>8, <1>9 DEF Steady, new

(* An expression becomes that of a return.                                 *)
LEMMA ReturnSteady ==
  ASSUME NEW tree, IsTree(tree), NEW n \in Nodes(tree, Blocks), tree[n].stmts # <<>>,
         tree[tree[n].stmts[Len(tree[n].stmts)]].node # "return",
         Grows(tree, WithReturn(tree, n)), NEW x
  PROVE  Steady(tree, WithReturn(tree, n), x)
<1> DEFINE k    == Len(tree[n].stmts)
           last == Parts(tree[n])[k]
           made == Len(tree) + 1
           put  == WithReturn(tree, n)
<1>1. /\ Returned(tree, put, n, k, made) /\ last \in DOMAIN tree
      /\ tree[last].node # "return"
  BY ReturnParts
<1>2. Grows(tree, put)
  OBVIOUS
<1> HIDE DEF put, made, k
<1>3. n \in DOMAIN tree /\ tree[n].node \in Blocks
  BY DEF Nodes
<1>4. /\ DOMAIN put = DOMAIN tree \cup {made} /\ made \notin DOMAIN tree
      /\ \A m \in DOMAIN tree : m # n => put[m] = tree[m]
      /\ DOMAIN put[n] = DOMAIN tree[n]
      /\ \A g \in DOMAIN tree[n] : g # "stmts" => put[n][g] = tree[n][g]
      /\ put[made].node = "return"
  BY <1>1 DEF Returned
<1>5. /\ k \in DOMAIN Parts(tree[n]) /\ DOMAIN Parts(put[n]) = DOMAIN Parts(tree[n])
      /\ Parts(put[n])[k] = made
      /\ \A j \in DOMAIN Parts(tree[n]) : j # k => Parts(put[n])[j] = Parts(tree[n])[j]
      /\ Parts(put[made]) = <<last>>
  BY <1>1 DEF Returned
<1>6. \A m \in DOMAIN tree : put[m].node = tree[m].node
  BY <1>2 DEF Grows
<1>7. \A m \in DOMAIN tree : Rank(put, m) = Rank(tree, m)
  BY <1>3, <1>4, <1>6 DEF Rank, Blocks
<1>8. \A m \in Nodes(tree, {"assignment"}) :
        /\ put[m].right = tree[m].right /\ tree[m].right \in DOMAIN tree
        /\ m # n
  BY <1>3, <1>4, PartsAreNodes DEF Nodes, Blocks
<1>9. \A m \in DOMAIN tree :
        "type" \in DOMAIN tree[m] /\ tree[m].type # NoType => put[m].type # NoType
  BY <1>4
<1>10. /\ Rank(put, made) = 2 * last + 1
       /\ Rank(tree, last) = 2 * last /\ Rank(tree, n) = 2 * n
  <2>1. Parts(put[made]) # <<>> /\ Parts(put[made])[1] = last
    BY <1>5
  <2> QED
    BY <1>1, <1>3, <1>4, <2>1 DEF Rank, Blocks
<1>11. last \in Nat /\ n \in Nat /\ \A m \in DOMAIN tree : m \in Nat
  <2>1. DOMAIN tree \subseteq Nat
    BY PlacesAre DEF IsTree
  <2> QED
    BY <1>1, <1>3, <2>1
<1>12. ASSUME Ordered(tree) PROVE Ordered(put)
  <2>1. last \in Range(Parts(tree[n]))
    BY <1>5 DEF Range
  <2>2. 2 * last < 2 * n
    BY <1>3, <1>10, <1>12, <2>1 DEF Ordered
  <2>3. Rank(put, last) < Rank(put, made) /\ Rank(put, made) < Rank(put, n)
    BY <1>1, <1>3, <1>7, <1>10, <1>11, <2>2
  <2> SUFFICES ASSUME NEW m \in DOMAIN put, NEW p \in Range(Parts(put[m]))
               PROVE  Rank(put, p) < Rank(put, m)
    BY DEF Ordered
  <2>4. PICK j \in DOMAIN Parts(put[m]) : p = Parts(put[m])[j]
    BY DEF Range
  <2>5. CASE m = made
    <3>1. j = 1 /\ p = last
      BY <1>5, <2>4, <2>5
    <3> QED
      BY <2>3, <2>5, <3>1
  <2>6. CASE m = n /\ j = k
    BY <1>5, <2>3, <2>4, <2>6
  <2>7. CASE m # made /\ ~(m = n /\ j = k)
    <3>1. m \in DOMAIN tree
      BY <1>4, <2>7
    <3>2. j \in DOMAIN Parts(tree[m]) /\ p = Parts(tree[m])[j]
      BY <1>4, <1>5, <2>4, <2>7, <3>1
    <3>3. p \in Range(Parts(tree[m]))
      BY <3>2 DEF Range
    <3>4. p \in DOMAIN tree
      <4>1. Parts(tree[m]) \in Seq(DOMAIN tree)
        BY <3>1, PartsAreSeq
      <4> QED
        BY <3>2, <4>1, LenProperties, ElementOfSeq
    <3> QED
      BY <1>7, <1>12, <3>1, <3>3, <3>4 DEF Ordered
  <2> QED
    BY <2>5, <2>6, <2>7
<1>13. ASSUME HasPlaces(tree) PROVE HasPlaces(put)
  <2> SUFFICES ASSUME NEW m \in Nodes(put, {"assignment"})
               PROVE  "type" \in DOMAIN put[put[m].right]
    BY DEF HasPlaces
  <2>1. m \in Nodes(tree, {"assignment"})
    BY <1>4, <1>6 DEF Nodes
  <2> QED
    BY <1>4, <1>8, <1>13, <2>1 DEF HasPlaces
<1>14. \A m \in DOMAIN tree : DOMAIN put[m] = DOMAIN tree[m]
  BY <1>4
<1> QED
  BY <1>4, <1>7, <1>8, <1>9, <1>12, <1>13, <1>14 DEF Steady, put

-----------------------------------------------------------------------------
(* What a handler goes on with: things about its node and the parts of it, *)
(* and as a rule no assigning.                                             *)
Near(tree, n) == {n} \cup Range(Parts(tree[n]))
Spawned(tree, n) == {t \in Tasks(tree) : t.do \in Nodeless \/ t.node \in Near(tree, n)}
Given(tree, n) == {t \in Spawned(tree, n) : t.do \notin Assigning}

LEMMA TaskNode ==
  ASSUME NEW tree, NEW t \in Tasks(tree), t.do \notin Nodeless
  PROVE  t.node \in DOMAIN tree
BY DEF Tasks, Targeted, AnyNode, Nodes, Nodeless

LEMMA NearAreNodes ==
  ASSUME NEW tree, IsTree(tree), NEW n \in DOMAIN tree
  PROVE  Near(tree, n) \subseteq DOMAIN tree
<1>1. Parts(tree[n]) \in Seq(DOMAIN tree)
  BY PartsAreSeq
<1>2. Range(Parts(tree[n])) \subseteq DOMAIN tree
  BY <1>1, LenProperties, ElementOfSeq DEF Range
<1> QED
  BY <1>2 DEF Near

(* A node further in than another, and no right side of that, has no part  *)
(* that would be.                                                          *)
LEMMA FurtherIn ==
  ASSUME NEW tree, IsTree(tree), Single(tree), Ordered(tree), NEW n \in DOMAIN tree,
         NEW m \in Nodes(tree, {"assignment"}), Rank(tree, n) < Rank(tree, m),
         n # tree[m].right, NEW p \in Near(tree, n)
  PROVE  Rank(tree, p) < Rank(tree, m) /\ p # tree[m].right
<1>1. CASE p = n
  BY <1>1
<1>2. CASE p \in Range(Parts(tree[n]))
  <2>1. Rank(tree, p) < Rank(tree, n)
    BY <1>2 DEF Ordered
  <2>2. p \in DOMAIN tree /\ m \in DOMAIN tree
    BY NearAreNodes DEF Nodes
  <2>3. Rank(tree, p) \in Nat /\ Rank(tree, n) \in Nat /\ Rank(tree, m) \in Nat
    BY <2>2, RankIsNat
  <2>4. n # m
    BY <2>3
  <2>5. p # tree[m].right
    BY <1>2, <2>4, RightIsOnly
  <2> QED
    BY <2>1, <2>3, <2>5
<1> QED
  BY <1>1, <1>2 DEF Near

(* The rest of what there is to do.                                        *)
LEMMA RestIs ==
  ASSUME NEW T, NEW tasks \in Seq(T), tasks # <<>>, NEW U, NEW s \in Seq(U)
  PROVE  LET all == s \o Tail(tasks)
         IN  /\ Len(s) \in Nat /\ Len(tasks) \in Nat /\ Len(tasks) >= 1
             /\ DOMAIN s = 1 .. Len(s) /\ DOMAIN tasks = 1 .. Len(tasks)
             /\ DOMAIN all = 1 .. Len(s) + Len(tasks) - 1
             /\ \A k \in DOMAIN s : all[k] = s[k]
             /\ \A k \in DOMAIN all \ DOMAIN s : all[k] = tasks[k - Len(s) + 1]
             /\ tasks[1] = Head(tasks)
<1>1. /\ Tail(tasks) \in Seq(T) /\ Len(Tail(tasks)) = Len(tasks) - 1
      /\ \A k \in 1 .. Len(Tail(tasks)) : Tail(tasks)[k] = tasks[k + 1]
      /\ Head(tasks) = tasks[1]
  BY HeadTailProperties
<1>2. /\ Len(s) \in Nat /\ Len(tasks) \in Nat /\ Len(tasks) >= 1
      /\ DOMAIN s = 1 .. Len(s) /\ DOMAIN tasks = 1 .. Len(tasks)
  BY LenProperties, EmptySeq
<1> DEFINE rest == Tail(tasks)
           all  == s \o rest
<1>3. rest \in Seq(T \cup U) /\ s \in Seq(T \cup U)
  BY <1>1, SeqMonotonic
<1> HIDE DEF rest
<1>4. /\ all \in Seq(T \cup U) /\ Len(all) = Len(s) + Len(rest)
      /\ \A k \in 1 .. Len(all) :
           all[k] = IF k <= Len(s) THEN s[k] ELSE rest[k - Len(s)]
  BY <1>3, ConcatProperties
<1> HIDE DEF all
<1>5. DOMAIN all = 1 .. Len(s) + Len(tasks) - 1
  BY <1>1, <1>2, <1>4, LenProperties DEF rest
<1>6. \A k \in DOMAIN s : all[k] = s[k]
  BY <1>1, <1>2, <1>4 DEF rest
<1>7. ASSUME NEW k \in DOMAIN all \ DOMAIN s PROVE all[k] = tasks[k - Len(s) + 1]
  <2>1. k \in 1 .. Len(all) /\ ~(k <= Len(s)) /\ k - Len(s) \in 1 .. Len(rest)
    BY <1>1, <1>2, <1>4, <1>5 DEF rest
  <2>2. all[k] = rest[k - Len(s)]
    BY <1>4, <2>1
  <2> QED
    BY <1>1, <2>1, <2>2 DEF rest
<1> QED
  BY <1>1, <1>2, <1>5, <1>6, <1>7 DEF all, rest

(* The handler of a node writes a type, and goes on: no assignment that is *)
(* under way minds.                                                        *)
LEMMA ApartOn ==
  ASSUME NEW tree, IsTree(tree), Single(tree), Ordered(tree), HasPlaces(tree),
         NEW tasks \in Seq(Tasks(tree)), tasks # <<>>, Apart(tree, tasks),
         Head(tasks).do \notin Nodeless,
         NEW new, Steady(tree, new, Head(tasks).node),
         NEW s \in Seq(Spawned(tree, Head(tasks).node)), Apart(new, s)
  PROVE  Apart(new, s \o Tail(tasks))
<1> DEFINE n   == Head(tasks).node
           all == s \o Tail(tasks)
           L   == Len(s)
<1>1. /\ L \in Nat /\ Len(tasks) \in Nat /\ Len(tasks) >= 1
      /\ DOMAIN s = 1 .. L /\ DOMAIN tasks = 1 .. Len(tasks)
      /\ DOMAIN all = 1 .. L + Len(tasks) - 1
      /\ \A k \in DOMAIN s : all[k] = s[k]
      /\ \A k \in DOMAIN all \ DOMAIN s : all[k] = tasks[k - L + 1]
      /\ tasks[1] = Head(tasks)
  BY RestIs
<1>2. /\ \A k \in DOMAIN tasks : tasks[k] \in Tasks(tree)
      /\ \A k \in DOMAIN s : s[k] \in Spawned(tree, n)
  BY <1>1, ElementOfSeq
<1>3. n \in DOMAIN tree
  BY <1>1, <1>2, TaskNode
<1> HIDE DEF n, all, L
<1>4. Steady(tree, new, n)
  BY DEF n
<1> SUFFICES ASSUME NEW k \in DOMAIN all
             PROVE  /\ all[k].do \in {"assign_to", "type_assignment"} => k = 1
                    /\ all[k].do \in Assigning
                         => new[new[all[k].node].right].type # NoType
                    /\ all[k].do = "check_target"
                         => \A j \in 1 .. k - 1 : Before(new, all[j], all[k].node)
  BY DEF Apart, all
<1>5. CASE k \in DOMAIN s
  <2>1. all[k] = s[k] /\ \A j \in 1 .. k - 1 : j \in DOMAIN s /\ all[j] = s[j]
    BY <1>1, <1>5
  <2> QED
    BY <1>5, <2>1 DEF Apart
<1>6. CASE k \notin DOMAIN s /\ all[k].do \in Assigning
  <2> DEFINE i == k - L + 1
             c == tasks[i].node
  <2>1. all[k] = tasks[i] /\ i \in DOMAIN tasks /\ i # 1 /\ i > 1
    BY <1>1, <1>6
  <2>2. tasks[i].do = "check_target" /\ tree[tree[c].right].type # NoType
    BY <1>6, <2>1 DEF Apart, Assigning
  <2>3. c \in Nodes(tree, {"assignment"})
    BY <1>2, <2>1, <2>2, TaskOf
  <2>4. \A j \in 1 .. i - 1 : Before(tree, tasks[j], c)
    BY <2>1, <2>2 DEF Apart
  <2>5. Rank(tree, n) < Rank(tree, c) /\ n # tree[c].right
    <3>1. 1 \in 1 .. i - 1
      BY <1>1, <2>1
    <3>2. Before(tree, Head(tasks), c)
      BY <1>1, <2>4, <3>1
    <3> QED
      BY <3>2 DEF Before, n
  <2>6. tree[c].right \in DOMAIN tree /\ "type" \in DOMAIN tree[tree[c].right]
    BY <2>3, RightIsPart DEF HasPlaces
  <2>7. /\ new[c].right = tree[c].right
        /\ new[new[c].right].type # NoType
        /\ \A m \in DOMAIN tree : Rank(new, m) = Rank(tree, m)
    BY <1>4, <2>2, <2>3, <2>5, <2>6 DEF Steady
  <2>8. ASSUME NEW t, t.do \notin Nodeless => t.node \in DOMAIN tree, Before(tree, t, c)
        PROVE  Before(new, t, c)
    BY <2>3, <2>7, <2>8 DEF Before, Nodes
  <2>9. ASSUME NEW j \in 1 .. k - 1 PROVE Before(new, all[j], c)
    <3>1. CASE j \in DOMAIN s
      <4>1. all[j] \in Spawned(tree, n)
        BY <1>1, <1>2, <3>1
      <4>2. all[j].do \in Nodeless \/ all[j].node \in Near(tree, n)
        BY <4>1 DEF Spawned
      <4>3. CASE all[j].do \in Nodeless
        BY <4>3 DEF Before
      <4>4. CASE all[j].do \notin Nodeless /\ all[j].node \in Near(tree, n)
        <5>1. /\ Rank(tree, all[j].node) < Rank(tree, c)
              /\ all[j].node # tree[c].right /\ all[j].node \in DOMAIN tree
          BY <1>3, <2>3, <2>5, <4>4, FurtherIn, NearAreNodes
        <5>2. Before(tree, all[j], c)
          BY <5>1 DEF Before
        <5> QED
          BY <2>8, <5>1, <5>2
      <4> QED
        BY <4>2, <4>3, <4>4
    <3>2. CASE j \notin DOMAIN s
      <4>1. /\ all[j] = tasks[j - L + 1] /\ j - L + 1 \in DOMAIN tasks
            /\ j - L + 1 \in 1 .. i - 1
        <5>1. k \in Int /\ j \in 1 .. k - 1 /\ k <= L + Len(tasks) - 1 /\ ~(j <= L)
          BY <1>1, <3>2
        <5>2. j \in DOMAIN all \ DOMAIN s /\ i = k - L + 1
          BY <1>1, <3>2, <5>1
        <5>3. all[j] = tasks[j - L + 1]
          BY <1>1, <5>2
        <5> HIDE DEF i
        <5> QED
          BY <1>1, <5>1, <5>2, <5>3
      <4>2. Before(tree, all[j], c)
        BY <2>4, <4>1
      <4>3. all[j].do \notin Nodeless => all[j].node \in DOMAIN tree
        BY <1>2, <4>1, TaskNode
      <4> QED
        BY <2>8, <4>2, <4>3
    <3> QED
      BY <3>1, <3>2
  <2> QED
    BY <2>1, <2>2, <2>7, <2>9
<1> QED
  BY <1>5, <1>6 DEF Assigning

(* Without a handler of a node, the first thing is just done.              *)
LEMMA ApartTail ==
  ASSUME NEW tree, NEW tasks \in Seq(Tasks(tree)), tasks # <<>>, Apart(tree, tasks)
  PROVE  Apart(tree, Tail(tasks))
<1>1. /\ Len(Tail(tasks)) = Len(tasks) - 1 /\ Tail(tasks) \in Seq(Tasks(tree))
      /\ \A k \in 1 .. Len(Tail(tasks)) : Tail(tasks)[k] = tasks[k + 1]
  BY HeadTailProperties
<1>2. Len(tasks) \in Nat /\ DOMAIN tasks = 1 .. Len(tasks)
      /\ DOMAIN Tail(tasks) = 1 .. Len(Tail(tasks))
  BY <1>1, LenProperties
<1> DEFINE rest == Tail(tasks)
<1> HIDE DEF rest
<1> SUFFICES ASSUME NEW k \in DOMAIN rest
             PROVE  /\ rest[k].do \in {"assign_to", "type_assignment"} => k = 1
                    /\ rest[k].do \in Assigning
                         => tree[tree[rest[k].node].right].type # NoType
                    /\ rest[k].do = "check_target"
                         => \A j \in 1 .. k - 1 : Before(tree, rest[j], rest[k].node)
  BY DEF Apart, rest
<1>3. k + 1 \in DOMAIN tasks /\ k + 1 # 1 /\ rest[k] = tasks[k + 1]
  BY <1>1, <1>2 DEF rest
<1>4. \A j \in 1 .. k - 1 : j + 1 \in 1 .. k + 1 - 1 /\ rest[j] = tasks[j + 1]
  BY <1>1, <1>2 DEF rest
<1>5. CASE rest[k].do \in {"assign_to", "type_assignment"}
  BY <1>3, <1>5 DEF Apart
<1>6. rest[k].do \in Assigning => tree[tree[rest[k].node].right].type # NoType
  BY <1>3 DEF Apart
<1>7. ASSUME rest[k].do = "check_target", NEW j \in 1 .. k - 1
      PROVE  Before(tree, rest[j], rest[k].node)
  <2> DEFINE i == k + 1
  <2>1. /\ i \in DOMAIN tasks /\ rest[k] = tasks[i]
        /\ j + 1 \in 1 .. i - 1 /\ rest[j] = tasks[j + 1]
    BY <1>3, <1>4
  <2> HIDE DEF i
  <2>2. Before(tree, tasks[j + 1], tasks[i].node)
    BY <1>7, <2>1 DEF Apart
  <2> QED
    BY <2>1, <2>2
<1> QED
  BY <1>5, <1>6, <1>7

-----------------------------------------------------------------------------
(* The parts of a node are near it.                                        *)
LEMMA PartsNear ==
  ASSUME NEW tree, IsTree(tree), NEW n \in DOMAIN tree
  PROVE  LET ref  == tree[n]
             near == Near(tree, n)
         IN  /\ n \in near
             /\ ref.node = "binary" => ref.left \in near /\ ref.right \in near
             /\ ref.node \in {"unary", "print", "subscript"} => ref.expr \in near
             /\ ref.node = "assignment" => ref.right \in near
             /\ ref.node = "call" => ref.args \in Seq(near)
             /\ ref.node = "fn_to_ptr" => ref.definition \in near
             /\ ref.node = "function_definition" => ref.body \in near
             /\ ref.node \in Blocks => ref.stmts \in Seq(near)
             /\ ref.node = "while" => ref.cond \in near /\ ref.block \in near
             /\ ref.node = "if" => /\ ref.cond \in near /\ ref.true_block \in near
                                   /\ ref.else_block \in near \cup {Null}
             /\ ref.node = "return" => ref.expr \in near \cup {Null}
<1> DEFINE ref   == tree[n]
           near  == Near(tree, n)
           parts == Parts(ref)
<1>1. n \in near /\ \A k \in DOMAIN parts : parts[k] \in near
  BY DEF Near, Range
<1>2. parts \in Seq(DOMAIN tree)
  BY PartsAreSeq
<1> HIDE DEF near, parts
<1>3. parts \in Seq(near)
  BY <1>1, <1>2, LenProperties
<1>4. ASSUME ref.node \in {"call"} \cup Blocks
      PROVE  parts = IF ref.node = "call" THEN ref.args ELSE ref.stmts
  BY <1>4, PartsBy DEF parts, Blocks
<1>5. CASE ref.node = "binary"
  <2>1. parts = <<ref.left, ref.right>>
    BY <1>5, PartsBy DEF parts
  <2>2. ref.left \in near /\ ref.right \in near
    BY <1>1, <2>1
  <2> QED
    BY <1>1, <1>5, <2>2 DEF near, Blocks
<1>6. CASE ref.node \in {"unary", "print", "subscript"}
  <2>1. parts = <<ref.expr>>
    BY <1>6, PartsBy DEF parts
  <2>2. ref.expr \in near
    BY <1>1, <2>1
  <2> QED
    BY <1>1, <1>6, <2>2 DEF near, Blocks
<1>7. CASE ref.node = "assignment"
  <2>1. ref.right \in near
    BY <1>1, <1>7, RightIsPart DEF Nodes, parts
  <2> QED
    BY <1>1, <1>7, <2>1 DEF near, Blocks
<1>8. CASE ref.node = "call"
  BY <1>1, <1>3, <1>4, <1>8 DEF near, Blocks
<1>9. CASE ref.node = "fn_to_ptr"
  <2>1. parts = <<ref.definition>>
    BY <1>9, PartsBy DEF parts
  <2>2. ref.definition \in near
    BY <1>1, <2>1
  <2> QED
    BY <1>1, <1>9, <2>2 DEF near, Blocks
<1>10. CASE ref.node = "function_definition"
  <2>1. parts = Append(ref.params, ref.body) /\ ref.params \in Seq(DOMAIN tree)
        /\ ref.body \in DOMAIN tree
    <3>1. IsNode(ref, DOMAIN tree)
      BY DEF IsTree
    <3> QED
      BY <1>10, <3>1, PartsBy DEF parts, IsNode, Blocks
  <2>2. Len(ref.params) + 1 \in DOMAIN parts /\ parts[Len(ref.params) + 1] = ref.body
    BY <2>1, AppendProperties, LenProperties
  <2>3. ref.body \in near
    BY <1>1, <2>2
  <2> QED
    BY <1>1, <1>10, <2>3 DEF near, Blocks
<1>11. CASE ref.node \in Blocks
  BY <1>1, <1>3, <1>4, <1>11 DEF near, Blocks
<1>12. CASE ref.node = "while"
  <2>1. parts = <<ref.cond, ref.block>>
    BY <1>12, PartsBy DEF parts
  <2>2. ref.cond \in near /\ ref.block \in near
    BY <1>1, <2>1
  <2> QED
    BY <1>1, <1>12, <2>2 DEF near, Blocks
<1>13. CASE ref.node = "if"
  <2>1. /\ ref.else_block = Null => parts = <<ref.cond, ref.true_block>>
        /\ ref.else_block # Null
             => parts = <<ref.cond, ref.true_block, ref.else_block>>
    BY <1>13, PartsBy DEF parts
  <2>2. ref.cond \in near /\ ref.true_block \in near
        /\ ref.else_block \in near \cup {Null}
    BY <1>1, <2>1
  <2> QED
    BY <1>1, <1>13, <2>2 DEF near, Blocks
<1>14. CASE ref.node = "return"
  <2>1. ref.expr # Null => parts = <<ref.expr>>
    BY <1>14, PartsBy DEF parts
  <2>2. ref.expr \in near \cup {Null}
    BY <1>1, <2>1
  <2> QED
    BY <1>1, <1>14, <2>2 DEF near, Blocks
<1>15. CASE ref.node \in {"constant", "read", "error_node", "variable"}
  BY <1>1, <1>15 DEF near, Blocks
<1>16. IsNode(ref, DOMAIN tree)
  BY DEF IsTree
<1> QED
  BY <1>5, <1>6, <1>7, <1>8, <1>9, <1>10, <1>11, <1>12, <1>13, <1>14, <1>15, <1>16
     DEF IsNode

(* What is done about them is no assigning.                                *)
LEMMA GivenMade ==
  ASSUME NEW tree, IsTree(tree), NEW n \in DOMAIN tree
  PROVE  /\ \A m \in Near(tree, n) : /\ A!Apply(m) \in Given(tree, n)
                                     /\ A!ExpectInt(m) \in Given(tree, n)
         /\ tree[n].node = "unary" => A!TypeUnary(n) \in Given(tree, n)
         /\ tree[n].node = "binary" => A!TypeBinary(n) \in Given(tree, n)
         /\ A!SetReturnType(n) \in Given(tree, n) /\ A!TypePointer(n) \in Given(tree, n)
         /\ tree[n].node = "assignment" => A!CheckRight(n) \in Given(tree, n)
         /\ tree[n].node = "call" => A!ResolveCall(n) \in Given(tree, n)
         /\ tree[n].node \in Blocks => A!LastOf(n) \in Given(tree, n)
         /\ tree[n].node = "value_block"
              => \A outer \in DOMAIN tree \cup {Null} :
                   A!DeduceType(n, outer) \in Given(tree, n)
         /\ tree[n].node = "function_definition"
              => \A recursive \in BOOLEAN :
                   A!AnalyzeFunc(n, recursive) \in Given(tree, n)
         /\ \A outer \in Analyzers(tree) : A!LeaveAnalyzer(outer) \in Given(tree, n)
<1>1. n \in Near(tree, n)
  BY DEF Near
<1>2. ASSUME NEW t \in Tasks(tree), t.do \notin Assigning,
             t.do \in Nodeless \/ t.node \in Near(tree, n)
      PROVE  t \in Given(tree, n)
  BY <1>2 DEF Given, Spawned
<1>3. \A m \in Near(tree, n) : /\ A!Apply(m) \in Tasks(tree)
                               /\ A!ExpectInt(m) \in Tasks(tree)
  BY NearAreNodes, TasksMade
<1>4. \A outer \in Analyzers(tree) : A!LeaveAnalyzer(outer) \in Given(tree, n)
  BY <1>2, LeaveMade DEF A!LeaveAnalyzer, Nodeless, Assigning
<1> QED
  BY <1>1, <1>2, <1>3, <1>4, TasksMade
     DEF Assigning, A!Apply, A!ExpectInt, A!TypeUnary, A!TypeBinary,
         A!SetReturnType, A!TypePointer, A!CheckRight, A!ResolveCall,
         A!LastOf, A!DeduceType, A!AnalyzeFunc

LEMMA GivenAll ==
  ASSUME NEW tree, IsTree(tree), NEW n \in DOMAIN tree, NEW s \in Seq(Near(tree, n))
  PROVE  A!ApplyAll(s) \in Seq(Given(tree, n))
<1>1. DOMAIN s = 1 .. Len(s) /\ Len(s) \in Nat
  BY LenProperties
<1>2. \A k \in DOMAIN s : A!Apply(s[k]) \in Given(tree, n)
  BY <1>1, ElementOfSeq, GivenMade
<1> QED
  BY <1>1, <1>2 DEF A!ApplyAll

LEMMA FirstAreGiven ==
  ASSUME NEW tree, IsTree(tree), NEW n \in DOMAIN tree,
         tree[n].node \in {"unary", "binary", "print", "while", "if",
                           "assignment", "call"}
  PROVE  A!ChildrenFirst(tree[n], n) \in Seq(Given(tree, n))
<1> DEFINE ref == tree[n]
<1>1. CASE ref.node = "unary"
  <2>1. A!ChildrenFirst(ref, n) = <<A!Apply(ref.expr), A!TypeUnary(n)>>
    BY <1>1 DEF A!ChildrenFirst
  <2> QED
    BY <1>1, <2>1, PartsNear, GivenMade
<1>2. CASE ref.node = "binary"
  <2>1. A!ChildrenFirst(ref, n) =
          <<A!Apply(ref.right), A!Apply(ref.left), A!TypeBinary(n)>>
    BY <1>2 DEF A!ChildrenFirst
  <2> QED
    BY <1>2, <2>1, PartsNear, GivenMade
<1>3. CASE ref.node = "print"
  <2>1. A!ChildrenFirst(ref, n) = <<A!Apply(ref.expr), A!ExpectInt(ref.expr)>>
    BY <1>3 DEF A!ChildrenFirst
  <2> QED
    BY <1>3, <2>1, PartsNear, GivenMade
<1>4. CASE ref.node = "while"
  <2>1. A!ChildrenFirst(ref, n) =
          <<A!Apply(ref.cond), A!ExpectInt(ref.cond), A!Apply(ref.block)>>
    BY <1>4 DEF A!ChildrenFirst
  <2> QED
    BY <1>4, <2>1, PartsNear, GivenMade
<1>5. CASE ref.node = "if"
  <2> DEFINE first == <<A!Apply(ref.cond), A!ExpectInt(ref.cond),
                        A!Apply(ref.true_block)>>
  <2>1. first \in Seq(Given(tree, n))
    BY <1>5, PartsNear, GivenMade
  <2>2. A!ChildrenFirst(ref, n) =
          first \o (IF ref.else_block = Null THEN <<>>
                    ELSE <<A!Apply(ref.else_block)>>)
    BY <1>5 DEF A!ChildrenFirst, A!Null, Null
  <2>3. CASE ref.else_block = Null
    <3>1. A!ChildrenFirst(ref, n) = first \o <<>>
      BY <2>2, <2>3
    <3> HIDE DEF first
    <3> QED
      BY <2>1, <3>1, EmptySeq, ConcatProperties
  <2>4. CASE ref.else_block # Null
    <3>1. A!ChildrenFirst(ref, n) = first \o <<A!Apply(ref.else_block)>>
      BY <2>2, <2>4
    <3>2. <<A!Apply(ref.else_block)>> \in Seq(Given(tree, n))
      BY <1>5, <2>4, PartsNear, GivenMade
    <3> HIDE DEF first
    <3> QED
      BY <2>1, <3>1, <3>2, ConcatProperties
  <2> QED
    BY <2>3, <2>4
<1>6. CASE ref.node = "assignment"
  <2>1. A!ChildrenFirst(ref, n) = <<A!Apply(ref.right), A!CheckRight(n)>>
    BY <1>6 DEF A!ChildrenFirst
  <2> QED
    BY <1>6, <2>1, PartsNear, GivenMade
<1>7. CASE ref.node = "call"
  <2>1. A!ChildrenFirst(ref, n) = A!ApplyAll(ref.args) \o <<A!ResolveCall(n)>>
    BY <1>7 DEF A!ChildrenFirst
  <2>2. <<A!ResolveCall(n)>> \in Seq(Given(tree, n))
    BY <1>7, GivenMade
  <2> QED
    BY <1>7, <2>1, <2>2, PartsNear, GivenAll, ConcatProperties
<1> QED
  BY <1>1, <1>2, <1>3, <1>4, <1>5, <1>6, <1>7

LEMMA GivenApart ==
  ASSUME NEW tree, NEW n, NEW s \in Seq(Given(tree, n)), NEW new
  PROVE  s \in Seq(Spawned(tree, n)) /\ Apart(new, s)
<1>1. s \in Seq(Spawned(tree, n))
  BY SeqMonotonic DEF Given
<1>2. \A k \in DOMAIN s : s[k].do \notin Assigning
  BY LenProperties, ElementOfSeq DEF Given
<1> QED
  BY <1>1, <1>2 DEF Apart, Assigning

-----------------------------------------------------------------------------
(* A handler of a node that goes on.                                       *)
LEMMA GoesOn ==
  ASSUME IInv, StaysTree, AssignInv, NEW what, what \notin Nodeless, A!Doing(what),
         Steady(ast, ast', A!Task.node), outcome' = outcome,
         NEW s \in Seq(Spawned(ast, A!Task.node)), Apart(ast', s), A!GoOn(s)
  PROVE  AssignInv'
<1>1. /\ outcome = "working" /\ todo # <<>> /\ IsTree(ast)
      /\ todo \in Seq(Tasks(ast)) /\ Head(todo).do \notin Nodeless
  BY Working DEF IInv, A!Task
<1>2. Single(ast)
  BY <1>1, OnceIsSingle DEF StaysTree
<1>3. Ordered(ast) /\ HasPlaces(ast) /\ Apart(ast, todo)
  BY <1>1 DEF AssignInv
<1>4. Steady(ast, ast', Head(todo).node) /\ s \in Seq(Spawned(ast, Head(todo).node))
  BY DEF A!Task
<1>5. Apart(ast', s \o Tail(todo))
  BY <1>1, <1>2, <1>3, <1>4, ApartOn
<1>6. Ordered(ast') /\ HasPlaces(ast')
  BY <1>3, <1>4 DEF Steady
<1> QED
  BY <1>1, <1>5, <1>6 DEF AssignInv, A!GoOn

(* As a rule, to return or to see to the parts.                            *)
LEMMA GoesOnGiven ==
  ASSUME IInv, StaysTree, AssignInv, NEW what, what \notin Nodeless, A!Doing(what),
         Steady(ast, ast', A!Task.node), outcome' = outcome,
         NEW s \in Seq(Given(ast, A!Task.node)), A!GoOn(s) \/ A!Return
  PROVE  AssignInv'
<1>1. CASE A!GoOn(s)
  BY <1>1, GivenApart, GoesOn
<1>2. CASE A!Return
  <2>1. todo \in Seq(Tasks(ast)) /\ todo # <<>>
    BY Working DEF IInv
  <2>2. Tail(todo) \in Seq(Tasks(ast))
    BY <2>1, HeadTailProperties
  <2>3. <<>> \o Tail(todo) = Tail(todo)
    BY <2>2, ConcatEmptySeq
  <2>4. A!GoOn(<<>>) /\ <<>> \in Seq(Given(ast, A!Task.node))
    BY <1>2, <2>3, EmptySeq DEF A!GoOn, A!Return
  <2> QED
    BY <2>4, GivenApart, GoesOn
<1> QED
  BY <1>1, <1>2

(* What the node of a task is, for the handlers that look at it.           *)
LEMMA TaskIs ==
  ASSUME IInv, NEW what, what \notin Nodeless, A!Doing(what)
  PROVE  /\ IsTree(ast) /\ A!Task.node \in DOMAIN ast /\ A!Ref = ast[A!Task.node]
         /\ analyzer \in Analyzers(ast) /\ <<>> \in Seq(Given(ast, A!Task.node))
BY Working, TaskNode, EmptySeq DEF A!Ref

(* Handlers that leave the tree as it is.                                  *)
LEMMA QuietApart ==
  ASSUME IInv, StaysTree, AssignInv,
         \/ A!AnalyzeLeaf \/ A!AnalyzeErrorNode \/ A!AnalyzeChildrenFirst
         \/ A!ExpectIntStep \/ A!AnalyzeSubscript \/ A!LastStays
         \/ A!CallUnresolved \/ A!BeginStatementBlock \/ A!AnalyzeDefinition
         \/ A!AnalyzeFuncStep \/ A!AnalyzeFunctionPtr \/ A!AnalyzeMainStep
  PROVE  AssignInv'
<1> DEFINE n == A!Task.node
<1>1. Steady(ast, ast, n)
  BY SteadyStays
<1>2. CASE A!AnalyzeLeaf \/ A!AnalyzeErrorNode \/ A!ExpectIntStep
           \/ A!LastStays \/ A!CallUnresolved
  <2>1. PICK what : /\ what \notin Nodeless /\ A!Doing(what)
                    /\ ast' = ast /\ outcome' = outcome /\ A!Return
    BY <1>2 DEF A!AnalyzeLeaf, A!AnalyzeErrorNode, A!ExpectIntStep, A!LastStays,
                A!CallUnresolved, A!Applying, Nodeless
  <2> QED
    BY <1>1, <2>1, TaskIs, GoesOnGiven
<1>3. "apply" \notin Nodeless
  BY DEF Nodeless
<1>4. CASE A!AnalyzeChildrenFirst
  <2>1. /\ A!Doing("apply") /\ ast' = ast /\ outcome' = outcome
        /\ A!GoOn(A!ChildrenFirst(A!Ref, n))
    BY <1>4 DEF A!AnalyzeChildrenFirst, A!Applying
  <2>2. A!ChildrenFirst(A!Ref, n) \in Seq(Given(ast, n))
    BY <1>3, <1>4, <2>1, TaskIs, FirstAreGiven DEF A!AnalyzeChildrenFirst, A!Applying
  <2> QED
    BY <1>1, <1>3, <2>1, <2>2, GoesOnGiven
<1>5. CASE A!AnalyzeSubscript
  <2>1. /\ A!Doing("apply") /\ ast' = ast /\ outcome' = outcome
        /\ A!GoOn(<<A!Apply(A!Ref.expr)>>) \/ A!Return
        /\ ast[n].node = "subscript"
    BY <1>5 DEF A!AnalyzeSubscript, A!Applying
  <2>2. <<A!Apply(A!Ref.expr)>> \in Seq(Given(ast, n))
    BY <1>3, <2>1, TaskIs, PartsNear, GivenMade
  <2> QED
    BY <1>1, <1>3, <2>1, <2>2, GoesOnGiven
<1>6. CASE A!BeginStatementBlock
  <2>1. /\ A!Doing("apply") /\ ast' = ast /\ outcome' = outcome
        /\ A!GoOn(A!ApplyAll(A!Ref.stmts) \o <<A!LastOf(n)>>)
        /\ ast[n].node \in Blocks
    BY <1>6 DEF A!BeginStatementBlock, A!Applying, Blocks
  <2>2. A!ApplyAll(A!Ref.stmts) \in Seq(Given(ast, n))
    BY <1>3, <2>1, TaskIs, PartsNear, GivenAll
  <2>3. <<A!LastOf(n)>> \in Seq(Given(ast, n))
    BY <1>3, <2>1, TaskIs, GivenMade
  <2>4. A!ApplyAll(A!Ref.stmts) \o <<A!LastOf(n)>> \in Seq(Given(ast, n))
    BY <2>2, <2>3, ConcatProperties
  <2> QED
    BY <1>1, <1>3, <2>1, <2>4, GoesOnGiven
<1>7. CASE A!AnalyzeDefinition
  <2> DEFINE recursive == A!IsFunction(A!Ref.name)
                            /\ functions[A!Ref.name].recursive
             s == <<A!AnalyzeFunc(n, recursive), A!LeaveAnalyzer(analyzer)>>
  <2>1. /\ A!Doing("apply") /\ ast' = ast /\ outcome' = outcome /\ A!GoOn(s)
        /\ ast[n].node = "function_definition"
    BY <1>7 DEF A!AnalyzeDefinition, A!Applying
  <2>2. /\ A!AnalyzeFunc(n, recursive) \in Given(ast, n)
        /\ A!LeaveAnalyzer(analyzer) \in Given(ast, n)
    BY <1>3, <2>1, TaskIs, GivenMade
  <2> HIDE DEF recursive
  <2>3. s \in Seq(Given(ast, n))
    BY <2>2
  <2> HIDE DEF s
  <2> QED
    BY <1>1, <1>3, <2>1, <2>3, GoesOnGiven
<1>8. CASE A!AnalyzeFuncStep
  <2> DEFINE func  == A!AnalyzeFunc(n, FALSE)
             again == IF A!Task.recursive THEN <<func>> ELSE <<>>
             body  == <<A!Apply(A!Ref.body), A!SetReturnType(n)>>
  <2>1. A!Doing("analyze_func") /\ "analyze_func" \notin Nodeless
    BY <1>8 DEF A!AnalyzeFuncStep, Nodeless
  <2>2. ast[n].node = "function_definition" /\ A!Task.recursive \in BOOLEAN
    BY <2>1, Working, TaskOf DEF Nodes
  <2>3. func \in Given(ast, n) /\ <<>> \in Seq(Given(ast, n))
    BY <2>1, <2>2, TaskIs, GivenMade
  <2>4. body \in Seq(Given(ast, n))
    BY <2>1, <2>2, TaskIs, PartsNear, GivenMade
  <2>5. again \in Seq(Given(ast, n))
    <3>1. <<func>> \in Seq(Given(ast, n))
      <4> HIDE DEF func
      <4> QED
        BY <2>3
    <3>2. CASE A!Task.recursive = TRUE
      BY <3>1, <3>2
    <3>3. CASE A!Task.recursive = FALSE
      BY <2>3, <3>3
    <3> QED
      BY <2>2, <3>2, <3>3
  <2>6. body \o again \in Seq(Given(ast, n))
    BY <2>4, <2>5, ConcatProperties
  <2>7. ast' = ast /\ outcome' = outcome /\ (A!GoOn(again) \/ A!GoOn(body \o again))
    BY <1>8 DEF A!AnalyzeFuncStep
  <2> HIDE DEF again, body
  <2> QED
    BY <1>1, <2>1, <2>5, <2>6, <2>7, GoesOnGiven
<1>9. CASE A!AnalyzeFunctionPtr
  <2>1. /\ A!Doing("apply") /\ ast' = ast /\ outcome' = outcome
        /\ A!GoOn(<<A!Apply(A!Ref.definition), A!TypePointer(n)>>)
        /\ ast[n].node = "fn_to_ptr"
    BY <1>9 DEF A!AnalyzeFunctionPtr, A!Applying
  <2>2. <<A!Apply(A!Ref.definition), A!TypePointer(n)>> \in Seq(Given(ast, n))
    BY <1>3, <2>1, TaskIs, PartsNear, GivenMade
  <2> QED
    BY <1>1, <1>3, <2>1, <2>2, GoesOnGiven
<1>10. CASE A!AnalyzeMainStep
  <2>1. /\ A!Doing("analyze_main") /\ "analyze_main" \notin Nodeless
        /\ ast' = ast /\ outcome' = outcome
        /\ A!GoOn(<<A!Apply(n)>>) \/ A!Return
    BY <1>10 DEF A!AnalyzeMainStep, Nodeless
  <2>2. <<A!Apply(n)>> \in Seq(Given(ast, n))
    BY <2>1, TaskIs, PartsNear, GivenMade
  <2> QED
    BY <1>1, <2>1, <2>2, GoesOnGiven
<1> QED
  BY <1>2, <1>4, <1>5, <1>6, <1>7, <1>8, <1>9, <1>10

(* An exception leaves nothing to do.                                      *)
LEMMA BrokenApart ==
  ASSUME AssignInv, outcome = "working", NEW how, NEW tree, A!BreakWith(how, tree),
         how # "exploring", how = "bad_type" \/ tree = ast
  PROVE  AssignInv'
<1>1. outcome' = how /\ todo' = <<>> /\ ast' = tree
  BY DEF A!BreakWith
<1>2. Apart(tree, <<>>)
  BY DEF Apart
<1> QED
  BY <1>1, <1>2 DEF AssignInv

(* The analyzer around a function is back.                                 *)
LEMMA LeaveApart ==
  ASSUME IInv, AssignInv, A!LeaveAnalyzerStep
  PROVE  AssignInv'
<1>1. /\ A!Doing("leave_analyzer") /\ ast' = ast /\ outcome' = outcome
      /\ todo' = Tail(todo)
  BY DEF A!LeaveAnalyzerStep, A!Return
<1>2. outcome = "working" /\ todo # <<>> /\ todo \in Seq(Tasks(ast))
  BY <1>1, Working DEF IInv
<1>3. Ordered(ast) /\ HasPlaces(ast) /\ Apart(ast, todo)
  BY <1>2 DEF AssignInv
<1>4. Apart(ast', todo')
  BY <1>1, <1>2, <1>3, ApartTail
<1> QED
  BY <1>1, <1>2, <1>3, <1>4 DEF AssignInv

(* Handlers that write an annotation of their own node, or a list of       *)
(* returns, and are through or go on with parts.                           *)
LEMMA WritingApart ==
  ASSUME IInv, StaysTree, AssignInv, NEW what, what \notin Nodeless, A!Doing(what),
         NEW m, NEW f \in Annotations, NEW v, f = "type" => m = A!Task.node \/ v # NoType,
         ast' = ast \/ ast' = [ast EXCEPT ![m] = [@ EXCEPT ![f] = v]],
         outcome' = outcome, NEW s \in Seq(Given(ast, A!Task.node)),
         A!GoOn(s) \/ A!Return
  PROVE  AssignInv'
<1>1. IsTree(ast)
  BY TaskIs
<1> DEFINE n == A!Task.node
<1>2. CASE ast' = ast
  <2>1. Steady(ast, ast, n)
    BY SteadyStays
  <2> QED
    BY <1>2, <2>1, GoesOnGiven
<1>3. CASE ast' = [ast EXCEPT ![m] = [@ EXCEPT ![f] = v]]
  <2>1. Steady(ast, [ast EXCEPT ![m] = [@ EXCEPT ![f] = v]], n)
    <3> HIDE DEF n
    <3>1. f = "type" => m = n \/ v # NoType
      BY DEF n
    <3> QED
      BY <1>1, <3>1, WriteSteady
  <2>2. Steady(ast, ast', n)
    BY <1>3, <2>1
  <2> QED
    BY <2>2, GoesOnGiven
<1> QED
  BY <1>2, <1>3

LEMMA TypingApart ==
  ASSUME IInv, StaysTree, AssignInv,
         \/ A!TypeUnaryStep \/ A!TypeBinaryStep \/ A!AnalyzeVariable
         \/ A!TypeAssignmentStep \/ A!DeduceReturnType \/ A!SetReturnTypeStep
         \/ A!TypePointerStep \/ A!CallFunction \/ A!CallVariable
  PROVE  AssignInv'
<1> DEFINE n == A!Task.node
           Typed == \E v : ast' = [ast EXCEPT ![n] = [@ EXCEPT !["type"] = v]]
<1>1. ASSUME NEW what, what \notin Nodeless, A!Doing(what), ast' = ast \/ Typed,
             outcome' = outcome, A!Return
      PROVE  AssignInv'
  <2>1. "type" \in Annotations
    BY DEF Annotations
  <2>2. <<>> \in Seq(Given(ast, n))
    BY EmptySeq
  <2>3. PICK v : ast' = ast \/ ast' = [ast EXCEPT ![n] = [@ EXCEPT !["type"] = v]]
    BY <1>1
  <2> QED
    BY <1>1, <2>1, <2>2, <2>3, WritingApart
<1>2. CASE A!TypeUnaryStep
  BY <1>1, <1>2 DEF A!TypeUnaryStep, Nodeless
<1>3. CASE A!TypeBinaryStep
  BY <1>1, <1>3 DEF A!TypeBinaryStep, Nodeless
<1>4. CASE A!AnalyzeVariable
  BY <1>1, <1>4 DEF A!AnalyzeVariable, A!Applying, Nodeless
<1>5. CASE A!TypeAssignmentStep
  BY <1>1, <1>5 DEF A!TypeAssignmentStep, Nodeless
<1>6. CASE A!DeduceReturnType
  BY <1>1, <1>6 DEF A!DeduceReturnType, Nodeless
<1>7. CASE A!TypePointerStep
  BY <1>1, <1>7 DEF A!TypePointerStep, Nodeless
<1>8. CASE A!CallFunction
  BY <1>1, <1>8 DEF A!CallFunction, A!CheckCall, Nodeless
<1>9. CASE A!CallVariable
  <2>1. CASE A!BreakWith("bad_type", ast)
    <3>1. outcome = "working"
      BY <1>9 DEF A!CallVariable, A!Doing
    <3> QED
      BY <2>1, <3>1, BrokenApart
  <2>2. CASE /\ A!Return /\ outcome' = outcome
             /\ ast' = ast \/ \E type : A!CheckCall(n, type)
    BY <1>1, <1>9, <2>2 DEF A!CallVariable, A!CheckCall, Nodeless
  <2> QED
    BY <1>9, <2>1, <2>2 DEF A!CallVariable
<1>10. CASE A!SetReturnTypeStep
  <2>1. PICK v : ast' = [ast EXCEPT ![n] = [@ EXCEPT !["return"] = v]]
    BY <1>10 DEF A!SetReturnTypeStep
  <2>2. /\ A!Doing("set_return_type") /\ "set_return_type" \notin Nodeless
        /\ outcome' = outcome /\ A!Return
    BY <1>10 DEF A!SetReturnTypeStep, Nodeless
  <2>3. "return" \in Annotations /\ <<>> \in Seq(Given(ast, n))
    BY EmptySeq DEF Annotations
  <2> QED
    BY <2>1, <2>2, <2>3, WritingApart
<1> QED
  BY <1>2, <1>3, <1>4, <1>5, <1>6, <1>7, <1>8, <1>9, <1>10

(* Handlers that clear or lengthen a list of returns.                      *)
LEMMA CollectingApart ==
  ASSUME IInv, StaysTree, AssignInv, A!BeginValueBlock \/ A!AnalyzeReturn
  PROVE  AssignInv'
<1> DEFINE n == A!Task.node
<1>1. /\ A!Doing("apply") /\ outcome' = outcome /\ "apply" \notin Nodeless
      /\ \E m, v : ast' = [ast EXCEPT ![m] = [@ EXCEPT !["returns"] = v]]
  BY DEF A!BeginValueBlock, A!AnalyzeReturn, A!Applying, Nodeless
<1>2. /\ IsTree(ast) /\ n \in DOMAIN ast /\ A!Ref = ast[n]
      /\ analyzer \in Analyzers(ast) /\ <<>> \in Seq(Given(ast, n))
  BY <1>1, TaskIs
<1>3. ASSUME NEW s \in Seq(Given(ast, n)), A!GoOn(s)
      PROVE  AssignInv'
  <2>1. "returns" \in Annotations /\ "returns" # "type"
    BY DEF Annotations
  <2>2. PICK m, v : ast' = [ast EXCEPT ![m] = [@ EXCEPT !["returns"] = v]]
    BY <1>1
  <2> QED
    BY <1>1, <1>3, <2>1, <2>2, WritingApart
<1>4. CASE A!BeginValueBlock
  <2> DEFINE ends == <<A!LastOf(n), A!DeduceType(n, A!Returns)>>
  <2>1. ast[n].node = "value_block" /\ A!GoOn(A!ApplyAll(A!Ref.stmts) \o ends)
    BY <1>4 DEF A!BeginValueBlock, A!Applying
  <2>2. ast[n].node \in Blocks /\ A!Returns \in DOMAIN ast \cup {Null}
    BY <1>2, <2>1 DEF Blocks, A!Returns, Analyzers
  <2>3. A!ApplyAll(A!Ref.stmts) \in Seq(Given(ast, n))
    BY <1>2, <2>2, PartsNear, GivenAll
  <2>4. ends \in Seq(Given(ast, n))
    <3>1. A!LastOf(n) \in Given(ast, n) /\ A!DeduceType(n, A!Returns) \in Given(ast, n)
      BY <1>2, <2>1, <2>2, GivenMade
    <3> QED
      BY <3>1
  <2> HIDE DEF ends
  <2>5. A!ApplyAll(A!Ref.stmts) \o ends \in Seq(Given(ast, n))
    BY <2>3, <2>4, ConcatProperties
  <2> QED
    BY <1>3, <2>1, <2>5
<1>5. CASE A!AnalyzeReturn
  <2> DEFINE s == IF A!Ref.expr = A!Null THEN <<>> ELSE <<A!Apply(A!Ref.expr)>>
  <2>1. ast[n].node = "return" /\ A!GoOn(s)
    BY <1>5 DEF A!AnalyzeReturn, A!Applying
  <2>2. s \in Seq(Given(ast, n))
    <3>1. CASE A!Ref.expr = Null
      BY <1>2, <3>1 DEF A!Null, Null
    <3>2. CASE A!Ref.expr # Null
      <4>1. A!Apply(A!Ref.expr) \in Given(ast, n)
        BY <1>2, <2>1, <3>2, PartsNear, GivenMade
      <4> QED
        BY <3>2, <4>1 DEF A!Null, Null
    <3> QED
      BY <3>1, <3>2
  <2> HIDE DEF s
  <2> QED
    BY <1>3, <2>1, <2>2
<1> QED
  BY <1>4, <1>5

-----------------------------------------------------------------------------
(* The tasks of an assignment, with its right side typed.                  *)
LEMMA AssigningApart ==
  ASSUME NEW tree, IsTree(tree), NEW n \in Nodes(tree, {"assignment"}),
         NEW k \in Nat, k \in DOMAIN tree[n].lefts,
         NEW new, new[new[n].right].type # NoType
  PROVE  /\ \A t \in {A!AssignTo(n, k), A!CheckTarget(n, k)} :
              <<t>> \in Seq(Spawned(tree, n)) /\ Apart(new, <<t>>)
         /\ A!TheRest(n, k) \in Seq(Spawned(tree, n)) /\ Apart(new, A!TheRest(n, k))
<1>1. ASSUME NEW t \in Tasks(tree), t.node = n
      PROVE  <<t>> \in Seq(Spawned(tree, n)) /\ Apart(new, <<t>>)
  <2>1. t \in Spawned(tree, n)
    BY <1>1 DEF Spawned, Near
  <2>2. Apart(new, <<t>>)
    BY <1>1 DEF Apart
  <2> QED
    BY <2>1, <2>2
<1>2. ASSUME NEW t \in {A!AssignTo(n, k), A!CheckTarget(n, k)}
      PROVE  <<t>> \in Seq(Spawned(tree, n)) /\ Apart(new, <<t>>)
  <2>1. t \in Tasks(tree)
    BY <1>2, TargetsMade
  <2>2. t.node = n
    BY <1>2 DEF A!AssignTo, A!CheckTarget
  <2> QED
    BY <1>1, <2>1, <2>2
<1>3. n \in DOMAIN tree /\ tree[n].node = "assignment"
  BY DEF Nodes
<1>4. CASE k = 1
  <2>1. A!TypeAssignment(n) \in Tasks(tree) /\ A!TypeAssignment(n).node = n
    BY <1>3, TasksMade DEF A!TypeAssignment
  <2>2. A!TheRest(n, k) = <<A!TypeAssignment(n)>>
    BY <1>4 DEF A!TheRest
  <2>3. /\ <<A!TypeAssignment(n)>> \in Seq(Spawned(tree, n))
        /\ Apart(new, <<A!TypeAssignment(n)>>)
    BY <1>1, <2>1
  <2> QED
    BY <1>2, <2>2, <2>3
<1>5. CASE k # 1
  <2>1. k - 1 \in Nat /\ k - 1 \in DOMAIN tree[n].lefts
    BY <1>3, <1>5, PartsAreNodes, LenProperties
  <2>2. A!AssignTo(n, k - 1) \in Tasks(tree) /\ A!AssignTo(n, k - 1).node = n
    BY <2>1, TargetsMade DEF A!AssignTo
  <2>3. A!TheRest(n, k) = <<A!AssignTo(n, k - 1)>>
    BY <1>5 DEF A!TheRest
  <2>4. /\ <<A!AssignTo(n, k - 1)>> \in Seq(Spawned(tree, n))
        /\ Apart(new, <<A!AssignTo(n, k - 1)>>)
    BY <1>1, <2>2
  <2> QED
    BY <1>2, <2>3, <2>4
<1> QED
  BY <1>4, <1>5

(* While an assignment is made its right side has a type, and keeps it.    *)
LEMMA RightStays ==
  ASSUME IInv, AssignInv, NEW what \in Assigning, A!Doing(what)
  PROVE  LET n == A!Task.node
         IN  /\ n \in Nodes(ast, {"assignment"}) /\ A!Ref = ast[n]
             /\ ast[ast[n].right].type # NoType /\ Rank(ast, ast[n].right) < Rank(ast, n)
             /\ Steady(ast, ast', n) => ast'[ast'[n].right].type # NoType
<1> DEFINE n == A!Task.node
<1>1. /\ outcome = "working" /\ IsTree(ast) /\ A!Task \in Tasks(ast)
      /\ A!Task.do = what /\ todo # <<>> /\ todo \in Seq(Tasks(ast))
  BY Working DEF IInv
<1>2. n \in Nodes(ast, {"assignment"})
  BY <1>1, TaskOf DEF Assigning
<1>3. Ordered(ast) /\ HasPlaces(ast) /\ Apart(ast, todo)
  BY <1>1 DEF AssignInv
<1>4. 1 \in DOMAIN todo /\ todo[1] = A!Task
  BY <1>1, LenProperties, EmptySeq, HeadTailProperties DEF A!Task
<1>5. ast[ast[n].right].type # NoType
  BY <1>1, <1>3, <1>4 DEF Apart
<1>6. /\ ast[n].right \in Range(Parts(ast[n])) /\ n \in DOMAIN ast
      /\ ast[n].right \in DOMAIN ast /\ "type" \in DOMAIN ast[ast[n].right]
  BY <1>1, <1>2, <1>3, RightIsPart DEF Range, HasPlaces, Nodes
<1>7. Rank(ast, ast[n].right) < Rank(ast, n)
  BY <1>3, <1>6 DEF Ordered
<1>8. ast[n].right # n
  <2>1. Rank(ast, n) \in Nat
    BY <1>1, <1>6, RankIsNat
  <2> QED
    BY <1>7, <2>1
<1>9. ASSUME Steady(ast, ast', n) PROVE ast'[ast'[n].right].type # NoType
  BY <1>2, <1>5, <1>6, <1>8, <1>9 DEF Steady
<1> QED
  BY <1>2, <1>5, <1>7, <1>9 DEF A!Ref

LEMMA AssignmentsApart ==
  ASSUME IInv, StaysTree, AssignInv,
         A!CheckRightStep \/ A!AssignVariable \/ A!AssignElement \/ A!CheckTargetStep
  PROVE  AssignInv'
<1> DEFINE n == A!Task.node
           k == A!Task.target
           target == A!Ref.lefts[k]
<1>1. CASE A!CheckRightStep
  <2> DEFINE len == Len(A!Ref.lefts)
  <2>1. /\ A!Doing("check_right") /\ ast' = ast /\ outcome' = outcome
        /\ "check_right" \notin Nodeless
    BY <1>1 DEF A!CheckRightStep, Nodeless
  <2>2. /\ n \in Nodes(ast, {"assignment"}) /\ IsTree(ast) /\ A!Ref = ast[n]
        /\ <<>> \in Seq(Given(ast, n))
    BY <2>1, Working, TaskOf, TaskIs
  <2>3. len \in Nat /\ len \in DOMAIN ast[n].lefts
    BY <2>2, PartsAreNodes, LenProperties, EmptySeq DEF Nodes
  <2>4. Steady(ast, ast', n)
    BY <2>1, SteadyStays
  <2>5. CASE A!Return
    BY <2>1, <2>2, <2>4, <2>5, GoesOnGiven
  <2>6. CASE A!GoOn(<<A!AssignTo(n, len)>>) /\ ast[A!Ref.right].type # A!NoType
    <3>1. ast[ast[n].right].type # NoType
      BY <2>2, <2>6 DEF A!NoType, NoType
    <3> HIDE DEF len
    <3>2. /\ <<A!AssignTo(n, len)>> \in Seq(Spawned(ast, n))
          /\ Apart(ast, <<A!AssignTo(n, len)>>)
      BY <2>2, <2>3, <3>1, AssigningApart
    <3>3. Apart(ast', <<A!AssignTo(n, len)>>)
      BY <2>1, <3>2
    <3> QED
      BY <2>1, <2>4, <2>6, <3>2, <3>3, GoesOn
  <2> QED
    BY <1>1, <2>5, <2>6 DEF A!CheckRightStep
<1>2. CASE A!AssignVariable
  <2> DEFINE v == ast[A!Definition(ast[target].name)].type
  <2>1. /\ A!Doing("assign_to") /\ outcome' = outcome /\ "assign_to" \notin Nodeless
        /\ "assign_to" \in Assigning
        /\ A!GoOn(<<A!CheckTarget(n, k)>>) /\ A!IsDeclared(ast[target].name)
        /\ ast' = [ast EXCEPT ![target] = [@ EXCEPT !["type"] = v]]
    BY <1>2 DEF A!AssignVariable, Nodeless, Assigning
  <2>2. v # NoType /\ IsTree(ast)
    BY <2>1, Working, FoundIsTyped
  <2>3. n \in Nodes(ast, {"assignment"}) /\ k \in Nat /\ k \in DOMAIN ast[n].lefts
    BY <2>1, TargetOf
  <2> HIDE DEF v, target
  <2>4. Steady(ast, ast', n)
    BY <2>1, <2>2, WriteSteady DEF Annotations
  <2>5. ast'[ast'[n].right].type # NoType
    BY <2>1, <2>4, RightStays
  <2> HIDE DEF n, k
  <2>6. /\ <<A!CheckTarget(n, k)>> \in Seq(Spawned(ast, n))
        /\ Apart(ast', <<A!CheckTarget(n, k)>>)
    BY <2>2, <2>3, <2>5, AssigningApart
  <2> QED
    BY <2>1, <2>4, <2>6, GoesOn DEF n
<1>3. CASE A!AssignElement
  <2> DEFINE s == <<A!Apply(target), A!CheckTarget(n, k)>>
  <2>1. /\ A!Doing("assign_to") /\ outcome' = outcome /\ "assign_to" \notin Nodeless
        /\ "assign_to" \in Assigning /\ ast' = ast /\ A!GoOn(s)
    BY <1>3 DEF A!AssignElement, Nodeless, Assigning
  <2>2. IsTree(ast) /\ Single(ast) /\ Ordered(ast)
    BY <2>1, Working, OnceIsSingle DEF StaysTree, AssignInv
  <2>3. /\ n \in Nodes(ast, {"assignment"}) /\ n \in DOMAIN ast /\ A!Ref = ast[n]
        /\ k \in Nat /\ k \in DOMAIN ast[n].lefts
    BY <2>1, TargetOf DEF Nodes
  <2>4. Steady(ast, ast', n) /\ ast[ast[n].right].type # NoType
    BY <2>1, SteadyStays, RightStays
  <2>5. target \in Range(Parts(ast[n])) /\ target # ast[n].right
    BY <2>2, <2>3, TargetIsOther
  <2>6. Rank(ast, target) < Rank(ast, n) /\ target \in Near(ast, n)
    BY <2>2, <2>3, <2>5 DEF Ordered, Near
  <2> HIDE DEF n, k, target
  <2>7. A!Apply(target) \in Spawned(ast, n)
    BY <2>2, <2>3, <2>6, GivenMade DEF Given
  <2>8. A!CheckTarget(n, k) \in Spawned(ast, n)
    BY <2>3, TargetsMade DEF Spawned, Near, A!CheckTarget
  <2>9. s \in Seq(Spawned(ast, n))
    BY <2>7, <2>8
  <2>10. Apart(ast, s)
    <3>1. DOMAIN s = 1 .. 2
      OBVIOUS
    <3>2. s[1].do = "apply" /\ s[1].node = target
      BY DEF A!Apply
    <3>3. s[2].do = "check_target" /\ s[2].node = n
      BY DEF A!CheckTarget
    <3>4. Before(ast, s[1], n)
      BY <2>5, <2>6, <3>2 DEF Before
    <3> HIDE DEF s
    <3>5. ASSUME NEW i \in DOMAIN s
          PROVE  /\ s[i].do \in {"assign_to", "type_assignment"} => i = 1
                 /\ s[i].do \in Assigning => ast[ast[s[i].node].right].type # NoType
                 /\ s[i].do = "check_target"
                      => \A j \in 1 .. i - 1 : Before(ast, s[j], s[i].node)
      <4>1. CASE i = 1
        BY <3>2, <4>1 DEF Assigning
      <4>2. CASE i = 2
        BY <2>4, <3>3, <3>4, <4>2
      <4> QED
        BY <3>1, <4>1, <4>2
    <3> QED
      BY <3>5 DEF Apart
  <2> HIDE DEF s
  <2>11. Apart(ast', s)
    BY <2>1, <2>10
  <2> QED
    BY <2>1, <2>4, <2>9, <2>11, GoesOn DEF n
<1>4. CASE A!CheckTargetStep
  <2>1. /\ A!Doing("check_target") /\ "check_target" \notin Nodeless
        /\ "check_target" \in Assigning
    BY <1>4 DEF A!CheckTargetStep, Nodeless, Assigning
  <2>2. /\ n \in Nodes(ast, {"assignment"}) /\ A!Ref = ast[n] /\ IsTree(ast)
        /\ k \in Nat /\ k \in DOMAIN ast[n].lefts
        /\ <<>> \in Seq(Given(ast, n)) /\ Steady(ast, ast, n)
    BY <2>1, TargetOf, TaskIs, SteadyStays
  <2>3. ast[ast[n].right].type # NoType
    BY <2>1, RightStays
  <2>4. /\ ast' = ast /\ outcome' = outcome
        /\ A!GoOn(A!TheRest(n, k)) \/ A!Return
    BY <1>4, <2>2, <2>3 DEF A!CheckTargetStep, A!NoType, NoType
  <2>5. A!TheRest(n, k) \in Seq(Spawned(ast, n)) /\ Apart(ast', A!TheRest(n, k))
    BY <2>2, <2>3, <2>4, AssigningApart
  <2>6. CASE A!GoOn(A!TheRest(n, k))
    BY <2>1, <2>2, <2>4, <2>5, <2>6, GoesOn
  <2>7. CASE A!Return
    BY <2>1, <2>2, <2>4, <2>7, GoesOnGiven
  <2> QED
    BY <2>4, <2>6, <2>7
<1> QED
  BY <1>1, <1>2, <1>3, <1>4

(* A declaration: it types the target, if at all, and fills a table.       *)
LEMMA DeclarationApart ==
  ASSUME IInv, StaysTree, AssignInv, A!AssignNewVariable
  PROVE  AssignInv'
<1> DEFINE n == A!Task.node
           k == A!Task.target
           target == A!Ref.lefts[k]
           type == ast[A!Ref.right].type
           block == A!Last(analyzer.scopes)
           v == A!Declared(ast[block].stab, ast[target].name, target)
           declared == [ast EXCEPT ![block].stab = v]
           typed == [ast EXCEPT ![target] = [@ EXCEPT !["type"] = type]]
           new == [typed EXCEPT ![block].stab = v]
<1>1. A!Doing("assign_to") /\ "assign_to" \notin Nodeless /\ "assign_to" \in Assigning
  BY DEF A!AssignNewVariable, Nodeless, Assigning
<1>2. /\ n \in Nodes(ast, {"assignment"}) /\ A!Ref = ast[n] /\ IsTree(ast)
      /\ k \in Nat /\ k \in DOMAIN ast[n].lefts /\ <<>> \in Seq(Given(ast, n))
  BY <1>1, TargetOf, TaskIs
<1>3. type # NoType
  BY <1>1, <1>2, RightStays
<1>4. outcome' = outcome /\ (A!GoOn(A!TheRest(n, k)) \/ A!Return)
  BY <1>3 DEF A!AssignNewVariable, A!NoType, NoType
<1>5. ast' = declared \/ ast' = [declared EXCEPT ![target].type = type]
  BY <1>3 DEF A!AssignNewVariable, A!NoType, NoType
<1>6. Steady(ast, ast', n)
  <2>1. CASE ast' = declared
    <3> HIDE DEF v, block, n
    <3>1. Steady(ast, declared, n)
      BY <1>2, WriteSteady
    <3> QED
      BY <2>1, <3>1
  <2>2. CASE ast' = [declared EXCEPT ![target].type = type]
    <3>1. ast' = new
      <4> HIDE DEF block, target, type, v
      <4> QED
        BY <2>2
    <3> HIDE DEF v, block, target, type, n
    <3>2. IsTree(typed) /\ Grows(ast, typed)
      BY <1>2, <1>3, AnnotateTree DEF Annotations
    <3>3. Steady(ast, typed, n)
      BY <1>2, <1>3, WriteSteady DEF Annotations
    <3> HIDE DEF typed
    <3>4. Steady(typed, new, n)
      BY <3>2, WriteSteady
    <3> HIDE DEF new
    <3> QED
      BY <3>1, <3>2, <3>3, <3>4, SteadyOn
  <2> QED
    BY <1>5, <2>1, <2>2
<1>7. ast'[ast'[n].right].type # NoType
  BY <1>1, <1>6, RightStays
<1>8. A!TheRest(n, k) \in Seq(Spawned(ast, n)) /\ Apart(ast', A!TheRest(n, k))
  BY <1>2, <1>7, AssigningApart
<1>9. CASE A!GoOn(A!TheRest(n, k))
  BY <1>1, <1>4, <1>6, <1>8, <1>9, GoesOn
<1>10. CASE A!Return
  BY <1>1, <1>2, <1>4, <1>6, <1>10, GoesOnGiven
<1> QED
  BY <1>4, <1>9, <1>10

(* An expression becomes a return.                                         *)
LEMMA ReturningApart ==
  ASSUME IInv, StaysTree, AssignInv, A!LastReturns
  PROVE  AssignInv'
<1> DEFINE n     == A!Task.node
           block == A!Returns
           put   == WithReturn(ast, n)
<1>1. /\ A!Doing("last_of") /\ "last_of" \notin Nodeless /\ outcome' = outcome
      /\ A!Return /\ A!EndsInExpression
  BY DEF A!LastReturns, Nodeless
<1>2. /\ n \in Nodes(ast, Blocks) /\ ast[n].stmts # <<>>
      /\ IsTree(ast) /\ IsTree(put) /\ Grows(ast, put)
      /\ \E v : ast' = [put EXCEPT ![block] = [@ EXCEPT !["returns"] = v]]
  BY ReturnMade
<1>3. A!Ref = ast[n] /\ <<>> \in Seq(Given(ast, n))
  BY <1>1, TaskIs
<1>4. ast[ast[n].stmts[Len(ast[n].stmts)]].node # "return"
  BY <1>1, <1>3 DEF A!EndsInExpression, A!LastStatement, A!Last, A!Expressions
<1>5. Steady(ast, put, n)
  <2> HIDE DEF n
  <2> QED
    BY <1>2, <1>4, ReturnSteady
<1>6. PICK v : ast' = [put EXCEPT ![block] = [@ EXCEPT !["returns"] = v]]
  BY <1>2
<1> HIDE DEF put, n, block
<1>7. Steady(put, ast', n)
  BY <1>2, <1>6, WriteSteady DEF Annotations
<1>8. Steady(ast, ast', n)
  BY <1>2, <1>5, <1>7, SteadyOn
<1> QED
  BY <1>1, <1>3, <1>8, GoesOnGiven DEF n

LEMMA AnalyzeApart ==
  ASSUME IInv, StaysTree, AssignInv, A!AnalyzeStep
  PROVE  AssignInv'
<1>1. CASE A!LastTypeMissing \/ A!DeduceFromEmpty \/ A!ReturnOutside \/ A!AnalyzeUnnamed
  <2>1. PICK how \in {"bad_type", "empty_return", "null_returns", "unnamed"} :
               outcome = "working" /\ A!BreakWith(how, ast)
    BY <1>1 DEF A!LastTypeMissing, A!DeduceFromEmpty, A!ReturnOutside,
                A!AnalyzeUnnamed, A!Break, A!Doing, A!Applying
  <2> QED
    BY <2>1, BrokenApart
<1>2. CASE A!Finish
  <2>1. /\ outcome = "working" /\ outcome' = "done" /\ ast' = ast
        /\ todo = <<>> /\ todo' = todo
    BY <1>2 DEF A!Finish
  <2> QED
    BY <2>1 DEF AssignInv
<1> QED
  BY <1>1, <1>2, QuietApart, LeaveApart, TypingApart, CollectingApart,
     AssignmentsApart, DeclarationApart, ReturningApart
     DEF A!AnalyzeStep

-----------------------------------------------------------------------------
(* The explorer has nothing to do with assigning.                          *)
Walking(tasks) == \A k \in DOMAIN tasks : tasks[k].do \in {"explore", "pop_function"}

LEMMA WalkingOn ==
  ASSUME NEW T, NEW tasks \in Seq(T), tasks # <<>>, Walking(tasks),
         NEW U, NEW s \in Seq(U), Walking(s)
  PROVE  Walking(s \o Tail(tasks))
<1> DEFINE all == s \o Tail(tasks)
           L   == Len(s)
<1>1. /\ L \in Nat /\ Len(tasks) \in Nat /\ Len(tasks) >= 1
      /\ DOMAIN s = 1 .. L /\ DOMAIN tasks = 1 .. Len(tasks)
      /\ DOMAIN all = 1 .. L + Len(tasks) - 1
      /\ \A k \in DOMAIN s : all[k] = s[k]
      /\ \A k \in DOMAIN all \ DOMAIN s : all[k] = tasks[k - L + 1]
  BY RestIs
<1> HIDE DEF all, L
<1>2. ASSUME NEW k \in DOMAIN all PROVE all[k].do \in {"explore", "pop_function"}
  <2>1. CASE k \in DOMAIN s
    BY <1>1, <2>1 DEF Walking
  <2>2. CASE k \notin DOMAIN s
    <3>1. k - L + 1 \in DOMAIN tasks
      BY <1>1, <2>2
    <3> QED
      BY <1>1, <2>2, <3>1 DEF Walking
  <2> QED
    BY <2>1, <2>2
<1> QED
  BY <1>2 DEF Walking, all

LEMMA ExploreApart ==
  ASSUME IInv, AssignInv, ExploreTree
  PROVE  AssignInv'
<1>1. outcome = "exploring" /\ todo # <<>> /\ outcome' \in {"exploring", "unnamed"}
  BY DEF ExploreTree, E!ExploreStep, E!ExploreChildren, E!ExploreDefinition,
         E!ExploreRedefinition, E!ExploreUnnamed, E!LeaveFunction,
         E!ExploreCall, E!ExploreFunctionPtr, E!Exploring, E!Doing
<1>2. /\ IsTree(ast) /\ todo \in Seq(Tasks(ast)) /\ Walking(todo)
      /\ Ordered(ast) /\ HasPlaces(ast)
  BY <1>1 DEF IInv, AssignInv, Walking
<1>3. /\ E!Task \in Tasks(ast)
      /\ E!Task.do = "explore" => E!Task.node \in DOMAIN ast
  <2>1. E!Task \in Tasks(ast)
    BY <1>1, <1>2, HeadTailProperties DEF E!Task
  <2> QED
    BY <2>1, TaskOf DEF AnyNode
<1>4. Ordered(ast') /\ HasPlaces(ast')
  <2>1. CASE ast' = ast
    BY <1>2, <2>1
  <2>2. CASE E!ExploreCall
    <3>1. PICK v : ast' = [ast EXCEPT ![E!Task.node] = [@ EXCEPT !["def"] = v]]
      BY <2>2 DEF E!ExploreCall
    <3>2. Steady(ast, ast', Null)
      BY <1>2, <3>1, WriteSteady DEF Annotations
    <3> QED
      BY <1>2, <3>2 DEF Steady
  <2>3. CASE E!ExploreFunctionPtr
    <3>1. PICK v : ast' = [ast EXCEPT ![E!Ref.definition] = [@ EXCEPT !["name"] = v]]
      BY <2>3 DEF E!ExploreFunctionPtr
    <3>2. Steady(ast, ast', Null)
      BY <1>2, <3>1, WriteSteady DEF Annotations
    <3> QED
      BY <1>2, <3>2 DEF Steady
  <2> QED
    BY <2>1, <2>2, <2>3
       DEF ExploreTree, E!ExploreStep, E!ExploreChildren, E!ExploreDefinition,
           E!ExploreRedefinition, E!ExploreUnnamed, E!LeaveFunction
<1>5. ASSUME NEW s, s \in Seq(Tasks(ast)), Walking(s), todo' = s \o Tail(todo)
      PROVE  Walking(todo')
  BY <1>1, <1>2, <1>5, WalkingOn
<1>6. ASSUME NEW parts \in Seq(DOMAIN ast)
      PROVE  E!ExploreAll(parts) \in Seq(Tasks(ast)) /\ Walking(E!ExploreAll(parts))
  <2>1. E!ExploreAll(parts) \in Seq(Tasks(ast))
    BY DoAll
  <2>2. Walking(E!ExploreAll(parts))
    BY DEF Walking, E!ExploreAll, E!Explore
  <2> QED
    BY <2>1, <2>2
<1>7. \A n \in DOMAIN ast :
        /\ <<E!Explore(n)>> \in Seq(Tasks(ast)) /\ Walking(<<E!Explore(n)>>)
        /\ <<E!Explore(n), E!PopFunction>> \in Seq(Tasks(ast))
        /\ Walking(<<E!Explore(n), E!PopFunction>>)
  BY DEF Tasks, AnyNode, Walking, E!Explore, E!PopFunction
<1>8. Walking(todo')
  <2>1. CASE E!ExploreChildren
    <3>1. E!ExploredChildren(E!Ref) \in Seq(DOMAIN ast)
      BY <1>2, <1>3, <2>1, ExploredAreNodes DEF E!ExploreChildren, E!Doing, E!Ref
    <3> QED
      BY <1>5, <1>6, <2>1, <3>1 DEF E!ExploreChildren
  <2>2. CASE E!ExploreDefinition
    <3>1. E!Ref.body \in DOMAIN ast
      BY <1>2, <1>3, <2>2, PartsAreNodes DEF E!ExploreDefinition, E!Exploring, E!Doing, E!Ref
    <3> QED
      BY <1>5, <1>7, <2>2, <3>1 DEF E!ExploreDefinition
  <2>3. CASE E!ExploreRedefinition \/ E!LeaveFunction
    <3>1. Tail(todo) \in Seq(Tasks(ast))
      BY <1>1, <1>2, HeadTailProperties
    <3>2. todo' = <<>> \o Tail(todo)
      BY <2>3, <3>1, ConcatEmptySeq DEF E!ExploreRedefinition, E!LeaveFunction
    <3>3. <<>> \in Seq(Tasks(ast)) /\ Walking(<<>>)
      BY EmptySeq DEF Walking
    <3> QED
      BY <1>5, <3>2, <3>3
  <2>4. CASE E!ExploreUnnamed
    <3>1. todo' = <<>>
      BY <2>4 DEF E!ExploreUnnamed
    <3> QED
      BY <3>1 DEF Walking
  <2>5. CASE E!ExploreCall
    <3>1. E!Ref.args \in Seq(DOMAIN ast)
      BY <1>2, <1>3, <2>5, PartsAreNodes DEF E!ExploreCall, E!Exploring, E!Doing, E!Ref
    <3> QED
      BY <1>5, <1>6, <2>5, <3>1 DEF E!ExploreCall
  <2>6. CASE E!ExploreFunctionPtr
    <3>1. E!Ref.definition \in DOMAIN ast
      BY <1>2, <1>3, <2>6, PartsAreNodes
         DEF E!ExploreFunctionPtr, E!Exploring, E!Doing, E!Ref
    <3> QED
      BY <1>5, <1>7, <2>6, <3>1 DEF E!ExploreFunctionPtr
  <2> QED
    BY <2>1, <2>2, <2>3, <2>4, <2>5, <2>6 DEF ExploreTree, E!ExploreStep
<1>9. Apart(ast', todo')
  BY <1>8 DEF Walking, Apart, Assigning
<1> QED
  BY <1>1, <1>4, <1>8, <1>9 DEF AssignInv, Walking

(* In the parser's trees, whose nodes are listed with their parts before   *)
(* them, and where there is no return but those in the file.               *)
LEMMA InitApart == ASSUME Init PROVE AssignInv
<1> SUFFICES ASSUME NEW tree \in Parsed, Start(tree) PROVE AssignInv
  BY DEF Init
<1>1. /\ ast = tree.ast /\ outcome = "exploring"
      /\ todo = <<>> \/ todo = <<E!Explore(root)>>
  BY DEF Start, E!Start
<1>2. IsTree(ast)
  BY <1>1, InitIInv DEF IInv
<1>3. DOMAIN ast \subseteq Nat
  BY <1>2, PlacesAre DEF IsTree
<1>4. \A n \in DOMAIN ast : \A p \in Range(Parts(ast[n])) : p < n
  BY <1>1, ParsedAssumption
<1>5. ASSUME NEW n \in DOMAIN ast
      PROVE  /\ Parts(ast[n]) \in Seq(DOMAIN ast)
             /\ Parts(ast[n]) # <<>> => Parts(ast[n])[1] \in Range(Parts(ast[n]))
             /\ Range(Parts(ast[n])) \subseteq DOMAIN ast
  <2>1. Parts(ast[n]) \in Seq(DOMAIN ast)
    BY <1>2, PartsAreSeq
  <2>2. Parts(ast[n]) # <<>> => 1 \in DOMAIN Parts(ast[n])
    BY <2>1, EmptySeq, LenProperties
  <2>3. Range(Parts(ast[n])) \subseteq DOMAIN ast
    BY <2>1, LenProperties, ElementOfSeq DEF Range
  <2> QED
    BY <2>1, <2>2, <2>3 DEF Range
<1>6. ASSUME NEW n \in DOMAIN ast PROVE Rank(ast, n) <= 2 * n
  <2>1. CASE ast[n].node = "return" /\ Parts(ast[n]) # <<>>
    <3>1. Parts(ast[n])[1] < n /\ Parts(ast[n])[1] \in Nat /\ n \in Nat
      BY <1>3, <1>4, <1>5, <2>1
    <3> QED
      BY <2>1, <3>1 DEF Rank
  <2>2. CASE ~(ast[n].node = "return" /\ Parts(ast[n]) # <<>>)
    BY <1>3, <2>2 DEF Rank
  <2> QED
    BY <2>1, <2>2
<1>7. ASSUME NEW n \in DOMAIN ast, NEW p \in Range(Parts(ast[n]))
      PROVE  Rank(ast, p) < Rank(ast, n)
  <2>1. p \in DOMAIN ast /\ p \in Nat /\ n \in Nat /\ p < n /\ Rank(ast, p) \in Nat
    BY <1>2, <1>3, <1>4, <1>5, <1>7, RankIsNat
  <2>2. Rank(ast, p) <= 2 * p
    BY <1>6, <2>1
  <2>3. CASE ast[n].node = "return" /\ Parts(ast[n]) # <<>>
    <3>1. Parts(ast[n]) = <<ast[n].expr>>
      BY <2>3, PartsBy
    <3>2. p = Parts(ast[n])[1]
      BY <1>7, <3>1 DEF Range
    <3>3. Rank(ast, n) = 2 * p + 1
      BY <2>3, <3>2 DEF Rank
    <3> QED
      BY <2>1, <2>2, <3>3
  <2>4. CASE ~(ast[n].node = "return" /\ Parts(ast[n]) # <<>>)
    <3>1. Rank(ast, n) = 2 * n
      BY <2>4 DEF Rank
    <3> QED
      BY <2>1, <2>2, <3>1
  <2> QED
    BY <2>3, <2>4
<1>8. Ordered(ast)
  BY <1>7 DEF Ordered
<1>9. HasPlaces(ast)
  BY <1>1, ParsedAssumption DEF HasPlaces, Nodes
<1>10. /\ Apart(ast, todo)
       /\ \A k \in DOMAIN todo : todo[k].do \in {"explore", "pop_function"}
  BY <1>1 DEF Apart, Assigning, E!Explore
<1> QED
  BY <1>1, <1>8, <1>9, <1>10 DEF AssignInv

LEMMA StepApart ==
  ASSUME IInv, StaysTree, AssignInv, [Next]_vars
  PROVE  AssignInv'
<1>1. CASE ExploreTree
  BY <1>1, ExploreApart
<1>2. CASE AnalyzeTree
  BY <1>2, AnalyzeApart DEF AnalyzeTree
<1>3. CASE BeginAnalysis
  <2>1. /\ outcome = "exploring" /\ todo = <<>> /\ ast' = ast
        /\ outcome' \in {"done", "working"}
        /\ todo' = <<>> \/ todo' = <<A!AnalyzeMain(root)>>
    BY <1>3 DEF BeginAnalysis
  <2>2. Apart(ast, todo')
    BY <2>1 DEF Apart, Assigning, A!AnalyzeMain
  <2> QED
    BY <2>1, <2>2 DEF AssignInv
<1>4. CASE Over \/ UNCHANGED vars
  <2>1. ast' = ast /\ todo' = todo /\ outcome' = outcome
    BY <1>4 DEF Over, vars
  <2> QED
    BY <2>1 DEF AssignInv
<1> QED
  BY <1>1, <1>2, <1>3, <1>4 DEF Next, Step

(* Whatever file is parsed: once the right side of an assignment has been  *)
(* seen to have a type, it has one until the last target is assigned, even *)
(* though the targets are visited in between, and even in the second pass  *)
(* over a function.  So "Bad type dereference" is never thrown there.      *)
THEOREM AssignmentsAreTyped == Spec => []AssignedIsTyped
<1>1. Init => IInv /\ StaysTree /\ AssignInv
  BY InitIInv, InitOnce, InitApart
<1>2. IInv /\ StaysTree /\ AssignInv /\ [Next]_vars => (IInv /\ StaysTree /\ AssignInv)'
  BY NextIInv, StepOnce, StepApart
<1>3. AssignInv => AssignedIsTyped
  <2>1. CASE outcome = "bad_type"
    BY <2>1 DEF AssignInv, AssignedIsTyped
  <2>2. CASE outcome # "bad_type"
    BY <2>2 DEF AssignInv, Apart, Assigning, AssignedIsTyped
  <2> QED
    BY <2>1, <2>2
<1> QED
  BY <1>1, <1>2, <1>3, PTL DEF Spec
=============================================================================
