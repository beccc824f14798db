---------------------------- MODULE OperandProofs ----------------------------
(***************************************************************************)
(* In an accepted file only ints are used as numbers, for every set of     *)
(* trees the parser may deliver: NumbersAreInts, at the end.               *)
(*                                                                         *)
(* Each use is checked once its operands have been visited, by a task; and *)
(* any later visit may write another type into an operand.  So nothing is  *)
(* said of a single use.  What is invariant is that every use is fine or   *)
(* in the reach of some task left to do (AllSeen), that whatever is to be  *)
(* visited has its use checked afterwards (Awaited), and that what a       *)
(* tolerant analyzer lets through is in the reach of the second pass       *)
(* (Repeats).  The reach of a task (Covers) is made of what is inside its  *)
(* node, and in a tree that shares no node (StaysTree) what is inside one  *)
(* part is not used from elsewhere.                                        *)
(***************************************************************************)
EXTENDS OwnershipProofs

-----------------------------------------------------------------------------
(* What is inside a node: in every set that has it and the parts of what   *)
(* it has.                                                                 *)
Closed(tree, S) == \A n \in S : Range(Parts(tree[n])) \subseteq S
Within(tree, m) ==
  {n \in DOMAIN tree : \A S \in SUBSET DOMAIN tree : m \in S /\ Closed(tree, S) => n \in S}

LEMMA PartsInTree ==
  ASSUME NEW tree, IsTree(tree), NEW n \in DOMAIN tree
  PROVE  Range(Parts(tree[n])) \subseteq DOMAIN tree
<1>1. Parts(tree[n]) \in Seq(DOMAIN tree)
  BY PartsAreSeq
<1> QED
  BY <1>1, LenProperties, ElementOfSeq DEF Range

LEMMA InItself ==
  ASSUME NEW tree, NEW m \in DOMAIN tree
  PROVE  m \in Within(tree, m)
BY DEF Within

(* Inside a part is inside the whole.                                      *)
LEMMA InPart ==
  ASSUME NEW tree, NEW m, NEW p \in Range(Parts(tree[m]))
  PROVE  Within(tree, p) \subseteq Within(tree, m)
<1> SUFFICES ASSUME NEW n \in Within(tree, p), NEW S \in SUBSET DOMAIN tree,
                    m \in S, Closed(tree, S)
             PROVE  n \in S
  BY DEF Within
<1>1. p \in S
  BY DEF Closed
<1> QED
  BY <1>1 DEF Within

(* What is inside is closed.                                               *)
LEMMA InsideIsClosed ==
  ASSUME NEW tree, IsTree(tree), NEW m
  PROVE  Closed(tree, Within(tree, m))
<1> SUFFICES ASSUME NEW n \in Within(tree, m), NEW p \in Range(Parts(tree[n]))
             PROVE  p \in Within(tree, m)
  BY DEF Closed
<1>1. p \in DOMAIN tree
  BY PartsInTree DEF Within
<1>2. ASSUME NEW S \in SUBSET DOMAIN tree, m \in S, Closed(tree, S) PROVE p \in S
  <2>1. n \in S
    BY <1>2 DEF Within
  <2> QED
    BY <1>2, <2>1 DEF Closed
<1> QED
  BY <1>1, <1>2 DEF Within

(* Inside a node is the node, or inside one of its parts.                  *)
LEMMA InsideIs ==
  ASSUME NEW tree, IsTree(tree), NEW m \in DOMAIN tree, NEW n \in Within(tree, m), n # m
  PROVE  \E p \in Range(Parts(tree[m])) : n \in Within(tree, p)
<1> DEFINE S == {m} \cup {x \in DOMAIN tree :
                            \E p \in Range(Parts(tree[m])) : x \in Within(tree, p)}
<1>1. S \in SUBSET DOMAIN tree /\ m \in S
  OBVIOUS
<1>2. Closed(tree, S)
  <2> SUFFICES ASSUME NEW x \in S, NEW q \in Range(Parts(tree[x]))
               PROVE  q \in S
    BY DEF Closed
  <2>1. q \in DOMAIN tree
    BY <1>1, PartsInTree
  <2>2. CASE x = m
    <3>1. q \in Within(tree, q)
      BY <2>1, InItself
    <3> QED
      BY <2>1, <2>2, <3>1
  <2>3. CASE x # m
    <3>1. PICK p \in Range(Parts(tree[m])) : x \in Within(tree, p)
      BY <2>3
    <3>2. q \in Within(tree, p)
      BY <3>1, InsideIsClosed DEF Closed
    <3> QED
      BY <2>1, <3>2
  <2> QED
    BY <2>2, <2>3
<1> HIDE DEF S
<1>3. n \in S
  BY <1>1, <1>2 DEF Within
<1> QED
  BY <1>3 DEF S

-----------------------------------------------------------------------------
(* The nodes that use others as numbers, and those of them inside a node.  *)
Users(tree) == {n \in DOMAIN tree : Operands(tree[n]) # {}}
Under(tree, m) == Within(tree, m) \cap Users(tree)

LEMMA OperandsAreParts ==
  ASSUME NEW ref, NEW nodes, IsNode(ref, nodes)
  PROVE  Operands(ref) \subseteq Range(Parts(ref))
<1>1. CASE ref.node \in {"binary", "unary", "print"}
  BY <1>1 DEF Operands
<1>2. CASE ref.node = "while"
  <2>1. Parts(ref) = <<ref.cond, ref.block>> /\ Operands(ref) = {ref.cond}
    BY <1>2, PartsBy DEF Operands
  <2>2. Parts(ref)[1] = ref.cond /\ 1 \in DOMAIN Parts(ref)
    BY <2>1
  <2> QED
    BY <2>1, <2>2 DEF Range
<1>3. CASE ref.node = "if"
  <2>1. Operands(ref) = {ref.cond}
    BY <1>3 DEF Operands
  <2>2. \/ Parts(ref) = <<ref.cond, ref.true_block>>
        \/ Parts(ref) = <<ref.cond, ref.true_block, ref.else_block>>
    BY <1>3, PartsBy
  <2>3. Parts(ref)[1] = ref.cond /\ 1 \in DOMAIN Parts(ref)
    BY <2>2
  <2> QED
    BY <2>1, <2>3 DEF Range
<1>4. CASE ref.node \notin {"binary", "unary", "print", "if", "while"}
  BY <1>4 DEF Operands
<1> QED
  BY <1>1, <1>2, <1>3, <1>4

(* Operands have a place for a type, and parameters are variables.         *)
Placed(tree) ==
  \A n \in DOMAIN tree :
    /\ \A e \in Operands(tree[n]) : "type" \in DOMAIN tree[e]
    /\ tree[n].node = "function_definition"
         => \A p \in Range(tree[n].params) : tree[p].node = "variable"

(* What a step may do to a tree: uses stay, inside what they were inside.  *)
Kept(tree, new) ==
  /\ DOMAIN tree \subseteq DOMAIN new
  /\ Users(new) = Users(tree)
  /\ \A m \in DOMAIN tree : /\ DOMAIN new[m] = DOMAIN tree[m]
                            /\ Operands(new[m]) = Operands(tree[m])
                            /\ Under(new, m) = Under(tree, m)
  /\ Placed(tree) => Placed(new)

LEMMA KeptStays == ASSUME NEW tree PROVE Kept(tree, tree)
BY DEF Kept

LEMMA KeptOn ==
  ASSUME NEW t, NEW u, NEW v, Kept(t, u), Kept(u, v)
  PROVE  Kept(t, v)
<1>1. DOMAIN t \subseteq DOMAIN u /\ DOMAIN u \subseteq DOMAIN v
  BY DEF Kept
<1>2. \A m \in DOMAIN t : /\ DOMAIN v[m] = DOMAIN t[m]
                          /\ Operands(v[m]) = Operands(t[m])
                          /\ Under(v, m) = Under(t, m)
  BY <1>1 DEF Kept
<1> QED
  BY <1>1, <1>2 DEF Kept

(* A field that is written is neither a part nor the class of a node.      *)
LEMMA FieldStays ==
  ASSUME NEW ref, NEW nodes, IsNode(ref, nodes), NEW new,
         NEW f \in Annotations \cup {"stab"}, DOMAIN new = DOMAIN ref,
         \A g \in DOMAIN ref : g # f => new[g] = ref[g]
  PROVE  /\ Operands(new) = Operands(ref) /\ new.node = ref.node
         /\ ref.node = "function_definition" => new.params = ref.params
<1>1. "node" \in DOMAIN ref /\ new.node = ref.node
  BY DEF IsNode, Annotations
<1>2. Parts(new) = Parts(ref)
  BY PartsStay
<1>3. ref.node \in {"if", "while"} => new.cond = ref.cond
  BY DEF IsNode, Annotations, Blocks
<1>4. ref.node = "function_definition" => new.params = ref.params
  BY DEF IsNode, Annotations, Blocks
<1> QED
  BY <1>1, <1>2, <1>3, <1>4 DEF Operands

LEMMA SameWithin ==
  ASSUME NEW tree, IsTree(tree), NEW new, SameParts(tree, new), NEW m
  PROVE  Within(new, m) = Within(tree, m)
<1>1. DOMAIN new = DOMAIN tree
  BY DEF SameParts
<1>2. \A S \in SUBSET DOMAIN tree : Closed(new, S) <=> Closed(tree, S)
  BY DEF SameParts, Closed
<1> QED
  BY <1>1, <1>2 DEF Within

LEMMA WriteKeeps ==
  ASSUME NEW tree, IsTree(tree), NEW m, NEW f \in Annotations \cup {"stab"}, NEW v
  PROVE  Kept(tree, [tree EXCEPT ![m] = [@ EXCEPT ![f] = v]])
<1> DEFINE new == [tree EXCEPT ![m] = [@ EXCEPT ![f] = v]]
<1>1. /\ DOMAIN new = DOMAIN tree
      /\ \A k \in DOMAIN tree :
           /\ DOMAIN new[k] = DOMAIN tree[k]
           /\ \A g \in DOMAIN tree[k] : g # f => new[k][g] = tree[k][g]
  OBVIOUS
<1> HIDE DEF new
<1>2. \A k \in DOMAIN tree : IsNode(tree[k], DOMAIN tree)
  BY DEF IsTree
<1>3. \A k \in DOMAIN tree :
        /\ Operands(new[k]) = Operands(tree[k]) /\ new[k].node = tree[k].node
        /\ tree[k].node = "function_definition" => new[k].params = tree[k].params
  BY <1>1, <1>2, FieldStays
<1>4. \A k \in DOMAIN tree : Parts(new[k]) = Parts(tree[k])
  BY <1>1, <1>2, PartsStay
<1>5. Users(new) = Users(tree)
  BY <1>1, <1>3 DEF Users
<1>6. \A k : Under(new, k) = Under(tree, k)
  BY <1>1, <1>4, <1>5, SameWithin DEF Under, SameParts
<1>7. ASSUME Placed(tree) PROVE Placed(new)
  <2> SUFFICES ASSUME NEW n \in DOMAIN tree
               PROVE  /\ \A e \in Operands(new[n]) : "type" \in DOMAIN new[e]
                      /\ new[n].node = "function_definition"
                           => \A p \in Range(new[n].params) : new[p].node = "variable"
    BY <1>1 DEF Placed
  <2>1. ASSUME NEW e \in Operands(new[n]) PROVE "type" \in DOMAIN new[e]
    <3>1. e \in Operands(tree[n])
      BY <1>3
    <3>2. e \in DOMAIN tree
      BY <1>2, <3>1, OperandsAreParts, PartsInTree
    <3> QED
      BY <1>1, <1>7, <3>1, <3>2 DEF Placed
  <2>2. ASSUME new[n].node = "function_definition", NEW p \in Range(new[n].params)
        PROVE  new[p].node = "variable"
    <3>1. tree[n].node = "function_definition" /\ p \in Range(tree[n].params)
      BY <1>3, <2>2
    <3>2. tree[n].params \in Seq(DOMAIN tree)
      BY <1>2, <3>1 DEF IsNode, Blocks
    <3>3. p \in DOMAIN tree
      BY <3>1, <3>2, LenProperties, ElementOfSeq DEF Range
    <3> QED
      BY <1>3, <1>7, <3>1, <3>3 DEF Placed
  <2> QED
    BY <2>1, <2>2
<1> QED
  BY <1>1, <1>3, <1>5, <1>6, <1>7 DEF Kept, new

(* The last statement of a block becomes that of a return: the return is   *)
(* inside the block then, and the statement inside it.                     *)
LEMMA ReturnedKeeps ==
  ASSUME NEW tree, IsTree(tree), NEW n \in Nodes(tree, Blocks), tree[n].stmts # <<>>,
         Grows(tree, WithReturn(tree, n))
  PROVE  Kept(tree, WithReturn(tree, n))
<1> DEFINE k    == Len(tree[n].stmts)
           last == Parts(tree[n])[k]
           made == Len(tree) + 1
           put  == WithReturn(tree, n)
<1>1. Returned(tree, put, n, k, made) /\ last \in DOMAIN tree
  BY ReturnParts
<1>2. Grows(tree, put)
  OBVIOUS
<1> HIDE DEF put, made, k
<1>3. n \in DOMAIN tree /\ tree[n].node \in Blocks
  BY DEF Nodes
<1>4. /\ DOMAIN put = DOMAIN tree \cup {made} /\ made \notin DOMAIN tree
      /\ \A m \in DOMAIN tree : m # n => put[m] = tree[m]
      /\ DOMAIN put[n] = DOMAIN tree[n]
      /\ put[made].node = "return"
      /\ \A m \in DOMAIN tree : put[m].node = tree[m].node
  BY <1>1, <1>2 DEF Returned, Grows
<1>5. /\ k \in DOMAIN Parts(tree[n]) /\ DOMAIN Parts(put[n]) = DOMAIN Parts(tree[n])
      /\ Parts(put[n])[k] = made
      /\ \A j \in DOMAIN Parts(tree[n]) : j # k => Parts(put[n])[j] = Parts(tree[n])[j]
      /\ Parts(put[made]) = <<last>>
  BY <1>1 DEF Returned
<1>6. \A m \in DOMAIN tree : Operands(put[m]) = Operands(tree[m])
  <2>1. Operands(put[n]) = Operands(tree[n])
    BY <1>3, <1>4 DEF Operands, Blocks
  <2> QED
    BY <1>4, <2>1
<1>7. Users(put) = Users(tree)
  <2>1. Operands(put[made]) = {}
    BY <1>4 DEF Operands
  <2> QED
    BY <1>4, <1>6, <2>1 DEF Users
<1>8. last \in Range(Parts(tree[n])) /\ Range(Parts(put[made])) = {last}
  <2>1. DOMAIN Parts(put[made]) = {1} /\ Parts(put[made])[1] = last
    BY <1>5
  <2> HIDE DEF last
  <2>2. Range(Parts(put[made])) = {last}
    BY <2>1 DEF Range
  <2> QED
    BY <1>5, <2>2 DEF Range, last
<1>9. /\ Range(Parts(tree[n])) \subseteq Range(Parts(put[n])) \cup {last}
      /\ Range(Parts(put[n])) \subseteq Range(Parts(tree[n])) \cup {made}
      /\ made \in Range(Parts(put[n]))
  BY <1>5 DEF Range
<1>10. \A m \in DOMAIN tree : m # n => Range(Parts(put[m])) = Range(Parts(tree[m]))
  BY <1>4
<1> HIDE DEF last
<1>11. ASSUME NEW m \in DOMAIN tree, NEW x \in Within(tree, m)
       PROVE  x \in Within(put, m)
  <2> SUFFICES ASSUME NEW S \in SUBSET DOMAIN put, m \in S, Closed(put, S)
               PROVE  x \in S
    BY <1>4, <1>11 DEF Within
  <2> DEFINE T == S \cap DOMAIN tree
  <2>1. ASSUME NEW y \in T PROVE Range(Parts(tree[y])) \subseteq T
    <3>1. Range(Parts(tree[y])) \subseteq DOMAIN tree
      BY PartsInTree
    <3>2. Range(Parts(put[y])) \subseteq S
      BY DEF Closed
    <3>3. CASE y # n
      BY <1>10, <3>1, <3>2, <3>3
    <3>4. CASE y = n
      <4>1. made \in S
        BY <1>9, <3>2, <3>4
      <4>2. last \in S
        BY <1>8, <4>1 DEF Closed
      <4> QED
        BY <1>9, <3>1, <3>2, <3>4, <4>2
    <3> QED
      BY <3>3, <3>4
  <2>2. Closed(tree, T)
    BY <2>1 DEF Closed
  <2>3. m \in T /\ T \in SUBSET DOMAIN tree
    OBVIOUS
  <2> HIDE DEF T
  <2>4. x \in T
    BY <1>11, <2>2, <2>3 DEF Within
  <2> QED
    BY <2>4 DEF T
<1>12. ASSUME NEW m \in DOMAIN tree, NEW x \in Within(put, m), x \in DOMAIN tree
       PROVE  x \in Within(tree, m)
  <2> SUFFICES ASSUME NEW S \in SUBSET DOMAIN tree, m \in S, Closed(tree, S)
               PROVE  x \in S
    BY <1>12 DEF Within
  <2> DEFINE T == IF last \in S THEN S \cup {made} ELSE S
  <2>1. ASSUME NEW y \in S PROVE Range(Parts(put[y])) \subseteq T
    <3>1. Range(Parts(tree[y])) \subseteq S
      BY DEF Closed
    <3>2. CASE y # n
      BY <1>10, <3>1, <3>2
    <3>3. CASE y = n
      BY <1>8, <1>9, <3>1, <3>3
    <3> QED
      BY <3>2, <3>3
  <2>2. Closed(put, T)
    <3>1. CASE last \in S
      <4>1. Range(Parts(put[made])) \subseteq T
        BY <1>8, <3>1
      <4> QED
        BY <2>1, <3>1, <4>1 DEF Closed
    <3>2. CASE last \notin S
      BY <2>1, <3>2 DEF Closed
    <3> QED
      BY <3>1, <3>2
  <2>3. m \in T /\ T \in SUBSET DOMAIN put
    BY <1>4
  <2>4. T \subseteq S \cup {made}
    OBVIOUS
  <2> HIDE DEF T
  <2>5. x \in T
    BY <2>2, <2>3 DEF Within
  <2> QED
    BY <1>4, <1>12, <2>4, <2>5
<1>13. \A m \in DOMAIN tree : Under(put, m) = Under(tree, m)
  BY <1>7, <1>11, <1>12 DEF Under, Users
<1>14. \A m \in DOMAIN tree : DOMAIN put[m] = DOMAIN tree[m]
  BY <1>4
<1>15. ASSUME Placed(tree) PROVE Placed(put)
  <2> SUFFICES ASSUME NEW x \in DOMAIN put
               PROVE  /\ \A e \in Operands(put[x]) : "type" \in DOMAIN put[e]
                      /\ put[x].node = "function_definition"
                           => \A p \in Range(put[x].params) : put[p].node = "variable"
    BY DEF Placed
  <2>1. CASE x = made
    BY <1>4, <2>1 DEF Operands
  <2>2. CASE x # made
    <3>1. x \in DOMAIN tree /\ IsNode(tree[x], DOMAIN tree)
      BY <1>4, <2>2 DEF IsTree
    <3>2. ASSUME NEW e \in Operands(put[x]) PROVE "type" \in DOMAIN put[e]
      <4>1. e \in Operands(tree[x]) /\ e \in DOMAIN tree
        BY <1>6, <3>1, OperandsAreParts, PartsInTree
      <4> QED
        BY <1>14, <1>15, <3>1, <4>1 DEF Placed
    <3>3. ASSUME put[x].node = "function_definition", NEW p \in Range(put[x].params)
          PROVE  put[p].node = "variable"
      <4>1. x # n
        BY <1>3, <1>4, <3>3 DEF Blocks
      <4>2. tree[x].node = "function_definition" /\ p \in Range(tree[x].params)
        BY <1>4, <3>1, <3>3, <4>1
      <4>3. tree[x].params \in Seq(DOMAIN tree)
        BY <3>1, <4>2 DEF IsNode, Blocks
      <4>4. p \in DOMAIN tree
        BY <4>2, <4>3, LenProperties, ElementOfSeq DEF Range
      <4> QED
        BY <1>4, <1>15, <3>1, <4>2, <4>4 DEF Placed
    <3> QED
      BY <3>2, <3>3
  <2> QED
    BY <2>1, <2>2
<1> QED
  BY <1>4, <1>6, <1>7, <1>13, <1>14, <1>15 DEF Kept, put

-----------------------------------------------------------------------------
(* The uses a task will look at, itself or by what it goes on with.  The   *)
(* tasks of an assignment still have targets to visit, with what is inside *)
(* the subscripts among them.                                              *)
Reaching == {"apply", "analyze_func", "analyze_main"}
Left(tree, t) ==
  CASE t.do = "check_right"  -> DOMAIN tree[t.node].lefts
    [] t.do = "assign_to"    -> 1 .. t.target
    [] t.do = "check_target" -> 1 .. t.target - 1
    [] OTHER                 -> {}
Covers(tree, t) ==
  {n \in Users(tree) :
     \/ t.do \in Reaching /\ n \in Under(tree, t.node)
     \/ t.do = "expect_int" /\ Operands(tree[n]) = {t.node}
     \/ t.do \in {"type_unary", "type_binary"} /\ n = t.node
     \/ \E k \in Left(tree, t) : n \in Under(tree, tree[t.node].lefts[k])}

LEMMA LeftAreParts ==
  ASSUME NEW tree, IsTree(tree), NEW t \in Tasks(tree), NEW k \in Left(tree, t)
  PROVE  /\ t.node \in Nodes(tree, {"assignment"}) /\ t.node \in DOMAIN tree
         /\ k \in DOMAIN tree[t.node].lefts
         /\ tree[t.node].lefts[k] \in DOMAIN tree
         /\ tree[t.node].lefts[k] \in Range(Parts(tree[t.node]))
<1>1. t.do \in {"check_right", "assign_to", "check_target"}
  BY DEF Left
<1>2. t.node \in Nodes(tree, {"assignment"}) /\ t.node \in DOMAIN tree
  BY <1>1, TaskOf DEF Nodes
<1>3. /\ tree[t.node].lefts \in Seq(DOMAIN tree)
      /\ DOMAIN tree[t.node].lefts = 1 .. Len(tree[t.node].lefts)
      /\ Len(tree[t.node].lefts) \in Nat
  BY <1>2, PartsAreNodes, LenProperties DEF Nodes
<1>4. t.do \in {"assign_to", "check_target"} => t.target \in DOMAIN tree[t.node].lefts
  BY TaskOf
<1>5. k \in DOMAIN tree[t.node].lefts
  <2>1. CASE t.do = "check_right"
    BY <2>1 DEF Left
  <2>2. CASE t.do = "assign_to"
    BY <1>3, <1>4, <2>2 DEF Left
  <2>3. CASE t.do = "check_target"
    BY <1>3, <1>4, <2>3 DEF Left
  <2> QED
    BY <1>1, <2>1, <2>2, <2>3
<1>6. tree[t.node].lefts[k] \in DOMAIN tree
  BY <1>3, <1>5, ElementOfSeq
<1>7. tree[t.node].lefts[k] \in Range(Parts(tree[t.node]))
  BY <1>2, <1>5, RightIsPart DEF Range
<1> QED
  BY <1>2, <1>5, <1>6, <1>7

(* None of them is outside the node of the task.                           *)
LEMMA CoversUnder ==
  ASSUME NEW tree, IsTree(tree), NEW t \in Tasks(tree),
         t.do \notin Nodeless \cup {"expect_int"}
  PROVE  Covers(tree, t) \subseteq Under(tree, t.node)
<1> SUFFICES ASSUME NEW n \in Covers(tree, t) PROVE n \in Under(tree, t.node)
  OBVIOUS
<1>1. t.node \in DOMAIN tree /\ t.node \in Within(tree, t.node)
  BY TaskNode, InItself
<1>2. n \in Users(tree)
  BY DEF Covers
<1>3. CASE t.do \in Reaching /\ n \in Under(tree, t.node)
  BY <1>3
<1>4. CASE t.do \in {"type_unary", "type_binary"} /\ n = t.node
  BY <1>1, <1>2, <1>4 DEF Under
<1>5. CASE \E k \in Left(tree, t) : n \in Under(tree, tree[t.node].lefts[k])
  <2>1. PICK k \in Left(tree, t) : n \in Under(tree, tree[t.node].lefts[k])
    BY <1>5
  <2>2. tree[t.node].lefts[k] \in Range(Parts(tree[t.node]))
    BY LeftAreParts
  <2>3. n \in Within(tree, t.node)
    BY <2>1, <2>2, InPart DEF Under
  <2> QED
    BY <1>2, <2>3 DEF Under
<1> QED
  BY <1>3, <1>4, <1>5 DEF Covers

LEMMA NodelessCovers ==
  ASSUME NEW tree, NEW t, t.do \in Nodeless
  PROVE  Covers(tree, t) = {}
BY DEF Covers, Left, Nodeless, Reaching

(* A step that keeps the uses keeps the reach of what is to do.            *)
LEMMA CoversStay ==
  ASSUME NEW tree, IsTree(tree), NEW new, Kept(tree, new), Grows(tree, new),
         NEW t \in Tasks(tree)
  PROVE  Covers(new, t) = Covers(tree, t)
<1>1. /\ Users(new) = Users(tree)
      /\ \A m \in DOMAIN tree : /\ Under(new, m) = Under(tree, m)
                                /\ Operands(new[m]) = Operands(tree[m])
  BY DEF Kept
<1>2. \A n \in Users(tree) : Operands(new[n]) = Operands(tree[n])
  BY <1>1 DEF Users
<1>3. CASE t.do \in Nodeless
  BY <1>3, NodelessCovers
<1>4. CASE t.do \notin Nodeless
  <2>1. t.node \in DOMAIN tree
    BY <1>4, TaskNode
  <2>2. Left(new, t) = Left(tree, t)
    <3>1. t.do = "check_right" => new[t.node].lefts = tree[t.node].lefts
      BY TaskOf DEF Nodes, Grows
    <3> QED
      BY <3>1 DEF Left
  <2>3. ASSUME NEW k \in Left(tree, t)
        PROVE  Under(new, new[t.node].lefts[k]) = Under(tree, tree[t.node].lefts[k])
    <3>1. new[t.node].lefts = tree[t.node].lefts
      BY LeftAreParts DEF Grows, Nodes
    <3> QED
      BY <1>1, <3>1, LeftAreParts
  <2> QED
    BY <1>1, <1>2, <2>1, <2>2, <2>3 DEF Covers
<1> QED
  BY <1>3, <1>4

-----------------------------------------------------------------------------
(* The parts of the invariant, of a tree and what is left to do.  A use is *)
(* fine, or will be looked at;                                             *)
Fine(type) == A!Passes(type) \/ type = IntType
Checked(tree, n) == \A e \in Operands(tree[n]) : Fine(tree[e].type)
Seen(tree, tasks, n) == \E k \in DOMAIN tasks : n \in Covers(tree, tasks[k])
AllSeen(tree, tasks) == \A n \in Users(tree) : Checked(tree, n) \/ Seen(tree, tasks, n)

(* who uses a node that will be visited, is looked at after that;          *)
Visiting(t) == t.do \notin Nodeless \cup {"expect_int"}
SeenAfter(tree, tasks, k, n) == \E j \in DOMAIN tasks : j > k /\ n \in Covers(tree, tasks[j])
AwaitedBy(tree, tasks, k, m) ==
  \A n \in Users(tree) : m \in Operands(tree[n]) => SeenAfter(tree, tasks, k, n)
Awaited(tree, tasks) ==
  \A k \in DOMAIN tasks : Visiting(tasks[k]) => AwaitedBy(tree, tasks, k, tasks[k].node)

(* all that a tolerant analyzer is about to do is in the reach of the pass *)
(* over the function that follows.                                         *)
Again(tree, tasks, k) ==
  \E j \in DOMAIN tasks :
    /\ j > k /\ tasks[j].do = "analyze_func"
    /\ \A i \in DOMAIN tasks : k < i /\ i < j => Covers(tree, tasks[i]) \subseteq Covers(tree, tasks[j])
Repeats(tree, tasks, tolerant) ==
  /\ tolerant => Again(tree, tasks, 0)
  /\ \A k \in DOMAIN tasks :
       tasks[k].do = "leave_analyzer" /\ tasks[k].outer.tolerant => Again(tree, tasks, k)

(* What a handler goes on with instead of its task reaches no further, and *)
(* what it goes on to visit is looked at again.                            *)
Inward(tree, t, s) ==
  \A k \in DOMAIN s : s[k].do # "leave_analyzer" /\ Covers(tree, s[k]) \subseteq Covers(tree, t)
Expected(tree, t, s) ==
  \A k \in DOMAIN s :
    Visiting(s[k]) /\ s[k].node # t.node => AwaitedBy(tree, s, k, s[k].node)

(* Where things are, once the first has been replaced by others.           *)
LEMMA ShiftIs ==
  ASSUME NEW T, NEW tasks \in Seq(T), tasks # <<>>, NEW U, NEW s \in Seq(U)
  PROVE  LET all == s \o Tail(tasks)
             L   == Len(s)
         IN  /\ L \in Nat /\ DOMAIN s = 1 .. L /\ DOMAIN tasks \subseteq Nat
             /\ DOMAIN all \subseteq Nat
             /\ 1 \in DOMAIN tasks /\ tasks[1] = Head(tasks)
             /\ \A k \in DOMAIN s : k \in DOMAIN all /\ all[k] = s[k]
             /\ \A j \in DOMAIN tasks :
                  j > 1 => j - 1 + L \in DOMAIN all /\ all[j - 1 + L] = tasks[j]
             /\ \A k \in DOMAIN all \ DOMAIN s :
                  /\ k - L + 1 \in DOMAIN tasks /\ k - L + 1 > 1
                  /\ all[k] = tasks[k - L + 1]
<1> DEFINE all == s \o Tail(tasks)
           L   == Len(s)
<1>1. /\ L \in Nat /\ Len(tasks) \in Nat /\ Len(tasks) >= 1
      /\ DOMAIN s = 1 .. L /\ DOMAIN tasks = 1 .. Len(tasks)
      /\ DOMAIN all = 1 .. L + Len(tasks) - 1
      /\ \A k \in DOMAIN s : all[k] = s[k]
      /\ \A k \in DOMAIN all \ DOMAIN s : all[k] = tasks[k - L + 1]
      /\ tasks[1] = Head(tasks)
  BY RestIs
<1> HIDE DEF all, L
<1>2. \A k \in DOMAIN s : k \in DOMAIN all
  BY <1>1
<1>3. ASSUME NEW j \in DOMAIN tasks, j > 1
      PROVE  j - 1 + L \in DOMAIN all /\ all[j - 1 + L] = tasks[j]
  <2>1. j - 1 + L \in DOMAIN all /\ j - 1 + L \notin DOMAIN s
    BY <1>1, <1>3
  <2>2. (j - 1 + L) - L + 1 = j
    BY <1>1, <1>3
  <2> DEFINE i == j - 1 + L
  <2>3. all[i] = tasks[i - L + 1]
    BY <1>1, <2>1
  <2> QED
    BY <2>1, <2>2, <2>3
<1>4. \A k \in DOMAIN all \ DOMAIN s : k - L + 1 \in DOMAIN tasks /\ k - L + 1 > 1
  BY <1>1
<1>5. DOMAIN tasks \subseteq Nat /\ DOMAIN all \subseteq Nat /\ 1 \in DOMAIN tasks
  BY <1>1
<1> QED
  BY <1>1, <1>2, <1>3, <1>4, <1>5 DEF all, L

LEMMA SeenShift ==
  ASSUME NEW T, NEW tasks \in Seq(T), tasks # <<>>, NEW U, NEW s \in Seq(U),
         NEW tree, NEW n
  PROVE  LET all == s \o Tail(tasks)
         IN  /\ SeenAfter(tree, tasks, 1, n)
                  => /\ \A k \in DOMAIN s : SeenAfter(tree, all, k, n)
                     /\ Seen(tree, all, n)
             /\ \A k \in DOMAIN s :
                  SeenAfter(tree, s, k, n) => SeenAfter(tree, all, k, n)
             /\ Seen(tree, s, n) => Seen(tree, all, n)
             /\ \A k \in DOMAIN all \ DOMAIN s :
                  SeenAfter(tree, tasks, k - Len(s) + 1, n) => SeenAfter(tree, all, k, n)
<1> DEFINE all == s \o Tail(tasks)
           L   == Len(s)
<1>1. /\ L \in Nat /\ DOMAIN s = 1 .. L /\ DOMAIN tasks \subseteq Nat
      /\ DOMAIN all \subseteq Nat
      /\ 1 \in DOMAIN tasks /\ tasks[1] = Head(tasks)
      /\ \A k \in DOMAIN s : k \in DOMAIN all /\ all[k] = s[k]
      /\ \A j \in DOMAIN tasks :
           j > 1 => j - 1 + L \in DOMAIN all /\ all[j - 1 + L] = tasks[j]
      /\ \A k \in DOMAIN all \ DOMAIN s :
           /\ k - L + 1 \in DOMAIN tasks /\ k - L + 1 > 1
           /\ all[k] = tasks[k - L + 1]
  BY ShiftIs
<1> HIDE DEF all, L
<1>2. ASSUME SeenAfter(tree, tasks, 1, n)
      PROVE  (\A k \in DOMAIN s : SeenAfter(tree, all, k, n)) /\ Seen(tree, all, n)
  <2>1. PICK j \in DOMAIN tasks : j > 1 /\ n \in Covers(tree, tasks[j])
    BY <1>2 DEF SeenAfter
  <2>2. /\ j - 1 + L \in DOMAIN all /\ n \in Covers(tree, all[j - 1 + L])
        /\ \A k \in DOMAIN s : j - 1 + L > k
    BY <1>1, <2>1
  <2> QED
    BY <2>2 DEF SeenAfter, Seen
<1>3. \A k \in DOMAIN s : SeenAfter(tree, s, k, n) => SeenAfter(tree, all, k, n)
  BY <1>1 DEF SeenAfter
<1>4. Seen(tree, s, n) => Seen(tree, all, n)
  BY <1>1 DEF Seen
<1>5. ASSUME NEW k \in DOMAIN all \ DOMAIN s, SeenAfter(tree, tasks, k - L + 1, n)
      PROVE  SeenAfter(tree, all, k, n)
  <2>1. PICK j \in DOMAIN tasks : j > k - L + 1 /\ n \in Covers(tree, tasks[j])
    BY <1>5 DEF SeenAfter
  <2>2. j - 1 + L > k /\ j > 1
    BY <1>1, <2>1
  <2>3. j - 1 + L \in DOMAIN all /\ n \in Covers(tree, all[j - 1 + L])
    BY <1>1, <2>1, <2>2
  <2> QED
    BY <2>2, <2>3 DEF SeenAfter
<1> QED
  BY <1>2, <1>3, <1>4, <1>5 DEF all, L

LEMMA AwaitedOn ==
  ASSUME NEW tree, NEW tasks \in Seq(Tasks(tree)), tasks # <<>>, Awaited(tree, tasks),
         NEW s \in Seq(Tasks(tree)), Visiting(Head(tasks)) \/ s = <<>>,
         Expected(tree, Head(tasks), s)
  PROVE  Awaited(tree, s \o Tail(tasks))
<1> DEFINE all == s \o Tail(tasks)
           L   == Len(s)
<1>1. /\ L \in Nat /\ DOMAIN s = 1 .. L /\ DOMAIN tasks \subseteq Nat
      /\ DOMAIN all \subseteq Nat
      /\ 1 \in DOMAIN tasks /\ tasks[1] = Head(tasks)
      /\ \A k \in DOMAIN s : k \in DOMAIN all /\ all[k] = s[k]
      /\ \A j \in DOMAIN tasks :
           j > 1 => j - 1 + L \in DOMAIN all /\ all[j - 1 + L] = tasks[j]
      /\ \A k \in DOMAIN all \ DOMAIN s :
           /\ k - L + 1 \in DOMAIN tasks /\ k - L + 1 > 1
           /\ all[k] = tasks[k - L + 1]
  BY ShiftIs
<1>2. \A n : /\ SeenAfter(tree, tasks, 1, n) => \A k \in DOMAIN s : SeenAfter(tree, all, k, n)
             /\ \A k \in DOMAIN s : SeenAfter(tree, s, k, n) => SeenAfter(tree, all, k, n)
             /\ \A k \in DOMAIN all \ DOMAIN s :
                  SeenAfter(tree, tasks, k - L + 1, n) => SeenAfter(tree, all, k, n)
  BY SeenShift
<1> HIDE DEF all, L
<1> SUFFICES ASSUME NEW k \in DOMAIN all, Visiting(all[k]), NEW n \in Users(tree),
                    all[k].node \in Operands(tree[n])
             PROVE  SeenAfter(tree, all, k, n)
  BY DEF Awaited, AwaitedBy, all
<1>3. CASE k \in DOMAIN s
  <2>1. CASE s[k].node = Head(tasks).node
    <3>1. Visiting(Head(tasks))
      <4>1. s # <<>>
        BY <1>3
      <4> QED
        BY <4>1
    <3>2. SeenAfter(tree, tasks, 1, n)
      BY <1>1, <1>3, <2>1, <3>1 DEF Awaited, AwaitedBy
    <3> QED
      BY <1>2, <1>3, <3>2
  <2>2. CASE s[k].node # Head(tasks).node
    <3>1. SeenAfter(tree, s, k, n)
      BY <1>1, <1>3, <2>2 DEF Expected, AwaitedBy
    <3> QED
      BY <1>2, <1>3, <3>1
  <2> QED
    BY <2>1, <2>2
<1>4. CASE k \notin DOMAIN s
  <2>1. SeenAfter(tree, tasks, k - L + 1, n)
    BY <1>1, <1>4 DEF Awaited, AwaitedBy
  <2> QED
    BY <1>2, <1>4, <2>1
<1> QED
  BY <1>3, <1>4

(* A second pass still comes, for what goes on in place of a task that is  *)
(* not that pass, and for what was to be done later anyway.                *)
LEMMA AgainOn ==
  ASSUME NEW tree, NEW T, NEW tasks \in Seq(T), tasks # <<>>, Again(tree, tasks, 0),
         Head(tasks).do # "analyze_func", NEW U, NEW s \in Seq(U),
         \A i \in DOMAIN s : Covers(tree, s[i]) \subseteq Covers(tree, Head(tasks)),
         NEW k \in 0 .. Len(s)
  PROVE  Again(tree, s \o Tail(tasks), k)
<1> DEFINE all == s \o Tail(tasks)
           L   == Len(s)
<1>1. /\ L \in Nat /\ DOMAIN s = 1 .. L /\ DOMAIN tasks \subseteq Nat
      /\ DOMAIN all \subseteq Nat
      /\ 1 \in DOMAIN tasks /\ tasks[1] = Head(tasks)
      /\ \A i \in DOMAIN s : i \in DOMAIN all /\ all[i] = s[i]
      /\ \A j \in DOMAIN tasks :
           j > 1 => j - 1 + L \in DOMAIN all /\ all[j - 1 + L] = tasks[j]
      /\ \A i \in DOMAIN all \ DOMAIN s :
           /\ i - L + 1 \in DOMAIN tasks /\ i - L + 1 > 1
           /\ all[i] = tasks[i - L + 1]
  BY ShiftIs
<1>2. k \in 0 .. L
  OBVIOUS
<1> HIDE DEF all, L
<1>3. PICK j \in DOMAIN tasks :
        /\ j > 0 /\ tasks[j].do = "analyze_func"
        /\ \A i \in DOMAIN tasks :
             0 < i /\ i < j => Covers(tree, tasks[i]) \subseteq Covers(tree, tasks[j])
  BY DEF Again
<1>4. j \in Nat /\ j > 1
  <2>1. j # 1
    BY <1>1, <1>3
  <2> QED
    BY <1>1, <1>3, <2>1
<1> DEFINE J == j - 1 + L
<1>5. J \in DOMAIN all /\ all[J] = tasks[j] /\ J > k
  BY <1>1, <1>2, <1>4
<1>6. ASSUME NEW i \in DOMAIN all, k < i, i < J
      PROVE  Covers(tree, all[i]) \subseteq Covers(tree, tasks[j])
  <2>1. CASE i \in DOMAIN s
    <3>1. Covers(tree, s[i]) \subseteq Covers(tree, tasks[1])
      BY <1>1, <2>1
    <3>2. Covers(tree, tasks[1]) \subseteq Covers(tree, tasks[j])
      <4>1. 1 \in DOMAIN tasks /\ 0 < 1 /\ 1 < j
        BY <1>1, <1>4
      <4> QED
        BY <1>3, <4>1
    <3> QED
      BY <1>1, <2>1, <3>1, <3>2
  <2>2. CASE i \notin DOMAIN s
    <3>1. /\ i - L + 1 \in DOMAIN tasks /\ i - L + 1 > 1
          /\ all[i] = tasks[i - L + 1]
      BY <1>1, <2>2
    <3>2. 0 < i - L + 1 /\ i - L + 1 < j
      <4>1. i \in Nat /\ L \in Nat /\ j \in Nat /\ i < j - 1 + L
        BY <1>1, <1>4, <1>6
      <4> QED
        BY <3>1, <4>1
    <3> QED
      BY <1>3, <3>1, <3>2
  <2> QED
    BY <2>1, <2>2
<1> HIDE DEF J
<1> QED
  BY <1>3, <1>5, <1>6 DEF Again, all

LEMMA AgainLater ==
  ASSUME NEW tree, NEW T, NEW tasks \in Seq(T), tasks # <<>>, NEW U, NEW s \in Seq(U),
         NEW k \in DOMAIN (s \o Tail(tasks)) \ DOMAIN s,
         Again(tree, tasks, k - Len(s) + 1)
  PROVE  Again(tree, s \o Tail(tasks), k)
<1> DEFINE all == s \o Tail(tasks)
           L   == Len(s)
<1>1. /\ L \in Nat /\ DOMAIN s = 1 .. L /\ DOMAIN tasks \subseteq Nat
      /\ DOMAIN all \subseteq Nat
      /\ 1 \in DOMAIN tasks /\ tasks[1] = Head(tasks)
      /\ \A i \in DOMAIN s : i \in DOMAIN all /\ all[i] = s[i]
      /\ \A j \in DOMAIN tasks :
           j > 1 => j - 1 + L \in DOMAIN all /\ all[j - 1 + L] = tasks[j]
      /\ \A i \in DOMAIN all \ DOMAIN s :
           /\ i - L + 1 \in DOMAIN tasks /\ i - L + 1 > 1
           /\ all[i] = tasks[i - L + 1]
  BY ShiftIs
<1>2. k \in DOMAIN all \ DOMAIN s /\ Again(tree, tasks, k - L + 1)
  OBVIOUS
<1> HIDE DEF all, L
<1>3. PICK j \in DOMAIN tasks :
        /\ j > k - L + 1 /\ tasks[j].do = "analyze_func"
        /\ \A i \in DOMAIN tasks :
             k - L + 1 < i /\ i < j => Covers(tree, tasks[i]) \subseteq Covers(tree, tasks[j])
  BY <1>2 DEF Again
<1>4. k \in Nat /\ k > L /\ j \in Nat /\ j > 1
  <2>1. k \in Nat /\ L \in Nat /\ j \in Nat /\ k - L + 1 > 1 /\ j > k - L + 1
    BY <1>1, <1>2, <1>3
  <2> QED
    BY <2>1
<1> DEFINE J == j - 1 + L
<1>5. J \in DOMAIN all /\ all[J] = tasks[j] /\ J > k
  BY <1>1, <1>3, <1>4
<1>6. ASSUME NEW i \in DOMAIN all, k < i, i < J
      PROVE  Covers(tree, all[i]) \subseteq Covers(tree, tasks[j])
  <2>1. i \notin DOMAIN s
    BY <1>1, <1>4, <1>6
  <2>2. /\ i - L + 1 \in DOMAIN tasks /\ i - L + 1 > 1
        /\ all[i] = tasks[i - L + 1]
    BY <1>1, <2>1
  <2>3. k - L + 1 < i - L + 1 /\ i - L + 1 < j
    <3>1. i \in Nat /\ L \in Nat /\ j \in Nat /\ k \in Nat /\ i < j - 1 + L /\ k < i
      BY <1>1, <1>4, <1>6
    <3> QED
      BY <3>1
  <2> QED
    BY <1>3, <2>2, <2>3
<1> HIDE DEF J
<1> QED
  BY <1>3, <1>5, <1>6 DEF Again, all

LEMMA RepeatsLater ==
  ASSUME NEW tree, NEW T, NEW tasks \in Seq(T), tasks # <<>>, NEW U, NEW s \in Seq(U),
         NEW before, Repeats(tree, tasks, before),
         NEW tolerant, tolerant => Again(tree, s \o Tail(tasks), 0),
         \A k \in DOMAIN s : s[k].do = "leave_analyzer" /\ s[k].outer.tolerant
                               => Again(tree, s \o Tail(tasks), k)
  PROVE  Repeats(tree, s \o Tail(tasks), tolerant)
<1> DEFINE all == s \o Tail(tasks)
           L   == Len(s)
<1>1. /\ \A k \in DOMAIN s : k \in DOMAIN all /\ all[k] = s[k]
      /\ \A k \in DOMAIN all \ DOMAIN s :
           k - L + 1 \in DOMAIN tasks /\ all[k] = tasks[k - L + 1]
  <2>1. /\ L \in Nat /\ DOMAIN s = 1 .. L /\ DOMAIN tasks \subseteq Nat
        /\ DOMAIN all \subseteq Nat
        /\ 1 \in DOMAIN tasks /\ tasks[1] = Head(tasks)
        /\ \A i \in DOMAIN s : i \in DOMAIN all /\ all[i] = s[i]
        /\ \A j \in DOMAIN tasks :
             j > 1 => j - 1 + L \in DOMAIN all /\ all[j - 1 + L] = tasks[j]
        /\ \A i \in DOMAIN all \ DOMAIN s :
             /\ i - L + 1 \in DOMAIN tasks /\ i - L + 1 > 1
             /\ all[i] = tasks[i - L + 1]
    BY ShiftIs
  <2> HIDE DEF all, L
  <2> QED
    BY <2>1
<1>2. ASSUME NEW k \in DOMAIN all, all[k].do = "leave_analyzer", all[k].outer.tolerant
      PROVE  Again(tree, all, k)
  <2> HIDE DEF L
  <2>1. CASE k \in DOMAIN s
    <3>1. all[k] = s[k]
      BY <1>1, <2>1
    <3>2. s[k].do = "leave_analyzer" /\ s[k].outer.tolerant
      BY <1>2, <3>1
    <3> QED
      BY <2>1, <3>2
  <2>2. CASE k \notin DOMAIN s
    <3>1. k - L + 1 \in DOMAIN tasks /\ all[k] = tasks[k - L + 1]
      <4> HIDE DEF all
      <4> QED
        BY <1>1, <2>2
    <3>2. Again(tree, tasks, k - L + 1)
      <4> HIDE DEF all
      <4> QED
        BY <1>2, <3>1 DEF Repeats
    <3> QED
      BY <2>2, <3>2, AgainLater DEF L
  <2> QED
    BY <2>1, <2>2
<1> HIDE DEF all
<1>3. tolerant => Again(tree, all, 0)
  BY DEF all
<1> QED
  BY <1>2, <1>3 DEF Repeats, all

LEMMA RepeatsOn ==
  ASSUME NEW tree, NEW T, NEW tasks \in Seq(T), tasks # <<>>, NEW U, NEW s \in Seq(U),
         NEW tolerant, Repeats(tree, tasks, tolerant),
         Head(tasks).do # "analyze_func", Inward(tree, Head(tasks), s)
  PROVE  Repeats(tree, s \o Tail(tasks), tolerant)
<1>1. /\ \A i \in DOMAIN s : Covers(tree, s[i]) \subseteq Covers(tree, Head(tasks))
      /\ \A i \in DOMAIN s : s[i].do # "leave_analyzer"
  BY DEF Inward
<1>2. 0 \in 0 .. Len(s)
  BY LenProperties
<1>3. ASSUME tolerant PROVE Again(tree, s \o Tail(tasks), 0)
  <2>1. Again(tree, tasks, 0)
    BY <1>3 DEF Repeats
  <2> QED
    BY <1>1, <1>2, <2>1, AgainOn
<1> QED
  BY <1>1, <1>3, RepeatsLater

-----------------------------------------------------------------------------
(* What there is to do is the same in a tree whose uses are kept.          *)
LEMMA ReachStays ==
  ASSUME NEW tree, IsTree(tree), NEW new, Kept(tree, new), Grows(tree, new),
         NEW tasks \in Seq(Tasks(tree))
  PROVE  /\ \A n : Seen(new, tasks, n) <=> Seen(tree, tasks, n)
         /\ Awaited(tree, tasks) => Awaited(new, tasks)
         /\ \A tolerant : Repeats(tree, tasks, tolerant) => Repeats(new, tasks, tolerant)
<1>1. \A k \in DOMAIN tasks : tasks[k] \in Tasks(tree)
  BY LenProperties, ElementOfSeq
<1>2. \A k \in DOMAIN tasks : Covers(new, tasks[k]) = Covers(tree, tasks[k])
  BY <1>1, CoversStay
<1>3. /\ Users(new) = Users(tree)
      /\ \A n \in Users(tree) : Operands(new[n]) = Operands(tree[n])
  BY DEF Kept, Users
<1>4. \A n : Seen(new, tasks, n) <=> Seen(tree, tasks, n)
  BY <1>2 DEF Seen
<1>5. \A k, n : SeenAfter(new, tasks, k, n) <=> SeenAfter(tree, tasks, k, n)
  BY <1>2 DEF SeenAfter
<1>6. Awaited(tree, tasks) => Awaited(new, tasks)
  BY <1>3, <1>5 DEF Awaited, AwaitedBy
<1>7. \A k : Again(tree, tasks, k) <=> Again(new, tasks, k)
  BY <1>2 DEF Again
<1> QED
  BY <1>4, <1>6, <1>7 DEF Repeats

(* A node that has been given a type, and nobody else.                     *)
Retyped(tree, new, w) ==
  \A m \in DOMAIN tree : m # w /\ "type" \in DOMAIN tree[m] => new[m].type = tree[m].type

(* Every use is still fine, or will be looked at, after a handler that     *)
(* has seen to those in the reach of its task.                             *)
LEMMA SeenOn ==
  ASSUME NEW tree, IsTree(tree), Placed(tree),
         NEW tasks \in Seq(Tasks(tree)), tasks # <<>>,
         AllSeen(tree, tasks), Awaited(tree, tasks),
         NEW tolerant, tolerant => Again(tree, tasks, 0) /\ Head(tasks).do # "analyze_func",
         NEW new, Kept(tree, new), NEW w, Retyped(tree, new, w),
         \/ Visiting(Head(tasks)) /\ w = Head(tasks).node
         \/ \A n \in Users(tree) : w \notin Operands(tree[n]),
         NEW s \in Seq(Tasks(tree)),
         ~tolerant => \A n \in Covers(tree, Head(tasks)) : Checked(new, n) \/ Seen(tree, s, n)
  PROVE  \A n \in Users(tree) : Checked(new, n) \/ Seen(tree, s \o Tail(tasks), n)
<1> SUFFICES ASSUME NEW n \in Users(tree), ~Seen(tree, s \o Tail(tasks), n)
             PROVE  Checked(new, n)
  OBVIOUS
<1>1. /\ SeenAfter(tree, tasks, 1, n) => Seen(tree, s \o Tail(tasks), n)
      /\ Seen(tree, s, n) => Seen(tree, s \o Tail(tasks), n)
  BY SeenShift
<1>2. ~SeenAfter(tree, tasks, 1, n) /\ ~Seen(tree, s, n)
  BY <1>1
<1>3. /\ 1 \in DOMAIN tasks /\ tasks[1] = Head(tasks) /\ DOMAIN tasks \subseteq Nat
      /\ \A k \in DOMAIN tasks : k = 1 \/ k > 1
  <2>1. DOMAIN tasks = 1 .. Len(tasks) /\ Len(tasks) \in Nat /\ Len(tasks) # 0
        /\ tasks[1] = Head(tasks)
    BY LenProperties, EmptySeq, HeadTailProperties
  <2> QED
    BY <2>1
<1>4. CASE n \in Covers(tree, Head(tasks))
  <2>1. CASE ~tolerant
    BY <1>2, <1>4, <2>1
  <2>2. CASE tolerant
    <3>1. PICK j \in DOMAIN tasks :
            /\ j > 0 /\ tasks[j].do = "analyze_func"
            /\ \A i \in DOMAIN tasks :
                 0 < i /\ i < j => Covers(tree, tasks[i]) \subseteq Covers(tree, tasks[j])
      BY <2>2 DEF Again
    <3>2. j > 1
      BY <1>3, <2>2, <3>1
    <3>3. Covers(tree, tasks[1]) \subseteq Covers(tree, tasks[j])
      BY <1>3, <3>1, <3>2
    <3> QED
      BY <1>2, <1>3, <1>4, <3>2, <3>3 DEF SeenAfter
  <2> QED
    BY <2>1, <2>2
<1>5. CASE n \notin Covers(tree, Head(tasks))
  <2>1. \A k \in DOMAIN tasks : n \notin Covers(tree, tasks[k])
    BY <1>2, <1>3, <1>5 DEF SeenAfter
  <2>2. Checked(tree, n)
    BY <2>1 DEF AllSeen, Seen
  <2>3. w \notin Operands(tree[n])
    <3>1. CASE Visiting(Head(tasks)) /\ w = Head(tasks).node
      BY <1>2, <1>3, <3>1 DEF Awaited, AwaitedBy
    <3>2. CASE \A m \in Users(tree) : w \notin Operands(tree[m])
      BY <3>2
    <3> QED
      BY <3>1, <3>2
  <2>4. n \in DOMAIN tree /\ IsNode(tree[n], DOMAIN tree)
    BY DEF Users, IsTree
  <2>5. Operands(new[n]) = Operands(tree[n]) /\ Operands(tree[n]) \subseteq DOMAIN tree
    BY <2>4, OperandsAreParts, PartsInTree DEF Kept
  <2>6. ASSUME NEW e \in Operands(tree[n]) PROVE new[e].type = tree[e].type
    BY <2>3, <2>4, <2>5 DEF Placed, Retyped
  <2> QED
    BY <2>2, <2>5, <2>6 DEF Checked
<1> QED
  BY <1>4, <1>5

-----------------------------------------------------------------------------
(* The invariant.  Until the analysis begins nothing has been looked at,   *)
(* and all there is can be reached from the root; once something has been  *)
(* reported the file is not accepted and nothing is claimed.               *)
OperandInv ==
  /\ outcome \in {"exploring", "working", "done"} => Placed(ast)
  /\ outcome = "exploring" =>
       /\ ~analyzer.tolerant
       /\ \A n \in DOMAIN ast : root # Null /\ n \in Within(ast, root)
  /\ outcome = "working" /\ errors = <<>> =>
       /\ AllSeen(ast, todo)
       /\ Awaited(ast, todo)
       /\ Repeats(ast, todo, analyzer.tolerant)
  /\ outcome = "done" => OperandsAreInts

AllInv == IInv /\ TypeInv /\ StaysTree /\ OperandInv

(* Once the analysis has broken off, or reported something, little is      *)
(* claimed.                                                                *)
LEMMA BrokenSeen ==
  ASSUME outcome' \in A!Breaks
  PROVE  OperandInv'
BY DEF OperandInv, A!Breaks

LEMMA RefusedSeen ==
  ASSUME OperandInv, outcome = "working", outcome' = outcome, Kept(ast, ast'), errors' # <<>>
  PROVE  OperandInv'
<1>1. Placed(ast)'
  BY DEF OperandInv, Kept
<1>2. outcome' = "working"
  OBVIOUS
<1> QED
  BY <1>1, <1>2 DEF OperandInv

(* A handler that leaves the invariant to what it goes on with.  A         *)
(* tolerant one relies on the pass that follows.                           *)
LEMMA WorkGoesOn ==
  ASSUME AllInv, NEW what, A!Doing(what), outcome' = outcome,
         Kept(ast, ast'), Grows(ast, ast'), errors' = <<>>, errors = <<>>,
         NEW w, Retyped(ast, ast', w),
         \/ Visiting(A!Task) /\ w = A!Task.node
         \/ \A n \in Users(ast) : w \notin Operands(ast[n]),
         NEW s \in Seq(Tasks(ast)), Visiting(A!Task) \/ s = <<>>,
         Expected(ast, A!Task, s), A!GoOn(s),
         NEW tolerant, tolerant => analyzer.tolerant /\ what # "analyze_func",
         ~tolerant => \A n \in Covers(ast, A!Task) : Checked(ast', n) \/ Seen(ast, s, n),
         Repeats(ast, s \o Tail(todo), analyzer'.tolerant)
  PROVE  OperandInv'
<1> DEFINE next == s \o Tail(todo)
<1>1. /\ outcome = "working" /\ todo # <<>> /\ IsTree(ast)
      /\ A!Task.do = what /\ A!Task = Head(todo)
  <2>1. /\ outcome = "working" /\ todo # <<>> /\ IsTree(ast) /\ analyzer \in Analyzers(ast)
        /\ A!Task \in Tasks(ast) /\ A!Task.do = what /\ root \in DOMAIN ast \cup {Null}
    BY Working DEF AllInv
  <2> QED
    BY <2>1 DEF A!Task
<1>2. todo \in Seq(Tasks(ast))
  BY <1>1 DEF AllInv, IInv
<1>3. /\ Placed(ast) /\ AllSeen(ast, todo) /\ Awaited(ast, todo)
      /\ Repeats(ast, todo, analyzer.tolerant)
  BY <1>1 DEF AllInv, OperandInv
<1>4. tolerant => Again(ast, todo, 0) /\ Head(todo).do # "analyze_func"
  BY <1>1, <1>3 DEF Repeats
<1>5. \A n \in Users(ast) : Checked(ast', n) \/ Seen(ast, next, n)
  <2>1. \/ Visiting(Head(todo)) /\ w = Head(todo).node
        \/ \A n \in Users(ast) : w \notin Operands(ast[n])
    BY <1>1
  <2>2. ~tolerant => \A n \in Covers(ast, Head(todo)) : Checked(ast', n) \/ Seen(ast, s, n)
    BY <1>1
  <2> QED
    BY <1>1, <1>2, <1>3, <1>4, <2>1, <2>2, SeenOn
<1>6. Awaited(ast, next)
  <2>1. Visiting(Head(todo)) \/ s = <<>>
    BY <1>1
  <2>2. Expected(ast, Head(todo), s)
    BY <1>1
  <2> QED
    BY <1>1, <1>2, <1>3, <2>1, <2>2, AwaitedOn
<1>7. next \in Seq(Tasks(ast))
  BY <1>1, <1>2, InFront
<1>8. todo' = next
  BY DEF A!GoOn
<1>9. Repeats(ast, next, analyzer'.tolerant)
  OBVIOUS
<1> HIDE DEF next
<1>10. /\ \A n : Seen(ast', next, n) <=> Seen(ast, next, n)
       /\ Awaited(ast, next) => Awaited(ast', next)
       /\ \A t : Repeats(ast, next, t) => Repeats(ast', next, t)
  BY <1>1, <1>7, ReachStays
<1>11. Users(ast') = Users(ast) /\ Placed(ast')
  BY <1>3 DEF Kept
<1>12. AllSeen(ast', next)
  BY <1>5, <1>10, <1>11 DEF AllSeen
<1>13. Awaited(ast', next) /\ Repeats(ast', next, analyzer'.tolerant)
  BY <1>6, <1>9, <1>10
<1>14. outcome' = "working"
  BY <1>1
<1>15. /\ Placed(ast)' /\ AllSeen(ast, todo)' /\ Awaited(ast, todo)'
       /\ Repeats(ast, todo, analyzer.tolerant)'
  BY <1>8, <1>11, <1>12, <1>13
<1> QED
  BY <1>14, <1>15 DEF OperandInv

(* Most handlers go on with what they cover, by the same analyzer, and     *)
(* keep the queue or add to it.                                            *)
LEMMA HandlerSees ==
  ASSUME AllInv, NEW what, what \notin Nodeless \cup {"analyze_func"}, A!Doing(what),
         outcome' = outcome, analyzer'.tolerant = analyzer.tolerant,
         Kept(ast, ast'), Grows(ast, ast'), errors' = <<>> => errors = <<>>,
         NEW w, Retyped(ast, ast', w),
         \/ Visiting(A!Task) /\ w = A!Task.node
         \/ \A n \in Users(ast) : w \notin Operands(ast[n]),
         NEW s \in Seq(Tasks(ast)), Visiting(A!Task) \/ s = <<>>,
         Inward(ast, A!Task, s), Expected(ast, A!Task, s), A!GoOn(s),
         errors' = <<>> /\ ~analyzer.tolerant
           => \A n \in Covers(ast, A!Task) : Checked(ast', n) \/ Seen(ast, s, n)
  PROVE  OperandInv'
<1>1. /\ outcome = "working" /\ todo # <<>> /\ A!Task.do = what /\ A!Task = Head(todo)
  BY DEF A!Doing, A!Task
<1>2. OperandInv
  BY DEF AllInv
<1>3. CASE errors' # <<>>
  BY <1>1, <1>2, <1>3, RefusedSeen
<1>4. CASE errors' = <<>>
  <2>1. errors = <<>>
    BY <1>4
  <2>2. todo \in Seq(Tasks(ast))
    BY <1>1 DEF AllInv, IInv
  <2>3. Repeats(ast, todo, analyzer.tolerant)
    BY <1>1, <1>2, <2>1 DEF OperandInv
  <2>4. Head(todo).do # "analyze_func" /\ Inward(ast, Head(todo), s)
    BY <1>1
  <2>5. Repeats(ast, s \o Tail(todo), analyzer.tolerant)
    BY <1>1, <2>2, <2>3, <2>4, RepeatsOn
  <2>6. Repeats(ast, s \o Tail(todo), analyzer'.tolerant)
    BY <2>5
  <2>7. analyzer.tolerant => analyzer.tolerant /\ what # "analyze_func"
    BY <1>1, <2>4
  <2>8. ~analyzer.tolerant
          => \A n \in Covers(ast, A!Task) : Checked(ast', n) \/ Seen(ast, s, n)
    BY <1>4
  <2> QED
    BY <1>4, <2>1, <2>6, <2>7, <2>8, WorkGoesOn
<1> QED
  BY <1>3, <1>4

-----------------------------------------------------------------------------
(* What is reported stays reported, and what is expected and not reported  *)
(* is met.                                                                 *)
LEMMA ReportIsKept ==
  ASSUME errors \in Reports(ast), NEW message, NEW n, A!Report(message, n)
  PROVE  errors' # <<>>
<1>1. errors' = Append(errors, <<message, n>>)
  BY DEF A!Report
<1>2. Len(errors') = Len(errors) + 1 /\ Len(errors) \in Nat
  BY <1>1, LenProperties, AppendProperties DEF Reports
<1> QED
  BY <1>2

LEMMA ExpectedIsMet ==
  ASSUME errors \in Reports(ast), NEW n, NEW type, A!ExpectTypeEq(n, type)
  PROVE  /\ errors' = <<>> => errors = <<>> /\ ~A!Reports(ast[n].type, type)
         /\ errors' = <<>> /\ ~analyzer.tolerant => A!Meets(ast[n].type, type)
<1>1. A!Reports(ast[n].type, type) => errors' # <<>>
  BY ReportIsKept DEF A!ExpectTypeEq
<1>2. ~A!Reports(ast[n].type, type) => errors' = errors
  BY DEF A!ExpectTypeEq
<1>3. ~analyzer.tolerant /\ ~A!Meets(ast[n].type, type) => A!Reports(ast[n].type, type)
  BY DEF A!Meets, A!Reports, A!Tolerant
<1> QED
  BY <1>1, <1>2, <1>3

LEMMA IntIsFine ==
  ASSUME NEW type, A!Meets(type, A!IntType)
  PROVE  Fine(type)
BY DEF A!Meets, Fine, A!SameType, A!IntType, IntType

LEMMA CallIsKept ==
  ASSUME errors \in Reports(ast), NEW n, NEW type, A!CheckCall(n, type)
  PROVE  errors' = <<>> => errors = <<>>
<1> DEFINE args   == ast[n].args
           params == A!ArgTypes(type)
           bad    == A!Unmatched(args, params)
           first  == A!Min(bad)
           one    == <<"type_mismatch", args[first]>>
           other  == <<"call_mismatch", n>>
           wrong  == IF bad # {} /\ A!Reports(ast[args[first]].type, params[first])
                       THEN <<one>> ELSE <<>>
           call   == IF A!Tolerant \/ A!ArgumentsMatch(args, params) THEN <<>>
                       ELSE <<other>>
           T      == {one, other} \cup (Messages \X DOMAIN ast)
<1>1. errors' = errors \o (wrong \o call)
  BY DEF A!CheckCall, A!CallErrors
<1>2. one \in T /\ other \in T /\ Messages \X DOMAIN ast \subseteq T
  OBVIOUS
<1> HIDE DEF one, other, T, bad, first, args, params
<1>3. wrong \in Seq(T) /\ call \in Seq(T)
  BY <1>2, EmptySeq
<1>4. errors \in Seq(T)
  BY <1>2 DEF Reports
<1> HIDE DEF wrong, call
<1>5. Len(errors \o (wrong \o call)) = Len(errors) + (Len(wrong) + Len(call))
  BY <1>3, <1>4, ConcatProperties
<1>6. Len(errors) \in Nat /\ Len(wrong) \in Nat /\ Len(call) \in Nat
  BY <1>3, <1>4, LenProperties
<1>7. errors' = <<>> => Len(errors) = 0
  BY <1>1, <1>5, <1>6
<1> QED
  BY <1>4, <1>7, EmptySeq

-----------------------------------------------------------------------------
(* What is written: the type of one node, or no type.                      *)
LEMMA WriteRetypes ==
  ASSUME NEW tree, NEW m, NEW f, NEW v, NEW w, f = "type" => m = w
  PROVE  Retyped(tree, [tree EXCEPT ![m] = [@ EXCEPT ![f] = v]], w)
BY DEF Retyped

LEMMA RetypedStays == ASSUME NEW tree, NEW w PROVE Retyped(tree, tree, w)
BY DEF Retyped

(* A node is used by one other at most, of which it is a part.             *)
LEMMA UsedByOwner ==
  ASSUME NEW tree, IsTree(tree), Single(tree), NEW n \in DOMAIN tree,
         NEW p \in Range(Parts(tree[n])), NEW m \in DOMAIN tree, p \in Operands(tree[m])
  PROVE  m = n
<1>1. p \in Range(Parts(tree[m]))
  BY OperandsAreParts DEF IsTree
<1>2. PICK j \in DOMAIN Parts(tree[n]) : p = Parts(tree[n])[j]
  BY DEF Range
<1>3. PICK k \in DOMAIN Parts(tree[m]) : p = Parts(tree[m])[k]
  BY <1>1 DEF Range
<1> QED
  BY <1>2, <1>3, OwnedBy

LEMMA NullIsNoUse ==
  ASSUME NEW tree, IsTree(tree), NEW n \in Users(tree)
  PROVE  Null \notin Operands(tree[n])
<1>1. n \in DOMAIN tree /\ IsNode(tree[n], DOMAIN tree)
  BY DEF Users, IsTree
<1>2. Operands(tree[n]) \subseteq DOMAIN tree
  BY <1>1, OperandsAreParts, PartsInTree
<1>3. \E len \in Nat : DOMAIN tree = 1 .. len
  BY PlacesAre DEF IsTree
<1> QED
  BY <1>2, <1>3 DEF Null

(* A node without parts has nothing under it but itself.                   *)
LEMMA LeafHasNone ==
  ASSUME NEW tree, IsTree(tree), NEW n \in DOMAIN tree, Operands(tree[n]) = {},
         Parts(tree[n]) = <<>>
  PROVE  Under(tree, n) = {}
<1> SUFFICES ASSUME NEW x \in Under(tree, n) PROVE FALSE
  OBVIOUS
<1>1. x # n /\ x \in Within(tree, n)
  BY DEF Under, Users
<1>2. Range(Parts(tree[n])) = {}
  BY DEF Range
<1> QED
  BY <1>1, <1>2, InsideIs

-----------------------------------------------------------------------------
(* What a visit of a node may go on with: it, and its parts.  A use is     *)
(* checked by the task of the node, or by one for the only operand.        *)
Follows(tree, n) ==
  {t \in Given(tree, n) :
     /\ t.do # "leave_analyzer"
     /\ t.do = "expect_int" => t.node \in Range(Parts(tree[n]))}

LEMMA FollowsMade ==
  ASSUME NEW tree, IsTree(tree), NEW n \in DOMAIN tree
  PROVE  /\ \A m \in Near(tree, n) : A!Apply(m) \in Follows(tree, n)
         /\ \A m \in Range(Parts(tree[n])) : A!ExpectInt(m) \in Follows(tree, n)
         /\ tree[n].node = "unary" => A!TypeUnary(n) \in Follows(tree, n)
         /\ tree[n].node = "binary" => A!TypeBinary(n) \in Follows(tree, n)
         /\ A!TypePointer(n) \in Follows(tree, n)
         /\ tree[n].node = "assignment" => A!CheckRight(n) \in Follows(tree, n)
         /\ tree[n].node = "call" => A!ResolveCall(n) \in Follows(tree, n)
         /\ tree[n].node \in Blocks => A!LastOf(n) \in Follows(tree, n)
         /\ tree[n].node = "value_block"
              => \A outer \in DOMAIN tree \cup {Null} :
                   A!DeduceType(n, outer) \in Follows(tree, n)
<1>1. /\ \A m \in Near(tree, n) : /\ A!Apply(m) \in Given(tree, n)
                                  /\ A!ExpectInt(m) \in Given(tree, n)
      /\ tree[n].node = "unary" => A!TypeUnary(n) \in Given(tree, n)
      /\ tree[n].node = "binary" => A!TypeBinary(n) \in Given(tree, n)
      /\ A!TypePointer(n) \in Given(tree, n)
      /\ tree[n].node = "assignment" => A!CheckRight(n) \in Given(tree, n)
      /\ tree[n].node = "call" => A!ResolveCall(n) \in Given(tree, n)
      /\ tree[n].node \in Blocks => A!LastOf(n) \in Given(tree, n)
      /\ tree[n].node = "value_block"
           => \A outer \in DOMAIN tree \cup {Null} :
                A!DeduceType(n, outer) \in Given(tree, n)
  BY GivenMade
<1>2. \A m \in Near(tree, n) : A!Apply(m) \in Follows(tree, n)
  BY <1>1 DEF Follows, A!Apply
<1>3. \A m \in Range(Parts(tree[n])) : A!ExpectInt(m) \in Follows(tree, n)
  BY <1>1 DEF Follows, A!ExpectInt, Near
<1>4. tree[n].node = "unary" => A!TypeUnary(n) \in Follows(tree, n)
  BY <1>1 DEF Follows, A!TypeUnary
<1>5. tree[n].node = "binary" => A!TypeBinary(n) \in Follows(tree, n)
  BY <1>1 DEF Follows, A!TypeBinary
<1>6. A!TypePointer(n) \in Follows(tree, n)
  BY <1>1 DEF Follows, A!TypePointer
<1>7. tree[n].node = "assignment" => A!CheckRight(n) \in Follows(tree, n)
  BY <1>1 DEF Follows, A!CheckRight
<1>8. tree[n].node = "call" => A!ResolveCall(n) \in Follows(tree, n)
  BY <1>1 DEF Follows, A!ResolveCall
<1>9. tree[n].node \in Blocks => A!LastOf(n) \in Follows(tree, n)
  BY <1>1 DEF Follows, A!LastOf
<1>10. tree[n].node = "value_block"
         => \A outer \in DOMAIN tree \cup {Null} : A!DeduceType(n, outer) \in Follows(tree, n)
  BY <1>1 DEF Follows, A!DeduceType
<1> QED
  BY <1>2, <1>3, <1>4, <1>5, <1>6, <1>7, <1>8, <1>9, <1>10

LEMMA TasksCover ==
  ASSUME NEW tree
  PROVE  /\ \A p, x : /\ A!Apply(p).node = p /\ ~Visiting(A!ExpectInt(p))
                      /\ x \in Under(tree, p) => x \in Covers(tree, A!Apply(p))
         /\ \A n \in Users(tree) :
              /\ \A e : Operands(tree[n]) = {e} => n \in Covers(tree, A!ExpectInt(e))
              /\ n \in Covers(tree, A!TypeUnary(n)) /\ n \in Covers(tree, A!TypeBinary(n))
         /\ \A n : /\ A!TypeUnary(n).node = n /\ A!TypeBinary(n).node = n
                   /\ A!CheckRight(n).node = n /\ A!ResolveCall(n).node = n
                   /\ A!LastOf(n).node = n /\ A!TypePointer(n).node = n
                   /\ \A outer : A!DeduceType(n, outer).node = n
<1>1. \A p, x : /\ A!Apply(p).node = p /\ ~Visiting(A!ExpectInt(p))
                /\ x \in Under(tree, p) => x \in Covers(tree, A!Apply(p))
  BY DEF A!Apply, A!ExpectInt, Visiting, Covers, Reaching, Under
<1>2. \A n \in Users(tree) : \A e : Operands(tree[n]) = {e} => n \in Covers(tree, A!ExpectInt(e))
  BY DEF A!ExpectInt, Covers
<1>3. \A n \in Users(tree) : n \in Covers(tree, A!TypeUnary(n)) /\ n \in Covers(tree, A!TypeBinary(n))
  BY DEF A!TypeUnary, A!TypeBinary, Covers
<1>4. \A n : /\ A!TypeUnary(n).node = n /\ A!TypeBinary(n).node = n
             /\ A!CheckRight(n).node = n /\ A!ResolveCall(n).node = n
             /\ A!LastOf(n).node = n /\ A!TypePointer(n).node = n
             /\ \A outer : A!DeduceType(n, outer).node = n
  BY DEF A!TypeUnary, A!TypeBinary, A!CheckRight, A!ResolveCall, A!LastOf,
         A!TypePointer, A!DeduceType
<1> QED
  BY <1>1, <1>2, <1>3, <1>4

LEMMA FollowsInward ==
  ASSUME NEW tree, IsTree(tree), Single(tree), NEW t \in Tasks(tree), t.do = "apply",
         NEW s \in Seq(Follows(tree, t.node))
  PROVE  Inward(tree, t, s)
<1> DEFINE n == t.node
<1>1. n \in DOMAIN tree
  BY TaskOf DEF AnyNode
<1>2. Covers(tree, t) = Under(tree, n)
  BY DEF Covers, Reaching, Left, Under
<1> SUFFICES ASSUME NEW k \in DOMAIN s
             PROVE  s[k].do # "leave_analyzer" /\ Covers(tree, s[k]) \subseteq Under(tree, n)
  BY <1>2 DEF Inward
<1>3. s[k] \in Follows(tree, n)
  BY LenProperties, ElementOfSeq
<1> DEFINE u == s[k]
<1> HIDE DEF u, n
<1>4. /\ u \in Tasks(tree) /\ u.do # "leave_analyzer"
      /\ u.do \in Nodeless \/ u.node \in Near(tree, n)
      /\ u.do = "expect_int" => u.node \in Range(Parts(tree[n]))
  BY <1>3 DEF Follows, Given, Spawned, u
<1>5. CASE u.do \in Nodeless
  BY <1>4, <1>5, NodelessCovers DEF u
<1>6. CASE u.do = "expect_int"
  <2> SUFFICES ASSUME NEW x \in Covers(tree, u) PROVE x \in Under(tree, n)
    BY <1>4 DEF u
  <2>1. x \in Users(tree) /\ u.node \in Operands(tree[x])
    BY <1>6 DEF Covers, Reaching, Left
  <2>2. x = n
    BY <1>1, <1>4, <1>6, <2>1, UsedByOwner DEF Users
  <2> QED
    BY <1>1, <2>1, <2>2, InItself DEF Under
<1>7. CASE u.do \notin Nodeless \cup {"expect_int"}
  <2>1. Covers(tree, u) \subseteq Under(tree, u.node)
    BY <1>4, <1>7, CoversUnder
  <2>2. u.node = n \/ u.node \in Range(Parts(tree[n]))
    BY <1>4, <1>7 DEF Near
  <2>3. Within(tree, u.node) \subseteq Within(tree, n)
    BY <2>2, InPart
  <2> QED
    BY <1>4, <2>1, <2>3 DEF Under, u
<1> QED
  BY <1>5, <1>6, <1>7

(* The visit of a node is split: what it goes on with looks at the use     *)
(* that the node makes of parts after these have been visited, and at the  *)
(* uses under each part.                                                   *)
Splits(tree, n, s) ==
  /\ \A k \in DOMAIN s :
       Visiting(s[k]) /\ s[k].node # n /\ s[k].node \in Operands(tree[n])
         => SeenAfter(tree, s, k, n)
  /\ n \in Users(tree) => Seen(tree, s, n)
  /\ \A p \in Range(Parts(tree[n])) : \A x \in Under(tree, p) : Seen(tree, s, x)

LEMMA SplitSees ==
  ASSUME NEW tree, IsTree(tree), NEW n \in DOMAIN tree, NEW s, Splits(tree, n, s)
  PROVE  \A x \in Under(tree, n) : Seen(tree, s, x)
<1> SUFFICES ASSUME NEW x \in Under(tree, n), x # n PROVE Seen(tree, s, x)
  BY DEF Splits, Under
<1>1. PICK p \in Range(Parts(tree[n])) : x \in Within(tree, p)
  BY InsideIs DEF Under
<1> QED
  BY <1>1 DEF Splits, Under

LEMMA SplitExpected ==
  ASSUME NEW tree, IsTree(tree), Single(tree), NEW t, t.node \in DOMAIN tree,
         NEW s \in Seq(Follows(tree, t.node)),
         \A k \in DOMAIN s :
           Visiting(s[k]) /\ s[k].node # t.node /\ s[k].node \in Operands(tree[t.node])
             => SeenAfter(tree, s, k, t.node)
  PROVE  Expected(tree, t, s)
<1> SUFFICES ASSUME NEW k \in DOMAIN s, Visiting(s[k]), s[k].node # t.node,
                    NEW x \in Users(tree), s[k].node \in Operands(tree[x])
             PROVE  SeenAfter(tree, s, k, x)
  BY DEF Expected, AwaitedBy
<1>1. s[k] \in Follows(tree, t.node)
  BY LenProperties, ElementOfSeq
<1>2. s[k].node \in Range(Parts(tree[t.node]))
  BY <1>1 DEF Follows, Given, Spawned, Near, Visiting
<1>3. x = t.node
  BY <1>2, UsedByOwner DEF Users
<1> QED
  BY <1>3

LEMMA VisitGoesOn ==
  ASSUME AllInv, A!Doing("apply"), outcome' = outcome,
         analyzer'.tolerant = analyzer.tolerant,
         Kept(ast, ast'), Grows(ast, ast'), errors' = <<>> => errors = <<>>,
         Retyped(ast, ast', A!Task.node),
         NEW s \in Seq(Follows(ast, A!Task.node)), A!GoOn(s),
         Splits(ast, A!Task.node, s)
  PROVE  OperandInv'
<1> DEFINE n == A!Task.node
<1>1. "apply" \notin Nodeless \cup {"analyze_func"} /\ "apply" \notin Nodeless
  BY DEF Nodeless
<1>2. /\ IsTree(ast) /\ n \in DOMAIN ast /\ A!Task \in Tasks(ast) /\ A!Task.do = "apply"
  BY <1>1, TaskIs, Working DEF AllInv
<1>3. Single(ast)
  BY <1>2, OnceIsSingle DEF AllInv, StaysTree
<1>4. Visiting(A!Task)
  BY <1>2 DEF Visiting, Nodeless
<1>5. Covers(ast, A!Task) = Under(ast, n)
  BY <1>2 DEF Covers, Reaching, Left, Under
<1>6. Inward(ast, A!Task, s)
  BY <1>2, <1>3, FollowsInward
<1>7. Expected(ast, A!Task, s)
  BY <1>2, <1>3, SplitExpected DEF Splits
<1>8. \A x \in Covers(ast, A!Task) : Seen(ast, s, x)
  BY <1>2, <1>5, SplitSees
<1>9. s \in Seq(Tasks(ast))
  <2>1. Follows(ast, n) \subseteq Tasks(ast)
    BY DEF Follows, Given, Spawned
  <2> QED
    BY <2>1
<1> QED
  BY <1>1, <1>2, <1>4, <1>6, <1>7, <1>8, <1>9, HandlerSees

-----------------------------------------------------------------------------
(* Handlers that visit parts in turn: nothing is used of a node without    *)
(* operands, and what is under its parts is seen if these are all applied. *)
LEMMA AppliedSplit ==
  ASSUME NEW tree, NEW n \in DOMAIN tree, Operands(tree[n]) = {}, NEW s,
         \A p \in Range(Parts(tree[n])) :
           Under(tree, p) = {} \/ \E k \in DOMAIN s : s[k] = A!Apply(p)
  PROVE  Splits(tree, n, s)
<1>1. ASSUME NEW p \in Range(Parts(tree[n])), NEW x \in Under(tree, p)
      PROVE  Seen(tree, s, x)
  <2>1. PICK k \in DOMAIN s : s[k] = A!Apply(p)
    BY <1>1
  <2>2. x \in Covers(tree, A!Apply(p))
    BY <1>1, TasksCover
  <2> QED
    BY <2>1, <2>2 DEF Seen
<1> QED
  BY <1>1 DEF Splits, Users

(* The parts applied in their order, then the node's own tasks.            *)
LEMMA AllSplit ==
  ASSUME NEW tree, NEW n \in DOMAIN tree, Operands(tree[n]) = {},
         NEW T, Parts(tree[n]) \in Seq(T), NEW U, NEW rest \in Seq(U)
  PROVE  Splits(tree, n, A!ApplyAll(Parts(tree[n])) \o rest)
<1> DEFINE parts == Parts(tree[n])
           first == A!ApplyAll(parts)
           V     == {A!Apply(parts[k]) : k \in DOMAIN parts} \cup U
<1>1. /\ DOMAIN parts = 1 .. Len(parts) /\ Len(parts) \in Nat
      /\ DOMAIN first = DOMAIN parts
      /\ \A k \in DOMAIN parts : first[k] = A!Apply(parts[k])
  BY LenProperties DEF A!ApplyAll
<1> HIDE DEF parts
<1>2. first \in [1 .. Len(parts) -> V]
  BY <1>1 DEF A!ApplyAll
<1> HIDE DEF first
<1>3. first \in Seq(V)
  <2>1. Len(parts) \in Nat
    BY <1>1
  <2> HIDE DEF V
  <2> QED
    BY <1>2, <2>1, SeqDef
<1>4. rest \in Seq(V)
  OBVIOUS
<1> HIDE DEF V
<1>5. /\ Len(first \o rest) = Len(first) + Len(rest)
      /\ \A k \in 1 .. Len(first) + Len(rest) :
           (first \o rest)[k] = IF k <= Len(first) THEN first[k] ELSE rest[k - Len(first)]
      /\ first \o rest \in Seq(V)
  BY <1>3, <1>4, ConcatProperties
<1>6. /\ Len(first) \in Nat /\ Len(rest) \in Nat /\ DOMAIN first = 1 .. Len(first)
      /\ DOMAIN (first \o rest) = 1 .. Len(first \o rest)
  BY <1>3, <1>4, <1>5, LenProperties
<1>7. \A k \in DOMAIN first : k \in DOMAIN (first \o rest) /\ (first \o rest)[k] = first[k]
  BY <1>5, <1>6
<1>8. \A p \in Range(parts) : \E k \in DOMAIN (first \o rest) : (first \o rest)[k] = A!Apply(p)
  BY <1>1, <1>7 DEF Range
<1> DEFINE all == first \o rest
<1> HIDE DEF all
<1>9. \A p \in Range(Parts(tree[n])) : \E k \in DOMAIN all : all[k] = A!Apply(p)
  BY <1>8 DEF parts, all
<1>10. Splits(tree, n, all)
  BY <1>9, AppliedSplit
<1> QED
  BY <1>10 DEF all, first, parts

(* The kinds with operands: these are visited, then checked.               *)
LEMMA UnarySplit ==
  ASSUME NEW tree, NEW n \in DOMAIN tree, tree[n].node = "unary"
  PROVE  Splits(tree, n, A!ChildrenFirst(tree[n], n))
<1> DEFINE e == tree[n].expr
           a == A!Apply(e)
           b == A!TypeUnary(n)
           s == <<a, b>>
<1>1. A!ChildrenFirst(tree[n], n) = s
  BY DEF A!ChildrenFirst
<1>2. Parts(tree[n]) = <<e>>
  BY PartsBy
<1>3. Range(Parts(tree[n])) = {e} /\ Operands(tree[n]) = {e} /\ n \in Users(tree)
  <2>1. Range(<<e>>) = {e}
    BY DEF Range
  <2> QED
    BY <1>2, <2>1 DEF Operands, Users
<1>4. /\ \A x \in Under(tree, e) : x \in Covers(tree, a)
      /\ n \in Covers(tree, b) /\ b.node = n
  BY <1>3, TasksCover
<1> HIDE DEF a, b, e
<1>5. DOMAIN s = {1, 2} /\ s[1] = a /\ s[2] = b
  OBVIOUS
<1> HIDE DEF s
<1>6. \A k \in DOMAIN s : s[k].node # n => SeenAfter(tree, s, k, n)
  BY <1>4, <1>5 DEF SeenAfter
<1>7. Seen(tree, s, n) /\ \A x \in Under(tree, e) : Seen(tree, s, x)
  BY <1>4, <1>5 DEF Seen
<1> QED
  BY <1>1, <1>3, <1>6, <1>7 DEF Splits

LEMMA BinarySplit ==
  ASSUME NEW tree, NEW n \in DOMAIN tree, tree[n].node = "binary"
  PROVE  Splits(tree, n, A!ChildrenFirst(tree[n], n))
<1> DEFINE l == tree[n].left
           r == tree[n].right
           a == A!Apply(r)
           b == A!Apply(l)
           c == A!TypeBinary(n)
           s == <<a, b, c>>
<1>1. A!ChildrenFirst(tree[n], n) = s
  BY DEF A!ChildrenFirst
<1>2. Parts(tree[n]) = <<l, r>>
  BY PartsBy
<1>3. Range(Parts(tree[n])) = {l, r} /\ Operands(tree[n]) = {l, r} /\ n \in Users(tree)
  <2>1. Range(<<l, r>>) = {l, r}
    BY DEF Range
  <2> QED
    BY <1>2, <2>1 DEF Operands, Users
<1>4. /\ \A x \in Under(tree, r) : x \in Covers(tree, a)
      /\ \A x \in Under(tree, l) : x \in Covers(tree, b)
      /\ n \in Covers(tree, c) /\ c.node = n
  BY <1>3, TasksCover
<1> HIDE DEF a, b, c, l, r
<1>5. DOMAIN s = {1, 2, 3} /\ s[1] = a /\ s[2] = b /\ s[3] = c
  OBVIOUS
<1> HIDE DEF s
<1>6. \A k \in DOMAIN s : s[k].node # n => SeenAfter(tree, s, k, n)
  BY <1>4, <1>5 DEF SeenAfter
<1>7. /\ Seen(tree, s, n)
      /\ \A x \in Under(tree, l) : Seen(tree, s, x)
      /\ \A x \in Under(tree, r) : Seen(tree, s, x)
  BY <1>4, <1>5 DEF Seen
<1> QED
  BY <1>1, <1>3, <1>6, <1>7 DEF Splits

LEMMA PrintSplit ==
  ASSUME NEW tree, NEW n \in DOMAIN tree, tree[n].node = "print"
  PROVE  Splits(tree, n, A!ChildrenFirst(tree[n], n))
<1> DEFINE e == tree[n].expr
           a == A!Apply(e)
           b == A!ExpectInt(e)
           s == <<a, b>>
<1>1. A!ChildrenFirst(tree[n], n) = s
  BY DEF A!ChildrenFirst
<1>2. Parts(tree[n]) = <<e>>
  BY PartsBy
<1>3. Range(Parts(tree[n])) = {e} /\ Operands(tree[n]) = {e} /\ n \in Users(tree)
  <2>1. Range(<<e>>) = {e}
    BY DEF Range
  <2> QED
    BY <1>2, <2>1 DEF Operands, Users
<1>4. /\ \A x \in Under(tree, e) : x \in Covers(tree, a)
      /\ n \in Covers(tree, b) /\ ~Visiting(b)
  BY <1>3, TasksCover
<1> HIDE DEF a, b, e
<1>5. DOMAIN s = {1, 2} /\ s[1] = a /\ s[2] = b
  OBVIOUS
<1> HIDE DEF s
<1>6. \A k \in DOMAIN s : Visiting(s[k]) => SeenAfter(tree, s, k, n)
  BY <1>4, <1>5 DEF SeenAfter
<1>7. Seen(tree, s, n) /\ \A x \in Under(tree, e) : Seen(tree, s, x)
  BY <1>4, <1>5 DEF Seen
<1> QED
  BY <1>1, <1>3, <1>6, <1>7 DEF Splits

(* The branches of a condition are other nodes than the condition.         *)
LEMMA WhileSplit ==
  ASSUME NEW tree, IsTree(tree), Single(tree), NEW n \in DOMAIN tree, tree[n].node = "while"
  PROVE  Splits(tree, n, A!ChildrenFirst(tree[n], n))
<1> DEFINE e == tree[n].cond
           d == tree[n].block
           a == A!Apply(e)
           b == A!ExpectInt(e)
           c == A!Apply(d)
           s == <<a, b, c>>
<1>1. A!ChildrenFirst(tree[n], n) = s
  BY DEF A!ChildrenFirst
<1>2. Parts(tree[n]) = <<e, d>>
  BY PartsBy
<1>3. Range(Parts(tree[n])) = {e, d} /\ Operands(tree[n]) = {e} /\ n \in Users(tree)
  <2>1. Range(<<e, d>>) = {e, d}
    BY DEF Range
  <2> QED
    BY <1>2, <2>1 DEF Operands, Users
<1>4. d # e
  <2>1. 1 \in DOMAIN Parts(tree[n]) /\ 2 \in DOMAIN Parts(tree[n])
        /\ Parts(tree[n])[1] = e /\ Parts(tree[n])[2] = d
    BY <1>2
  <2> HIDE DEF d, e
  <2> QED
    BY <2>1, OwnedBy
<1>5. /\ \A x \in Under(tree, e) : x \in Covers(tree, a)
      /\ \A x \in Under(tree, d) : x \in Covers(tree, c)
      /\ n \in Covers(tree, b) /\ ~Visiting(b) /\ c.node = d
  BY <1>3, TasksCover
<1> HIDE DEF a, b, c, d, e
<1>6. DOMAIN s = {1, 2, 3} /\ s[1] = a /\ s[2] = b /\ s[3] = c
  OBVIOUS
<1> HIDE DEF s
<1>7. \A k \in DOMAIN s : Visiting(s[k]) /\ s[k].node \in {e} => SeenAfter(tree, s, k, n)
  BY <1>4, <1>5, <1>6 DEF SeenAfter
<1>8. /\ Seen(tree, s, n)
      /\ \A x \in Under(tree, e) : Seen(tree, s, x)
      /\ \A x \in Under(tree, d) : Seen(tree, s, x)
  BY <1>5, <1>6 DEF Seen
<1> QED
  BY <1>1, <1>3, <1>7, <1>8 DEF Splits

LEMMA FollowAll ==
  ASSUME NEW tree, IsTree(tree), NEW n \in DOMAIN tree, NEW s \in Seq(Near(tree, n))
  PROVE  A!ApplyAll(s) \in Seq(Follows(tree, n))
<1>1. DOMAIN s = 1 .. Len(s) /\ Len(s) \in Nat
  BY LenProperties
<1>2. \A k \in DOMAIN s : A!Apply(s[k]) \in Follows(tree, n)
  BY <1>1, ElementOfSeq, FollowsMade
<1> QED
  BY <1>1, <1>2 DEF A!ApplyAll

LEMMA IfSplit ==
  ASSUME NEW tree, IsTree(tree), Single(tree), NEW n \in DOMAIN tree, tree[n].node = "if"
  PROVE  Splits(tree, n, A!ChildrenFirst(tree[n], n))
<1> DEFINE e == tree[n].cond
           d == tree[n].true_block
           o == tree[n].else_block
           a == A!Apply(e)
           b == A!ExpectInt(e)
           c == A!Apply(d)
           f == A!Apply(o)
           s == IF o = Null THEN <<a, b, c>> ELSE Append(<<a, b, c>>, f)
<1>1. A!ChildrenFirst(tree[n], n) = s
  <2>1. A!ChildrenFirst(tree[n], n) = <<a, b, c>> \o (IF o = Null THEN <<>> ELSE <<f>>)
    BY DEF A!ChildrenFirst, A!Null, Null
  <2> HIDE DEF a, b, c, f, o
  <2>2. <<a, b, c>> \in Seq({a, b, c, f}) /\ <<f>> \in Seq({a, b, c, f})
    OBVIOUS
  <2>3. CASE o = Null
    <3>1. A!ChildrenFirst(tree[n], n) = <<a, b, c>> \o <<>>
      BY <2>1, <2>3
    <3> QED
      BY <2>2, <2>3, <3>1, ConcatEmptySeq
  <2>4. CASE o # Null
    <3>1. A!ChildrenFirst(tree[n], n) = <<a, b, c>> \o <<f>>
      BY <2>1, <2>4
    <3>2. <<a, b, c>> \o <<f>> = Append(<<a, b, c>>, f)
      BY <2>2, AppendIsConcat
    <3> QED
      BY <2>4, <3>1, <3>2
  <2> QED
    BY <2>3, <2>4
<1>2. Parts(tree[n]) = IF o = Null THEN <<e, d>> ELSE <<e, d, o>>
  BY PartsBy
<1>3. /\ Range(Parts(tree[n])) \subseteq {e, d} \cup (IF o = Null THEN {} ELSE {o})
      /\ Operands(tree[n]) = {e} /\ n \in Users(tree)
  <2>1. Range(<<e, d>>) = {e, d} /\ Range(<<e, d, o>>) = {e, d, o}
    BY DEF Range
  <2> QED
    BY <1>2, <2>1 DEF Operands, Users
<1>4. d # e /\ (o # Null => o # e)
  <2>1. 1 \in DOMAIN Parts(tree[n]) /\ 2 \in DOMAIN Parts(tree[n])
        /\ Parts(tree[n])[1] = e /\ Parts(tree[n])[2] = d
    BY <1>2
  <2>2. o # Null => 3 \in DOMAIN Parts(tree[n]) /\ Parts(tree[n])[3] = o
    BY <1>2
  <2> HIDE DEF d, e, o
  <2> QED
    BY <2>1, <2>2, OwnedBy
<1>5. /\ \A x \in Under(tree, e) : x \in Covers(tree, a)
      /\ \A x \in Under(tree, d) : x \in Covers(tree, c)
      /\ \A x \in Under(tree, o) : x \in Covers(tree, f)
      /\ n \in Covers(tree, b) /\ ~Visiting(b) /\ c.node = d /\ f.node = o
  BY <1>3, TasksCover
<1> HIDE DEF a, b, c, d, e, f, o
<1>6. /\ DOMAIN s = IF o = Null THEN {1, 2, 3} ELSE {1, 2, 3, 4}
      /\ s[1] = a /\ s[2] = b /\ s[3] = c /\ (o # Null => s[4] = f)
  <2> DEFINE three == <<a, b, c>>
             T     == {a, b, c, f}
  <2>1. /\ three \in Seq(T) /\ f \in T /\ Len(three) = 3
        /\ three[1] = a /\ three[2] = b /\ three[3] = c /\ DOMAIN three = {1, 2, 3}
    OBVIOUS
  <2> HIDE DEF three, T
  <2>2. /\ Append(three, f) \in Seq(T) /\ Append(three, f) # <<>>
        /\ Len(Append(three, f)) = Len(three) + 1
        /\ \A i \in 1 .. Len(three) : Append(three, f)[i] = three[i]
        /\ Append(three, f)[Len(three) + 1] = f
    <3>1. three \in Seq(T) /\ f \in T
      BY <2>1
    <3> QED
      BY <3>1, AppendProperties
  <2>3. DOMAIN Append(three, f) = {1, 2, 3, 4}
    <3>1. DOMAIN Append(three, f) = 1 .. 4
      BY <2>1, <2>2, LenProperties
    <3> QED
      BY <3>1
  <2>4. /\ Append(three, f)[1] = a /\ Append(three, f)[2] = b
        /\ Append(three, f)[3] = c /\ Append(three, f)[4] = f
    BY <2>1, <2>2
  <2>5. s = IF o = Null THEN three ELSE Append(three, f)
    BY DEF three
  <2> HIDE DEF s
  <2> QED
    BY <2>1, <2>3, <2>4, <2>5
<1> HIDE DEF s
<1>7. \A k \in DOMAIN s : Visiting(s[k]) /\ s[k].node \in {e} => SeenAfter(tree, s, k, n)
  BY <1>4, <1>5, <1>6 DEF SeenAfter
<1>8. /\ Seen(tree, s, n)
      /\ \A x \in Under(tree, e) : Seen(tree, s, x)
      /\ \A x \in Under(tree, d) : Seen(tree, s, x)
      /\ o # Null => \A x \in Under(tree, o) : Seen(tree, s, x)
  BY <1>5, <1>6 DEF Seen
<1> QED
  BY <1>1, <1>3, <1>7, <1>8 DEF Splits

(* The targets of an assignment are left to the check of its right side.   *)
LEMMA AssignmentSplit ==
  ASSUME NEW tree, IsTree(tree), NEW n \in DOMAIN tree, tree[n].node = "assignment"
  PROVE  Splits(tree, n, A!ChildrenFirst(tree[n], n))
<1> DEFINE r  == tree[n].right
           ls == tree[n].lefts
           a  == A!Apply(r)
           b  == A!CheckRight(n)
           s  == <<a, b>>
<1>1. A!ChildrenFirst(tree[n], n) = s
  BY DEF A!ChildrenFirst
<1>2. Operands(tree[n]) = {}
  BY DEF Operands
<1>3. ASSUME NEW p \in Range(Parts(tree[n])) PROVE p = r \/ \E k \in DOMAIN ls : p = ls[k]
  <2>1. Parts(tree[n]) = ls \o <<r>> /\ ls \in Seq(DOMAIN tree) /\ <<r>> \in Seq(DOMAIN tree)
    BY PartsBy, PartsAreNodes
  <2> HIDE DEF ls, r
  <2>2. /\ Len(ls \o <<r>>) = Len(ls) + Len(<<r>>) /\ Len(<<r>>) = 1 /\ <<r>>[1] = r
        /\ \A k \in 1 .. Len(ls) + Len(<<r>>) :
             (ls \o <<r>>)[k] = IF k <= Len(ls) THEN ls[k] ELSE <<r>>[k - Len(ls)]
        /\ ls \o <<r>> \in Seq(DOMAIN tree)
    BY <2>1, ConcatProperties
  <2>3. /\ Len(ls) \in Nat /\ DOMAIN ls = 1 .. Len(ls)
        /\ DOMAIN (ls \o <<r>>) = 1 .. Len(ls \o <<r>>)
    BY <2>1, <2>2, LenProperties
  <2>4. PICK k \in 1 .. Len(ls) + 1 : p = (ls \o <<r>>)[k]
    BY <1>3, <2>1, <2>2, <2>3 DEF Range
  <2>5. CASE k <= Len(ls)
    BY <2>2, <2>3, <2>4, <2>5
  <2>6. CASE ~(k <= Len(ls))
    <3>1. k - Len(ls) = 1
      BY <2>3, <2>4, <2>6
    <3> QED
      BY <2>2, <2>4, <2>6, <3>1
  <2> QED
    BY <2>5, <2>6
<1>4. \A k \in DOMAIN ls : \A x \in Under(tree, ls[k]) : x \in Covers(tree, b)
  BY DEF Covers, Left, A!CheckRight, Under
<1>5. \A x \in Under(tree, r) : x \in Covers(tree, a)
  BY TasksCover
<1> HIDE DEF a, b
<1>6. DOMAIN s = {1, 2} /\ s[1] = a /\ s[2] = b
  OBVIOUS
<1> HIDE DEF s
<1>7. \A p \in Range(Parts(tree[n])) : \A x \in Under(tree, p) : Seen(tree, s, x)
  <2> HIDE DEF ls, r
  <2> QED
    BY <1>3, <1>4, <1>5, <1>6 DEF Seen
<1> QED
  BY <1>1, <1>2, <1>7 DEF Splits, Users

LEMMA FirstFollow ==
  ASSUME NEW tree, IsTree(tree), NEW n \in DOMAIN tree,
         tree[n].node \in {"unary", "binary", "print", "while", "if",
                           "assignment", "call"}
  PROVE  A!ChildrenFirst(tree[n], n) \in Seq(Follows(tree, n))
<1> DEFINE ref == tree[n]
           s   == A!ChildrenFirst(ref, n)
<1>1. s \in Seq(Given(tree, n))
  BY FirstAreGiven
<1>2. \A m \in Range(Parts(ref)) : A!ExpectInt(m) \in Follows(tree, n)
  BY FollowsMade
<1>3. \A e \in Operands(ref) : A!ExpectInt(e) \in Follows(tree, n)
  BY <1>2, OperandsAreParts DEF IsTree
<1>4. CASE ref.node \in {"unary", "binary", "assignment", "print", "while"}
  <2>1. CASE ref.node = "unary"
    <3>1. s = <<A!Apply(ref.expr), A!TypeUnary(n)>>
      BY <2>1 DEF A!ChildrenFirst
    <3> QED
      BY <2>1, <3>1, PartsNear, FollowsMade
  <2>2. CASE ref.node = "binary"
    <3>1. s = <<A!Apply(ref.right), A!Apply(ref.left), A!TypeBinary(n)>>
      BY <2>2 DEF A!ChildrenFirst
    <3> QED
      BY <2>2, <3>1, PartsNear, FollowsMade
  <2>3. CASE ref.node = "assignment"
    <3>1. s = <<A!Apply(ref.right), A!CheckRight(n)>>
      BY <2>3 DEF A!ChildrenFirst
    <3> QED
      BY <2>3, <3>1, PartsNear, FollowsMade
  <2>4. CASE ref.node = "print"
    <3>1. s = <<A!Apply(ref.expr), A!ExpectInt(ref.expr)>>
      BY <2>4 DEF A!ChildrenFirst
    <3>2. A!ExpectInt(ref.expr) \in Follows(tree, n)
      <4>1. Parts(ref) = <<ref.expr>>
        BY <2>4, PartsBy
      <4>2. 1 \in DOMAIN <<ref.expr>> /\ <<ref.expr>>[1] = ref.expr
        OBVIOUS
      <4>3. ref.expr \in Range(Parts(ref))
        BY <4>1, <4>2 DEF Range
      <4> QED
        BY <1>2, <4>3
    <3> QED
      BY <2>4, <3>1, <3>2, PartsNear, FollowsMade
  <2>5. CASE ref.node = "while"
    <3>1. s = <<A!Apply(ref.cond), A!ExpectInt(ref.cond), A!Apply(ref.block)>>
      BY <2>5 DEF A!ChildrenFirst
    <3>2. A!ExpectInt(ref.cond) \in Follows(tree, n)
      BY <1>3, <2>5 DEF Operands
    <3> QED
      BY <2>5, <3>1, <3>2, PartsNear, FollowsMade
  <2> QED
    BY <1>4, <2>1, <2>2, <2>3, <2>4, <2>5
<1>5. CASE ref.node = "if"
  <2> DEFINE first == <<A!Apply(ref.cond), A!ExpectInt(ref.cond), A!Apply(ref.true_block)>>
  <2>1. A!ExpectInt(ref.cond) \in Follows(tree, n)
    BY <1>3, <1>5 DEF Operands
  <2>2. first \in Seq(Follows(tree, n))
    BY <1>5, <2>1, PartsNear, FollowsMade
  <2>3. s = first \o (IF ref.else_block = Null THEN <<>> ELSE <<A!Apply(ref.else_block)>>)
    BY <1>5 DEF A!ChildrenFirst, A!Null, Null
  <2>4. CASE ref.else_block = Null
    <3>1. s = first \o <<>>
      BY <2>3, <2>4
    <3> HIDE DEF first
    <3> QED
      BY <2>2, <3>1, EmptySeq, ConcatProperties
  <2>5. CASE ref.else_block # Null
    <3>1. s = first \o <<A!Apply(ref.else_block)>>
      BY <2>3, <2>5
    <3>2. <<A!Apply(ref.else_block)>> \in Seq(Follows(tree, n))
      BY <1>5, <2>5, PartsNear, FollowsMade
    <3> HIDE DEF first
    <3> QED
      BY <2>2, <3>1, <3>2, ConcatProperties
  <2> QED
    BY <2>4, <2>5
<1>6. CASE ref.node = "call"
  <2>1. s = A!ApplyAll(ref.args) \o <<A!ResolveCall(n)>> /\ ref.args \in Seq(Near(tree, n))
    BY <1>6, PartsNear DEF A!ChildrenFirst
  <2>2. A!ApplyAll(ref.args) \in Seq(Follows(tree, n))
    BY <2>1, FollowAll
  <2>3. <<A!ResolveCall(n)>> \in Seq(Follows(tree, n))
    BY <1>6, FollowsMade
  <2> QED
    BY <2>1, <2>2, <2>3, ConcatProperties
<1> QED
  BY <1>4, <1>5, <1>6

LEMMA CallSplit ==
  ASSUME NEW tree, IsTree(tree), NEW n \in DOMAIN tree, tree[n].node = "call"
  PROVE  Splits(tree, n, A!ChildrenFirst(tree[n], n))
<1> DEFINE own == <<A!ResolveCall(n)>>
<1>1. A!ChildrenFirst(tree[n], n) = A!ApplyAll(Parts(tree[n])) \o own
  BY PartsBy DEF A!ChildrenFirst
<1>2. Operands(tree[n]) = {} /\ Parts(tree[n]) \in Seq(DOMAIN tree)
  BY PartsAreSeq DEF Operands
<1>3. own \in Seq({A!ResolveCall(n)})
  OBVIOUS
<1> HIDE DEF own
<1> QED
  BY <1>1, <1>2, <1>3, AllSplit

LEMMA ChildrenSplit ==
  ASSUME NEW tree, IsTree(tree), Single(tree), NEW n \in DOMAIN tree,
         tree[n].node \in {"unary", "binary", "print", "while", "if",
                           "assignment", "call"}
  PROVE  Splits(tree, n, A!ChildrenFirst(tree[n], n))
BY UnarySplit, BinarySplit, PrintSplit, WhileSplit, IfSplit, AssignmentSplit, CallSplit

-----------------------------------------------------------------------------
(* The visits.                                                             *)
LEMMA ReturnGoesOn ==
  ASSUME NEW T, todo \in Seq(T), todo # <<>>, A!Return
  PROVE  A!GoOn(<<>>)
<1>1. Tail(todo) \in Seq(T)
  BY HeadTailProperties
<1>2. <<>> \o Tail(todo) = Tail(todo)
  BY <1>1, ConcatEmptySeq
<1> QED
  BY <1>2 DEF A!Return, A!GoOn

LEMMA NowIs ==
  ASSUME AllInv, NEW what, A!Doing(what)
  PROVE  /\ outcome = "working" /\ todo # <<>> /\ IsTree(ast) /\ Single(ast)
         /\ todo \in Seq(Tasks(ast)) /\ A!Task \in Tasks(ast) /\ A!Task.do = what
         /\ errors \in Reports(ast) /\ analyzer \in Analyzers(ast) /\ Placed(ast)
         /\ (A!Return => A!GoOn(<<>>)) /\ OperandInv
         /\ what \notin Nodeless => A!Task.node \in DOMAIN ast /\ A!Ref = ast[A!Task.node]
<1>1. /\ outcome = "working" /\ todo # <<>>
      /\ IsTree(ast) /\ analyzer \in Analyzers(ast)
      /\ A!Task \in Tasks(ast) /\ A!Task.do = what
      /\ root \in DOMAIN ast \cup {Null}
  BY Working DEF AllInv
<1>2. todo \in Seq(Tasks(ast)) /\ errors \in Reports(ast)
  BY <1>1 DEF AllInv, IInv, TypeInv
<1>3. Single(ast)
  BY <1>1, OnceIsSingle DEF AllInv, StaysTree
<1>4. Placed(ast) /\ OperandInv
  BY <1>1 DEF AllInv, OperandInv
<1>5. A!Return => A!GoOn(<<>>)
  BY <1>1, <1>2, ReturnGoesOn
<1>6. what \notin Nodeless => A!Task.node \in DOMAIN ast /\ A!Ref = ast[A!Task.node]
  BY TaskIs DEF AllInv
<1> QED
  BY <1>1, <1>2, <1>3, <1>4, <1>5, <1>6

(* A handler that says nothing and writes nothing.                         *)
LEMMA QuietVisit ==
  ASSUME AllInv, A!Doing("apply"), outcome' = outcome,
         analyzer'.tolerant = analyzer.tolerant, UNCHANGED <<ast, errors>>,
         NEW s \in Seq(Follows(ast, A!Task.node)), A!GoOn(s),
         Splits(ast, A!Task.node, s)
  PROVE  OperandInv'
<1>1. ast' = ast /\ errors' = errors
  OBVIOUS
<1>2. Kept(ast, ast') /\ Retyped(ast, ast', A!Task.node)
  BY <1>1, KeptStays, RetypedStays
<1>3. Grows(ast, ast')
  BY <1>1 DEF Grows
<1> QED
  BY <1>1, <1>2, <1>3, VisitGoesOn

LEMMA RefusedVisit ==
  ASSUME AllInv, NEW what, A!Doing(what), outcome' = outcome, ast' = ast,
         NEW message, NEW n, A!Report(message, n)
  PROVE  OperandInv'
<1>1. errors' # <<>>
  BY NowIs, ReportIsKept
<1>2. Kept(ast, ast')
  BY KeptStays
<1> QED
  BY <1>1, <1>2, NowIs, RefusedSeen

LEMMA LeafSees ==
  ASSUME AllInv, A!AnalyzeLeaf \/ A!AnalyzeErrorNode \/ A!AnalyzeChildrenFirst
  PROVE  OperandInv'
<1> DEFINE n == A!Task.node
<1>1. "apply" \notin Nodeless
  BY DEF Nodeless
<1>2. CASE A!AnalyzeLeaf
  <2>1. /\ A!Doing("apply") /\ ast[n].node \in {"constant", "read"} /\ A!Return
        /\ UNCHANGED <<ast, errors>> /\ outcome' = outcome /\ analyzer' = analyzer
    BY <1>2 DEF A!AnalyzeLeaf, A!Applying
  <2>2. n \in DOMAIN ast /\ A!GoOn(<<>>)
    BY <1>1, <2>1, NowIs
  <2>3. Operands(ast[n]) = {} /\ Parts(ast[n]) = <<>>
    BY <2>1, PartsBy DEF Operands
  <2>4. Splits(ast, n, <<>>)
    BY <2>2, <2>3, AppliedSplit DEF Range
  <2>5. <<>> \in Seq(Follows(ast, n))
    BY EmptySeq
  <2> QED
    BY <2>1, <2>2, <2>4, <2>5, QuietVisit
<1>3. CASE A!AnalyzeErrorNode
  BY <1>3, RefusedVisit DEF A!AnalyzeErrorNode, A!Applying
<1>4. CASE A!AnalyzeChildrenFirst
  <2>1. /\ A!Doing("apply") /\ A!GoOn(A!ChildrenFirst(A!Ref, n))
        /\ ast[n].node \in {"unary", "binary", "print", "while", "if", "assignment", "call"}
        /\ UNCHANGED <<ast, errors>> /\ outcome' = outcome /\ analyzer' = analyzer
    BY <1>4 DEF A!AnalyzeChildrenFirst, A!Applying
  <2>2. n \in DOMAIN ast /\ IsTree(ast) /\ Single(ast) /\ A!Ref = ast[n]
    BY <1>1, <2>1, NowIs
  <2>3. /\ Splits(ast, n, A!ChildrenFirst(ast[n], n))
        /\ A!ChildrenFirst(ast[n], n) \in Seq(Follows(ast, n))
    BY <2>1, <2>2, ChildrenSplit, FirstFollow
  <2> QED
    BY <2>1, <2>2, <2>3, QuietVisit
<1> QED
  BY <1>2, <1>3, <1>4

(* A name that is used takes the type it is found with: whoever uses this  *)
(* variable as a number looks again afterwards.                            *)
LEMMA VariableSees ==
  ASSUME AllInv, Grows(ast, ast'), A!AnalyzeVariable
  PROVE  OperandInv'
<1> DEFINE n == A!Task.node
<1>1. "apply" \notin Nodeless
  BY DEF Nodeless
<1>2. A!Doing("apply") /\ ast[n].node = "variable" /\ A!Return
      /\ outcome' = outcome /\ analyzer' = analyzer
  BY DEF A!AnalyzeVariable, A!Applying
<1>3. n \in DOMAIN ast /\ A!GoOn(<<>>) /\ IsTree(ast)
  BY <1>1, <1>2, NowIs
<1>4. CASE A!IsDeclared(A!Ref.name)
  <2>1. PICK v : ast' = [ast EXCEPT ![n] = [@ EXCEPT !["type"] = v]]
    BY <1>4 DEF A!AnalyzeVariable
  <2>2. errors' = errors
    BY <1>4 DEF A!AnalyzeVariable
  <2>3. "type" \in Annotations \cup {"stab"}
    BY DEF Annotations
  <2>4. Kept(ast, ast')
    BY <1>3, <2>1, <2>3, WriteKeeps
  <2>5. Retyped(ast, ast', n)
    BY <2>1, WriteRetypes
  <2>6. Operands(ast[n]) = {} /\ Parts(ast[n]) = <<>>
    BY <1>2, PartsBy DEF Operands
  <2>7. Splits(ast, n, <<>>)
    BY <1>3, <2>6, AppliedSplit DEF Range
  <2>8. <<>> \in Seq(Follows(ast, n))
    BY EmptySeq
  <2> QED
    BY <1>2, <1>3, <2>2, <2>4, <2>5, <2>7, <2>8, VisitGoesOn
<1>5. CASE ~A!IsDeclared(A!Ref.name)
  <2>1. A!Report("undeclared", n) /\ ast' = ast
    BY <1>5 DEF A!AnalyzeVariable
  <2> QED
    BY <1>2, <2>1, RefusedVisit
<1> QED
  BY <1>4, <1>5

LEMMA SubscriptSees ==
  ASSUME AllInv, A!AnalyzeSubscript
  PROVE  OperandInv'
<1> DEFINE n == A!Task.node
           e == ast[n].expr
           s == <<A!Apply(e)>>
<1>1. "apply" \notin Nodeless
  BY DEF Nodeless
<1>2. /\ A!Doing("apply") /\ ast[n].node = "subscript"
      /\ ast' = ast /\ outcome' = outcome /\ analyzer' = analyzer
  BY DEF A!AnalyzeSubscript, A!Applying
<1>3. n \in DOMAIN ast /\ IsTree(ast) /\ A!Ref = ast[n]
  BY <1>1, <1>2, NowIs
<1>4. CASE A!IsDeclared(A!Ref.name)
  <2>1. A!GoOn(s) /\ errors' = errors
    BY <1>3, <1>4 DEF A!AnalyzeSubscript
  <2>2. Operands(ast[n]) = {} /\ Range(Parts(ast[n])) = {e}
    <3>1. Parts(ast[n]) = <<e>> /\ Operands(ast[n]) = {}
      BY <1>2, PartsBy DEF Operands
    <3>2. Range(<<e>>) = {e}
      BY DEF Range
    <3> QED
      BY <3>1, <3>2
  <2>3. 1 \in DOMAIN s /\ s[1] = A!Apply(e)
    OBVIOUS
  <2>4. s \in Seq(Follows(ast, n))
    BY <1>2, <1>3, PartsNear, FollowsMade
  <2> HIDE DEF s, e
  <2>5. Splits(ast, n, s)
    BY <1>3, <2>2, <2>3, AppliedSplit
  <2> QED
    BY <1>2, <2>1, <2>4, <2>5, QuietVisit
<1>5. CASE ~A!IsDeclared(A!Ref.name)
  <2>1. A!Report("undeclared", n)
    BY <1>5 DEF A!AnalyzeSubscript
  <2> QED
    BY <1>2, <2>1, RefusedVisit
<1> QED
  BY <1>4, <1>5

LEMMA PointerSees ==
  ASSUME AllInv, A!AnalyzeFunctionPtr
  PROVE  OperandInv'
<1> DEFINE n == A!Task.node
           e == ast[n].definition
           s == <<A!Apply(e), A!TypePointer(n)>>
<1>1. "apply" \notin Nodeless
  BY DEF Nodeless
<1>2. /\ A!Doing("apply") /\ ast[n].node = "fn_to_ptr"
      /\ UNCHANGED <<ast, errors>> /\ outcome' = outcome /\ analyzer' = analyzer
  BY DEF A!AnalyzeFunctionPtr, A!Applying
<1>3. n \in DOMAIN ast /\ IsTree(ast) /\ A!Ref = ast[n]
  BY <1>1, <1>2, NowIs
<1>4. A!GoOn(s)
  BY <1>3 DEF A!AnalyzeFunctionPtr
<1>5. Operands(ast[n]) = {} /\ Range(Parts(ast[n])) = {e}
  <2>1. Parts(ast[n]) = <<e>> /\ Operands(ast[n]) = {}
    BY <1>2, PartsBy DEF Operands
  <2>2. Range(<<e>>) = {e}
    BY DEF Range
  <2> QED
    BY <2>1, <2>2
<1>6. 1 \in DOMAIN s /\ s[1] = A!Apply(e)
  OBVIOUS
<1>7. s \in Seq(Follows(ast, n))
  BY <1>2, <1>3, PartsNear, FollowsMade
<1> HIDE DEF s, e
<1>8. Splits(ast, n, s)
  BY <1>3, <1>5, <1>6, AppliedSplit
<1> QED
  BY <1>2, <1>4, <1>7, <1>8, QuietVisit

(* Blocks, and returns.  Lists of returns are written into, no types.      *)
LEMMA BlockSees ==
  ASSUME AllInv, Grows(ast, ast'), A!BeginStatementBlock \/ A!BeginValueBlock
  PROVE  OperandInv'
<1> DEFINE n     == A!Task.node
           parts == Parts(ast[n])
           rest  == IF ast[n].node = "value_block"
                      THEN <<A!LastOf(n), A!DeduceType(n, A!Returns)>>
                      ELSE <<A!LastOf(n)>>
           s     == A!ApplyAll(parts) \o rest
<1>1. "apply" \notin Nodeless /\ "returns" # "type"
      /\ "returns" \in Annotations \cup {"stab"}
  BY DEF Nodeless, Annotations
<1>2. /\ A!Doing("apply") /\ ast[n].node \in Blocks
      /\ errors' = errors /\ outcome' = outcome
  BY DEF A!BeginStatementBlock, A!BeginValueBlock, A!Applying, Blocks
<1>3. n \in DOMAIN ast /\ IsTree(ast) /\ A!Ref = ast[n] /\ analyzer \in Analyzers(ast)
  BY <1>1, <1>2, NowIs
<1>4. parts = ast[n].stmts /\ Operands(ast[n]) = {}
  BY <1>2, PartsBy DEF Operands, Blocks
<1>5. A!GoOn(s)
  <2>1. CASE A!BeginStatementBlock
    <3>1. ast[n].node = "statement_block"
      BY <2>1 DEF A!BeginStatementBlock, A!Applying
    <3>2. A!GoOn(A!ApplyAll(ast[n].stmts) \o <<A!LastOf(n)>>)
      BY <1>3, <2>1 DEF A!BeginStatementBlock
    <3> QED
      BY <1>4, <3>1, <3>2
  <2>2. CASE A!BeginValueBlock
    <3>1. ast[n].node = "value_block"
      BY <2>2 DEF A!BeginValueBlock, A!Applying
    <3>2. A!GoOn(A!ApplyAll(ast[n].stmts) \o <<A!LastOf(n), A!DeduceType(n, A!Returns)>>)
      BY <1>3, <2>2 DEF A!BeginValueBlock
    <3> QED
      BY <1>4, <3>1, <3>2
  <2> QED
    BY <2>1, <2>2
<1>6. analyzer'.tolerant = analyzer.tolerant
  BY <1>3 DEF A!BeginStatementBlock, A!BeginValueBlock, A!WithScope, Analyzers
<1>7. Kept(ast, ast') /\ Retyped(ast, ast', n)
  <2>1. CASE A!BeginStatementBlock
    <3>1. ast' = ast
      BY <2>1 DEF A!BeginStatementBlock
    <3> QED
      BY <3>1, KeptStays, RetypedStays
  <2>2. CASE A!BeginValueBlock
    <3>1. PICK v : ast' = [ast EXCEPT ![n] = [@ EXCEPT !["returns"] = v]]
      BY <2>2 DEF A!BeginValueBlock
    <3>2. Kept(ast, [ast EXCEPT ![n] = [@ EXCEPT !["returns"] = v]])
      BY <1>1, <1>3, WriteKeeps
    <3>3. Retyped(ast, [ast EXCEPT ![n] = [@ EXCEPT !["returns"] = v]], n)
      BY <1>1, WriteRetypes
    <3> QED
      BY <3>1, <3>2, <3>3
  <2> QED
    BY <2>1, <2>2
<1>8. A!ApplyAll(parts) \in Seq(Follows(ast, n))
  <2>1. ast[n].stmts \in Seq(Near(ast, n))
    BY <1>2, <1>3, PartsNear
  <2> QED
    BY <1>3, <1>4, <2>1, FollowAll
<1>9. rest \in Seq(Follows(ast, n))
  <2>1. A!LastOf(n) \in Follows(ast, n)
    BY <1>2, <1>3, FollowsMade
  <2>2. ast[n].node = "value_block" => A!DeduceType(n, A!Returns) \in Follows(ast, n)
    <3>1. A!Returns \in DOMAIN ast \cup {Null}
      BY <1>3 DEF A!Returns, Analyzers
    <3> QED
      BY <1>3, <3>1, FollowsMade
  <2> DEFINE a == A!LastOf(n)
             b == A!DeduceType(n, A!Returns)
             F == Follows(ast, n)
  <2>3. rest = IF ast[n].node = "value_block" THEN <<a, b>> ELSE <<a>>
    OBVIOUS
  <2>4. a \in F /\ (ast[n].node = "value_block" => b \in F)
    BY <2>1, <2>2
  <2> HIDE DEF a, b, F, rest
  <2>5. rest \in Seq(F)
    <3>1. CASE ast[n].node = "value_block"
      <4>1. rest = <<a, b>> /\ a \in F /\ b \in F
        BY <2>3, <2>4, <3>1
      <4> QED
        BY <4>1
    <3>2. CASE ast[n].node # "value_block"
      <4>1. rest = <<a>> /\ a \in F
        BY <2>3, <2>4, <3>2
      <4> QED
        BY <4>1
    <3> QED
      BY <3>1, <3>2
  <2> QED
    BY <2>5 DEF F
<1> HIDE DEF rest
<1>10. s \in Seq(Follows(ast, n))
  BY <1>8, <1>9, ConcatProperties
<1>11. Splits(ast, n, s)
  <2>1. Parts(ast[n]) \in Seq(DOMAIN ast)
    BY <1>3, PartsAreSeq
  <2> QED
    BY <1>3, <1>4, <1>9, <2>1, AllSplit
<1> HIDE DEF s
<1> QED
  BY <1>2, <1>5, <1>6, <1>7, <1>10, <1>11, VisitGoesOn

LEMMA ReturnSees ==
  ASSUME AllInv, Grows(ast, ast'), A!AnalyzeReturn
  PROVE  OperandInv'
<1> DEFINE n == A!Task.node
           e == ast[n].expr
           s == IF e = Null THEN <<>> ELSE <<A!Apply(e)>>
<1>1. "apply" \notin Nodeless /\ "returns" # "type"
      /\ "returns" \in Annotations \cup {"stab"}
  BY DEF Nodeless, Annotations
<1>2. /\ A!Doing("apply") /\ ast[n].node = "return"
      /\ errors' = errors /\ outcome' = outcome /\ analyzer' = analyzer
  BY DEF A!AnalyzeReturn, A!Applying
<1>3. n \in DOMAIN ast /\ IsTree(ast) /\ A!Ref = ast[n]
  BY <1>1, <1>2, NowIs
<1>4. A!GoOn(s)
  BY <1>3 DEF A!AnalyzeReturn, A!Null, Null
<1>5. PICK m, v : ast' = [ast EXCEPT ![m] = [@ EXCEPT !["returns"] = v]]
  BY DEF A!AnalyzeReturn
<1>6. Kept(ast, ast') /\ Retyped(ast, ast', n)
  <2>1. Kept(ast, [ast EXCEPT ![m] = [@ EXCEPT !["returns"] = v]])
    BY <1>1, <1>3, WriteKeeps
  <2>2. Retyped(ast, [ast EXCEPT ![m] = [@ EXCEPT !["returns"] = v]], n)
    BY <1>1, WriteRetypes
  <2> QED
    BY <1>5, <2>1, <2>2
<1>7. Operands(ast[n]) = {} /\ Range(Parts(ast[n])) = IF e = Null THEN {} ELSE {e}
  <2>1. Parts(ast[n]) = (IF e = Null THEN <<>> ELSE <<e>>) /\ Operands(ast[n]) = {}
    BY <1>2, PartsBy DEF Operands
  <2>2. Range(<<e>>) = {e} /\ Range(<<>>) = {}
    BY DEF Range
  <2> QED
    BY <2>1, <2>2
<1>8. e # Null => 1 \in DOMAIN s /\ s[1] = A!Apply(e)
  OBVIOUS
<1>9. s \in Seq(Follows(ast, n))
  <2>1. e \in Near(ast, n) \cup {Null}
    BY <1>2, <1>3, PartsNear
  <2>2. e # Null => A!Apply(e) \in Follows(ast, n)
    BY <1>3, <2>1, FollowsMade
  <2>3. CASE e = Null
    BY <2>3, EmptySeq
  <2>4. CASE e # Null
    <3>1. s = <<A!Apply(e)>> /\ A!Apply(e) \in Follows(ast, n)
      BY <2>2, <2>4
    <3> HIDE DEF s
    <3> QED
      BY <3>1
  <2> QED
    BY <2>3, <2>4
<1> HIDE DEF s, e
<1>10. Splits(ast, n, s)
  BY <1>3, <1>7, <1>8, AppliedSplit
<1> QED
  BY <1>2, <1>4, <1>6, <1>9, <1>10, VisitGoesOn

-----------------------------------------------------------------------------
(* Checks.  A tolerant analyzer lets everything through, another reports   *)
(* what is not fine.                                                       *)
LEMMA EmptyGoesOn ==
  ASSUME NEW tree, NEW t
  PROVE  /\ <<>> \in Seq(Tasks(tree)) /\ Inward(tree, t, <<>>) /\ Expected(tree, t, <<>>)
BY EmptySeq DEF Inward, Expected

LEMMA IntSees ==
  ASSUME AllInv, A!ExpectIntStep
  PROVE  OperandInv'
<1> DEFINE n == A!Task.node
<1>1. "expect_int" \notin Nodeless \cup {"analyze_func"} /\ "expect_int" \notin Nodeless
  BY DEF Nodeless
<1>2. /\ A!Doing("expect_int") /\ A!ExpectTypeEq(n, A!IntType) /\ A!Return
      /\ ast' = ast /\ outcome' = outcome /\ analyzer' = analyzer
  BY DEF A!ExpectIntStep
<1>3. /\ n \in DOMAIN ast /\ IsTree(ast) /\ errors \in Reports(ast) /\ A!GoOn(<<>>)
      /\ A!Task.do = "expect_int"
  BY <1>1, <1>2, NowIs
<1>4. /\ errors' = <<>> => errors = <<>>
      /\ errors' = <<>> /\ ~analyzer.tolerant => A!Meets(ast[n].type, A!IntType)
  BY <1>2, <1>3, ExpectedIsMet
<1>5. Kept(ast, ast') /\ Retyped(ast, ast', Null) /\ Grows(ast, ast')
  BY <1>2, KeptStays, RetypedStays DEF Grows
<1>6. \A x \in Users(ast) : Null \notin Operands(ast[x])
  BY <1>3, NullIsNoUse
<1>7. errors' = <<>> /\ ~analyzer.tolerant
        => \A x \in Covers(ast, A!Task) : Checked(ast', x) \/ Seen(ast, <<>>, x)
  <2> SUFFICES ASSUME errors' = <<>>, ~analyzer.tolerant, NEW x \in Covers(ast, A!Task)
               PROVE  Checked(ast', x)
    OBVIOUS
  <2>1. Operands(ast[x]) = {n}
    BY <1>3 DEF Covers, Reaching, Left
  <2>2. Fine(ast[n].type)
    BY <1>4, IntIsFine
  <2> QED
    BY <1>2, <2>1, <2>2 DEF Checked
<1>8. <<>> \in Seq(Tasks(ast)) /\ Inward(ast, A!Task, <<>>) /\ Expected(ast, A!Task, <<>>)
  BY EmptyGoesOn
<1> DEFINE s == <<>>
<1>9. s = <<>> /\ A!GoOn(s)
  BY <1>3
<1> QED
  BY <1>1, <1>2, <1>4, <1>5, <1>6, <1>7, <1>8, <1>9, HandlerSees

(* A handler at its end, which writes a field: if a type, that of its own  *)
(* node.                                                                   *)
LEMMA WriterSees ==
  ASSUME AllInv, Grows(ast, ast'),
         NEW what, what \notin Nodeless \cup {"analyze_func", "expect_int"}, A!Doing(what),
         outcome' = outcome, analyzer'.tolerant = analyzer.tolerant,
         errors' = <<>> => errors = <<>>, A!Return,
         NEW m, NEW f \in Annotations, NEW v, f = "type" => m = A!Task.node,
         ast' = ast \/ ast' = [ast EXCEPT ![m] = [@ EXCEPT ![f] = v]],
         errors' = <<>> /\ ~analyzer.tolerant
           => \A x \in Covers(ast, A!Task) : Checked(ast', x)
  PROVE  OperandInv'
<1> DEFINE n == A!Task.node
           s == <<>>
<1>1. IsTree(ast) /\ A!GoOn(s) /\ A!Task.do = what
  BY NowIs
<1>2. Visiting(A!Task)
  BY <1>1 DEF Visiting
<1>3. Kept(ast, ast') /\ Retyped(ast, ast', n)
  <2>1. Kept(ast, [ast EXCEPT ![m] = [@ EXCEPT ![f] = v]])
    <3>1. f \in Annotations \cup {"stab"}
      OBVIOUS
    <3> QED
      BY <1>1, <3>1, WriteKeeps
  <2>2. Retyped(ast, [ast EXCEPT ![m] = [@ EXCEPT ![f] = v]], n)
    BY WriteRetypes
  <2>3. Kept(ast, ast) /\ Retyped(ast, ast, n)
    BY KeptStays, RetypedStays
  <2> QED
    BY <2>1, <2>2, <2>3
<1>4. s \in Seq(Tasks(ast)) /\ Inward(ast, A!Task, s) /\ Expected(ast, A!Task, s)
  BY EmptyGoesOn
<1>5. errors' = <<>> /\ ~analyzer.tolerant
        => \A x \in Covers(ast, A!Task) : Checked(ast', x) \/ Seen(ast, s, x)
  OBVIOUS
<1>6. what \notin Nodeless \cup {"analyze_func"}
  OBVIOUS
<1> HIDE DEF s
<1> QED
  BY <1>1, <1>2, <1>3, <1>4, <1>5, <1>6, HandlerSees

(* What is made an int is fine, and what was stays so.                     *)
LEMMA IntsStay ==
  ASSUME NEW tree, NEW n, NEW e \in DOMAIN tree, "type" \in DOMAIN tree[e],
         Fine(tree[e].type), NEW new,
         new = tree \/ new = [tree EXCEPT ![n] = [@ EXCEPT !["type"] = A!IntType]]
  PROVE  Fine(new[e].type)
<1>1. CASE new = tree
  BY <1>1
<1>2. CASE new # tree
  <2>1. new[e].type = IF e = n THEN A!IntType ELSE tree[e].type
    BY <1>2
  <2>2. Fine(A!IntType)
    BY DEF Fine, A!IntType, IntType
  <2> QED
    BY <2>1, <2>2
<1> QED
  BY <1>1, <1>2

LEMMA OwnUse ==
  ASSUME NEW tree, NEW t, t.do \in {"type_unary", "type_binary"}
  PROVE  Covers(tree, t) \subseteq {t.node}
BY DEF Covers, Reaching, Left

LEMMA TypeWriteKeeps ==
  ASSUME NEW tree, IsTree(tree), NEW n, NEW v, NEW new,
         new = tree \/ new = [tree EXCEPT ![n] = [@ EXCEPT !["type"] = v]]
  PROVE  Kept(tree, new)
<1>1. "type" \in Annotations \cup {"stab"}
  BY DEF Annotations
<1>2. Kept(tree, [tree EXCEPT ![n] = [@ EXCEPT !["type"] = v]])
  BY <1>1, WriteKeeps
<1> QED
  BY <1>2, KeptStays

LEMMA UsesOf ==
  ASSUME NEW ref
  PROVE  /\ ref.node = "unary" => Operands(ref) = {ref.expr}
         /\ ref.node = "binary" => Operands(ref) = {ref.left, ref.right}
<1>1. ASSUME ref.node = "unary" PROVE Operands(ref) = {ref.expr}
  <2> DEFINE e == ref.expr
  <2>1. Parts(ref) = <<e>>
    BY <1>1, PartsBy
  <2>2. Range(<<e>>) = {e}
    BY DEF Range
  <2> QED
    BY <1>1, <2>1, <2>2 DEF Operands
<1>2. ASSUME ref.node = "binary" PROVE Operands(ref) = {ref.left, ref.right}
  <2> DEFINE l == ref.left
             r == ref.right
  <2>1. Parts(ref) = <<l, r>>
    BY <1>2, PartsBy
  <2>2. Range(<<l, r>>) = {l, r}
    BY DEF Range
  <2> QED
    BY <1>2, <2>1, <2>2 DEF Operands
<1> QED
  BY <1>1, <1>2

LEMMA OperatorSees ==
  ASSUME AllInv, Grows(ast, ast'), A!TypeUnaryStep \/ A!TypeBinaryStep
  PROVE  OperandInv'
<1> DEFINE n == A!Task.node
           ref == ast[n]
           Typed == [ast EXCEPT ![n] = [@ EXCEPT !["type"] = A!IntType]]
<1>1. /\ "type" \in Annotations
      /\ \A what \in {"type_unary", "type_binary"} :
           what \notin Nodeless \cup {"analyze_func", "expect_int"} /\ what \notin Nodeless
  BY DEF Nodeless, Annotations
<1>2. PICK what \in {"type_unary", "type_binary"} :
        /\ A!Doing(what)
        /\ what = "type_unary" => A!TypeUnaryStep
        /\ what = "type_binary" => A!TypeBinaryStep
  BY DEF A!TypeUnaryStep, A!TypeBinaryStep
<1>3. /\ A!Return /\ outcome' = outcome /\ analyzer' = analyzer
      /\ ast' = ast \/ ast' = Typed
  BY DEF A!TypeUnaryStep, A!TypeBinaryStep
<1>4. /\ IsTree(ast) /\ n \in DOMAIN ast /\ errors \in Reports(ast) /\ Placed(ast)
      /\ A!Task \in Tasks(ast) /\ A!Task.do = what /\ A!Ref = ref
  BY <1>1, <1>2, NowIs
<1>5. Covers(ast, A!Task) \subseteq {n}
  BY <1>4, OwnUse
<1>6. ASSUME NEW e \in Operands(ref), Fine(ast[e].type) PROVE Fine(ast'[e].type)
  <2>1. e \in DOMAIN ast /\ "type" \in DOMAIN ast[e]
    BY <1>4, OperandsAreParts, PartsInTree DEF IsTree, Placed
  <2> QED
    BY <1>3, <1>6, <2>1, IntsStay
<1>7. Kept(ast, ast')
  BY <1>3, <1>4, TypeWriteKeeps
<1>8. CASE what = "type_unary"
  <2>1. ref.node = "unary"
    BY <1>4, <1>8, TaskOf DEF Nodes
  <2>2. Operands(ref) = {ref.expr}
    BY <2>1, UsesOf
  <2>3. A!ExpectTypeEq(ref.expr, A!IntType)
    BY <1>2, <1>4, <1>8 DEF A!TypeUnaryStep
  <2>4. /\ errors' = <<>> => errors = <<>>
        /\ errors' = <<>> /\ ~analyzer.tolerant => Fine(ast[ref.expr].type)
    BY <1>4, <2>3, ExpectedIsMet, IntIsFine
  <2>5. errors' = <<>> /\ ~analyzer.tolerant
          => \A x \in Covers(ast, A!Task) : Checked(ast', x)
    <3> SUFFICES ASSUME errors' = <<>>, ~analyzer.tolerant PROVE Checked(ast', n)
      BY <1>5
    <3>1. Operands(ast'[n]) = Operands(ref)
      BY <1>4, <1>7 DEF Kept
    <3> QED
      BY <1>6, <2>2, <2>4, <3>1 DEF Checked
  <2> QED
    BY <1>1, <1>2, <1>3, <2>4, <2>5, WriterSees
<1>9. CASE what = "type_binary"
  <2> DEFINE l == ref.left
             r == ref.right
             k == IF A!Meets(ast[r].type, A!IntType) THEN l ELSE r
  <2>1. ref.node = "binary"
    BY <1>4, <1>9, TaskOf DEF Nodes
  <2>2. Operands(ref) = {l, r}
    BY <2>1, UsesOf
  <2>3. A!ExpectTypeEq(k, A!IntType)
    BY <1>2, <1>4, <1>9 DEF A!TypeBinaryStep
  <2>4. /\ errors' = <<>> => errors = <<>>
        /\ errors' = <<>> /\ ~analyzer.tolerant => A!Meets(ast[k].type, A!IntType)
    <3> HIDE DEF k
    <3> QED
      BY <1>4, <2>3, ExpectedIsMet
  <2>5. errors' = <<>> /\ ~analyzer.tolerant => Fine(ast[l].type) /\ Fine(ast[r].type)
    <3> SUFFICES ASSUME errors' = <<>>, ~analyzer.tolerant
                 PROVE  A!Meets(ast[l].type, A!IntType) /\ A!Meets(ast[r].type, A!IntType)
      BY IntIsFine
    <3>1. A!Meets(ast[r].type, A!IntType)
      BY <2>4
    <3> QED
      BY <2>4, <3>1
  <2>6. errors' = <<>> /\ ~analyzer.tolerant
          => \A x \in Covers(ast, A!Task) : Checked(ast', x)
    <3> SUFFICES ASSUME errors' = <<>>, ~analyzer.tolerant PROVE Checked(ast', n)
      BY <1>5
    <3>1. Operands(ast'[n]) = Operands(ref)
      BY <1>4, <1>7 DEF Kept
    <3> HIDE DEF l, r
    <3> QED
      BY <1>6, <2>2, <2>5, <3>1 DEF Checked
  <2> QED
    BY <1>1, <1>2, <1>3, <2>4, <2>6, WriterSees
<1> QED
  BY <1>2, <1>8, <1>9

(* Handlers whose task looks at no use: what they write is looked at by    *)
(* those who use it.                                                       *)
LEMMA LookingAway ==
  ASSUME NEW tree, NEW t,
         t.do \in {"type_assignment", "last_of", "deduce_type", "resolve_call",
                   "set_return_type", "type_pointer"}
  PROVE  Covers(tree, t) = {}
BY DEF Covers, Reaching, Left

LEMMA TypesSee ==
  ASSUME AllInv, Grows(ast, ast'),
         \/ A!TypeAssignmentStep \/ A!DeduceReturnType \/ A!TypePointerStep
         \/ A!SetReturnTypeStep \/ A!LastStays
  PROVE  OperandInv'
<1> DEFINE n == A!Task.node
           Unwatched == {"type_assignment", "last_of", "deduce_type", "resolve_call",
                         "set_return_type", "type_pointer"}
<1>1. /\ "type" \in Annotations /\ "return" \in Annotations /\ "return" # "type"
      /\ \A what \in Unwatched : what \notin Nodeless \cup {"analyze_func", "expect_int"}
  BY DEF Nodeless, Annotations
<1>2. ASSUME NEW what \in Unwatched, A!Doing(what), outcome' = outcome, A!Return,
             analyzer'.tolerant = analyzer.tolerant, errors' = <<>> => errors = <<>>,
             NEW f \in {"type", "return"}, NEW v,
             ast' = ast \/ ast' = [ast EXCEPT ![n] = [@ EXCEPT ![f] = v]]
      PROVE  OperandInv'
  <2>1. A!Task.do = what
    BY <1>2, NowIs
  <2>2. Covers(ast, A!Task) = {}
    BY <1>2, <2>1, LookingAway
  <2>3. f \in Annotations
    BY <1>1, <1>2
  <2> QED
    BY <1>1, <1>2, <2>2, <2>3, WriterSees
<1>3. CASE A!TypeAssignmentStep
  BY <1>2, <1>3 DEF A!TypeAssignmentStep
<1>4. CASE A!DeduceReturnType
  <2>1. A!Doing("deduce_type") /\ A!Return /\ outcome' = outcome
    BY <1>4 DEF A!DeduceReturnType
  <2>2. errors \in Reports(ast) /\ analyzer \in Analyzers(ast)
    BY <2>1, NowIs
  <2>3. analyzer'.tolerant = analyzer.tolerant
    BY <1>4, <2>2 DEF A!DeduceReturnType, Analyzers
  <2>4. errors' = <<>> => errors = <<>>
    <3>1. A!Report("deduction", n) \/ errors' = errors
      BY <1>4 DEF A!DeduceReturnType
    <3> QED
      BY <2>2, <3>1, ReportIsKept
  <2>5. PICK v : ast' = [ast EXCEPT ![n] = [@ EXCEPT !["type"] = v]]
    BY <1>4 DEF A!DeduceReturnType
  <2> QED
    BY <1>2, <2>1, <2>3, <2>4, <2>5
<1>5. CASE A!TypePointerStep
  BY <1>2, <1>5 DEF A!TypePointerStep
<1>6. CASE A!SetReturnTypeStep
  BY <1>2, <1>6 DEF A!SetReturnTypeStep
<1>7. CASE A!LastStays
  BY <1>2, <1>7 DEF A!LastStays
<1> QED
  BY <1>3, <1>4, <1>5, <1>6, <1>7

LEMMA CallsSee ==
  ASSUME AllInv, Grows(ast, ast'),
         A!CallFunction \/ A!CallVariable \/ A!CallUnresolved
  PROVE  OperandInv'
<1> DEFINE n == A!Task.node
<1>1. /\ "type" \in Annotations
      /\ "resolve_call" \notin Nodeless \cup {"analyze_func", "expect_int"}
  BY DEF Nodeless, Annotations
<1>2. A!Doing("resolve_call")
  BY DEF A!CallFunction, A!CallVariable, A!CallUnresolved
<1>3. errors \in Reports(ast) /\ A!Task.do = "resolve_call" /\ outcome = "working"
  BY <1>2, NowIs
<1>4. Covers(ast, A!Task) = {}
  BY <1>3, LookingAway
<1>5. ASSUME outcome' = outcome, A!Return, analyzer' = analyzer,
             errors' = <<>> => errors = <<>>,
             ast' = ast \/ \E v : ast' = [ast EXCEPT ![n] = [@ EXCEPT !["type"] = v]]
      PROVE  OperandInv'
  <2>1. PICK v : ast' = ast \/ ast' = [ast EXCEPT ![n] = [@ EXCEPT !["type"] = v]]
    BY <1>5
  <2> QED
    BY <1>1, <1>2, <1>4, <1>5, <2>1, WriterSees
<1>6. ASSUME NEW type, A!CheckCall(n, type)
      PROVE  /\ errors' = <<>> => errors = <<>>
             /\ ast' = ast \/ \E v : ast' = [ast EXCEPT ![n] = [@ EXCEPT !["type"] = v]]
  <2>1. errors' = <<>> => errors = <<>>
    BY <1>3, <1>6, CallIsKept
  <2>2. ast' = ast \/ \E v : ast' = [ast EXCEPT ![n] = [@ EXCEPT !["type"] = v]]
    BY <1>6 DEF A!CheckCall
  <2> QED
    BY <2>1, <2>2
<1>7. CASE A!CallFunction
  <2>1. PICK type : A!CheckCall(n, type)
    BY <1>7 DEF A!CallFunction
  <2>2. outcome' = outcome /\ A!Return /\ analyzer' = analyzer
    BY <1>7 DEF A!CallFunction
  <2> QED
    BY <1>5, <1>6, <2>1, <2>2
<1>8. CASE A!CallVariable
  <2>1. CASE A!BreakWith("bad_type", ast)
    BY <2>1, BrokenSeen DEF A!BreakWith, A!Breaks
  <2>2. CASE /\ A!Return /\ outcome' = outcome
             /\ \E type : A!CheckCall(n, type)
    <3>1. analyzer' = analyzer
      BY <1>8 DEF A!CallVariable
    <3> QED
      BY <1>5, <1>6, <2>2, <3>1
  <2>3. CASE /\ A!Return /\ outcome' = outcome /\ ast' = ast
             /\ errors' = errors \/ A!Report("call_mismatch", n)
    <3>1. analyzer' = analyzer
      BY <1>8 DEF A!CallVariable
    <3>2. errors' = <<>> => errors = <<>>
      BY <1>3, <2>3, ReportIsKept
    <3> QED
      BY <1>5, <2>3, <3>1, <3>2
  <2> QED
    BY <1>8, <2>1, <2>2, <2>3 DEF A!CallVariable
<1>9. CASE A!CallUnresolved
  <2>1. ast' = ast /\ outcome' = outcome /\ \E message : A!Report(message, n)
    BY <1>9 DEF A!CallUnresolved
  <2> QED
    BY <1>2, <2>1, RefusedVisit
<1> QED
  BY <1>7, <1>8, <1>9

-----------------------------------------------------------------------------
(* Assignments.  The tasks of one still have what is inside the targets    *)
(* before them to visit; a variable has nothing inside.  Nobody uses a     *)
(* target as a number, whatever type it is given.                          *)
Targets(tree, n, k) ==
  {x \in Users(tree) : \E j \in 1 .. k : x \in Under(tree, tree[n].lefts[j])}

LEMMA TargetsCover ==
  ASSUME NEW tree, NEW t
  PROVE  /\ t.do = "assign_to" => Covers(tree, t) = Targets(tree, t.node, t.target)
         /\ t.do = "check_target" => Covers(tree, t) = Targets(tree, t.node, t.target - 1)
         /\ t.do = "check_right"
              => Covers(tree, t)
                   = {x \in Users(tree) : \E j \in DOMAIN tree[t.node].lefts :
                        x \in Under(tree, tree[t.node].lefts[j])}
BY DEF Covers, Reaching, Left, Targets

LEMMA TargetUnused ==
  ASSUME NEW tree, IsTree(tree), Single(tree), NEW n \in Nodes(tree, {"assignment"}),
         NEW k \in DOMAIN tree[n].lefts
  PROVE  \A x \in Users(tree) : tree[n].lefts[k] \notin Operands(tree[x])
<1> SUFFICES ASSUME NEW x \in Users(tree), tree[n].lefts[k] \in Operands(tree[x]) PROVE FALSE
  OBVIOUS
<1>1. tree[n].lefts[k] \in Range(Parts(tree[n])) /\ n \in DOMAIN tree /\ x \in DOMAIN tree
  BY TargetIsOther DEF Nodes, Users
<1>2. x = n
  BY <1>1, UsedByOwner
<1>3. Operands(tree[n]) = {}
  BY DEF Nodes, Operands
<1> QED
  BY <1>2, <1>3

(* What follows a target goes on with those before it.                     *)
LEMMA RestSees ==
  ASSUME NEW tree, IsTree(tree), NEW n \in Nodes(tree, {"assignment"}),
         NEW k \in Nat, k \in DOMAIN tree[n].lefts
  PROVE  LET s == A!TheRest(n, k)
         IN  /\ s \in Seq(Tasks(tree))
             /\ \A i \in DOMAIN s : /\ s[i].do # "leave_analyzer" /\ s[i].node = n
                                    /\ Covers(tree, s[i]) \subseteq Targets(tree, n, k - 1)
             /\ \A x \in Targets(tree, n, k - 1) : Seen(tree, s, x)
<1> DEFINE s == A!TheRest(n, k)
<1>1. s \in Seq(Tasks(tree))
  BY TargetsLeft
<1>2. CASE k = 1
  <2> DEFINE t == A!TypeAssignment(n)
  <2>1. t.do = "type_assignment" /\ t.node = n
    BY DEF A!TypeAssignment
  <2>2. s = <<t>>
    BY <1>2 DEF A!TheRest
  <2>3. Targets(tree, n, k - 1) = {}
    BY <1>2 DEF Targets
  <2>4. Covers(tree, t) = {}
    BY <2>1, LookingAway
  <2> HIDE DEF t, s
  <2> QED
    BY <1>1, <2>1, <2>2, <2>3, <2>4 DEF s
<1>3. CASE k # 1
  <2> DEFINE t == A!AssignTo(n, k - 1)
  <2>1. t.do = "assign_to" /\ t.node = n /\ t.target = k - 1
    BY DEF A!AssignTo
  <2>2. s = <<t>>
    BY <1>3 DEF A!TheRest
  <2> HIDE DEF t, s
  <2>3. Covers(tree, t) = Targets(tree, n, k - 1)
    BY <2>1, TargetsCover
  <2>4. 1 \in DOMAIN s /\ s[1] = t /\ \A i \in DOMAIN s : s[i] = t
    BY <2>2
  <2>5. \A x \in Targets(tree, n, k - 1) : Seen(tree, s, x)
    BY <2>3, <2>4 DEF Seen
  <2> QED
    BY <1>1, <2>1, <2>3, <2>4, <2>5 DEF s
<1> QED
  BY <1>2, <1>3

LEMMA TargetsBefore ==
  ASSUME NEW tree, NEW n, NEW k \in Nat, k > 0
  PROVE  /\ Targets(tree, n, k - 1) \subseteq Targets(tree, n, k)
         /\ \A x \in Targets(tree, n, k) :
              x \in Targets(tree, n, k - 1) \/ x \in Under(tree, tree[n].lefts[k])
<1>1. \A j : j \in 1 .. k <=> j \in 1 .. k - 1 \/ j = k
  OBVIOUS
<1> QED
  BY <1>1 DEF Targets

(* A handler of an assignment, while it has targets to go through.         *)
LEMMA AssigningSees ==
  ASSUME AllInv, Grows(ast, ast'),
         NEW what \in {"check_right", "assign_to", "check_target"}, A!Doing(what),
         outcome' = outcome, analyzer' = analyzer, Kept(ast, ast'),
         errors' = <<>> => errors = <<>>,
         NEW w, Retyped(ast, ast', w), \A x \in Users(ast) : w \notin Operands(ast[x]),
         NEW s \in Seq(Tasks(ast)), A!GoOn(s), Inward(ast, A!Task, s),
         \A i \in DOMAIN s : \/ s[i].node = A!Task.node
                             \/ \A x \in Users(ast) : s[i].node \notin Operands(ast[x]),
         errors' = <<>> /\ ~analyzer.tolerant
           => \A x \in Covers(ast, A!Task) : Seen(ast, s, x)
  PROVE  OperandInv'
<1>1. what \notin Nodeless \cup {"analyze_func"}
  BY DEF Nodeless
<1>2. A!Task.do = what
  BY NowIs
<1>3. Visiting(A!Task)
  BY <1>2 DEF Visiting, Nodeless
<1>4. Expected(ast, A!Task, s)
  BY DEF Expected, AwaitedBy
<1> QED
  BY <1>1, <1>3, <1>4, HandlerSees

LEMMA CheckRightSees ==
  ASSUME AllInv, Grows(ast, ast'), A!CheckRightStep
  PROVE  OperandInv'
<1> DEFINE n == A!Task.node
           k == Len(ast[n].lefts)
           t == A!AssignTo(n, k)
           s == <<t>>
<1>1. /\ A!Doing("check_right") /\ ast' = ast /\ outcome' = outcome /\ analyzer' = analyzer
      /\ "check_right" \notin Nodeless
  BY DEF A!CheckRightStep, Nodeless
<1>2. /\ IsTree(ast) /\ A!Task \in Tasks(ast) /\ A!Task.do = "check_right"
      /\ A!Ref = ast[n] /\ errors \in Reports(ast) /\ (A!Return => A!GoOn(<<>>))
  BY <1>1, NowIs
<1>3. n \in Nodes(ast, {"assignment"})
  BY <1>2, TaskOf
<1>4. /\ k \in Nat /\ k \in DOMAIN ast[n].lefts /\ DOMAIN ast[n].lefts = 1 .. k
  BY <1>2, <1>3, PartsAreNodes, LenProperties, EmptySeq DEF Nodes
<1>5. /\ Kept(ast, ast') /\ Retyped(ast, ast', Null)
      /\ \A x \in Users(ast) : Null \notin Operands(ast[x])
  BY <1>1, <1>2, KeptStays, RetypedStays, NullIsNoUse
<1>6. Covers(ast, A!Task) = Targets(ast, n, k)
  BY <1>2, <1>4, TargetsCover DEF Targets
<1>7. CASE A!GoOn(s) /\ errors' = errors
  <2>1. t \in Tasks(ast)
    BY <1>3, <1>4, TargetsMade
  <2>2. t.do = "assign_to" /\ t.node = n /\ t.target = k
    BY DEF A!AssignTo
  <2> HIDE DEF t
  <2>3. Covers(ast, t) = Targets(ast, n, k)
    BY <2>2, TargetsCover
  <2>4. s \in Seq(Tasks(ast)) /\ 1 \in DOMAIN s /\ s[1] = t /\ \A i \in DOMAIN s : s[i] = t
    BY <2>1
  <2> HIDE DEF s
  <2>5. Inward(ast, A!Task, s)
    BY <1>6, <2>2, <2>3, <2>4 DEF Inward
  <2>6. \A x \in Covers(ast, A!Task) : Seen(ast, s, x)
    BY <1>6, <2>3, <2>4 DEF Seen
  <2> QED
    BY <1>1, <1>5, <1>7, <2>2, <2>4, <2>5, <2>6, AssigningSees
<1>8. CASE A!Return /\ errors' = errors /\ analyzer.tolerant
  <2> DEFINE none == <<>>
  <2>1. none \in Seq(Tasks(ast)) /\ Inward(ast, A!Task, none) /\ A!GoOn(none)
    BY <1>2, <1>8, EmptyGoesOn
  <2>2. DOMAIN none = {}
    OBVIOUS
  <2> HIDE DEF none
  <2> QED
    BY <1>1, <1>5, <1>8, <2>1, <2>2, AssigningSees
<1>9. CASE \E message, m : A!Report(message, m)
  BY <1>1, <1>9, RefusedVisit
<1> QED
  BY <1>2, <1>7, <1>8, <1>9 DEF A!CheckRightStep, A!Tolerant

(* Once a target has been gone through, the handler goes on with the rest, *)
(* or gives up because the types differ, which it reports.                 *)
LEMMA TargetDone ==
  ASSUME AllInv, Grows(ast, ast'),
         A!Doing("assign_to") \/ A!Doing("check_target"),
         outcome' = outcome, analyzer' = analyzer, Kept(ast, ast'),
         errors' = <<>> => errors = <<>>,
         NEW w, Retyped(ast, ast', w), \A x \in Users(ast) : w \notin Operands(ast[x]),
         Targets(ast, A!Task.node, A!Task.target - 1) \subseteq Covers(ast, A!Task),
         Covers(ast, A!Task) \subseteq Targets(ast, A!Task.node, A!Task.target - 1),
         \/ A!GoOn(A!TheRest(A!Task.node, A!Task.target))
         \/ A!Return /\ (errors' = <<>> => analyzer.tolerant)
  PROVE  OperandInv'
<1> DEFINE n == A!Task.node
           k == A!Task.target
           rest == A!TheRest(n, k)
           none == <<>>
<1>1. PICK what \in {"check_right", "assign_to", "check_target"} : A!Doing(what)
  OBVIOUS
<1>2. /\ n \in Nodes(ast, {"assignment"}) /\ k \in Nat /\ k \in DOMAIN ast[n].lefts
      /\ IsTree(ast) /\ (A!Return => A!GoOn(none))
  BY TargetOf, NowIs DEF AllInv
<1>3. CASE A!GoOn(rest)
  <2>1. /\ rest \in Seq(Tasks(ast))
        /\ \A i \in DOMAIN rest : /\ rest[i].do # "leave_analyzer" /\ rest[i].node = n
                                  /\ Covers(ast, rest[i]) \subseteq Targets(ast, n, k - 1)
        /\ \A x \in Targets(ast, n, k - 1) : Seen(ast, rest, x)
    <3> HIDE DEF n, k
    <3> QED
      BY <1>2, RestSees
  <2> HIDE DEF rest
  <2>2. Inward(ast, A!Task, rest)
    BY <2>1 DEF Inward
  <2>3. \A x \in Covers(ast, A!Task) : Seen(ast, rest, x)
    BY <2>1
  <2> QED
    BY <1>1, <1>3, <2>1, <2>2, <2>3, AssigningSees
<1>4. CASE A!Return /\ (errors' = <<>> => analyzer.tolerant)
  <2>1. none \in Seq(Tasks(ast)) /\ Inward(ast, A!Task, none) /\ A!GoOn(none)
    BY <1>2, <1>4, EmptyGoesOn
  <2>2. DOMAIN none = {}
    OBVIOUS
  <2> HIDE DEF none
  <2> QED
    BY <1>1, <1>4, <2>1, <2>2, AssigningSees
<1> QED
  BY <1>3, <1>4

LEMMA CheckTargetSees ==
  ASSUME AllInv, Grows(ast, ast'), A!CheckTargetStep
  PROVE  OperandInv'
<1> DEFINE n == A!Task.node
           k == A!Task.target
           target == A!Ref.lefts[k]
           type == ast[A!Ref.right].type
<1>1. A!Doing("check_target") /\ "check_target" \notin Nodeless
  BY DEF A!CheckTargetStep, Nodeless
<1>2. /\ IsTree(ast) /\ A!Task.do = "check_target" /\ errors \in Reports(ast)
  BY <1>1, NowIs
<1>3. CASE A!BreakWith("bad_type", ast)
  BY <1>3, BrokenSeen DEF A!BreakWith, A!Breaks
<1>4. CASE ~A!BreakWith("bad_type", ast)
  <2>1. /\ A!ExpectTypeEq(target, type) /\ ast' = ast /\ outcome' = outcome
        /\ analyzer' = analyzer
        /\ \/ A!GoOn(A!TheRest(n, k))
           \/ A!Return /\ ~A!Meets(ast[target].type, type)
    BY <1>4 DEF A!CheckTargetStep
  <2> HIDE DEF target, type
  <2>2. /\ errors' = <<>> => errors = <<>>
        /\ errors' = <<>> /\ ~analyzer.tolerant => A!Meets(ast[target].type, type)
    BY <1>2, <2>1, ExpectedIsMet
  <2>3. /\ Kept(ast, ast') /\ Retyped(ast, ast', Null)
        /\ \A x \in Users(ast) : Null \notin Operands(ast[x])
    BY <1>2, <2>1, KeptStays, RetypedStays, NullIsNoUse
  <2>4. Covers(ast, A!Task) = Targets(ast, n, k - 1)
    BY <1>2, TargetsCover
  <2>5. analyzer.tolerant \in BOOLEAN
    BY <1>1, NowIs DEF Analyzers
  <2>6. \/ A!GoOn(A!TheRest(n, k))
        \/ A!Return /\ (errors' = <<>> => analyzer.tolerant)
    BY <2>1, <2>2, <2>5
  <2> QED
    BY <1>1, <2>1, <2>2, <2>3, <2>4, <2>6, TargetDone
<1> QED
  BY <1>3, <1>4

(* The task of assigning to a target.                                      *)
LEMMA AssigningTo ==
  ASSUME AllInv, A!Doing("assign_to")
  PROVE  LET n == A!Task.node
             k == A!Task.target
             target == A!Ref.lefts[k]
         IN  /\ IsTree(ast) /\ n \in Nodes(ast, {"assignment"}) /\ A!Ref = ast[n]
             /\ k \in Nat /\ k \in DOMAIN ast[n].lefts /\ k > 0
             /\ target \in DOMAIN ast /\ target = ast[n].lefts[k]
             /\ \A x \in Users(ast) : target \notin Operands(ast[x])
             /\ Covers(ast, A!Task) = Targets(ast, n, k)
             /\ Targets(ast, n, k - 1) \subseteq Targets(ast, n, k)
             /\ \A x \in Targets(ast, n, k) :
                  x \in Targets(ast, n, k - 1) \/ x \in Under(ast, target)
             /\ ast[target].node = "variable" => Under(ast, target) = {}
<1> DEFINE n == A!Task.node
           k == A!Task.target
           target == A!Ref.lefts[k]
<1>1. /\ IsTree(ast) /\ Single(ast) /\ A!Task.do = "assign_to"
  BY NowIs
<1>2. /\ n \in Nodes(ast, {"assignment"}) /\ A!Ref = ast[n]
      /\ k \in Nat /\ k \in DOMAIN ast[n].lefts /\ target \in DOMAIN ast
  BY TargetOf DEF AllInv
<1>3. k > 0
  BY <1>1, <1>2, PartsAreNodes, LenProperties DEF Nodes
<1>4. \A x \in Users(ast) : target \notin Operands(ast[x])
  BY <1>1, <1>2, TargetUnused
<1>5. Covers(ast, A!Task) = Targets(ast, n, k)
  BY <1>1, TargetsCover
<1> HIDE DEF n, k
<1>6. /\ Targets(ast, n, k - 1) \subseteq Targets(ast, n, k)
      /\ \A x \in Targets(ast, n, k) :
           x \in Targets(ast, n, k - 1) \/ x \in Under(ast, ast[n].lefts[k])
  BY <1>2, <1>3, TargetsBefore
<1>7. ASSUME ast[target].node = "variable" PROVE Under(ast, target) = {}
  <2>1. Operands(ast[target]) = {} /\ Parts(ast[target]) = <<>>
    BY <1>7, PartsBy DEF Operands
  <2> QED
    BY <1>1, <1>2, <2>1, LeafHasNone
<1> QED
  BY <1>1, <1>2, <1>3, <1>4, <1>5, <1>6, <1>7 DEF n, k

LEMMA AssignSees ==
  ASSUME AllInv, Grows(ast, ast'), A!AssignVariable \/ A!AssignElement
  PROVE  OperandInv'
<1> DEFINE n == A!Task.node
           k == A!Task.target
           target == A!Ref.lefts[k]
           t == A!CheckTarget(n, k)
           u == A!Apply(target)
<1>1. /\ A!Doing("assign_to") /\ outcome' = outcome /\ analyzer' = analyzer
      /\ errors' = errors
  BY DEF A!AssignVariable, A!AssignElement
<1>2. /\ IsTree(ast) /\ n \in Nodes(ast, {"assignment"}) /\ target \in DOMAIN ast
      /\ k \in Nat /\ k \in DOMAIN ast[n].lefts
      /\ \A x \in Users(ast) : target \notin Operands(ast[x])
      /\ Covers(ast, A!Task) = Targets(ast, n, k)
      /\ Targets(ast, n, k - 1) \subseteq Targets(ast, n, k)
      /\ \A x \in Targets(ast, n, k) :
           x \in Targets(ast, n, k - 1) \/ x \in Under(ast, target)
      /\ ast[target].node = "variable" => Under(ast, target) = {}
  BY <1>1, AssigningTo
<1>3. t \in Tasks(ast)
  BY <1>2, TargetsMade
<1>4. t.do = "check_target" /\ t.node = n /\ t.target = k
  BY DEF A!CheckTarget
<1>5. Covers(ast, t) = Targets(ast, n, k - 1)
  <2> HIDE DEF t
  <2> QED
    BY <1>4, TargetsCover
<1>6. CASE A!AssignVariable
  <2> DEFINE s == <<t>>
             v == ast[A!Definition(ast[target].name)].type
  <2>1. ast[target].node = "variable" /\ ast' = [ast EXCEPT ![target] = [@ EXCEPT !["type"] = v]]
    <3>1. ast[target].node = "variable"
      BY <1>6 DEF A!AssignVariable
    <3>2. ast' = [ast EXCEPT ![target] = [@ EXCEPT !["type"] = v]]
      BY <1>6 DEF A!AssignVariable
    <3> QED
      BY <3>1, <3>2
  <2> HIDE DEF v, target
  <2>2. A!GoOn(s)
    BY <1>6 DEF A!AssignVariable
  <2> HIDE DEF t
  <2>3. Kept(ast, ast')
    BY <1>2, <2>1, TypeWriteKeeps
  <2>4. Retyped(ast, ast', target)
    BY <2>1, WriteRetypes
  <2>5. s \in Seq(Tasks(ast)) /\ 1 \in DOMAIN s /\ s[1] = t /\ \A i \in DOMAIN s : s[i] = t
    BY <1>3
  <2> HIDE DEF s
  <2>6. Inward(ast, A!Task, s)
    BY <1>2, <1>4, <1>5, <2>5 DEF Inward
  <2>7. \A x \in Covers(ast, A!Task) : Seen(ast, s, x)
    BY <1>2, <1>5, <2>1, <2>5 DEF Seen
  <2> QED
    BY <1>1, <1>2, <1>4, <2>2, <2>3, <2>4, <2>5, <2>6, <2>7, AssigningSees
<1>7. CASE A!AssignElement
  <2> DEFINE s == <<u, t>>
  <2>1. ast' = ast /\ A!GoOn(s)
    BY <1>7 DEF A!AssignElement
  <2>2. Kept(ast, ast') /\ Retyped(ast, ast', target)
    BY <2>1, KeptStays, RetypedStays
  <2>3. u \in Tasks(ast)
    BY <1>2, TasksMade
  <2>4. u.do = "apply" /\ u.node = target /\ \A x \in Under(ast, target) : x \in Covers(ast, u)
    BY TasksCover DEF A!Apply
  <2> HIDE DEF t, u, target
  <2>5. Covers(ast, u) \subseteq Under(ast, target)
    BY <2>4 DEF Covers, Reaching, Left, Under
  <2>6. Under(ast, target) \subseteq Targets(ast, n, k)
    <3>1. target = ast[n].lefts[k] /\ k \in 1 .. k
      BY <1>1, <1>2, AssigningTo DEF target
    <3> QED
      BY <3>1 DEF Targets, Under
  <2>7. /\ s \in Seq(Tasks(ast)) /\ 1 \in DOMAIN s /\ 2 \in DOMAIN s /\ s[1] = u /\ s[2] = t
        /\ \A i \in DOMAIN s : s[i] = u \/ s[i] = t
    BY <1>3, <2>3
  <2> HIDE DEF s
  <2>8. Inward(ast, A!Task, s)
    BY <1>2, <1>4, <1>5, <2>4, <2>5, <2>6, <2>7 DEF Inward
  <2>9. \A x \in Covers(ast, A!Task) : Seen(ast, s, x)
    BY <1>2, <1>5, <2>4, <2>7 DEF Seen
  <2>10. \A i \in DOMAIN s : \/ s[i].node = A!Task.node
                             \/ \A x \in Users(ast) : s[i].node \notin Operands(ast[x])
    BY <1>2, <1>4, <2>4, <2>7
  <2> QED
    BY <1>1, <1>2, <2>1, <2>2, <2>7, <2>8, <2>9, <2>10, AssigningSees
<1> QED
  BY <1>6, <1>7

LEMMA DeclareSees ==
  ASSUME AllInv, Grows(ast, ast'), A!AssignNewVariable
  PROVE  OperandInv'
<1> DEFINE n == A!Task.node
           k == A!Task.target
           target == A!Ref.lefts[k]
           type == ast[A!Ref.right].type
           block == A!Last(analyzer.scopes)
           v == A!Declared(ast[block].stab, ast[target].name, target)
           declared == [ast EXCEPT ![block] = [@ EXCEPT !["stab"] = v]]
           typed == [ast EXCEPT ![target] = [@ EXCEPT !["type"] = type]]
           both == [typed EXCEPT ![block] = [@ EXCEPT !["stab"] = v]]
<1>1. A!Doing("assign_to") /\ ast[target].node = "variable" /\ analyzer' = analyzer
  BY DEF A!AssignNewVariable
<1>2. /\ IsTree(ast) /\ errors \in Reports(ast) /\ analyzer.tolerant \in BOOLEAN
  BY <1>1, NowIs DEF Analyzers
<1>3. /\ \A x \in Users(ast) : target \notin Operands(ast[x])
      /\ Targets(ast, n, k - 1) \subseteq Covers(ast, A!Task)
      /\ Covers(ast, A!Task) \subseteq Targets(ast, n, k - 1)
  BY <1>1, AssigningTo
<1>4. CASE type = A!NoType
  <2>1. outcome' = "bad_type"
    BY <1>4 DEF A!AssignNewVariable, A!BreakWith
  <2> QED
    BY <2>1, BrokenSeen DEF A!Breaks
<1>5. CASE type # A!NoType
  <2>1. /\ outcome' = outcome
        /\ ast' = declared \/ ast' = [declared EXCEPT ![target].type = type]
        /\ errors' = errors \/ A!ExpectTypeEq(target, type)
        /\ \/ A!GoOn(A!TheRest(n, k))
           \/ A!Return /\ A!ExpectTypeEq(target, type) /\ ~A!Meets(ast[target].type, type)
    BY <1>5 DEF A!AssignNewVariable
  <2>2. ast' = declared \/ ast' = both
    <3> HIDE DEF block, target, type, v
    <3> QED
      BY <2>1
  <2>3. "stab" \in Annotations \cup {"stab"} /\ "stab" # "type"
    OBVIOUS
  <2> HIDE DEF block, target, type, v, n, k
  <2>4. IsTree(typed) /\ Grows(ast, typed)
    BY <1>2, <1>5, AnnotateTree DEF Annotations, A!NoType, NoType
  <2>5. Kept(ast, typed) /\ Retyped(ast, typed, target)
    BY <1>2, TypeWriteKeeps, WriteRetypes
  <2>6. Kept(ast, declared) /\ Retyped(ast, declared, target)
    BY <1>2, <2>3, WriteKeeps, WriteRetypes
  <2>7. Kept(ast, both) /\ Retyped(ast, both, target)
    <3> HIDE DEF typed
    <3>1. Kept(typed, both) /\ Retyped(typed, both, target)
      BY <2>3, <2>4, WriteKeeps, WriteRetypes
    <3> HIDE DEF both
    <3>2. Kept(ast, both)
      BY <2>5, <3>1, KeptOn
    <3>3. Retyped(ast, both, target)
      BY <2>5, <3>1 DEF Retyped, Kept
    <3> QED
      BY <3>2, <3>3
  <2> HIDE DEF declared, both
  <2>8. Kept(ast, ast') /\ Retyped(ast, ast', target)
    BY <2>2, <2>6, <2>7
  <2>9. A!ExpectTypeEq(target, type)
          => /\ errors' = <<>> => errors = <<>>
             /\ errors' = <<>> /\ ~analyzer.tolerant => A!Meets(ast[target].type, type)
    BY <1>2, ExpectedIsMet
  <2>10. \/ A!GoOn(A!TheRest(n, k))
         \/ A!Return /\ (errors' = <<>> => analyzer.tolerant)
    BY <1>2, <2>1, <2>9
  <2>11. errors' = <<>> => errors = <<>>
    BY <2>1, <2>9
  <2> QED
    BY <1>1, <1>3, <2>1, <2>8, <2>10, <2>11, TargetDone DEF n, k
<1> QED
  BY <1>4, <1>5

-----------------------------------------------------------------------------
(* The last expression of a block becomes that of a return, which joins a  *)
(* list.                                                                   *)
LEMMA LastSees ==
  ASSUME AllInv, Grows(ast, ast'), A!LastReturns
  PROVE  OperandInv'
<1> DEFINE n     == A!Task.node
           block == A!Returns
           put   == WithReturn(ast, n)
           s     == <<>>
<1>1. /\ A!Doing("last_of") /\ A!Return /\ outcome' = outcome /\ analyzer' = analyzer
      /\ errors' = errors /\ "last_of" \notin Nodeless \cup {"analyze_func"}
  BY DEF A!LastReturns, Nodeless
<1>2. /\ A!Task.do = "last_of" /\ A!GoOn(s)
  BY <1>1, NowIs
<1>3. /\ n \in Nodes(ast, Blocks) /\ ast[n].stmts # <<>>
      /\ IsTree(ast) /\ IsTree(put) /\ Grows(ast, put)
      /\ \E v : ast' = [put EXCEPT ![block] = [@ EXCEPT !["returns"] = v]]
  BY ReturnMade DEF AllInv
<1>4. PICK v : ast' = [put EXCEPT ![block] = [@ EXCEPT !["returns"] = v]]
  BY <1>3
<1>5. Kept(ast, put)
  BY <1>3, ReturnedKeeps
<1>6. Retyped(ast, put, n)
  <2>1. Returned(ast, put, n, Len(ast[n].stmts), Len(ast) + 1)
    <3> HIDE DEF n
    <3> QED
      BY <1>3, ReturnParts
  <2> HIDE DEF put
  <2> QED
    BY <2>1 DEF Returned, Retyped
<1>7. "returns" \in Annotations \cup {"stab"} /\ "returns" # "type"
  BY DEF Annotations
<1> HIDE DEF put, block, s
<1>8. Kept(put, ast') /\ Retyped(put, ast', n)
  BY <1>3, <1>4, <1>7, WriteKeeps, WriteRetypes
<1>9. Kept(ast, ast')
  BY <1>5, <1>8, KeptOn
<1>10. Retyped(ast, ast', n)
  BY <1>5, <1>6, <1>8 DEF Retyped, Kept
<1>11. Visiting(A!Task)
  BY <1>2 DEF Visiting, Nodeless
<1>12. Covers(ast, A!Task) = {}
  BY <1>2, LookingAway
<1>13. s \in Seq(Tasks(ast)) /\ Inward(ast, A!Task, s) /\ Expected(ast, A!Task, s)
  BY EmptyGoesOn DEF s
<1> QED
  BY <1>1, <1>2, <1>9, <1>10, <1>11, <1>12, <1>13, HandlerSees

(* The walk breaks off, or comes to its end: nothing is left to look at,   *)
(* so what is used is fine.                                                *)
LEMMA EndsSee ==
  ASSUME AllInv,
         \/ A!LastTypeMissing \/ A!DeduceFromEmpty \/ A!ReturnOutside
         \/ A!AnalyzeUnnamed \/ A!Finish
  PROVE  OperandInv'
<1>1. CASE A!LastTypeMissing \/ A!DeduceFromEmpty \/ A!ReturnOutside \/ A!AnalyzeUnnamed
  <2>1. outcome' \in A!Breaks
    BY <1>1 DEF A!LastTypeMissing, A!DeduceFromEmpty, A!ReturnOutside,
                A!AnalyzeUnnamed, A!Break, A!BreakWith, A!Breaks
  <2> QED
    BY <2>1, BrokenSeen
<1>2. CASE A!Finish
  <2>1. /\ outcome = "working" /\ outcome' = "done" /\ todo = <<>>
        /\ ast' = ast /\ errors' = errors
    BY <1>2 DEF A!Finish
  <2>2. Placed(ast)
    BY <2>1 DEF AllInv, OperandInv
  <2>3. ASSUME errors = <<>>, NEW n \in DOMAIN ast, NEW e \in Operands(ast[n])
        PROVE  Fine(ast[e].type)
    <3>1. n \in Users(ast)
      BY DEF Users
    <3>2. AllSeen(ast, todo)
      BY <2>1, <2>3 DEF AllInv, OperandInv
    <3>3. ~Seen(ast, todo, n)
      BY <2>1 DEF Seen
    <3> QED
      BY <3>1, <3>2, <3>3 DEF AllSeen, Checked
  <2>4. OperandsAreInts'
    BY <2>1, <2>3 DEF OperandsAreInts, Accepted, Fine
  <2> QED
    BY <2>1, <2>2, <2>4 DEF OperandInv
<1> QED
  BY <1>1, <1>2

(* The root, and all there is.                                             *)
LEMMA MainSees ==
  ASSUME AllInv, A!AnalyzeMainStep
  PROVE  OperandInv'
<1> DEFINE n == A!Task.node
           t == A!Apply(n)
           s == <<t>>
<1>1. /\ A!Doing("analyze_main") /\ ast' = ast /\ outcome' = outcome /\ analyzer' = analyzer
      /\ "analyze_main" \notin Nodeless \cup {"analyze_func"} /\ "analyze_main" \notin Nodeless
  BY DEF A!AnalyzeMainStep, Nodeless
<1>2. /\ IsTree(ast) /\ n \in DOMAIN ast /\ A!Task \in Tasks(ast)
      /\ A!Task.do = "analyze_main" /\ A!Ref = ast[n]
  BY <1>1, NowIs
<1>3. CASE A!Report("syntax_error", n)
  BY <1>1, <1>3, RefusedVisit
<1>4. CASE A!GoOn(s) /\ errors' = errors
  <2>1. t \in Tasks(ast)
    BY <1>2, TasksMade
  <2>2. t.do = "apply" /\ t.node = n
    BY DEF A!Apply
  <2>3. Kept(ast, ast') /\ Retyped(ast, ast', n) /\ Grows(ast, ast')
    BY <1>1, KeptStays, RetypedStays DEF Grows
  <2>4. Visiting(A!Task)
    BY <1>2 DEF Visiting, Nodeless
  <2> HIDE DEF t
  <2>5. Covers(ast, t) = Covers(ast, A!Task)
    BY <1>2, <2>2 DEF Covers, Reaching, Left
  <2>6. s \in Seq(Tasks(ast)) /\ 1 \in DOMAIN s /\ s[1] = t /\ \A i \in DOMAIN s : s[i] = t
    BY <2>1
  <2> HIDE DEF s
  <2>7. Inward(ast, A!Task, s) /\ Expected(ast, A!Task, s)
    BY <2>2, <2>5, <2>6 DEF Inward, Expected
  <2>8. \A x \in Covers(ast, A!Task) : Seen(ast, s, x)
    BY <2>5, <2>6 DEF Seen
  <2> QED
    BY <1>1, <1>4, <2>3, <2>4, <2>6, <2>7, <2>8, HandlerSees
<1> QED
  BY <1>2, <1>3, <1>4 DEF A!AnalyzeMainStep

-----------------------------------------------------------------------------
(* Functions.  Their handlers write nothing and change the analyzer.       *)
LEMMA QuietWork ==
  ASSUME AllInv, NEW what, A!Doing(what), outcome' = outcome, UNCHANGED <<ast, errors>>,
         NEW s \in Seq(Tasks(ast)), Visiting(A!Task) \/ s = <<>>,
         Expected(ast, A!Task, s), A!GoOn(s),
         \A x \in Covers(ast, A!Task) : Seen(ast, s, x),
         Repeats(ast, todo, analyzer.tolerant)
           => Repeats(ast, s \o Tail(todo), analyzer'.tolerant)
  PROVE  OperandInv'
<1>1. /\ outcome = "working" /\ IsTree(ast) /\ OperandInv /\ ast' = ast /\ errors' = errors
  BY NowIs
<1>2. /\ Kept(ast, ast') /\ Retyped(ast, ast', Null) /\ Grows(ast, ast')
      /\ \A x \in Users(ast) : Null \notin Operands(ast[x])
  BY <1>1, KeptStays, RetypedStays, NullIsNoUse DEF Grows
<1>3. CASE errors # <<>>
  BY <1>1, <1>2, <1>3, RefusedSeen
<1>4. CASE errors = <<>>
  <2>1. Repeats(ast, s \o Tail(todo), analyzer'.tolerant)
    BY <1>1, <1>4 DEF OperandInv
  <2> DEFINE tolerant == FALSE
  <2>2. /\ tolerant => analyzer.tolerant /\ what # "analyze_func"
        /\ ~tolerant => \A x \in Covers(ast, A!Task) : Checked(ast', x) \/ Seen(ast, s, x)
    OBVIOUS
  <2> HIDE DEF tolerant
  <2> QED
    BY <1>1, <1>2, <1>4, <2>1, <2>2, WorkGoesOn
<1> QED
  BY <1>3, <1>4

(* The analyzer around a function waits for a pass of its own, if it is    *)
(* tolerant, that comes after the function.                                *)
LEMMA DefinitionSees ==
  ASSUME AllInv, A!AnalyzeDefinition
  PROVE  OperandInv'
<1> DEFINE n == A!Task.node
           recursive == A!IsFunction(A!Ref.name) /\ functions[A!Ref.name].recursive
           t == A!AnalyzeFunc(n, recursive)
           u == A!LeaveAnalyzer(analyzer)
           s == <<t, u>>
<1>1. /\ A!Doing("apply") /\ ast[n].node = "function_definition" /\ outcome' = outcome
      /\ UNCHANGED <<ast, errors>> /\ A!GoOn(s) /\ "apply" \notin Nodeless
  BY DEF A!AnalyzeDefinition, A!Applying, Nodeless
<1>2. analyzer'.tolerant = FALSE
  BY DEF A!AnalyzeDefinition
<1>3. /\ IsTree(ast) /\ n \in DOMAIN ast /\ A!Task.do = "apply" /\ todo # <<>>
      /\ todo \in Seq(Tasks(ast)) /\ analyzer \in Analyzers(ast)
  BY <1>1, NowIs
<1>4. t \in Tasks(ast) /\ u \in Tasks(ast)
  <2>1. recursive \in BOOLEAN
    BY DEF A!IsFunction
  <2> HIDE DEF recursive
  <2>2. t \in Tasks(ast)
    BY <1>1, <1>3, <2>1, TasksMade
  <2>3. u \in Tasks(ast)
    BY <1>3, LeaveMade
  <2> QED
    BY <2>2, <2>3
<1>5. /\ t.do = "analyze_func" /\ t.node = n
      /\ u.do = "leave_analyzer" /\ u.outer = analyzer
  BY DEF A!AnalyzeFunc, A!LeaveAnalyzer
<1> HIDE DEF t, u, recursive
<1>6. Covers(ast, t) = Covers(ast, A!Task) /\ Covers(ast, u) = {}
  BY <1>3, <1>5 DEF Covers, Reaching, Left
<1>7. /\ s \in Seq(Tasks(ast)) /\ DOMAIN s = {1, 2} /\ s[1] = t /\ s[2] = u /\ Len(s) = 2
  BY <1>4
<1> HIDE DEF s
<1>8. Visiting(A!Task) /\ ~Visiting(u)
  BY <1>3, <1>5 DEF Visiting, Nodeless
<1>9. Expected(ast, A!Task, s)
  BY <1>5, <1>7, <1>8 DEF Expected
<1>10. \A x \in Covers(ast, A!Task) : Seen(ast, s, x)
  BY <1>6, <1>7 DEF Seen
<1>11. ASSUME Repeats(ast, todo, analyzer.tolerant)
       PROVE  Repeats(ast, s \o Tail(todo), FALSE)
  <2>1. ASSUME analyzer.tolerant PROVE Again(ast, s \o Tail(todo), 2)
    <3>1. Again(ast, todo, 0) /\ Head(todo).do # "analyze_func"
      BY <1>3, <1>11, <2>1 DEF Repeats, A!Task
    <3>2. \A i \in DOMAIN s : Covers(ast, s[i]) \subseteq Covers(ast, Head(todo))
      BY <1>6, <1>7 DEF A!Task
    <3>3. 2 \in 0 .. Len(s)
      BY <1>7
    <3> QED
      BY <1>3, <1>7, <3>1, <3>2, <3>3, AgainOn
  <2>2. \A k \in DOMAIN s : s[k].do = "leave_analyzer" /\ s[k].outer.tolerant
                              => Again(ast, s \o Tail(todo), k)
    BY <1>5, <1>7, <2>1
  <2> DEFINE tolerant == FALSE
  <2>3. tolerant => Again(ast, s \o Tail(todo), 0)
    OBVIOUS
  <2> HIDE DEF tolerant
  <2>4. Repeats(ast, s \o Tail(todo), tolerant)
    BY <1>3, <1>7, <1>11, <2>2, <2>3, RepeatsLater
  <2> QED
    BY <2>4 DEF tolerant
<1> QED
  BY <1>1, <1>2, <1>7, <1>8, <1>9, <1>10, <1>11, QuietWork

(* The analyzer around is back, and as it was.                             *)
LEMMA LeaveSees ==
  ASSUME AllInv, A!LeaveAnalyzerStep
  PROVE  OperandInv'
<1> DEFINE outer == A!Task.outer
           s == <<>>
<1>1. /\ A!Doing("leave_analyzer") /\ outcome' = outcome /\ UNCHANGED <<ast, errors>>
      /\ analyzer' = outer /\ A!Return
  BY DEF A!LeaveAnalyzerStep
<1>2. /\ A!Task.do = "leave_analyzer" /\ todo # <<>> /\ A!GoOn(s)
      /\ todo \in Seq(Tasks(ast))
  BY <1>1, NowIs
<1>3. Covers(ast, A!Task) = {}
  BY <1>2, NodelessCovers DEF Nodeless
<1>4. s \in Seq(Tasks(ast)) /\ Expected(ast, A!Task, s)
  BY EmptyGoesOn
<1>5. ASSUME Repeats(ast, todo, analyzer.tolerant)
      PROVE  Repeats(ast, s \o Tail(todo), outer.tolerant)
  <2>1. /\ Len(s) = 0 /\ DOMAIN s = {}
    OBVIOUS
  <2> DEFINE all == s \o Tail(todo)
  <2>2. /\ DOMAIN todo \subseteq Nat /\ DOMAIN all \subseteq Nat
        /\ 1 \in DOMAIN todo /\ todo[1] = A!Task
        /\ \A j \in DOMAIN todo : j > 1 => j - 1 \in DOMAIN all /\ all[j - 1] = todo[j]
        /\ \A k \in DOMAIN all : /\ k + 1 \in DOMAIN todo /\ k + 1 > 1
                                 /\ all[k] = todo[k + 1]
    <3> DEFINE L == Len(s)
    <3>1. /\ L \in Nat /\ DOMAIN s = 1 .. L /\ DOMAIN todo \subseteq Nat
          /\ DOMAIN all \subseteq Nat
          /\ 1 \in DOMAIN todo /\ todo[1] = Head(todo)
          /\ \A k \in DOMAIN s : k \in DOMAIN all /\ all[k] = s[k]
          /\ \A j \in DOMAIN todo :
               j > 1 => j - 1 + L \in DOMAIN all /\ all[j - 1 + L] = todo[j]
          /\ \A k \in DOMAIN all \ DOMAIN s :
               /\ k - L + 1 \in DOMAIN todo /\ k - L + 1 > 1
               /\ all[k] = todo[k - L + 1]
      <4> HIDE DEF s
      <4> QED
        BY <1>2, <1>4, ShiftIs
    <3>2. L = 0 /\ DOMAIN s = {}
      BY <2>1
    <3> HIDE DEF L, s, all
    <3>3. /\ \A j \in DOMAIN todo : j - 1 + L = j - 1
          /\ \A k \in DOMAIN all : k - L + 1 = k + 1
      BY <3>1, <3>2
    <3> QED
      BY <3>1, <3>2, <3>3 DEF A!Task
  <2>3. ASSUME outer.tolerant PROVE Again(ast, s \o Tail(todo), 0)
    <3>1. Again(ast, todo, 1)
      BY <1>2, <1>5, <2>2, <2>3 DEF Repeats
    <3>2. PICK j \in DOMAIN todo :
            /\ j > 1 /\ todo[j].do = "analyze_func"
            /\ \A i \in DOMAIN todo : 1 < i /\ i < j => Covers(ast, todo[i]) \subseteq Covers(ast, todo[j])
      BY <3>1 DEF Again
    <3> HIDE DEF all
    <3>3. j - 1 \in DOMAIN all /\ j - 1 > 0 /\ all[j - 1] = todo[j]
      BY <2>2, <3>2
    <3>4. ASSUME NEW i \in DOMAIN all, i < j - 1
          PROVE  Covers(ast, all[i]) \subseteq Covers(ast, all[j - 1])
      <4>1. i + 1 \in DOMAIN todo /\ 1 < i + 1 /\ i + 1 < j /\ all[i] = todo[i + 1]
        BY <2>2, <3>4
      <4> QED
        BY <3>2, <3>3, <4>1
    <3> QED
      BY <3>2, <3>3, <3>4 DEF Again, all
  <2>4. \A k \in DOMAIN s : s[k].do = "leave_analyzer" /\ s[k].outer.tolerant
                              => Again(ast, s \o Tail(todo), k)
    BY <2>1
  <2> HIDE DEF s
  <2> QED
    BY <1>2, <1>4, <1>5, <2>3, <2>4, RepeatsLater
<1> HIDE DEF s
<1>6. analyzer'.tolerant = outer.tolerant
  BY <1>1
<1>7. s = <<>>
  BY DEF s
<1> QED
  BY <1>1, <1>2, <1>3, <1>4, <1>5, <1>6, <1>7, QuietWork

(* What is inside a function is inside its body: parameters are variables. *)
LEMMA UnderBody ==
  ASSUME NEW tree, IsTree(tree), Placed(tree), Single(tree),
         NEW n \in DOMAIN tree, tree[n].node = "function_definition"
  PROVE  /\ tree[n].body \in Range(Parts(tree[n]))
         /\ Under(tree, n) \subseteq Under(tree, tree[n].body)
         /\ \A x \in Users(tree) : tree[n].body \notin Operands(tree[x])
<1> DEFINE params == tree[n].params
           body   == tree[n].body
<1>1. Operands(tree[n]) = {} /\ Parts(tree[n]) = Append(params, body)
  BY PartsBy DEF Operands
<1>2. params \in Seq(DOMAIN tree) /\ body \in DOMAIN tree
  BY DEF IsTree, IsNode, Blocks
<1>3. Range(Parts(tree[n])) \subseteq Range(params) \cup {body} /\ body \in Range(Parts(tree[n]))
  <2> HIDE DEF params, body
  <2>1. /\ Len(params) \in Nat /\ DOMAIN params = 1 .. Len(params)
        /\ DOMAIN Append(params, body) = 1 .. Len(params) + 1
        /\ Append(params, body)[Len(params) + 1] = body
        /\ \A k \in 1 .. Len(params) : Append(params, body)[k] = params[k]
    BY <1>2, LenProperties, AppendProperties
  <2> QED
    BY <1>1, <2>1 DEF Range
<1>4. ASSUME NEW x \in Under(tree, n) PROVE x \in Under(tree, body)
  <2>1. x # n /\ x \in Within(tree, n)
    BY <1>1 DEF Under, Users
  <2>2. PICK p \in Range(Parts(tree[n])) : x \in Within(tree, p)
    BY <2>1, InsideIs
  <2>3. p \notin Range(params)
    <3> SUFFICES ASSUME p \in Range(params) PROVE FALSE
      OBVIOUS
    <3>1. tree[p].node = "variable" /\ p \in DOMAIN tree
      BY <2>2, PartsInTree DEF Placed
    <3>2. Operands(tree[p]) = {} /\ Parts(tree[p]) = <<>>
      BY <3>1, PartsBy DEF Operands
    <3>3. Under(tree, p) = {}
      BY <3>1, <3>2, LeafHasNone
    <3> QED
      BY <2>2, <3>3 DEF Under
  <2>4. p = body
    BY <1>3, <2>3
  <2> QED
    BY <2>2, <2>4 DEF Under
<1>5. ASSUME NEW x \in Users(tree), body \in Operands(tree[x]) PROVE FALSE
  <2>1. x = n
    BY <1>3, <1>5, UsedByOwner DEF Users
  <2> QED
    BY <1>1, <1>5, <2>1
<1> QED
  BY <1>3, <1>4, <1>5

(* The tolerant pass over a function that calls itself is in the reach of  *)
(* the one that comes after it.                                            *)
LEMMA FunctionSees ==
  ASSUME AllInv, A!AnalyzeFuncStep
  PROVE  OperandInv'
<1> DEFINE n == A!Task.node
           recursive == A!Task.recursive
           t == A!Apply(ast[n].body)
           u == A!SetReturnType(n)
           v == A!AnalyzeFunc(n, FALSE)
           again == IF recursive THEN <<v>> ELSE <<>>
           s == IF recursive THEN <<t, u, v>> ELSE <<t, u>>
<1>1. /\ A!Doing("analyze_func") /\ outcome' = outcome /\ ast' = ast
      /\ "analyze_func" \notin Nodeless
  BY DEF A!AnalyzeFuncStep, Nodeless
<1>2. /\ IsTree(ast) /\ n \in DOMAIN ast /\ A!Task.do = "analyze_func" /\ todo # <<>>
      /\ todo \in Seq(Tasks(ast)) /\ analyzer \in Analyzers(ast) /\ A!Task \in Tasks(ast)
      /\ A!Ref = ast[n] /\ Placed(ast) /\ Single(ast)
  BY <1>1, NowIs
<1>3. ast[n].node = "function_definition" /\ recursive \in BOOLEAN
  BY <1>2, TaskOf DEF Nodes
<1>4. analyzer'.tolerant = recursive
  BY <1>2 DEF A!AnalyzeFuncStep, A!WithScope, Analyzers
<1>5. CASE A!Report("syntax_error", A!Ref.body)
  BY <1>1, <1>5, RefusedVisit
<1>6. CASE A!GoOn(<<t, u>> \o again) /\ errors' = errors
  <2>1. t \in Tasks(ast) /\ u \in Tasks(ast) /\ v \in Tasks(ast)
    <3>1. t \in Tasks(ast) /\ u \in Tasks(ast)
      BY <1>2, <1>3, PartsAreNodes, TasksMade
    <3>2. v \in Tasks(ast)
      BY <1>2, <1>3, TasksMade, Zenon
    <3> QED
      BY <3>1, <3>2
  <2>2. /\ t.do = "apply" /\ t.node = ast[n].body
        /\ u.do = "set_return_type" /\ u.node = n
        /\ v.do = "analyze_func" /\ v.node = n
    BY DEF A!Apply, A!SetReturnType, A!AnalyzeFunc
  <2> HIDE DEF t, u, v
  <2>3. A!GoOn(s)
    <3>1. <<t, u>> \o <<v>> = <<t, u, v>> /\ <<t, u>> \o <<>> = <<t, u>>
      <4> DEFINE two   == <<t, u>>
                 one   == <<v>>
                 three == <<t, u, v>>
                 T     == {t, u, v}
      <4>1. /\ two \in Seq(T) /\ Len(two) = 2 /\ two[1] = t /\ two[2] = u
            /\ one \in Seq(T) /\ Len(one) = 1 /\ one[1] = v
            /\ three \in Seq(T) /\ Len(three) = 3
            /\ three[1] = t /\ three[2] = u /\ three[3] = v
        OBVIOUS
      <4> HIDE DEF two, one, three, T
      <4>2. two \o <<>> = two
        BY <4>1, ConcatEmptySeq
      <4>3. /\ two \o one \in Seq(T) /\ Len(two \o one) = 3
            /\ (two \o one)[1] = t /\ (two \o one)[2] = u /\ (two \o one)[3] = v
        <5>1. /\ two \o one \in Seq(T)
              /\ Len(two \o one) = Len(two) + Len(one)
              /\ \A i \in 1 .. Len(two) + Len(one) :
                   (two \o one)[i] = IF i <= Len(two) THEN two[i] ELSE one[i - Len(two)]
          BY <4>1, ConcatProperties
        <5>2. Len(two) + Len(one) = 3 /\ 3 - Len(two) = 1
          BY <4>1
        <5>3. /\ 1 \in 1 .. Len(two) + Len(one) /\ 1 <= Len(two)
              /\ 2 \in 1 .. Len(two) + Len(one) /\ 2 <= Len(two)
              /\ 3 \in 1 .. Len(two) + Len(one) /\ ~(3 <= Len(two))
          BY <4>1
        <5>4. (two \o one)[1] = two[1] /\ (two \o one)[2] = two[2]
          BY <5>1, <5>3
        <5>5. (two \o one)[3] = one[1]
          BY <5>1, <5>2, <5>3
        <5> QED
          BY <4>1, <5>1, <5>2, <5>4, <5>5
      <4>4. \A i \in 1 .. Len(two \o one) : (two \o one)[i] = three[i]
        BY <4>1, <4>3
      <4>5. two \o one = three
        BY <4>1, <4>3, <4>4, SeqEqual
      <4> QED
        BY <4>2, <4>5 DEF two, one, three
    <3>2. <<t, u>> \o again = s
      <4>1. CASE recursive = TRUE
        <5>1. again = <<v>> /\ s = <<t, u, v>>
          BY <4>1
        <5> HIDE DEF again, s
        <5> QED
          BY <3>1, <5>1
      <4>2. CASE recursive = FALSE
        <5>1. again = <<>> /\ s = <<t, u>>
          BY <4>2
        <5> HIDE DEF again, s
        <5> QED
          BY <3>1, <5>1
      <4> QED
        BY <1>3, <4>1, <4>2
    <3> HIDE DEF again, s
    <3> QED
      BY <1>6, <3>2
  <2>4. /\ s \in Seq(Tasks(ast)) /\ 1 \in DOMAIN s /\ s[1] = t
        /\ \A i \in DOMAIN s : s[i] \in {t, u, v}
        /\ recursive => /\ 3 \in DOMAIN s /\ s[3] = v
                        /\ \A i \in DOMAIN s : i < 3 => s[i] \in {t, u}
    <3>1. CASE recursive = TRUE
      <4>1. s = <<t, u, v>>
        BY <3>1
      <4> HIDE DEF s
      <4> QED
        BY <2>1, <4>1
    <3>2. CASE recursive = FALSE
      <4>1. s = <<t, u>>
        BY <3>2
      <4> HIDE DEF s
      <4> QED
        BY <2>1, <3>2, <4>1
    <3> QED
      BY <1>3, <3>1, <3>2
  <2> HIDE DEF s
  <2>5. /\ Under(ast, n) \subseteq Under(ast, t.node)
        /\ \A x \in Users(ast) : t.node \notin Operands(ast[x])
    BY <1>2, <1>3, <2>2, UnderBody
  <2>6. /\ Covers(ast, A!Task) = Under(ast, n) /\ Covers(ast, v) = Under(ast, n)
        /\ Covers(ast, t) = Under(ast, t.node) /\ Covers(ast, u) = {}
    BY <1>2, <2>2 DEF Covers, Reaching, Left, Under
  <2>7. Under(ast, t.node) \subseteq Under(ast, n)
    <3>1. t.node \in Range(Parts(ast[n]))
      BY <1>2, <1>3, <2>2, UnderBody
    <3> QED
      BY <3>1, InPart DEF Under
  <2>8. \A x \in Covers(ast, A!Task) : Seen(ast, s, x)
    BY <2>4, <2>5, <2>6 DEF Seen
  <2>9. Visiting(A!Task)
    BY <1>2 DEF Visiting, Nodeless
  <2>10. Expected(ast, A!Task, s)
    BY <2>2, <2>4, <2>5 DEF Expected, AwaitedBy
  <2>11. ASSUME Repeats(ast, todo, analyzer.tolerant)
         PROVE  Repeats(ast, s \o Tail(todo), recursive)
    <3> DEFINE all == s \o Tail(todo)
    <3>1. /\ DOMAIN s \subseteq Nat
          /\ \A k \in DOMAIN s : k \in DOMAIN all /\ all[k] = s[k]
          /\ \A k \in DOMAIN all : k < 3 /\ 3 \in DOMAIN s /\ k > 0 => k \in DOMAIN s
      <4> DEFINE L == Len(s)
      <4>1. /\ L \in Nat /\ DOMAIN s = 1 .. L /\ DOMAIN todo \subseteq Nat
            /\ DOMAIN all \subseteq Nat
            /\ 1 \in DOMAIN todo /\ todo[1] = Head(todo)
            /\ \A k \in DOMAIN s : k \in DOMAIN all /\ all[k] = s[k]
            /\ \A j \in DOMAIN todo :
                 j > 1 => j - 1 + L \in DOMAIN all /\ all[j - 1 + L] = todo[j]
            /\ \A k \in DOMAIN all \ DOMAIN s :
                 /\ k - L + 1 \in DOMAIN todo /\ k - L + 1 > 1
                 /\ all[k] = todo[k - L + 1]
        BY <1>2, <2>4, ShiftIs
      <4> HIDE DEF L, all
      <4> QED
        BY <4>1
    <3>2. ASSUME recursive PROVE Again(ast, s \o Tail(todo), 0)
      <4>1. /\ 3 \in DOMAIN all /\ all[3].do = "analyze_func" /\ 3 > 0
            /\ Covers(ast, all[3]) = Under(ast, n)
        BY <2>2, <2>4, <2>6, <3>1, <3>2
      <4> HIDE DEF all
      <4>2. ASSUME NEW i \in DOMAIN all, 0 < i, i < 3
            PROVE  Covers(ast, all[i]) \subseteq Under(ast, n)
        <5>1. all[i] \in {t, u}
          BY <2>4, <3>1, <3>2, <4>2
        <5> QED
          BY <2>6, <2>7, <5>1
      <4> QED
        BY <4>1, <4>2 DEF Again, all
    <3>3. \A k \in DOMAIN s : s[k].do = "leave_analyzer" /\ s[k].outer.tolerant
                                => Again(ast, s \o Tail(todo), k)
      BY <2>2, <2>4
    <3> QED
      BY <1>2, <2>4, <2>11, <3>2, <3>3, RepeatsLater
  <2> QED
    BY <1>1, <1>4, <1>6, <2>3, <2>4, <2>8, <2>9, <2>10, <2>11, QuietWork
<1> QED
  BY <1>2, <1>5, <1>6 DEF A!AnalyzeFuncStep

(* Whatever the analyser does.                                             *)
LEMMA AnalyzeSees ==
  ASSUME AllInv, A!AnalyzeStep
  PROVE  OperandInv'
<1>1. IInv /\ Collects(ast)
  BY DEF AllInv, TypeInv
<1>2. Grows(ast, ast')
  BY <1>1, AnalyzeRewrites DEF Rewritten
<1> QED
  BY <1>2, LeafSees, VariableSees, SubscriptSees, PointerSees, BlockSees, ReturnSees,
     IntSees, OperatorSees, TypesSee, CallsSee, CheckRightSees, AssignSees, DeclareSees,
     CheckTargetSees, LastSees, EndsSee, MainSees, DefinitionSees, LeaveSees, FunctionSees
     DEF A!AnalyzeStep

-----------------------------------------------------------------------------
(* Nobody uses the root.                                                   *)
LEMMA RootUnused ==
  ASSUME NEW tree, IsTree(tree), NEW top, top \notin Owned(tree),
         NEW n \in DOMAIN tree
  PROVE  top \notin Operands(tree[n])
<1> SUFFICES ASSUME top \in Operands(tree[n]) PROVE FALSE
  OBVIOUS
<1>1. top \in Range(Parts(tree[n]))
  BY OperandsAreParts DEF IsTree
<1>2. PICK i \in DOMAIN Parts(tree[n]) : Parts(tree[n])[i] = top
  BY <1>1 DEF Range
<1>3. <<n, i>> \in Links(tree) /\ Target(tree, <<n, i>>) = top
  BY <1>2 DEF Links, Target
<1> QED
  BY <1>3 DEF Owned

(* The analysis begins with everything in its reach.                       *)
LEMMA BeginSees ==
  ASSUME AllInv, BeginAnalysis
  PROVE  OperandInv'
<1> DEFINE t == A!AnalyzeMain(root)
<1>1. /\ outcome = "exploring" /\ ast' = ast /\ errors' = errors
      /\ analyzer' = analyzer /\ root' = root
  BY DEF BeginAnalysis
<1>2. /\ Placed(ast) /\ ~analyzer.tolerant /\ IsTree(ast)
      /\ \A n \in DOMAIN ast : root # Null /\ n \in Within(ast, root)
      /\ root \notin Owned(ast)
  BY <1>1 DEF AllInv, OperandInv, IInv, StaysTree, OwnedOnce
<1>3. CASE root = Null
  <2>1. outcome' = "done" /\ DOMAIN ast = {}
    BY <1>2, <1>3 DEF BeginAnalysis
  <2>2. OperandsAreInts'
    BY <1>1, <2>1 DEF OperandsAreInts
  <2> QED
    BY <1>1, <1>2, <2>1, <2>2 DEF OperandInv
<1>4. CASE root # Null
  <2>1. outcome' = "working" /\ todo' = <<t>>
    BY <1>4 DEF BeginAnalysis
  <2>2. t.do = "analyze_main" /\ t.node = root
    BY DEF A!AnalyzeMain
  <2> HIDE DEF t
  <2>3. DOMAIN <<t>> = {1} /\ <<t>>[1] = t
    OBVIOUS
  <2>4. AllSeen(ast, <<t>>)
    <3>1. \A n \in Users(ast) : n \in Covers(ast, t)
      BY <1>2, <2>2 DEF Covers, Under, Reaching, Users
    <3> QED
      BY <2>3, <3>1 DEF AllSeen, Seen
  <2>5. Awaited(ast, <<t>>)
    <3>1. \A n \in Users(ast) : root \notin Operands(ast[n])
      BY <1>2, RootUnused DEF Users
    <3> QED
      BY <2>2, <2>3, <3>1 DEF Awaited, AwaitedBy
  <2>6. Repeats(ast, <<t>>, analyzer.tolerant)
    BY <1>2, <2>2, <2>3 DEF Repeats
  <2> QED
    BY <1>1, <1>2, <2>1, <2>4, <2>5, <2>6 DEF OperandInv
<1> QED
  BY <1>3, <1>4

(* A field written keeps all that is inside the root inside it.            *)
LEMMA WriteInside ==
  ASSUME NEW tree, IsTree(tree), NEW m, NEW f \in Annotations \cup {"stab"}, NEW v, NEW top
  PROVE  LET new == [tree EXCEPT ![m] = [@ EXCEPT ![f] = v]]
         IN  DOMAIN new = DOMAIN tree /\ Within(new, top) = Within(tree, top)
<1> DEFINE new == [tree EXCEPT ![m] = [@ EXCEPT ![f] = v]]
<1>1. /\ DOMAIN new = DOMAIN tree
      /\ \A k \in DOMAIN tree :
           /\ DOMAIN new[k] = DOMAIN tree[k]
           /\ \A g \in DOMAIN tree[k] : g # f => new[k][g] = tree[k][g]
  OBVIOUS
<1> HIDE DEF new
<1>2. \A k \in DOMAIN tree : Parts(new[k]) = Parts(tree[k])
  BY <1>1, PartsStay DEF IsTree
<1>3. Within(new, top) = Within(tree, top)
  BY <1>1, <1>2, SameWithin DEF SameParts
<1> QED
  BY <1>1, <1>3 DEF new

(* The explorer writes names and links to definitions only.                *)
LEMMA ExploreSees ==
  ASSUME AllInv, ExploreTree
  PROVE  OperandInv'
<1> DEFINE Stays == /\ Placed(ast') /\ DOMAIN ast' = DOMAIN ast
                    /\ Within(ast', root) = Within(ast, root)
<1>1. /\ outcome = "exploring" /\ outcome' \in {"exploring", "unnamed"}
      /\ analyzer' = analyzer /\ root' = root
  BY DEF ExploreTree, E!ExploreStep, E!ExploreChildren, E!ExploreDefinition,
         E!ExploreRedefinition, E!ExploreUnnamed, E!LeaveFunction,
         E!ExploreCall, E!ExploreFunctionPtr, E!Exploring, E!Doing
<1>2. /\ IsTree(ast) /\ Placed(ast) /\ ~analyzer.tolerant
      /\ \A n \in DOMAIN ast : root # Null /\ n \in Within(ast, root)
  BY <1>1 DEF AllInv, OperandInv, IInv
<1>3. Stays
  <2>1. ASSUME NEW m, NEW f \in Annotations \cup {"stab"}, NEW v,
               ast' = [ast EXCEPT ![m] = [@ EXCEPT ![f] = v]]
        PROVE  Stays
    <3>1. Kept(ast, [ast EXCEPT ![m] = [@ EXCEPT ![f] = v]])
      BY <1>2, WriteKeeps
    <3>2. Placed(ast')
      BY <1>2, <2>1, <3>1 DEF Kept
    <3>3. LET new == [ast EXCEPT ![m] = [@ EXCEPT ![f] = v]]
          IN  DOMAIN new = DOMAIN ast /\ Within(new, root) = Within(ast, root)
      BY <1>2, WriteInside
    <3>4. DOMAIN ast' = DOMAIN ast /\ Within(ast', root) = Within(ast, root)
      BY <2>1, <3>3
    <3> QED
      BY <3>2, <3>4
  <2>2. CASE ast' = ast
    BY <1>2, <2>2
  <2> HIDE DEF Stays
  <2>3. CASE E!ExploreCall
    <3>1. PICK v : ast' = [ast EXCEPT ![E!Task.node] = [@ EXCEPT !["def"] = v]]
      BY <2>3 DEF E!ExploreCall
    <3> QED
      BY <2>1, <3>1 DEF Annotations
  <2>4. CASE E!ExploreFunctionPtr
    <3>1. PICK v : ast' = [ast EXCEPT ![E!Ref.definition] = [@ EXCEPT !["name"] = v]]
      BY <2>4 DEF E!ExploreFunctionPtr
    <3> QED
      BY <2>1, <3>1 DEF Annotations
  <2> QED
    BY <2>2, <2>3, <2>4
       DEF ExploreTree, E!ExploreStep, E!ExploreChildren, E!ExploreDefinition,
           E!ExploreRedefinition, E!ExploreUnnamed, E!LeaveFunction
<1>4. CASE outcome' = "unnamed"
  BY <1>4, BrokenSeen DEF A!Breaks
<1>5. CASE outcome' = "exploring"
  <2>1. \A n \in DOMAIN ast' : root' # Null /\ n \in Within(ast', root')
    BY <1>1, <1>2, <1>3
  <2> QED
    BY <1>1, <1>2, <1>3, <1>5, <2>1 DEF OperandInv
<1> QED
  BY <1>1, <1>4, <1>5

(* All that the parser lists is inside the root: what is not would have a  *)
(* last node, and this an owner listed after it.                           *)
LEMMA ParsedInside ==
  ASSUME NEW tree, NEW top, IsTree(tree), top \in DOMAIN tree \cup {Null},
         DOMAIN tree \subseteq Owned(tree) \cup {top},
         \A n \in DOMAIN tree : \A p \in Range(Parts(tree[n])) : p < n
  PROVE  \A n \in DOMAIN tree : top # Null /\ n \in Within(tree, top)
<1> DEFINE In  == IF top = Null THEN {} ELSE Within(tree, top)
           Out == DOMAIN tree \ In
<1>1. PICK len \in Nat : DOMAIN tree = 1 .. len
  BY PlacesAre DEF IsTree
<1>2. ASSUME NEW n \in In PROVE Range(Parts(tree[n])) \subseteq In
  <2>1. top # Null /\ n \in Within(tree, top)
    BY <1>2
  <2> QED
    BY <2>1, InsideIsClosed DEF Closed
<1>3. top \notin Out
  <2>1. CASE top = Null
    BY <1>1, <2>1 DEF Null
  <2>2. CASE top # Null
    BY <2>2, InItself
  <2> QED
    BY <2>1, <2>2
<1>4. Out = {}
  <2> SUFFICES ASSUME Out # {} PROVE FALSE
    OBVIOUS
  <2>1. Out \subseteq 1 .. len
    BY <1>1
  <2>2. PICK n \in Out : \A j \in Out : n >= j
    <3> HIDE DEF Out
    <3> QED
      BY <2>1, GreatestExists
  <2>3. n \in Owned(tree)
    BY <1>3
  <2>4. PICK m \in DOMAIN tree :
               \E i \in DOMAIN Parts(tree[m]) : Parts(tree[m])[i] = n
    BY <2>3 DEF Owned, Links, Target
  <2>5. n \in Range(Parts(tree[m]))
    BY <2>4 DEF Range
  <2>6. n < m /\ n \in Nat /\ m \in Nat
    BY <1>1, <2>5
  <2>7. m \notin Out
    BY <2>2, <2>6
  <2>8. m \in In
    BY <2>7
  <2>9. n \in In
    BY <1>2, <2>5, <2>8
  <2> QED
    BY <2>9
<1>5. ASSUME NEW n \in DOMAIN tree PROVE top # Null /\ n \in Within(tree, top)
  BY <1>4
<1> QED
  BY <1>5

LEMMA InitSees == ASSUME Init PROVE OperandInv
<1> SUFFICES ASSUME NEW tree \in Parsed, Start(tree) PROVE OperandInv
  BY DEF Init
<1>1. /\ ast = tree.ast /\ root = tree.root /\ outcome = "exploring"
      /\ analyzer = A!MainAnalyzer
  BY DEF Start, E!Start
<1>2. ~analyzer.tolerant
  BY <1>1 DEF A!MainAnalyzer
<1>3. IsTree(ast)
  BY <1>1, InitIInv DEF IInv
<1>4. Placed(ast)
  BY <1>1, ParsedAssumption DEF Placed
<1>5. /\ root \in DOMAIN ast \cup {Null} /\ DOMAIN ast \subseteq Owned(ast) \cup {root}
      /\ \A n \in DOMAIN ast : \A p \in Range(Parts(ast[n])) : p < n
  BY <1>1, ParsedAssumption
<1>6. \A n \in DOMAIN ast : root # Null /\ n \in Within(ast, root)
  BY <1>3, <1>5, ParsedInside
<1> QED
  BY <1>1, <1>2, <1>4, <1>6 DEF OperandInv

LEMMA StepSees ==
  ASSUME AllInv, [Next]_vars
  PROVE  OperandInv'
<1>1. CASE ExploreTree
  BY <1>1, ExploreSees
<1>2. CASE BeginAnalysis
  BY <1>2, BeginSees
<1>3. CASE AnalyzeTree
  BY <1>3, AnalyzeSees DEF AnalyzeTree
<1>4. CASE Over \/ UNCHANGED vars
  <2>1. /\ ast' = ast /\ root' = root /\ errors' = errors /\ todo' = todo
        /\ analyzer' = analyzer /\ outcome' = outcome
    BY <1>4 DEF Over, vars
  <2>2. OperandInv /\ (OperandsAreInts' <=> OperandsAreInts)
    BY <2>1 DEF AllInv, OperandsAreInts, Accepted
  <2> QED
    BY <2>1, <2>2 DEF OperandInv
<1> QED
  BY <1>1, <1>2, <1>3, <1>4 DEF Next, Step

(* Whatever file is parsed: when it is accepted, the operands of its       *)
(* operators and prints and its conditions are ints, array variables, or   *)
(* calls that had no type when they were looked at.  Every use of a number *)
(* is checked after the last visit that could write another type into its  *)
(* operands; what a tolerant analyzer lets through, the second pass over   *)
(* the function looks at again.                                            *)
THEOREM NumbersAreInts == Spec => []OperandsAreInts
<1>1. Init => AllInv
  BY InitIInv, InitTypes, InitOnce, InitSees DEF AllInv
<1>2. AllInv /\ [Next]_vars => AllInv'
  <2>1. ASSUME AllInv, [Next]_vars PROVE (IInv /\ TypeInv /\ StaysTree)'
    BY <2>1, NextIInv, NextTypes, StepOnce DEF AllInv
  <2>2. ASSUME AllInv, [Next]_vars PROVE OperandInv'
    BY <2>2, StepSees
  <2> QED
    BY <2>1, <2>2 DEF AllInv
<1>3. AllInv => OperandsAreInts
  <2>1. CASE outcome = "done"
    BY <2>1 DEF AllInv, OperandInv
  <2>2. CASE outcome # "done"
    BY <2>2 DEF OperandsAreInts, Accepted
  <2> QED
    BY <2>1, <2>2
<1> QED
  BY <1>1, <1>2, <1>3, PTL DEF Spec
=============================================================================
