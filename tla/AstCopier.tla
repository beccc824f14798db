----------------------------- MODULE AstCopier -----------------------------
(***************************************************************************)
(* ast_copier: the deep copy behind the copy constructor of ast_container. *)
(*                                                                         *)
(* The nodes of both containers are one sequence, the copy's behind the    *)
(* source's: a pointer of the copy that is no larger than the source is    *)
(* long points into the source.                                            *)
(***************************************************************************)
EXTENDS Syntax

(* Classes that are copied by their own copy constructor, pointers, type   *)
(* and all.                                                                *)
CopiedAsIs == {"constant", "read", "variable", "subscript", "error_node"}

(* What is copied for the constructor of the copy, in the order Node takes *)
(* it.  A definition copies its parameters, which are values in it.        *)
Copied(ref) ==
  CASE ref.node = "assignment"          -> <<ref.right>> \o ref.lefts
    [] ref.node = "function_definition" -> ref.params
    [] ref.node \in CopiedAsIs          -> <<>>
    [] OTHER                            -> Parts(ref)

(* Fault: the targets are gone through from begin() to end().              *)
MadeBackwards(nodes, ref, at) ==
  CASE ref.node \in CopiedAsIs  -> ref
    [] ref.node = "assignment"  -> Node(ref, <<at[1]>> \o Reverse(Tail(at)))
    [] ref.node = "function_definition" ->
         DefinitionNode([name |-> ref.name,
                         kids |-> <<Null>> \o [k \in DOMAIN ref.params |->
                                                 nodes[ref.params[k]]]],
                        <<ref.body>> \o at)
    [] OTHER -> Node(ref, at)

(* The copy of a node, from the copies of what it is made of: what only    *)
(* the analysis puts into a node is as in a new one.  A definition is made *)
(* with the body of its source.                                            *)
Made(nodes, ref, at) ==
  CASE ref.node \in CopiedAsIs          -> ref
    [] ref.node = "function_definition" ->
         DefinitionNode([name |-> ref.name,
                         kids |-> <<Null>> \o [k \in DOMAIN ref.params |->
                                                 nodes[ref.params[k]]]],
                        <<ref.body>> \o at)
    [] OTHER -> Node(ref, at)

(* All nodes after a node has been copied, and where its copy is.          *)
RECURSIVE Copy(_, _)
CopyAll(nodes, ns) ==
  FoldLeft(LAMBDA copies, n :
             LET copy == Copy(copies.nodes, n)
             IN  [nodes |-> copy.nodes, at |-> Append(copies.at, copy.at)],
           [nodes |-> nodes, at |-> <<>>], ns)
Copy(nodes, n) ==
  LET kids == CopyAll(nodes, Copied(nodes[n]))
  IN  [nodes |-> Append(kids.nodes, Made(nodes, nodes[n], kids.at)),
       at    |-> Len(kids.nodes) + 1]

(* Copying a container; without a root there is nothing to copy.           *)
CopyOf(tree) ==
  IF tree.root = Null THEN [nodes |-> tree.ast, at |-> Null]
                      ELSE Copy(tree.ast, tree.root)
=============================================================================
