------------------------------ MODULE MCDriver ------------------------------
(* One pclc with every combination of its options, and a source of each    *)
(* kind.                                                                   *)
EXTENDS Driver

CONSTANTS valid, erroneous, rootless

MCValid        == {valid}
MCErroneous    == {erroneous}
MCRootless     == {rootless}
MCProgramChunk == [s \in MCValid |-> [binary |-> <<1, 2>>, constants |-> <<-3>>]]
=============================================================================
