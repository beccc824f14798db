----------------------------- MODULE MCPipeline -----------------------------
(***************************************************************************)
(* Tests of the repository, from the file to the answer.                   *)
(***************************************************************************)
EXTENDS Pipeline

R == INSTANCE RepositoryTests

Answered     == R!AnsweredTests
NestedBlocks == {R!NestedBlocksTest}
Fact         == {R!FactTest}
=============================================================================
