---------------------------- MODULE MCChunkFile ----------------------------
(* Two writers and three chunks: an empty one, whose file the buffer of a  *)
(* stream holds, and two of one constant and two bytes of code, one with a *)
(* negative constant, whose files have the same size and may break after   *)
(* the constants.  A full disk stops any of them inside the header.        *)
EXTENDS ChunkFile, TLC

WriterSymmetry == Permutations(Writers)

Negative == [binary |-> <<1, 2>>, constants |-> <<-3>>]
Positive == [binary |-> <<2, 1>>, constants |-> <<300>>]

MCChunks == {EmptyChunk, Negative, Positive}

MCBreaks == {18}
MCRooms  == {10}
=============================================================================
