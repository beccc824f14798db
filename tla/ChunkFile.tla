----------------------------- MODULE ChunkFile -----------------------------
(***************************************************************************)
(* Chunks on disk: the format write_chunk gives a file and read_chunk      *)
(* expects of one (src/bytecode_vm/decl_vm.cc), and the processes that     *)
(* share a file: any number of `pclc -o` write it and `pclvm` loads it,    *)
(* with no lock between them (src/pclc.cc, src/pclvm.cc).                  *)
(*                                                                         *)
(* A chunk here is what these two functions see of it: its bytes of code   *)
(* and its constants.  A process may be killed between two steps and the   *)
(* disk may be full.  The streams are buffered: what write_chunk writes in *)
(* five calls reaches the disk in pieces that the stream chooses, the last *)
(* of them when it closes, and a reader fetches the file block by block.   *)
(* A disk that is full stays so until the process that met it has ended.   *)
(***************************************************************************)
EXTENDS Isa

CONSTANTS
  ByteBase,   \* the number of values of a char: 256 in the code
  Writers,    \* the pclc processes that write the file
  Chunks,     \* the chunks they may be asked to write
  Breaks,     \* offsets in a file at which a stream may hand over or fetch a
              \*   piece before the rest; none lies inside a file that the
              \*   stream's buffer holds as a whole
  Rooms       \* sizes at which a file stops growing when the disk is full

(* An int is four chars, and the magic bytes are chars.                    *)
ASSUME ByteAssumption ==
  /\ ByteBase \in Nat /\ ByteBase > 14
  /\ 2 * Half = ByteBase * ByteBase * ByteBase * ByteBase

(* "shared" stands for no process.                                         *)
ASSUME WritersAssumption == "shared" \notin Writers

ASSUME OffsetsAssumption == Breaks \subseteq Nat /\ Rooms \subseteq Nat

VARIABLES
  file,      \* the bytes on disk; none before the first pclc
  writer,    \* what each pclc has in hand, how far it is, and how many bytes
             \*   of its file the disk has taken
  reader,    \* the latest pclvm: the bytes it has fetched, and (history) that
             \*   nobody opened the file to write it since, calm
  loaded,    \* what it made of the file
  stored,    \* history: the chunks of which the disk took the last byte
  owner,     \* history: the process that opened the file last, if no other
             \*   was writing it then, or "shared"
  split      \* history: since a process opened the file alone, one has handed
             \*   over part of what it has to write

vars == <<file, writer, reader, loaded, stored, owner, split>>

-----------------------------------------------------------------------------
Byte == 0 .. (ByteBase - 1)
Magic == <<11, 0, 0, 11, 14, 12>>
HeaderSize == Len(Magic) + 4 + 4

ChunkData == [binary : Seq(Byte), constants : Seq(Word)]
Fits(ch) == Len(ch.binary) \in UWord /\ Len(ch.constants) \in UWord
EmptyChunk == [binary |-> <<>>, constants |-> <<>>]

(* The sizes of a chunk are unsigned numbers in the file.                  *)
ASSUME ChunksAssumption == \A ch \in Chunks : ch \in ChunkData /\ Fits(ch)

(* The four bytes of an unsigned, least significant first, and the value   *)
(* of the four bytes of a file that follow the first at.                   *)
LittleEndian(u) ==
  LET shift1 == u \div ByteBase
      shift2 == shift1 \div ByteBase
      shift3 == shift2 \div ByteBase
  IN  <<u % ByteBase, shift1 % ByteBase, shift2 % ByteBase, shift3 % ByteBase>>

ValueAt(bytes, at) ==
  bytes[at + 1] + ByteBase * (bytes[at + 2] + ByteBase * (bytes[at + 3] +
                                              ByteBase * bytes[at + 4]))

RawConstants(pool) ==
  [i \in 1 .. 4 * Len(pool) |->
     LittleEndian(ToUnsigned(pool[1 + ((i - 1) \div 4)]))[1 + ((i - 1) % 4)]]

(* Fault: the length of the code comes first.                              *)
FileOfSwapped(ch) == Magic \o LittleEndian(ToUnsigned(Len(ch.binary)))
                           \o LittleEndian(ToUnsigned(Len(ch.constants)))
                           \o RawConstants(ch.constants) \o ch.binary

(* What write_chunk writes.  The two sizes are cut to an unsigned.         *)
FileOf(ch) == Magic \o LittleEndian(ToUnsigned(Len(ch.constants)))
                    \o LittleEndian(ToUnsigned(Len(ch.binary)))
                    \o RawConstants(ch.constants) \o ch.binary

-----------------------------------------------------------------------------
(* The checks of read_chunk, in their order.                               *)
HasMagic(bytes)  == /\ Len(bytes) >= Len(Magic)
                    /\ \A i \in 1 .. Len(Magic) : bytes[i] = Magic[i]
HasHeader(bytes) == Len(bytes) >= HeaderSize
CountOf(bytes)   == ValueAt(bytes, Len(Magic))
LengthOf(bytes)  == ValueAt(bytes, Len(Magic) + 4)

(* Fault: only the constants have to be there.                             *)
HasConstants(bytes) == Len(bytes) >= HeaderSize + 4 * CountOf(bytes)

HasSize(bytes)   == Len(bytes) = HeaderSize + 4 * CountOf(bytes) + LengthOf(bytes)

Accepts(bytes) == HasMagic(bytes) /\ HasHeader(bytes) /\ HasSize(bytes)

(* Fault: the constants are read as unsigned.                              *)
ChunkOfUnsigned(bytes) ==
  [constants |-> [n \in 1 .. CountOf(bytes) |->
                    ValueAt(bytes, HeaderSize + 4 * (n - 1))],
   binary    |-> SubSeq(bytes, HeaderSize + 4 * CountOf(bytes) + 1, Len(bytes))]

(* The chunk read_chunk builds from a file it accepts.                     *)
ChunkOf(bytes) ==
  [constants |-> [n \in 1 .. CountOf(bytes) |->
                    ToSigned(ValueAt(bytes, HeaderSize + 4 * (n - 1)))],
   binary    |-> SubSeq(bytes, HeaderSize + 4 * CountOf(bytes) + 1, Len(bytes))]

ReadChunk(bytes) ==
  IF Accepts(bytes) THEN [ok |-> TRUE, chunk |-> ChunkOf(bytes)]
                    ELSE [ok |-> FALSE, chunk |-> EmptyChunk]

-----------------------------------------------------------------------------
(* What the disk holds after it took bytes[from + 1 .. to]: they go where  *)
(* they belong in the file, whatever is there, and zeros fill the hole     *)
(* that is left when somebody truncated the file meanwhile.                *)
Put(old, bytes, from, to) ==
  [i \in 1 .. IF from < to /\ Len(old) < to THEN to ELSE Len(old) |->
     IF from < i /\ i <= to   THEN bytes[i]
     ELSE IF i <= Len(old)    THEN old[i]
     ELSE 0]

Active(w) == writer[w].state \in {"open", "closing"}
Goal(w)   == FileOf(writer[w].chunk)

(* Where the next piece of what w has to write may end.                    *)
PieceEnds(w) == {to \in Breaks \cup {Len(Goal(w))} :
                   writer[w].pos < to /\ to <= Len(Goal(w))}

NoRead == [state |-> "idle", got |-> <<>>, calm |-> FALSE]
NoLoad == [ok |-> FALSE, chunk |-> EmptyChunk]

Goes(w, state) == writer' = [writer EXCEPT ![w].state = state]

(* The process is gone, and its chunk with it.                             *)
Gone(w, state) ==
  writer' = [writer EXCEPT ![w] = [state |-> state, chunk |-> EmptyChunk, pos |-> 0]]

-----------------------------------------------------------------------------
Init == /\ file = <<>>
        /\ writer = [w \in Writers |->
                       [state |-> "done", chunk |-> EmptyChunk, pos |-> 0]]
        /\ reader = NoRead
        /\ loaded = NoLoad
        /\ stored = {}
        /\ owner = "shared"
        /\ split = FALSE

(* A pclc has generated a chunk and is about to write it.                  *)
Start(w, ch) ==
  /\ ~Active(w)
  /\ writer[w].state # "ready"
  /\ writer' = [writer EXCEPT ![w] = [state |-> "ready", chunk |-> ch, pos |-> 0]]
  /\ UNCHANGED <<file, reader, loaded, stored, owner, split>>

Alone(w) == \A v \in Writers \ {w} : ~Active(v)

(* try_open_file: the stream truncates the file, or open throws.           *)
Open(w) == /\ writer[w].state = "ready"
           /\ file' = <<>>
           /\ owner' = IF Alone(w) THEN w ELSE "shared"
           /\ split' = (split /\ ~Alone(w))
           /\ Goes(w, "open")
           /\ reader' = [reader EXCEPT !.calm = FALSE]
           /\ UNCHANGED <<loaded, stored>>

OpenFails(w) == /\ writer[w].state = "ready"
                /\ Gone(w, "failed")
                /\ UNCHANGED <<file, reader, loaded, stored, owner, split>>

(* The stream hands a piece over, in one of the five writes of write_chunk *)
(* or while it closes.                                                     *)
HandOver(w) ==
  /\ Active(w)
  /\ \E to \in PieceEnds(w) :
       /\ file' = Put(file, Goal(w), writer[w].pos, to)
       /\ writer' = [writer EXCEPT ![w].pos = to]
       /\ stored' = IF to = Len(Goal(w)) THEN stored \cup {writer[w].chunk}
                                         ELSE stored
       /\ split' = (split \/ to < Len(Goal(w)))
  /\ UNCHANGED <<reader, loaded, owner>>

(* The disk is full: it takes only those bytes of a piece for which it     *)
(* needs no more room, and some of the others.  In write_chunk this throws *)
(* (try_open_file asked for exceptions); the destructor of the stream      *)
(* swallows it, and the process ends well.                                 *)
RunsOut(w) ==
  /\ Active(w)
  /\ \E end \in PieceEnds(w) : \E to \in Rooms \cup {writer[w].pos} :
       /\ to \in writer[w].pos .. (end - 1)
       /\ to >= Len(file)
       /\ file' = Put(file, Goal(w), writer[w].pos, to)
  /\ Gone(w, IF writer[w].state = "open" THEN "failed" ELSE "cut")
  /\ UNCHANGED <<reader, loaded, stored, owner, split>>

(* write_chunk returns, with what the stream kept still to be written.     *)
EndWrite(w) == /\ writer[w].state = "open"
               /\ Goes(w, "closing")
               /\ UNCHANGED <<file, reader, loaded, stored, owner, split>>

Close(w) == /\ writer[w].state = "closing"
            /\ writer[w].pos = Len(Goal(w))
            /\ Goes(w, "saved")
            /\ UNCHANGED <<file, reader, loaded, stored, owner, split>>

(* The process is killed; what it had not written is lost.                 *)
Kill(w) == /\ Active(w)
           /\ Gone(w, "killed")
           /\ UNCHANGED <<file, reader, loaded, stored, owner, split>>

(* A pclvm opens the file.  One that is not there is refused like an empty *)
(* one, by the throw of try_open_file.                                     *)
OpenInput ==
  /\ reader.state = "idle"
  /\ reader' = [state |-> "reading", got |-> <<>>, calm |-> owner # "shared"]
  /\ loaded' = NoLoad
  /\ UNCHANGED <<file, writer, stored, owner, split>>

(* read_raw_data fetches the next block.                                   *)
FetchBlock ==
  /\ reader.state = "reading"
  /\ \E to \in Breaks \cup {Len(file)} :
       /\ Len(reader.got) < to /\ to <= Len(file)
       /\ reader' = [reader EXCEPT
                       !.got = @ \o SubSeq(file, Len(reader.got) + 1, to)]
  /\ UNCHANGED <<file, writer, loaded, stored, owner, split>>

(* It finds no more bytes, and read_chunk makes of them what it can.       *)
ReadToEnd ==
  /\ reader.state = "reading"
  /\ Len(reader.got) >= Len(file)
  /\ reader' = [reader EXCEPT !.state = "idle", !.got = <<>>]
  /\ loaded' = ReadChunk(reader.got)
  /\ UNCHANGED <<file, writer, stored, owner, split>>

Write(w) == \/ Open(w) \/ OpenFails(w) \/ HandOver(w) \/ RunsOut(w)
            \/ EndWrite(w) \/ Close(w) \/ Kill(w)

Next == \/ \E w \in Writers : (\E ch \in Chunks : Start(w, ch)) \/ Write(w)
        \/ OpenInput \/ FetchBlock \/ ReadToEnd

Spec == Init /\ [][Next]_vars

-----------------------------------------------------------------------------
WriterStates == {"ready", "open", "closing",
                 "saved", "cut", "failed", "killed", "done"}

TypeOK == /\ file \in Seq(Byte)
          /\ writer \in [Writers -> [state : WriterStates, chunk : ChunkData,
                                     pos : Nat]]
          /\ reader \in [state : {"idle", "reading"}, got : Seq(Byte),
                         calm : BOOLEAN]
          /\ loaded \in [ok : BOOLEAN, chunk : ChunkData]
          /\ stored \subseteq ChunkData
          /\ owner \in Writers \cup {"shared"}
          /\ split \in BOOLEAN

(* A file that read_chunk would accept holds a chunk that some pclc wrote  *)
(* to its last byte, whatever was killed or cut short (decl_vm.cc:19-44).  *)
(* Nothing guards the file, so this needs that one process wrote it at a   *)
(* time, or that each wrote it in one piece, as all do whose file the      *)
(* buffer of the stream holds: the size in the header does not tell a file *)
(* that two of them wrote in turns.                                        *)
FileIsWritten ==
  (owner # "shared" \/ ~split) /\ Accepts(file) => ChunkOf(file) \in stored

(* pclvm executes only a chunk that some pclc wrote to its last byte, even *)
(* if it reads while the file is being written, unless two processes write *)
(* it or one opens it anew before all of it is read.                       *)
LoadedIsWritten == loaded.ok /\ reader.calm => loaded.chunk \in stored

(* A chunk that a pclc saved while no other wrote the file is read back as *)
(* it was, for as long as nobody opens the file again (write_chunk and     *)
(* read_chunk agree on every field, decl_vm.cc:16-84).                     *)
SavedIsReadBack ==
  \A w \in Writers : owner = w /\ writer[w].state = "saved"
    => ReadChunk(file) = [ok |-> TRUE, chunk |-> writer[w].chunk]

=============================================================================
