# A TLA+ model of the ParaCL compiler and virtual machine

ParaCL is a small C-like language. The repository compiles it to bytecode for a
stack machine (and, through a second backend, to LLVM IR) and runs the
bytecode. Everything is sequential: one thread parses, analyses, generates and
executes. What makes the program hard is not concurrency but agreement: the
generator counts, at compile time, how many elements the machine's stack will
hold at every instruction, addresses every variable by that count, and emits
jumps and calls whose targets it learns later. Nothing checks the result: the
machine trusts the code.

This directory holds the specifications, the model-checking runs and the
proofs. Paths are relative to the repository.

## 1. The system

| component | sources | state | operations |
|---|---|---|---|
| scanner, parser | `src/frontend/parser/` | generated automata | text to tree |
| syntax tree | `include/frontend/ast/`, `src/frontend/ast_copier.cc` | nodes; scopes, types and resolved calls written into them by the analysis | construction, copy, dump |
| function explorer | `src/frontend/analysis/function_explorer.cc` | table of named functions, use graph, stack of enclosing functions | `explore` per node |
| semantic analyser | `src/frontend/analysis/semantic_analyzer.cc` | scope stack, return statements of the current body, error queue, `m_type_errors_allowed` | `analyze_node` per node, `analyze_func`, `analyze_main` |
| frontend driver | `include/frontend/frontend_driver.hpp` | source, tree, functions, errors | `parse`, `analyze` |
| bytecode generator | `include/codegen.hpp` | instruction list, scope stack, three tables of constants, relocations, two flags | `generate` per node, `generate_function`, `generate_all`, `to_chunk` |
| chunk, builder | `include/bytecode_vm/` | code bytes, constant pool | `emit_operation`, `to_chunk`, `read_chunk`, `write_chunk` |
| virtual machine | `include/bytecode_vm/{decl_vm,virtual_machine}.hpp` | ip, stack, sp, r0, halted | 33 instructions, `set_program_code`, `execute` |
| LLVM backend | `src/llvm_codegen/codegen.cpp` | symbol table, module, insertion point | `generate` per node, `generate_function`, `emit_llvm` |
| drivers | `src/pclc.cc`, `src/pclvm.cc` | options | compile, run |

The parser builds the tree; the explorer names the functions and resolves
calls; the analyser declares names in scopes, deduces types and turns last
expressions into returns; the generator reads the annotated tree and the table
of functions and fills a chunk; the machine executes it. The components share
the tree (annotated in place) and otherwise pass values.

**Hard behaviours, and what makes each component correct**

* *Virtual machine.* Every handler may find too few elements, a constant or a
  local that is not there, a division that traps; `ip`, `sp` and stack values
  move between `int`, `unsigned` and `size_t`. Correct: the context keeps its
  types whatever the code is, and on code whose every instruction finds its
  stack as it should be, it never fails and halts with nothing left.
* *Generator.* Slots depend on the order of an `unordered_map`; one counter
  gives out places for three kinds of constants; jumps, calls and function
  constants are patched later; a value block is a call of itself and a return
  inside it unwinds what was opened since; `m_is_currently_statement` is read
  by visits other than the ones that set it. Correct: the asserts hold, every
  reference lands, the pool is exact, the code does what the source means.
* *Explorer and analyser.* They rewrite the tree they walk: scopes are begun
  and never ended, a function is analysed where it is defined and twice when
  recursive, last expressions are replaced by returns inside every block.
  Correct: the tree stays one, what a table declares has a type, the returns
  of a block are the ones its type was made of, and what is accepted the
  generator can translate.
* *LLVM backend.* It looks names up in scopes it never ends, and asks the block
  a branch began in whether the branch has jumped. Correct: each name is found,
  each block ends in one terminator, and the lines printed are those of the
  source.
* *Chunk files.* The output is truncated when it is opened, reaches the disk in
  pieces, the last of them when its stream closes, errors of that last write are
  swallowed, and nothing keeps two compilers, or a compiler and the machine,
  from the same file. Correct: while one compiler at a time writes, only a file
  that holds exactly one written chunk is loaded, as it was. With two of them
  the size check of `read_chunk` is enough for small files only (section 3).
* *Drivers.* The order parse, check, dump, generate, write or execute.
  Correct: a program with errors goes no further, another one is compiled.

The full list of hazards, each at its line, is in `PROJECT.json`.

## 2. The modules

| module | models | lines it stands for |
|---|---|---|
| `Tree` | nodes, pointers, types, symbol tables | `ast/ast_nodes/`, `symtab.hpp`, `types.hpp` |
| `Syntax` | the tree the parser makes of a construct | the actions of `parser.y`, the constructors of the nodes |
| `AstCopier` | the copy of a tree | `ast_copier.cc`, `ast_container.hpp` |
| `FunctionExplorer` | the first walk | `function_explorer.{hpp,cc}`, `function_table.hpp` |
| `SemanticAnalyzer` | the second walk | `semantic_analyzer.{hpp,cc}` |
| `Frontend` | both walks over one tree | `frontend_driver.hpp` |
| `Isa` | opcodes, sizes, `int` arithmetic, layout of a chunk | `opcodes.hpp`, `bytecode_builder.hpp`, the operators of `virtual_machine.hpp` |
| `ParaclVM` | the machine | `decl_vm.hpp`, `virtual_machine.hpp` |
| `StackMaps` | what the machine promises to code that keeps its stack in order | the pops and pushes of `virtual_machine.hpp` |
| `Ast` | the tree as the generator reads it | `ast/ast_nodes/`, `node_identifier.hpp` |
| `Codegen` | the generator | `codegen.hpp` |
| `Handover` | from the tree of the analysis to that of the generator, and back | the interface of `codegen.hpp` |
| `Toolchain` | generator, then machine | `generate_all`, `to_chunk`, `execute_chunk` |
| `Pipeline` | front end, generator, machine | the order of `pclc.cc` |
| `ChunkFile` | the file format, and processes that share a file | `decl_vm.cc`, `files.hpp`, the output of `pclc.cc`, the input of `pclvm.cc` |
| `Driver` | `main` of `pclc` and of `pclvm` | `pclc.cc`, `pclvm.cc`, `common.hpp`, `frontend_driver.hpp` |
| `LlvmCodegen` | the LLVM backend | `src/llvm_codegen/codegen.cpp` |
| `LlvmMachine` | the module, when LLVM runs it | external; the two functions called from IR are of `codegen.cpp` |
| `LlvmPipeline` | front end, backend, LLVM | `pclc.cc:112-149` |
| `Source` | reference: the meaning of a program | none (specification) |
| `SourceRun` | abstract: what a run promises | none (specification) |
| `SamplePrograms`, `SmallSources`, `RepositoryTests` | inputs of the runs | `test/`, `examples/` |
| `MCFrontend`, `MCPipeline`, `MCLlvm`, `MCVM`, `MCCodegen`, `MCToolchain`, `MCChunkFile`, `MCDriver` | values for the constants, and properties about them | |
| `FrontendProofs`, `OwnershipProofs`, `OperandProofs`, `ParaclVMProofs`, `CodegenProofs`, `JumpProofs`, `ChunkFileProofs`, `DriverProofs` | theorems | |

Every walk over a tree is a recursive visit in C++. Its control is a sequence,
`todo`: visiting a node puts in front what the `generate`, `explore` or
`analyze_node` of its class does, in order, so that what a handler does after
visiting a child comes after everything the child does. One step is one such
piece of a handler.

**Tree, Syntax.** `ast` is the sequence of nodes the container owns; a pointer
is a position in it, `Null` is 0. A node is a record of its class, its pointers
and what is written into it later: `type`, the callee of a call, the symbol
table and `return_statements` of a block, the result type of a function.
`Syntax!Parse` makes the tree of a term of the grammar, children first.

**FunctionExplorer, SemanticAnalyzer, Frontend.** The variables are the members
of the two classes. The active analyser is the record `analyzer`; the one a
function definition makes for itself starts with a copy of the scopes, and what
it goes back to is kept in the task `leave_analyzer`. Exceptions and the null
pointer at `semantic_analyzer.cc:415` end the analysis in an `outcome` of their
own. An error is its message and its node. The graph of uses is a set of nodes
and edges; the library it comes from is a submodule that is not there, and the
order it is sorted into is used nowhere.

**Codegen.** `Generate(node)` is what the `generate` of that class does. What a
handler keeps in a local variable across a visit (a return address's index, the
previous `m_prev_stack_size`, a jump to patch, the start of a loop) is on
`locals`. The other variables are the members of `codegen_visitor`.
`BeginScopeStep` chooses any order of the names of a scope and
`GenerateFunction(f)` any next function: these are the two hash maps whose
order reaches the code. `Nodes` holds every node of the trees in `Programs`; it
is there for `TreesAssumption`, which says what the classes of `ast/` and the
grammar guarantee of a tree, and restricts no step. Asserts, throws and unsigned underflows end generation
with an `outcome` that names them, the asserts as in a build that has them: a
subscript among the targets of an assignment (`codegen.hpp:345`), a parameter
named twice (line 70), a scope that ends below its beginning (line 243).

**ParaclVM.** One step is one `execute_instruction`: fetch, decode, handler.
`chunk` maps the address of each instruction to its opcode and operand, so
operand bytes are addresses at which no instruction starts. The variables are
the fields of `context`; `status` is `m_halted`, or the exception that left
`execute`. Both `ret` on an empty stack and an unknown opcode halt the machine
(`Halted`), the latter with whatever is on the stack, before it throws
(`decl_vm.hpp:255`). Each handler is an action; its guard says that it finds what it
pops and reads, and `BadPop`, `OutOfRange`, `Trap`, `UnknownOpcode`,
`DecodeError` take the other cases. `Derail` is the dereference of an `ip` that
is at no instruction, which the code does without a check: what the machine
would execute there is whatever the bytes are, and the model stops. Signed
overflow wraps, as in the builds. A read without a token pushes any value of
`Garbage`, the uninitialised `int` of `push_read`. The memory of the host and
its output are bounded by `MaxStack` and `MaxOut`; beyond them the machine is
`exhausted`. An opcode byte above 127 (a negative index of the lookup table) is
not modelled.

**StackMaps.** A map gives the size of the stack and the frame base at each
instruction of a chunk. `IsStackMap` is local: what an instruction takes is
there, what it reads is below the top, all its successors have the entry it
leaves behind, and `ret` is met with nothing on the stack. The machine looks at
no such thing; `MappedCodeRuns` says that it needs no look at code that has a
map. Computed jumps and calls have none, since where they go is on the stack;
for the calls of generated code there are `SameDepth` and `ReturnMatchesCall`.

**Source, SourceRun, Toolchain, Pipeline.** `Source!Meaning` evaluates the tree
with blocks and names only, and gives the lines a program prints on an input.
`SourceRun` is the abstract specification: print these lines in order, then
end, and do not stop short. `Toolchain` composes `Codegen` and `ParaclVM`
(instances; the chunk of the one is given to the other) and is shown to
implement `SourceRun` with `printed` as the machine's output. `Pipeline` puts
`Frontend` before them and implements the same specification, with the lines of
the `.ans` file in the place of `Meaning`. `Handover!HandedOver` is what the
generator sees of an analysed tree, and `ParsedFrom` the source such a tree was
written as. `calls` and `depths` are history variables; they restrict nothing.

**LlvmCodegen, LlvmMachine, LlvmPipeline.** Instructions are records in basic
blocks; a value is a constant, or the block and position of the instruction
that makes it. `LlvmCodegen` appends to the block the builder points at, with
`sym` the symbol table. `LlvmMachine` says which modules LLVM can take (every
block ends in its only terminator, the types of operands agree, every use is
dominated) and executes one; a load from memory never written, a division that
traps or an index outside of its array is undefined and ends the model's run.

**ChunkFile, Driver.** `FileOf` is `write_chunk` and `ReadChunk` is
`read_chunk`, byte by byte: magic, two sizes, constants, code. Each `pclc -o`
goes through `Open` (which truncates), any number of `HandOver`, `EndWrite`
(`write_chunk` has returned) and `Close` (the destructor of the stream). The
five `os.write` of `write_chunk` fill the stream's buffer; `HandOver` is the
stream giving a piece of it to the disk, whether it is full or closes, and may
end at any of `Breaks` or at the end of the file. A piece goes where it belongs
in the file, over what is there, with zeros before it if another process has
truncated the file since (`Put`). A full disk (`RunsOut`) takes the part of a
piece that needs no more room, and stays full until the process has ended:
`write_chunk` throws, and the destructor tells nobody. `Kill` ends a process
between two steps. `pclvm` opens the file, fetches blocks (`FetchBlock`) and
makes a chunk of them at the end (`ReadToEnd`); others may write meanwhile.
`stored`, `owner`, `split` and the reader's `calm` are history variables.

What the format does not protect from is in the model and outside of the
properties: two processes that write in pieces files of the same total size
leave a mixture of the two that passes the size check (`decl_vm.cc:40`), and a
`pclvm` that has read the first half of a file when somebody opens it anew may
get the second half of another. `FileIsWritten` and `LoadedIsWritten` therefore
ask for one writer at a time (`owner`) or, the former, that each wrote in one
piece (`~split`), and the latter for a file that nobody opens during the read
(`calm`). `Driver` puts these actions between the options
and the exit code of `pclc`; `ToChunk` is the empty chunk because `pclc.cc`
never calls `generate_all`, and an empty chunk derails the machine. The front
end gives its verdict by the kind of the source; LLVM ends well or not. A file
of which the parser has no tree at all, after an error it did not recover from,
counts as one without errors (`frontend_driver.hpp:104`) and goes on to be
compiled; `ErrorsAreFinal` is about files with a tree in which the analysis
found errors, and says nothing of these (`Rootless`).

## 3. The runs

| run | states | shows |
|---|---|---|
| `vm` | 38 000 | `TypeOK`, `MappedCodeRuns`, `ForwardCodeStops` |
| `codegen` | 205 000 | `TypeOK`, `PoolExact`, `JumpsLand`, `AssertsHold`, `TranslatedOnce` |
| `toolchain` | 56 000 | `NoFault`, `SameDepth`, `ReturnMatchesCall`, `ImplementsSource` |
| `chunk_file` | 542 000 | `TypeOK`, `FileIsWritten`, `LoadedIsWritten`, `SavedIsReadBack` |
| `driver` | 40 000 | `ErrorsAreFinal` |
| `frontend` | 148 000 | `TypeOK`, `StaysTree`, `ReturnsCollected`, `DeclaredIsTyped`, `AssignedIsTyped`, `OperandsAreInts`, `OnlyEarlyCallsUntyped`, `AnonymousAreNew`, `HandsOverSamples`, `RefusesErrors`, `CopiesReadAlike`, `Concludes` |
| `pipeline` | 79 000 | `PrintsItsAnswer` |
| `llvm` | 26 000 | `NamesAreFound`, `BlocksTerminate`, `PrintsAsMeant`, `EndsAsMeant` |
| `driver_compiles` | violation | `CompilesSource` |
| `nested_in_call` | violation | `ImplementsSource` |
| `pipeline_nested_blocks` | violation | `PrintsItsAnswer` |
| `pipeline_fact` | violation | `PrintsItsAnswer` |

What each property says, and of which code, is in the comment above it.

**Bounds.**
`vm`: `Half = 32` (6-bit integers: every operator overflows), five stack
elements, two lines of output. The chunks hold every instruction, legal or
not, with valid and invalid operands, after an empty stack, after a call frame,
and every pair of instructions on three constants: each handler runs in each of
its cases, and each after each other. Bad code is the point of these, so no
chunk comes from the generator. `ForwardCodeStops` is about the chunks without
backward and computed jumps only; that generated loops end is `ImplementsSource`.
Four chunks have a stack map: a loop without end, a frame with a branch that is
joined again, a loop that counts down, a division behind a test. TLC checks the
maps as an assumption of `StackMaps`.

`codegen`: `Half = 1024`, nine whole programs (seven follow tests of the
repository, `MixedTest` the constructs they leave out, one is empty), 784
small ones (all pairs of 28 statements built from eight expressions of every
class), each with every order of every scope's names, and nine more that end
`generate_all` at each of its asserts and throws: an indexed variable, read or
assigned, a call before the definition, a call through a global variable, a name
whose block has ended on an empty frame, a parameter named twice, three nested
assignments. They are there for these steps; other programs of the same kinds do
get a chunk that is wrong (see the violations below). `AssertsHold` is about the
former programs only, `TranslatedOnce` about whatever gets a chunk. A program is
finite and so is its generation; there is no bound besides.
`TreesAssumption` is evaluated on all of these trees.

`toolchain`: the same whole programs, and 56 small ones with two inputs, of
six and four numbers, that send the branches both ways; 40 elements of stack
and 12 lines are more than any of them needs, so reaching a bound would be
reported by `ImplementsSource`. The `.ans` files of the tests are compared with
`Source` by an assumption of `MCToolchain`: the reference itself agrees with
what the tests expect. These programs return from every value block, read no
more than there is, and nest no assignment (see below).

`frontend`: three kinds of file. *Small* ones: each of 15 expressions in each
kind of statement, after five beginnings (nothing known, a variable, a function
with a result, a void one, functions inside functions), right or wrong; and a
recursive function with every pair of 15 statements as its body, where the
second pass goes over what the first has rewritten. *Samples*: the source of
every program the generator and the toolchain are checked with. That the
analysis hands over exactly these programs (`HandsOverSamples`) is what makes
them the inputs the generator really gets. *Errors*: twelve files of
`test/errors`. A file is finite; the walks need no bound, and `Concludes` says
that they end.

`pipeline`: 30 tests of the repository with an `.ans` file, between them every
construct of the language but arrays; 28-bit numbers, as no test overflows, 60
elements of stack and 20 lines, more than any test needs.

`llvm`: the same tests and those of arrays; small programs in which an `if`
(with each operator in its condition) or a loop holds each statement and each
other `if` or loop; and files the backend is not up to. `Supported` names what
sets these apart: no function and no value block, no control inside a branch,
names used where their block is, truth values not used as numbers nor numbers
as truth values, arrays local. `NamesAreFound` and `BlocksTerminate` are about
all files, the other two about the supported ones.

`chunk_file`: bytes of 16 values, so that the magic bytes are bytes and an
`int` has four of them; two writers, which may start again and again, and three
chunks: the empty one and two of equal size, so that files of 14 and of 20 bytes
meet in every order. The smaller one goes out in one piece, as all do that the
buffer of a stream holds, the larger ones in one or in two, which end after the
constants, where a reader may fetch a block as well. A constant is negative, and
a full disk stops a file after 10 bytes, inside the header. The writers are
symmetric.

`driver`: one `pclc` at a time with each of the 48 combinations of options, on
a valid source, an erroneous one, one without a tree and a missing one, and
`pclvm` at any moment.

**Fairness.** Everything but `ChunkFile` and `Driver` is one thread that goes
on until it returns: weak fairness of its step is that the thread is scheduled.
`Concludes`, `ForwardCodeStops`, `EndsAsMeant` and the liveness in `SourceRun`
need no more; that no walk and no loop repeats forever is what they show.
`ChunkFile` and `Driver` are checked for safety only: a process may be killed
and no loop waits for another.

**The four violations.** `driver_compiles`: `pclc.cc:150-152` makes a
generator and takes its chunk without `generate_all`, which nothing calls; the
chunk that is executed, or written, is empty whatever the source, against
`README.md:107`. The other runs model the generator as it is called by its
interface, `generate_all` and then `to_chunk`.

`nested_in_call`: `generate(assignment_statement)` (`codegen.hpp:317`) decides
whether to push its value by a flag that the statement around it has set and
that neither an assignment (line 318) nor a call (line 645) resets before
visiting a child. In `a = f(b = 3);` the function takes the saved frame base
for its argument, returns to the start of the program, and the machine dies in
`at_stack`. The language says assignments are expressions (`README.md:28`).
`{ a = (b = 3); }` has the same cause: the outer assignment stores the element
below, and the assert of line 243 fails; it is among the programs of the
`codegen` run that get no chunk.

`pipeline_nested_blocks`: `analyze_node(value_block)`
(`semantic_analyzer.cc:147`) begins a scope and ends none. In
`a = {{5;};};` the name is declared after the right side has been visited, into
the innermost scope begun, where the generator, which does end its scopes, does
not find it.

`pipeline_fact`: inside a function the last expression of *every* statement
block becomes a return (`semantic_analyzer.cc:208`), the body of a loop
included; the factorial returns after one iteration.

**Disagreements without a run.** Met while modelling, and in the model as they
are in the code:

* `return` outside of a function goes through a null pointer
  (`semantic_analyzer.cc:415`): `test/functions/recursive_fib.pcl` prints
  nothing. `return;` in a function throws "Attempt to dereference empty return
  statement".
* The first pass over a recursive function tolerates errors but reports a
  mismatch for a value block that returns only calls of the function
  (line 137). A value block that ends in an expression without a type throws
  "Bad type dereference". `test/errors/recursive.pcl` is accepted.
* Returns are compared with their neighbours only (line 125), so that an
  untyped call between an `int` and a `void` hides the mismatch.
* A call before the definition of its function keeps a null callee
  (`function_explorer.cc:55`), and no type.
* An unnamed function as a statement fails the assert of
  `function_explorer.cc:26`.
* A copied tree takes the bodies of functions and the indices of subscripts
  from its source (`ast_copier.cc:25, 67`). Nothing copies a tree at present.
* LLVM: `&&`, `||` and `!` are bitwise; a comparison is passed to `print` or
  stored as one bit; a variable first assigned in a branch does not dominate
  its later uses; `alloca` in a loop grows the stack with every iteration; any
  function or value block is cast to a class it is not
  (`src/llvm_codegen/codegen.cpp`); the module is verified only after it is
  finalized (`pclc.cc:143`); a last number without a newline after it counts as
  no input (`codegen.cpp:68`).
* Without a tree `global_stab` is uninitialised (`function_table.hpp:65`).

## 4. The proofs

TLC looks at the instances above; these hold for every value of the constants,
from the assumptions on them alone.

`ParaclVMProofs`: `TypeCorrect` (`Spec => []TypeOK`) and `MappedCodeIsSafe`
(`Spec => []MappedCodeRuns`): any chunks, inputs, word size and bounds. `TypeOK`
is inductive; the proof has one step per handler, over lemmas on what `Append`,
`SubSeq` and an update do to a sequence of words and on the conversions staying
in their ranges. `MappedCodeRuns` says nothing of a running machine; the
invariant `KeepsToMap` adds that, while it runs a chunk with a map, its `ip` has
an entry in it, and the size of the stack and `sp` are those of the entry
(`OnMap`). It assumes `StackMapAssumption`, which is local to each instruction
and its successors; that the handlers do to the stack what `After` says, and
refuse nothing that `InOrder` allows, is the induction, with one step per
handler.

`CodegenProofs`: `PoolIsExact` (`Spec => []PoolExact`), for any set of
programs. `PoolExact` is not inductive as it stands: that the set of places is
an interval says nothing about the next size of the tables. The invariant
`PoolInv` adds that the three tables are what they are in the code, a function
from constants and two sequences of records with an index, with finitely many
constants, and that the places of the three together are those below the
counter. An insertion takes the counter's value and moves the counter by one; patching
an address keeps every index; everything else leaves the tables alone.

`JumpProofs`: `JumpsAlwaysLand` (`Spec => []JumpsLand`), for any set of
programs, any order of the names of a scope and of the functions. It assumes
`TreesAssumption`: the children of a node are nodes, its lists are finite
lists, an operator is one of its enumeration, a scope is a finite set of names,
the root is a statement block (`parser.y:206`). The code takes the same for
granted: `codegen.hpp:376` and `:622` terminate on any other operator.

`JumpsLand` is about a finished chunk, and nothing in it says why a chunk
becomes one in which every jump lands. While code is generated a jump may have
no target yet; a target may be the end of the code, where there is no
instruction so far; and the address a call returns to is 0 until the call is
emitted. `JumpInv` says what keeps these from staying so:

* each jump of the code, each return address and each function address is the
  start of an instruction or the end of the code; a branch goes forward, and a
  return address is not the 0 it was made with, unless a local variable of a
  handler that has not returned remembers to write it;
* what is left in `todo` closes what the local variables have open, in their
  order (`Fits`: a jump with a patch, the start of a loop with a jump back, a
  return address with its filling in), and inside the root or a function it
  ends with a `ret`: the instruction that the last addresses were waiting for;
* between two functions nothing is open, and every address is the start of an
  instruction.

It rests on three groups of lemmas. On `Locations`: emitting instructions keeps
every place and makes the old end one (`Emission`), and patching an operand
moves nothing (`Patching`). On the visitor: what `generate` does for any class
of node closes what it opens (`GeneratePlan`). On the steps: one lemma each.
Steps that throw or fail an assert leave no chunk. That each constant named
is in the pool comes from `PoolInv`.

`ChunkFileProofs`: `RoundTrip` (`read_chunk` inverts `write_chunk`) for every
chunk whose sizes are unsigned numbers, from `ByteAssumption` (an `int` is four
bytes); by way of the digits of a number, the place of each field in the file,
and the sizes a reader takes from a header. `FileHoldsWritten`
(`Spec => []FileIsWritten`), `LoadsOnlyWritten` (`Spec => []LoadedIsWritten`),
`SavedReadBack` (`Spec => []SavedIsReadBack`) and `FileTypeCorrect` follow from
one invariant, for any number of processes, any chunks and any pieces. It has a
part for each way the file may be written. While one process has opened the file
alone, the file is as much of its chunk's file as the disk has taken; a proper
beginning of such a file fails the size check, and a whole one is `stored`. While no process has split its file, the file begins
with all of a stored chunk, with what a longer file left behind it, or is a
proper beginning of one: in the first case the size check accepts only if nothing
follows, in the second never. A reader that is `calm` has fetched a beginning of
what its one writer writes. It needs `WritersAssumption`, that no process is
called `"shared"`.

`FrontendProofs`: `DeclarationsAreTyped`
(`Spec => []DeclaredIsTyped`), for every set of trees the parser may deliver
(`ParsedAssumption`: pointers point into the tree, no node has two owners, a
table declares only typed parameters, no block has collected returns yet,
which only the analyser does, no node is inside itself, all that is listed is
inside the root, what is assigned or used as a number is an expression, with a
place for a type, and parameters are variables). The tables alone are not inductive: a name takes its type
from the right side of an assignment, or the type found in a scope is written
into a use. `IInv` says that the tree stays one while nodes are added to it and
put in the place of others, that the scopes of every analyser, the active one
and those waiting in `todo`, belong to blocks and functions, and that each task
is about a node of the class its handler takes for granted. There is a lemma
for each way the tree changes (a type is written, a name declared, a node
added, a statement replaced) and one per group of handlers.

`FrontendTypeCorrect` (`Spec => []TypeOK`), in the same module: parts, tables,
collected returns, errors, the scopes of the analyser, the table of functions
and what is left to do point to nodes of the tree, in every state. `IInv` is
silent once the analysis has thrown a bad type, since a declaration broken off
leaves a name without a type in a table; `TypeInv` beside it says what is true
then as well, and what `IInv` leaves out: the returns of a block are nodes,
each error is a known message about a node, the functions around the node
explored are known, and the graph of uses joins functions that are in it.
`AnalyzeRewrites` follows the tree through every handler (which write nothing,
which one field, which declare or add a node), `AnalyzeReports` what they
report, `AnalyzeLeaves` the rest; the invariant of the functions and the errors
then carries over because the tree only grows (`Remain`).

`OwnershipProofs`: `NoNodeIsShared` (`Spec => []StaysTree`), from the same
assumption and beside `IInv`. `StaysTree` counts links and their targets; as
the links are finitely many (`LinksAreFinite`), that is to say that no two have
the same target (`OnceIsSingle`), which can be followed through a step. A write
of an annotation and a declaration keep every node's parts. Making a return of
an expression moves one link, from the block to the new node, and adds one to
the new node, which nothing pointed to (`ReturnOnce`).

`AssignmentsAreTyped` (`Spec => []AssignedIsTyped`), in the same module, needs
that the tree is one. After the look at the right side of an assignment its
targets are gone through, and a subscript among them is visited with all that
its index contains: nested assignments, calls, value blocks. A visit may take
the type of the visited node away. `AssignInv` says of every such assignment
that its right side has a type, and of whatever is to be done before its next
target that it is about a node inside the assignment that is not the right side
(`Before`). A visited node goes on with its own parts only (`GoesOnGiven`); they
are further in, and none is that right side, which has its only owner in the
assignment (`FurtherIn`). "Further in" is an order that has to survive the
making of returns: `Rank` gives a node its place in the parser's list, which has
parts before their owner, and a return that was made a place between its
expression and its block. `Steady` says what a step may do to the tree, with one
lemma for each way of writing (`WriteSteady`, `ReturnSteady`); one lemma per
group of handlers follows, from `QuietApart` to `ReturningApart`.

`OperandProofs`: `NumbersAreInts` (`Spec => []OperandsAreInts`). The property
speaks of accepted files only; what has to be said of the analysis before its
end is where each use of a number is still going to be checked. An operand is
visited before the look at its type, other visits come later (the second pass
over a recursive function visits all of it again), and any visit may write
another type. `OperandInv` says, while no error is reported:

* each node with operands has all of them fine already, or is in the reach of a
  task in `todo` (`AllSeen`); the reach (`Covers`) of a visit is what is inside
  its node, that of an assignment what is inside the targets still to come;
* who uses a node that is to be visited is in the reach of a task after that
  visit (`Awaited`), so that a type written over is looked at again;
* what a tolerant analyser, which lets a wrong type pass, is going to do is in
  the reach of the second pass, with an analyser that is not tolerant
  (`Repeats`).

"Inside" is the least set closed under parts (`Within`); the explorer's part of
the invariant, that all nodes are inside the root, makes the first task of the
analysis reach everything. What a handler does is one of a few things, each
with its lemma: it goes on with tasks that reach no further and check what they
visit (`WorkGoesOn`), it writes the type of its own node (`WriterSees`), it
checks and assigns targets (`AssigningSees`), it reports, or breaks off. That
two parts of a node have nothing in common, so that the visit of one does not
write into what another is checked for, comes from `StaysTree`; and that uses
stay where they are when a return is made and put in the place of its
expression is `ReturnedKeeps`.

`DriverProofs`: `ErrorsStayFinal` (`Spec => []ErrorsAreFinal`), for any number
of processes, all options and sources, and whatever the generator makes of
them. `ErrorsAreFinal` is inductive once it is known that each process has a
place of its own in what the processes keep; a step of the shared file moves
one process, and only one that is past the verdict.

Model-checked only: everything temporal; what `Source`, `Handover`, `AstCopier`
and the LLVM modules say, which are recursive; `AssertsHold`, `SameDepth`,
`ReturnMatchesCall` and `NoFault`, whose invariant would have to relate the
size of the stack to the tree the code came from; of the front end, the
properties that compare the whole tree by way of recursive walks up to the root
(`ReturnsCollected`, `OnlyEarlyCallsUntyped`), and `AnonymousAreNew`, since
`ToString`, which makes a name of a number, is opaque to the provers;
`Codegen.TypeOK`, which is true only as long as the code is small enough for its
addresses to be words, a bound the programs of the runs stay far below.

## 5. Not modelled

* The automata of Flex and Bison, precedences and recovery from errors: they
  are generated. `Syntax` starts from what the actions build.
* Text: the dumper, the disassembler (which is commented out of the build),
  the printing of errors with their lines, help and options' syntax.
* Locations of nodes: no property is about them.
* The main explorer, a header that nothing includes, and the visitor library,
  which dispatches at compile time; its throw for a class without a handler is
  an outcome of the generators.
* In the LLVM backend, the visits of returns, calls and function values and the
  end of `generate_function`: they come after a cast of the function's body, a
  value block, to a statement block, which is undefined. LLVM itself is taken
  at its language reference.
* The sorted graph of uses, which nothing reads. A loop in it (mutual recursion
  through an inner function, `function_explorer.cc:61`) has no effect.
* Value blocks that fall through without a return: what is in `r0` then has no
  meaning in the language. The sample programs return on each path taken.
* Instructions with an opcode above 127.
