-------------------------------- MODULE MCVM --------------------------------
(***************************************************************************)
(* The virtual machine on small chunks: every instruction on an empty      *)
(* stack and after a call frame, every pair of instructions on a stack of  *)
(* constants, and a few chunks for what those do not reach.                *)
(***************************************************************************)
EXTENDS StackMaps

I(op, arg) == [op |-> op, arg |-> arg]

MCPool == <<0, 1, -1, -32, 6>>

(* Every opcode, with operands that name a constant, a local or an address *)
(* that exists, and one that does not.                                     *)
Instructions ==
  {I(op, 0) : op \in NullaryOps \cup UnaryOps \cup UnknownOps}
    \cup {I(op, 1) : op \in UnaryOps}
    \cup {I("push_const", 9), I("jmp", 16), I("jmp_true", 16),
          I("jmp_false", 17), I("mov_local_rel", 63)}

(* Two ways to set the stack up: three constants, or a value read from     *)
(* standard input under a return address and a frame base.                 *)
Constants == <<I("push_const", 2), I("push_const", 3), I("push_const", 2)>>
CallFrame == <<I("push_read", 0), I("push_const", 0), I("call_setup", 0)>>

Enumerated == {<<a>> : a \in Instructions}
                \cup {Constants \o <<a, b>> : a \in Instructions,
                                             b \in Instructions}
                \cup {CallFrame \o <<a>> : a \in Instructions}

Others ==
  { \* a call of a function at 15 that returns its argument doubled
    Assemble(<<I("push_const", 0), I("call_setup", 0), I("push_read", 0),
               I("update_sp", 1), I("jmp", 15), I("store_r0", 0),
               I("print", 0), I("push_local_rel", 0), I("push_local_rel", 0),
               I("add", 0), I("load_r0", 0), I("pop", 0), I("ret", 0)>>,
             <<13>>),
    \* a loop that leaves an element behind in each round
    Assemble(<<I("push_read", 0), I("push_local", 0), I("jmp_false", 32),
               I("push_local", 0), I("push_const", 0), I("sub", 0),
               I("push_local", 0), I("jmp", 1), I("pop", 0), I("ret", 0)>>,
             <<1>>),
    \* a jump through a local, and one through the top of the stack
    Assemble(<<I("push_const", 0), I("push_const", 1),
               I("jmp_dynamic_rel", 0), I("pop", 0), I("jmp_dynamic", 0),
               I("ret", 0)>>, <<15, 17>>),
    \* an instruction whose operand is cut off
    [Assemble(<<I("push_const", 0)>>, <<>>) EXCEPT !.size = 3] }

(* Chunks with a stack map, given as the number of elements that each      *)
(* instruction finds and the base of the frame it runs in.                 *)
Mapped ==
  { \* a loop that prints what it reads, for ever
    [code |-> <<I("push_read", 0), I("print", 0), I("jmp", 0)>>, pool |-> <<>>,
     depths |-> <<0, 1, 0>>, bases |-> <<0, 0, 0>>],
    \* a frame over a value that was read, and a branch that is joined again
    [code |-> <<I("push_read", 0), I("push_sp", 0), I("update_sp", 1),
                I("push_read", 0), I("push_local_rel", 1), I("jmp_false", 29),
                I("push_local_rel", 63), I("not", 0), I("mov_local_rel", 1),
                I("print", 0), I("pop", 0), I("pop", 0), I("ret", 0)>>,
     pool |-> <<>>,
     depths |-> <<0, 1, 2, 2, 3, 4, 3, 4, 4, 3, 2, 1, 0>>,
     bases |-> <<0, 0, 0, 1, 1, 1, 1, 1, 1, 1, 1, 1, 1>>],
    \* a loop that counts what it read down to zero
    [code |-> <<I("push_read", 0), I("push_local", 0), I("jmp_false", 32),
                I("push_local", 0), I("push_const", 0), I("sub", 0),
                I("mov_local", 0), I("jmp", 1), I("load_r0", 0), I("ret", 0)>>,
     pool |-> <<1>>,
     depths |-> <<0, 1, 2, 1, 2, 3, 2, 1, 1, 0>>,
     bases |-> <<0, 0, 0, 0, 0, 0, 0, 0, 0, 0>>],
    \* a division that a test of the divisor guards
    [code |-> <<I("push_const", 0), I("push_read", 0), I("push_local", 1),
                I("jmp_true", 19), I("pop", 0), I("pop", 0), I("ret", 0),
                I("div", 0), I("print", 0), I("ret", 0)>>,
     pool |-> <<7>>,
     depths |-> <<0, 1, 2, 3, 2, 1, 0, 2, 1, 0>>,
     bases |-> <<0, 0, 0, 0, 0, 0, 0, 0, 0, 0>>] }

MCChunks ==
  Others \cup {Assemble(q \o <<I("ret", 0)>>, MCPool) : q \in Enumerated}
         \cup {Assemble(m.code, m.pool) : m \in Mapped}

MapOf(m) ==
  LET loc == Locations(m.code)
  IN  [a \in {loc[i - 1] : i \in DOMAIN m.code} |->
         LET i == CHOOSE i \in DOMAIN m.code : loc[i - 1] = a
         IN  [depth |-> m.depths[i], base |-> m.bases[i]]]

MCStackMap ==
  [ch \in {Assemble(m.code, m.pool) : m \in Mapped} |->
     MapOf(CHOOSE m \in Mapped : Assemble(m.code, m.pool) = ch)]

MCInputs == {<<>>, <<[ok |-> TRUE, val |-> 6], [ok |-> FALSE, val |-> 0]>>}

MCGarbage == {1}
=============================================================================
