--------------------------- MODULE CodegenProofs ---------------------------
(***************************************************************************)
(* Theorems about the generator, for every set of programs.                *)
(***************************************************************************)
EXTENDS Codegen, FiniteSetTheorems, SequenceTheorems, TLAPS

-----------------------------------------------------------------------------
(* A table is a sequence of records with the given fields.  Nothing is     *)
(* said of the fields other than index: addresses and functions are        *)
(* whatever the program makes them.                                        *)
IsTable(t, fields) ==
  /\ t \in Seq(Range(t))
  /\ \A k \in DOMAIN t : DOMAIN t[k] = fields

Tables == /\ IsFiniteSet(DOMAIN constantMap)
          /\ IsTable(returnAddresses, {"index", "address"})
          /\ IsTable(dynamicJumps, {"index", "address", "func"})

(* The indices the three tables have taken.                                *)
IndicesOf(t)  == {t[k].index : k \in DOMAIN t}
Taken == {constantMap[c] : c \in DOMAIN constantMap}
           \cup IndicesOf(returnAddresses) \cup IndicesOf(dynamicJumps)

(* The inductive invariant: the tables are tables, and what they have      *)
(* taken is what lies below the counter.                                   *)
PoolInv == Tables /\ Taken = 0 .. (CurrentConstantIndex - 1)

LEMMA AppendTable ==
  ASSUME NEW t, NEW fields, IsTable(t, fields),
         NEW e, DOMAIN e = fields
  PROVE  /\ IsTable(Append(t, e), fields)
         /\ Len(Append(t, e)) = Len(t) + 1 /\ Len(t) \in Nat
         /\ IndicesOf(Append(t, e)) = IndicesOf(t) \cup {e.index}
<1> DEFINE u == Append(t, e)
<1>1. t \in Seq(Range(t)) /\ Len(t) \in Nat /\ DOMAIN t = 1 .. Len(t)
  BY DEF IsTable
<1>2. /\ u \in Seq(Range(t) \cup {e}) /\ Len(u) = Len(t) + 1
      /\ DOMAIN u = 1 .. (Len(t) + 1)
      /\ u[Len(t) + 1] = e
      /\ \A k \in 1 .. Len(t) : u[k] = t[k]
  <2>1. t \in Seq(Range(t) \cup {e}) /\ e \in Range(t) \cup {e}
    BY <1>1
  <2> QED
    BY <1>1, <2>1, AppendProperties
<1> HIDE DEF u
<1>3. u \in Seq(Range(u))
  BY <1>1, <1>2 DEF Range
<1>4. \A k \in DOMAIN u : DOMAIN u[k] = fields
  BY <1>1, <1>2 DEF IsTable
<1>5. IndicesOf(u) = IndicesOf(t) \cup {e.index}
  BY <1>1, <1>2 DEF IndicesOf
<1> QED
  BY <1>1, <1>2, <1>3, <1>4, <1>5 DEF u, IsTable

(* Writing addresses into a table leaves its indices alone.                *)
LEMMA AddressTable ==
  ASSUME NEW t, NEW fields, IsTable(t, fields), "index" \in fields,
         NEW u, DOMAIN u = DOMAIN t,
         u = [k \in DOMAIN u |-> u[k]],
         \A k \in DOMAIN t : /\ DOMAIN u[k] = DOMAIN t[k]
                             /\ u[k].index = t[k].index
  PROVE  /\ IsTable(u, fields) /\ Len(u) = Len(t)
         /\ IndicesOf(u) = IndicesOf(t)
<1>1. t \in Seq(Range(t)) /\ Len(t) \in Nat /\ DOMAIN t = 1 .. Len(t)
  BY DEF IsTable
<1>2. u \in Seq(Range(u)) /\ Len(u) = Len(t)
  BY <1>1 DEF Range
<1>3. \A k \in DOMAIN u : DOMAIN u[k] = fields
  BY DEF IsTable
<1>4. IndicesOf(u) = IndicesOf(t)
  BY DEF IndicesOf
<1> QED
  BY <1>2, <1>3, <1>4 DEF IsTable

(* The counter is a natural number.                                        *)
LEMMA CounterType ==
  ASSUME Tables
  PROVE  /\ CurrentConstantIndex \in Nat
         /\ Cardinality(DOMAIN constantMap) \in Nat
         /\ Len(returnAddresses) \in Nat /\ Len(dynamicJumps) \in Nat
<1>1. Cardinality(DOMAIN constantMap) \in Nat
  BY FS_CardinalityType DEF Tables
<1>2. Len(returnAddresses) \in Nat /\ Len(dynamicJumps) \in Nat
  BY DEF Tables, IsTable
<1> QED
  BY <1>1, <1>2 DEF CurrentConstantIndex

(* lookup_or_insert_constant keeps the invariant.                          *)
LEMMA InsertConstant ==
  ASSUME PoolInv, NEW c, constantMap' = Inserted(c),
         UNCHANGED <<returnAddresses, dynamicJumps>>
  PROVE  PoolInv' /\ Taken \subseteq Taken'
<1>1. DOMAIN constantMap' = DOMAIN constantMap \cup {c}
  BY DEF Inserted
<1>2. /\ IsFiniteSet(DOMAIN constantMap')
      /\ Cardinality(DOMAIN constantMap') =
           IF c \in DOMAIN constantMap THEN Cardinality(DOMAIN constantMap)
                                       ELSE Cardinality(DOMAIN constantMap) + 1
  BY <1>1, FS_AddElement DEF PoolInv, Tables
<1>3. Tables'
  BY <1>2 DEF PoolInv, Tables, IsTable
<1>4. CASE c \in DOMAIN constantMap
  <2>1. Taken' = Taken
    BY <1>1, <1>4 DEF Inserted, LookupConstant, Taken, IndicesOf
  <2>2. CurrentConstantIndex' = CurrentConstantIndex
    BY <1>2, <1>4 DEF CurrentConstantIndex
  <2> QED
    BY <1>3, <2>1, <2>2 DEF PoolInv
<1>5. CASE c \notin DOMAIN constantMap
  <2> DEFINE values(m) == {m[v] : v \in DOMAIN m}
  <2>a. /\ \A v \in DOMAIN constantMap : constantMap'[v] = constantMap[v]
        /\ constantMap'[c] = CurrentConstantIndex
    BY <1>1, <1>5 DEF Inserted, LookupConstant
  <2>b. values(constantMap') = values(constantMap) \cup {CurrentConstantIndex}
    BY <1>1, <2>a
  <2>1. Taken' = Taken \cup {CurrentConstantIndex}
    BY <2>b DEF Taken, IndicesOf
  <2>2. CurrentConstantIndex' = CurrentConstantIndex + 1
    BY <1>2, <1>5, CounterType DEF PoolInv, CurrentConstantIndex
  <2>3. CurrentConstantIndex \in Nat
    BY CounterType DEF PoolInv
  <2> QED
    BY <1>3, <2>1, <2>2, <2>3 DEF PoolInv
<1> QED
  BY <1>4, <1>5

(* A new entry of the table of return addresses, or of functions, takes    *)
(* the place the counter shows.                                            *)
LEMMA AppendEntry ==
  ASSUME PoolInv, UNCHANGED constantMap,
         NEW e, e.index = CurrentConstantIndex,
         \/ /\ DOMAIN e = {"index", "address"}
            /\ returnAddresses' = Append(returnAddresses, e)
            /\ UNCHANGED dynamicJumps
         \/ /\ DOMAIN e = {"index", "address", "func"}
            /\ dynamicJumps' = Append(dynamicJumps, e)
            /\ UNCHANGED returnAddresses
  PROVE  PoolInv' /\ Taken \subseteq Taken'
<1>1. CurrentConstantIndex \in Nat /\ Cardinality(DOMAIN constantMap) \in Nat
      /\ Len(returnAddresses) \in Nat /\ Len(dynamicJumps) \in Nat
  BY CounterType DEF PoolInv
<1>2. CASE /\ DOMAIN e = {"index", "address"}
           /\ returnAddresses' = Append(returnAddresses, e)
           /\ UNCHANGED dynamicJumps
  <2>1. /\ IsTable(returnAddresses', {"index", "address"})
        /\ Len(returnAddresses') = Len(returnAddresses) + 1
        /\ IndicesOf(returnAddresses')
             = IndicesOf(returnAddresses) \cup {CurrentConstantIndex}
    BY <1>2, AppendTable DEF PoolInv, Tables
  <2>2. Tables'
    BY <1>2, <2>1 DEF PoolInv, Tables, IsTable
  <2>3. Taken' = Taken \cup {CurrentConstantIndex}
    BY <1>2, <2>1 DEF Taken
  <2>4. CurrentConstantIndex' = CurrentConstantIndex + 1
    BY <1>1, <1>2, <2>1 DEF CurrentConstantIndex
  <2> QED
    BY <1>1, <2>2, <2>3, <2>4 DEF PoolInv
<1>3. CASE /\ DOMAIN e = {"index", "address", "func"}
           /\ dynamicJumps' = Append(dynamicJumps, e)
           /\ UNCHANGED returnAddresses
  <2>1. /\ IsTable(dynamicJumps', {"index", "address", "func"})
        /\ Len(dynamicJumps') = Len(dynamicJumps) + 1
        /\ IndicesOf(dynamicJumps')
             = IndicesOf(dynamicJumps) \cup {CurrentConstantIndex}
    BY <1>3, AppendTable DEF PoolInv, Tables
  <2>2. Tables'
    BY <1>3, <2>1 DEF PoolInv, Tables, IsTable
  <2>3. Taken' = Taken \cup {CurrentConstantIndex}
    BY <1>3, <2>1 DEF Taken
  <2>4. CurrentConstantIndex' = CurrentConstantIndex + 1
    BY <1>1, <1>3, <2>1 DEF CurrentConstantIndex
  <2> QED
    BY <1>1, <2>2, <2>3, <2>4 DEF PoolInv
<1> QED
  BY <1>2, <1>3

(* Resolving the addresses of one table moves no entry.                    *)
LEMMA ResolveAddresses ==
  ASSUME PoolInv, UNCHANGED constantMap,
         \/ /\ IsTable(returnAddresses', {"index", "address"})
            /\ Len(returnAddresses') = Len(returnAddresses)
            /\ IndicesOf(returnAddresses') = IndicesOf(returnAddresses)
            /\ UNCHANGED dynamicJumps
         \/ /\ IsTable(dynamicJumps', {"index", "address", "func"})
            /\ Len(dynamicJumps') = Len(dynamicJumps)
            /\ IndicesOf(dynamicJumps') = IndicesOf(dynamicJumps)
            /\ UNCHANGED returnAddresses
  PROVE  PoolInv' /\ Taken \subseteq Taken'
<1>1. Tables'
  BY DEF PoolInv, Tables, IsTable
<1>2. Taken' = Taken
  BY DEF Taken
<1>3. CurrentConstantIndex' = CurrentConstantIndex
  BY DEF CurrentConstantIndex
<1> QED
  BY <1>1, <1>2, <1>3 DEF PoolInv

-----------------------------------------------------------------------------
LEMMA PoolUnchanged ==
  ASSUME PoolInv, UNCHANGED tables PROVE PoolInv' /\ Taken \subseteq Taken'
<1>1. UNCHANGED <<constantMap, returnAddresses, dynamicJumps>>
  BY DEF tables
<1> QED
  BY <1>1 DEF PoolInv, Tables, IsTable, Taken, CurrentConstantIndex, IndicesOf

(* Six steps touch the pool; every other one leaves its tables alone, and  *)
(* none gives up a place that is taken.                                    *)
LEMMA PoolStep ==
  ASSUME PoolInv, [Next]_genVars PROVE PoolInv' /\ Taken \subseteq Taken'
<1>1. CASE PushConstantStep
  BY <1>1, InsertConstant DEF PushConstantStep
<1>2. CASE BeginScopeStep
  <2>1. CASE constantMap' = Inserted(0)
    BY <1>2, <2>1, InsertConstant DEF BeginScopeStep
  <2>2. CASE constantMap' = constantMap
    BY <1>2, <2>2, PoolUnchanged DEF BeginScopeStep, tables
  <2> QED
    BY <1>2, <2>1, <2>2 DEF BeginScopeStep
<1>3. CASE OpenReturnStep
  <2> DEFINE e == [index |-> CurrentConstantIndex, address |-> 0]
  <2>1. /\ returnAddresses' = Append(returnAddresses, e)
        /\ UNCHANGED <<constantMap, dynamicJumps>>
    BY <1>3 DEF OpenReturnStep
  <2>2. DOMAIN e = {"index", "address"} /\ e.index = CurrentConstantIndex
    OBVIOUS
  <2> QED
    BY <2>1, <2>2, AppendEntry
<1>4. CASE PushFunctionStep
  <2> DEFINE e == [index |-> CurrentConstantIndex, address |-> 0,
                   func |-> Task.def]
  <2>1. /\ dynamicJumps' = Append(dynamicJumps, e)
        /\ UNCHANGED <<constantMap, returnAddresses>>
    BY <1>4 DEF PushFunctionStep
  <2>2. /\ DOMAIN e = {"index", "address", "func"}
        /\ e.index = CurrentConstantIndex
    OBVIOUS
  <2> QED
    BY <2>1, <2>2, AppendEntry
<1>5. CASE CloseReturnStep
  <2> DEFINE t == returnAddresses
  <2>1. /\ t' = [t EXCEPT ![Last(locals).ret].address = curLoc]
        /\ UNCHANGED <<constantMap, dynamicJumps>>
    BY <1>5 DEF CloseReturnStep
  <2>2. IsTable(t, {"index", "address"})
    BY DEF PoolInv, Tables
  <2>3. \A k \in DOMAIN t : "index" \in DOMAIN t[k]
    BY <2>2 DEF IsTable
  <2>4. /\ DOMAIN t' = DOMAIN t
        /\ t' = [k \in DOMAIN t' |-> t'[k]]
        /\ \A k \in DOMAIN t : /\ DOMAIN t'[k] = DOMAIN t[k]
                              /\ t'[k].index = t[k].index
    BY <2>1, <2>3
  <2>5. /\ IsTable(t', {"index", "address"}) /\ Len(t') = Len(t)
        /\ IndicesOf(t') = IndicesOf(t)
    BY <2>2, <2>4, AddressTable
  <2> QED
    BY <2>1, <2>5, ResolveAddresses
<1>6. CASE Relocate
  <2> DEFINE t == dynamicJumps
  <2>0. CASE ~(Wanted \subseteq DOMAIN functionDefs)
    BY <1>6, <2>0, PoolUnchanged DEF Relocate, Failing
  <2>1. CASE Wanted \subseteq DOMAIN functionDefs
    <3>1. /\ t' = [n \in DOMAIN t |->
                    [t[n] EXCEPT !.address = functionDefs[t[n].func]]]
          /\ UNCHANGED <<constantMap, returnAddresses>>
      BY <1>6, <2>1 DEF Relocate
    <3>2. IsTable(t, {"index", "address", "func"})
      BY DEF PoolInv, Tables
    <3>3. \A k \in DOMAIN t : "index" \in DOMAIN t[k]
      BY <3>2 DEF IsTable
    <3>4. /\ DOMAIN t' = DOMAIN t
          /\ t' = [k \in DOMAIN t' |-> t'[k]]
          /\ \A k \in DOMAIN t : /\ DOMAIN t'[k] = DOMAIN t[k]
                                /\ t'[k].index = t[k].index
      BY <3>1, <3>3
    <3>5. /\ IsTable(t', {"index", "address", "func"}) /\ Len(t') = Len(t)
          /\ IndicesOf(t') = IndicesOf(t)
      BY <3>2, <3>4, AddressTable
    <3> QED
      BY <3>1, <3>5, ResolveAddresses
  <2> QED
    BY <2>0, <2>1
<1>7. ASSUME NEW f \in pending, GenerateFunction(f)
      PROVE  PoolInv' /\ Taken \subseteq Taken'
  BY <1>7, PoolUnchanged DEF GenerateFunction
<1>8. CASE VisitNode \/ SetFlag \/ EmitStep \/ PushFromStep \/ MoveToStep
           \/ EndScopeStep \/ KeepGlobalsStep
  BY <1>8, PoolUnchanged
     DEF VisitNode, SetFlag, EmitStep, PushFromStep, MoveToStep,
         EndScopeStep, KeepGlobalsStep
<1>9. CASE CallDefinitionStep \/ CallVariableStep \/ LeaveFunctionStep
           \/ OpenJumpStep \/ ElseJumpStep \/ CloseJumpStep
           \/ MarkLoopStep \/ CloseLoopStep
  BY <1>9, PoolUnchanged
     DEF CallDefinitionStep, CallVariableStep, LeaveFunctionStep,
         OpenJumpStep, ElseJumpStep, CloseJumpStep, MarkLoopStep,
         CloseLoopStep
<1>10. CASE PopsNothing \/ ScopeUnderflow \/ NoCallee \/ LeaveUnderflow
            \/ ParameterTwice \/ FailStep
  <2>1. UNCHANGED tables
    BY <1>10 DEF PopsNothing, ScopeUnderflow, NoCallee, LeaveUnderflow,
                 ParameterTwice, FailStep, Failing
  <2> QED
    BY <2>1, PoolUnchanged
<1>11. CASE Finished \/ UNCHANGED genVars
  <2>1. UNCHANGED tables
    BY <1>11 DEF Finished, genVars
  <2> QED
    BY <2>1, PoolUnchanged
<1> QED
  BY <1>1, <1>2, <1>3, <1>4, <1>5, <1>6, <1>7, <1>8, <1>9, <1>10, <1>11
     DEF Next, GenerateStep

(* The inductive invariant says what the pool's entries have taken.        *)
LEMMA TakenIsPool ==
  ASSUME PoolInv PROVE {e.index : e \in PoolEntries} = Taken
<1>1. /\ \A i : i \in IndicesOf(returnAddresses)
              <=> \E r \in Range(returnAddresses) : i = r.index
      /\ \A i : i \in IndicesOf(dynamicJumps)
              <=> \E r \in Range(dynamicJumps) : i = r.index
  BY DEF IndicesOf, Range
<1>2. ASSUME NEW e \in PoolEntries PROVE e.index \in Taken
  BY <1>1, <1>2 DEF PoolEntries, Taken
<1>3. ASSUME NEW i \in Taken PROVE \E e \in PoolEntries : i = e.index
  <2>1. CASE \E c \in DOMAIN constantMap : i = constantMap[c]
    <3>1. PICK c \in DOMAIN constantMap : i = constantMap[c]
      BY <2>1
    <3>2. [index |-> constantMap[c], value |-> c] \in PoolEntries
      BY DEF PoolEntries
    <3> QED
      BY <3>1, <3>2
  <2>2. CASE \E r \in Range(returnAddresses) \cup Range(dynamicJumps) :
               i = r.index
    <3>1. PICK r \in Range(returnAddresses) \cup Range(dynamicJumps) :
            i = r.index
      BY <2>2
    <3>2. [index |-> r.index, value |-> r.address] \in PoolEntries
      BY DEF PoolEntries
    <3> QED
      BY <3>1, <3>2
  <2> QED
    BY <1>1, <1>3, <2>1, <2>2 DEF Taken
<1> QED
  BY <1>2, <1>3

LEMMA PoolInit == ASSUME Init PROVE PoolInv
<1>1. /\ constantMap = <<>> /\ returnAddresses = <<>>
      /\ dynamicJumps = <<>>
  BY DEF Init, Created
<1>2. DOMAIN constantMap = {} /\ Len(returnAddresses) = 0
      /\ Len(dynamicJumps) = 0
  BY <1>1
<1>3. Tables
  BY <1>1, <1>2, FS_EmptySet DEF Tables, IsTable, Range
<1>4. Taken = {}
  BY <1>1, <1>2 DEF Taken, IndicesOf
<1>5. CurrentConstantIndex = 0
  BY <1>2, FS_EmptySet DEF CurrentConstantIndex
<1> QED
  BY <1>3, <1>4, <1>5 DEF PoolInv

(* The constant pool is exact, whatever the programs: the indices handed   *)
(* out by the constants, the return addresses and the function addresses   *)
(* are at every moment those below current_constant_index(), so to_chunk   *)
(* gives every place of the pool a value and writes to no other.           *)
THEOREM PoolIsExact == Spec => []PoolExact
<1>1. Init => PoolInv
  BY PoolInit
<1>2. PoolInv /\ [Next]_genVars => PoolInv'
  BY PoolStep
<1>3. PoolInv => PoolExact
  BY TakenIsPool DEF PoolInv, PoolExact
<1> QED
  BY <1>1, <1>2, <1>3, PTL DEF Spec

=============================================================================
