----------------------------- MODULE JumpProofs -----------------------------
(***************************************************************************)
(* Every jump of a finished chunk lands at an instruction, for every set   *)
(* of programs.                                                            *)
(***************************************************************************)
EXTENDS CodegenProofs, WellFoundedInduction

-----------------------------------------------------------------------------
(* How instructions are laid out: facts about Locations.                   *)
IsCode(c)   == IsTable(c, {"op", "arg"})
Unary(c, n) == {k \in DOMAIN c : c[k].op \in UnaryOps /\ k <= n}
At(c, k)    == Locations(c)[k - 1]
End(c)      == Locations(c)[Len(c)]

(* Where an instruction starts, and where one may start next.              *)
Starts(c)   == {At(c, k) : k \in DOMAIN c}
Places(c)   == Starts(c) \cup {End(c)}

(* A list of instructions is a sequence of its elements.                   *)
LEMMA CodeIs ==
  ASSUME NEW c, IsCode(c)
  PROVE  /\ c \in Seq(Range(c)) /\ Len(c) \in Nat /\ DOMAIN c = 1 .. Len(c)
         /\ c = [k \in 1 .. Len(c) |-> c[k]]
BY DEF IsCode, IsTable

(* An instruction starts where the ones before it end: a byte each, and    *)
(* four more for an operand.                                               *)
LEMMA LocationIs ==
  ASSUME NEW c, IsCode(c), NEW n \in 0 .. Len(c)
  PROVE  /\ IsFiniteSet(Unary(c, n)) /\ Cardinality(Unary(c, n)) \in Nat
         /\ Locations(c)[n] = n + 4 * Cardinality(Unary(c, n))
         /\ Locations(c)[n] \in Nat
<1>1. Len(c) \in Nat /\ DOMAIN c = 1 .. Len(c)
  BY CodeIs
<1>2. IsFiniteSet(Unary(c, n)) /\ Cardinality(Unary(c, n)) \in Nat
  <2>1. Unary(c, n) \in SUBSET (1 .. Len(c))
    BY <1>1 DEF Unary
  <2>2. IsFiniteSet(1 .. Len(c))
    BY <1>1, FS_Interval
  <2> QED
    BY <2>1, <2>2, FS_Subset, FS_CardinalityType
<1>3. {k \in {j \in DOMAIN c : c[j].op \in UnaryOps} : k <= n} = Unary(c, n)
  BY DEF Unary
<1>4. Locations(c)[n] = n + 4 * Cardinality(Unary(c, n))
  BY <1>3 DEF Locations
<1> QED
  BY <1>2, <1>4

(* Each instruction takes room.                                            *)
LEMMA Ascending ==
  ASSUME NEW c, IsCode(c), NEW m \in 0 .. Len(c), NEW n \in 0 .. Len(c), m < n
  PROVE  Locations(c)[m] < Locations(c)[n]
<1>1. Len(c) \in Nat
  BY CodeIs
<1>2. Unary(c, m) \in SUBSET Unary(c, n)
  BY <1>1, CodeIs DEF Unary
<1>3. Cardinality(Unary(c, m)) <= Cardinality(Unary(c, n))
  BY <1>2, LocationIs, FS_Subset
<1> QED
  BY <1>1, <1>3, LocationIs

(* The first instruction starts at 0.                                      *)
LEMMA FirstLocation ==
  ASSUME NEW c, IsCode(c)
  PROVE  Locations(c)[0] = 0
<1>1. Unary(c, 0) = {} /\ 0 \in 0 .. Len(c)
  BY CodeIs DEF Unary
<1>2. Cardinality(Unary(c, 0)) = 0
  BY <1>1, FS_EmptySet
<1>3. Locations(c)[0] = 0 + 4 * Cardinality(Unary(c, 0))
  BY <1>1, LocationIs
<1> QED
  BY <1>2, <1>3

(* Only the operations matter.                                             *)
LEMMA SameLocations ==
  ASSUME NEW c, IsCode(c), NEW d, IsCode(d), Len(c) <= Len(d),
         \A k \in 1 .. Len(c) : d[k].op = c[k].op,
         NEW n \in 0 .. Len(c)
  PROVE  Locations(d)[n] = Locations(c)[n]
<1>1. n \in 0 .. Len(d) /\ Unary(c, n) = Unary(d, n)
  BY CodeIs DEF Unary
<1> QED
  BY <1>1, LocationIs

(* A list behind another one.                                              *)
LEMMA ConcatTable ==
  ASSUME NEW s, NEW t, NEW fields, IsTable(s, fields), IsTable(t, fields)
  PROVE  /\ IsTable(s \o t, fields)
         /\ Len(s \o t) = Len(s) + Len(t)
         /\ \A k \in 1 .. Len(s) : (s \o t)[k] = s[k]
         /\ \A k \in 1 .. Len(t) : (s \o t)[Len(s) + k] = t[k]
<1> DEFINE S == Range(s) \cup Range(t)
<1>1. s \in Seq(S) /\ t \in Seq(S) /\ Len(s) \in Nat /\ Len(t) \in Nat
      /\ DOMAIN s = 1 .. Len(s) /\ DOMAIN t = 1 .. Len(t)
  BY DEF IsTable, S
<1> HIDE DEF S
<1>2. /\ s \o t \in Seq(S) /\ Len(s \o t) = Len(s) + Len(t)
      /\ DOMAIN (s \o t) = 1 .. Len(s) + Len(t)
      /\ \A i \in 1 .. Len(s) + Len(t) : (s \o t)[i] =
                     IF i <= Len(s) THEN s[i] ELSE t[i - Len(s)]
  BY <1>1, ConcatProperties, LenProperties
<1>3. s \o t \in Seq(Range(s \o t))
  BY <1>2, SeqOfRange
<1>4. \A k \in 1 .. Len(t) : (s \o t)[Len(s) + k] = t[k]
  BY <1>1, <1>2
<1>5. \A k \in 1 .. Len(s) : (s \o t)[k] = s[k]
  BY <1>1, <1>2
<1>6. ASSUME NEW k \in DOMAIN (s \o t) PROVE DOMAIN (s \o t)[k] = fields
  <2>1. CASE k <= Len(s)
    BY <1>1, <1>2, <2>1 DEF IsTable
  <2>2. CASE ~(k <= Len(s))
    <3>1. k - Len(s) \in DOMAIN t /\ (s \o t)[k] = t[k - Len(s)]
      BY <1>1, <1>2, <2>2
    <3> QED
      BY <3>1 DEF IsTable
  <2> QED
    BY <2>1, <2>2
<1> QED
  BY <1>2, <1>3, <1>4, <1>5, <1>6 DEF IsTable

(* The sizes of two lists add up.                                          *)
LEMMA EndOfConcat ==
  ASSUME NEW c, IsCode(c), NEW d, IsCode(d)
  PROVE  End(c \o d) = End(c) + End(d)
<1> DEFINE e == c \o d
           U == Unary(c, Len(c))
           V == Unary(d, Len(d))
           W == {Len(c) + k : k \in V}
           shift == [k \in V |-> Len(c) + k]
<1>1. /\ IsCode(e) /\ Len(e) = Len(c) + Len(d)
      /\ \A k \in 1 .. Len(c) : e[k] = c[k]
      /\ \A k \in 1 .. Len(d) : e[Len(c) + k] = d[k]
  BY ConcatTable DEF IsCode
<1>2. /\ Len(c) \in Nat /\ Len(d) \in Nat
      /\ DOMAIN c = 1 .. Len(c) /\ DOMAIN d = 1 .. Len(d)
      /\ DOMAIN e = 1 .. Len(e)
  BY <1>1, CodeIs
<1> HIDE DEF e
<1>3. Unary(e, Len(e)) = U \cup W
  <2>1. ASSUME NEW k \in Unary(e, Len(e)) PROVE k \in U \cup W
    <3>1. CASE k <= Len(c)
      BY <1>1, <1>2, <2>1, <3>1 DEF Unary
    <3>2. CASE ~(k <= Len(c))
      <4>1. k - Len(c) \in V /\ k = Len(c) + (k - Len(c))
        BY <1>1, <1>2, <2>1, <3>2 DEF Unary
      <4> QED
        BY <4>1
    <3> QED
      BY <3>1, <3>2
  <2>2. ASSUME NEW k \in U PROVE k \in Unary(e, Len(e))
    BY <1>1, <1>2 DEF Unary
  <2>3. ASSUME NEW k \in V PROVE Len(c) + k \in Unary(e, Len(e))
    BY <1>1, <1>2 DEF Unary
  <2> QED
    BY <2>1, <2>2, <2>3
<1>4. IsFiniteSet(U) /\ IsFiniteSet(V)
      /\ Cardinality(U) \in Nat /\ Cardinality(V) \in Nat
  BY <1>2, LocationIs
<1>5. IsFiniteSet(W) /\ Cardinality(W) = Cardinality(V)
  <2>1. \A k \in V : k \in Nat
    BY <1>2 DEF Unary
  <2>2. shift \in Bijection(V, W)
    BY <1>2, <2>1 DEF Bijection, Injection, Surjection, IsInjective
  <2>3. ExistsBijection(V, W)
    BY <2>2 DEF ExistsBijection
  <2> QED
    BY <1>4, <2>3, FS_Bijection
<1>6. U \cap W = {}
  BY <1>2 DEF Unary
<1>7. Cardinality(Unary(e, Len(e))) = Cardinality(U) + Cardinality(V)
  <2> HIDE DEF U, V, W
  <2>1. Cardinality(U \cap W) = 0
    BY <1>6, FS_EmptySet
  <2>2. Cardinality(U \cup W)
          = Cardinality(U) + Cardinality(W) - Cardinality(U \cap W)
    BY <1>4, <1>5, FS_Union
  <2> QED
    BY <1>3, <1>4, <1>5, <2>1, <2>2
<1>8. /\ End(c) = Len(c) + 4 * Cardinality(U)
      /\ End(d) = Len(d) + 4 * Cardinality(V)
      /\ End(e) = Len(e) + 4 * Cardinality(Unary(e, Len(e)))
  BY <1>1, <1>2, LocationIs DEF End
<1>9. End(e) = End(c) + End(d)
  BY <1>1, <1>2, <1>4, <1>7, <1>8
<1> QED
  BY <1>9 DEF e

(* Two changes of the code, of c into e: emitting d, writing an operand.   *)
Follows(c, d, e)            == e = c \o d
IsPatched(c, at, target, e) == e = Patched(c, at, target)

(* What emitting instructions does to the places.                          *)
LEMMA Emission ==
  ASSUME NEW c, IsCode(c), NEW d, IsCode(d), NEW e, Follows(c, d, e)
  PROVE  /\ IsCode(e) /\ End(e) = End(c) + End(d)
         /\ Len(e) = Len(c) + Len(d)
         /\ \A k \in DOMAIN c : k \in DOMAIN e /\ e[k] = c[k] /\ At(e, k) = At(c, k)
         /\ \A k \in DOMAIN d : Len(c) + k \in DOMAIN e /\ e[Len(c) + k] = d[k]
         /\ \A k \in DOMAIN e : k \in DOMAIN c \/ k - Len(c) \in DOMAIN d
         /\ Places(c) \subseteq Places(e)
         /\ d # <<>> => Places(c) \subseteq Starts(e) /\ End(e) \notin Places(c)
<1>0. e = c \o d
  BY DEF Follows
<1>1. /\ IsCode(e) /\ Len(e) = Len(c) + Len(d)
      /\ \A k \in 1 .. Len(c) : e[k] = c[k]
      /\ \A k \in 1 .. Len(d) : e[Len(c) + k] = d[k]
  BY <1>0, ConcatTable DEF IsCode
<1>2. /\ Len(c) \in Nat /\ Len(d) \in Nat
      /\ DOMAIN c = 1 .. Len(c) /\ DOMAIN d = 1 .. Len(d)
      /\ DOMAIN e = 1 .. Len(e)
  BY <1>1, CodeIs
<1>3. End(e) = End(c) + End(d)
  BY <1>0, EndOfConcat
<1>4. \A n \in 0 .. Len(c) : Locations(e)[n] = Locations(c)[n]
  <2>1. Len(c) <= Len(e)
    BY <1>1, <1>2
  <2>2. \A k \in 1 .. Len(c) : e[k].op = c[k].op
    BY <1>1
  <2> QED
    BY <1>1, <2>1, <2>2, SameLocations
<1>5. \A k \in DOMAIN c : k \in DOMAIN e /\ e[k] = c[k] /\ At(e, k) = At(c, k)
  BY <1>1, <1>2, <1>4 DEF At
<1>6. Starts(c) \subseteq Starts(e)
  BY <1>5 DEF Starts
<1>7. CASE d = <<>>
  <2>1. Len(e) = Len(c)
    BY <1>1, <1>7
  <2>2. Len(c) \in 0 .. Len(c)
    BY <1>2
  <2>3. End(e) = End(c)
    BY <1>4, <2>1, <2>2 DEF End
  <2> QED
    BY <1>1, <1>2, <1>3, <1>5, <1>6, <1>7, <2>3 DEF Places
<1>8. CASE d # <<>>
  <2>1. Len(d) > 0
    BY <1>2, <1>8, CodeIs, EmptySeq
  <2>2. Len(c) + 1 \in DOMAIN e /\ At(e, Len(c) + 1) = End(c)
    BY <1>1, <1>2, <1>4, <2>1 DEF At, End
  <2>3. End(c) \in Starts(e)
    BY <2>2 DEF Starts
  <2>4. ASSUME NEW n \in 0 .. Len(c) PROVE Locations(e)[n] < End(e)
    <3>1. n \in 0 .. Len(e) /\ Len(e) \in 0 .. Len(e) /\ n < Len(e)
      BY <1>1, <1>2, <2>1
    <3> QED
      BY <1>1, <3>1, Ascending DEF End
  <2>5. End(e) \notin Places(c)
    <3>1. \A k \in DOMAIN c : At(c, k) < End(e)
      BY <1>2, <1>4, <2>4 DEF At
    <3>2. End(c) < End(e)
      BY <1>2, <1>4, <2>4 DEF End
    <3>3. \A p \in Places(c) : p < End(e)
      BY <3>1, <3>2 DEF Places, Starts
    <3>4. End(e) \in Nat
      <4>1. Len(e) \in 0 .. Len(e)
        BY <1>1, <1>2
      <4> QED
        BY <1>1, <4>1, LocationIs DEF End
    <3> QED
      BY <3>3, <3>4
  <2> QED
    BY <1>1, <1>2, <1>3, <1>5, <1>6, <2>3, <2>5 DEF Places
<1> QED
  BY <1>7, <1>8

(* Writing an operand moves nothing.                                       *)
LEMMA Patching ==
  ASSUME NEW c, IsCode(c), NEW at \in DOMAIN c, NEW target,
         NEW e, IsPatched(c, at, target, e)
  PROVE  /\ IsCode(e) /\ End(e) = End(c) /\ Len(e) = Len(c)
         /\ DOMAIN e = DOMAIN c
         /\ Places(e) = Places(c) /\ Starts(e) = Starts(c)
         /\ \A k \in DOMAIN c : /\ e[k].op = c[k].op /\ At(e, k) = At(c, k)
                                /\ k # at => e[k] = c[k]
         /\ e[at].arg = target
<1>1. /\ c \in Seq(Range(c)) /\ Len(c) \in Nat /\ DOMAIN c = 1 .. Len(c)
      /\ c = [k \in 1 .. Len(c) |-> c[k]]
  BY CodeIs
<1>2. \A k \in DOMAIN c : DOMAIN c[k] = {"op", "arg"}
  BY DEF IsCode, IsTable
<1>3. e = [k \in DOMAIN c |-> IF k = at THEN [c[k] EXCEPT !.arg = target]
                                        ELSE c[k]]
  BY <1>1 DEF Patched, IsPatched
<1>4. /\ DOMAIN e = DOMAIN c
      /\ \A k \in DOMAIN c : /\ DOMAIN e[k] = {"op", "arg"}
                             /\ e[k].op = c[k].op
                             /\ k # at => e[k] = c[k]
      /\ e[at].arg = target
  BY <1>2, <1>3
<1>5. e \in Seq(Range(e)) /\ Len(e) = Len(c)
  <2>1. e = [k \in 1 .. Len(c) |-> e[k]]
    BY <1>1, <1>3
  <2> QED
    BY <1>1, <2>1 DEF Range
<1>6. IsCode(e)
  BY <1>4, <1>5 DEF IsCode, IsTable
<1>7. \A n \in 0 .. Len(c) : Locations(e)[n] = Locations(c)[n]
  BY <1>1, <1>4, <1>5, <1>6, SameLocations
<1>8. (\A k \in DOMAIN c : At(e, k) = At(c, k)) /\ End(e) = End(c)
  BY <1>1, <1>5, <1>7 DEF At, End
<1>9. Starts(e) = Starts(c)
  BY <1>4, <1>8 DEF Starts
<1>10. Places(e) = Places(c)
  BY <1>8, <1>9 DEF Places
<1> QED
  BY <1>4, <1>5, <1>6, <1>8, <1>9, <1>10

(* An instruction starts before the end, and 0 is a place.                 *)
LEMMA PlacesAre ==
  ASSUME NEW c, IsCode(c)
  PROVE  /\ End(c) \in Nat /\ 0 \in Places(c)
         /\ \A k \in DOMAIN c : At(c, k) \in Nat /\ At(c, k) < End(c)
         /\ \A k \in DOMAIN c, j \in DOMAIN c : At(c, k) = At(c, j) => k = j
         /\ End(c) \notin Starts(c)
         /\ c # <<>> => End(c) > 0
<1>1. /\ c \in Seq(Range(c)) /\ Len(c) \in Nat /\ DOMAIN c = 1 .. Len(c)
  BY CodeIs
<1>2. End(c) \in Nat
  BY <1>1, LocationIs DEF End
<1>3. ASSUME NEW k \in DOMAIN c PROVE At(c, k) \in Nat /\ At(c, k) < End(c)
  <2>1. /\ k - 1 \in 0 .. Len(c) /\ Len(c) \in 0 .. Len(c)
        /\ k - 1 < Len(c)
    BY <1>1
  <2>2. Locations(c)[k - 1] \in Nat
    BY <2>1, LocationIs
  <2>3. Locations(c)[k - 1] < Locations(c)[Len(c)]
    BY <2>1, Ascending
  <2> QED
    BY <2>2, <2>3 DEF At, End
<1>4. 0 \in Places(c)
  <2>1. CASE Len(c) = 0
    BY <2>1, FirstLocation DEF Places, End
  <2>2. CASE Len(c) # 0
    <3>1. 1 \in DOMAIN c /\ At(c, 1) = 0
      BY <1>1, <2>2, FirstLocation DEF At
    <3> QED
      BY <3>1 DEF Places, Starts
  <2> QED
    BY <2>1, <2>2
<1>5. ASSUME NEW k \in DOMAIN c, NEW j \in DOMAIN c, k < j
      PROVE  At(c, k) < At(c, j)
  BY <1>1, <1>5, Ascending DEF At
<1>6. \A k \in DOMAIN c, j \in DOMAIN c : At(c, k) = At(c, j) => k = j
  BY <1>1, <1>3, <1>5
<1>7. End(c) \notin Starts(c)
  BY <1>2, <1>3 DEF Starts
<1>8. c # <<>> => End(c) > 0
  <2>1. c # <<>> => 1 \in DOMAIN c
    BY <1>1, EmptySeq
  <2> QED
    BY <1>2, <1>3, <2>1
<1> QED
  BY <1>2, <1>3, <1>4, <1>6, <1>7, <1>8

-----------------------------------------------------------------------------
(* What the visitor plans to do.                                           *)
Jumping == {"jmp", "jmp_false", "jmp_true"}

(* Nothing that a handler emits of its own accord jumps or names a         *)
(* constant; those instructions are emitted by steps of their own.         *)
IsTask(t) ==
  /\ t.do # "named_functions"
  /\ t.do = "visit"       => t.node \in Nodes
  /\ t.do = "emit"        => t.op \notin Jumping \cup {"push_const"}
                             /\ t.delta \in Int
  /\ t.do = "begin_scope" => IsFiniteSet(t.stab)
  /\ t.do = "fail"        => t.how \in Failures

AreTasks(s) == s \in Seq(Range(s)) /\ \A k \in DOMAIN s : IsTask(s[k])

(* The things that put a local variable on the stack locals or take one    *)
(* off, and what each leaves of the kinds of variables there.              *)
Bracketing == {"open_return", "close_return", "open_jump", "else_jump",
               "close_jump", "mark_loop", "close_loop"}
Kinds   == {"ret", "jump", "start"}
Stacks  == Seq(Kinds)

Effect(t, a, b) ==
  /\ t.do = "open_return"  => b = Append(a, "ret")
  /\ t.do = "close_return" => a = Append(b, "ret")
  /\ t.do = "open_jump"    => b = Append(a, "jump")
  /\ t.do = "else_jump"    => b = a /\ \E c \in Stacks : a = Append(c, "jump")
  /\ t.do = "close_jump"   => a = Append(b, "jump")
  /\ t.do = "mark_loop"    => b = Append(a, "start")
  /\ t.do = "close_loop"   => a = Append(Append(b, "start"), "jump")
  /\ t.do \notin Bracketing => b = a

(* Doing all of s leads from the kinds a to the kinds b.                   *)
Fits(s, a, b) ==
  \E d \in [1 .. Len(s) + 1 -> Stacks] :
    /\ d[1] = a /\ d[Len(s) + 1] = b
    /\ \A k \in 1 .. Len(s) : Effect(s[k], d[k], d[k + 1])

(* Doing s and then t leads where t leads from where s does.               *)
LEMMA FitsConcat ==
  ASSUME NEW S, NEW s \in Seq(S), NEW t \in Seq(S), NEW a, NEW b, NEW c,
         Fits(s, a, b), Fits(t, b, c)
  PROVE  Fits(s \o t, a, c)
<1>1. /\ Len(s) \in Nat /\ Len(t) \in Nat /\ Len(s \o t) = Len(s) + Len(t)
      /\ \A i \in 1 .. Len(s) + Len(t) : (s \o t)[i] =
                     IF i <= Len(s) THEN s[i] ELSE t[i - Len(s)]
  BY ConcatProperties, LenProperties
<1>2. PICK d \in [1 .. Len(s) + 1 -> Stacks] :
        /\ d[1] = a /\ d[Len(s) + 1] = b
        /\ \A k \in 1 .. Len(s) : Effect(s[k], d[k], d[k + 1])
  BY DEF Fits
<1>3. PICK e \in [1 .. Len(t) + 1 -> Stacks] :
        /\ e[1] = b /\ e[Len(t) + 1] = c
        /\ \A k \in 1 .. Len(t) : Effect(t[k], e[k], e[k + 1])
  BY DEF Fits
<1> DEFINE n == Len(s) + Len(t)
           f == [k \in 1 .. n + 1 |-> IF k <= Len(s) THEN d[k] ELSE e[k - Len(s)]]
<1>4. f \in [1 .. n + 1 -> Stacks]
  <2>1. ASSUME NEW k \in 1 .. n + 1
        PROVE  (IF k <= Len(s) THEN d[k] ELSE e[k - Len(s)]) \in Stacks
    <3>1. CASE k <= Len(s)
      BY <1>1, <1>2, <3>1
    <3>2. CASE ~(k <= Len(s))
      <4>1. k - Len(s) \in 1 .. Len(t) + 1
        <5>1. k \in 1 .. Len(s) + Len(t) + 1
          BY <1>1
        <5> HIDE DEF n, f
        <5> QED
          BY <1>1, <3>2, <5>1
      <4> QED
        BY <1>3, <3>2, <4>1
    <3> QED
      BY <3>1, <3>2
  <2> QED
    BY <2>1
<1>5. f[1] = a /\ f[n + 1] = c
  BY <1>1, <1>2, <1>3
<1>6. ASSUME NEW k \in 1 .. n PROVE Effect((s \o t)[k], f[k], f[k + 1])
  <2>1. CASE k < Len(s)
    BY <1>1, <1>2, <2>1
  <2>2. CASE k = Len(s)
    BY <1>1, <1>2, <1>3, <2>2
  <2>3. CASE k > Len(s)
    <3>1. /\ k - Len(s) \in 1 .. Len(t)
          /\ (s \o t)[k] = t[k - Len(s)]
          /\ f[k] = e[k - Len(s)] /\ f[k + 1] = e[(k - Len(s)) + 1]
      BY <1>1, <2>3
    <3> QED
      BY <1>3, <3>1
  <2> QED
    BY <1>1, <2>1, <2>2, <2>3
<1> HIDE DEF f
<1> QED
  BY <1>1, <1>4, <1>5, <1>6 DEF Fits

(* The first thing to do leads somewhere, from where the others go on.     *)
LEMMA FitsHead ==
  ASSUME NEW S, NEW s \in Seq(S), s # <<>>, NEW a, NEW b, Fits(s, a, b)
  PROVE  \E c \in Stacks : Effect(Head(s), a, c) /\ Fits(Tail(s), c, b)
<1>1. /\ Len(s) \in Nat /\ Len(s) > 0 /\ Head(s) = s[1]
      /\ Len(Tail(s)) = Len(s) - 1
      /\ \A i \in 1 .. Len(s) - 1 : Tail(s)[i] = s[i + 1]
  BY HeadTailProperties, LenProperties, EmptySeq
<1>2. PICK d \in [1 .. Len(s) + 1 -> Stacks] :
        /\ d[1] = a /\ d[Len(s) + 1] = b
        /\ \A k \in 1 .. Len(s) : Effect(s[k], d[k], d[k + 1])
  BY DEF Fits
<1> DEFINE e == [k \in 1 .. Len(s) |-> d[k + 1]]
<1>3. e \in [1 .. Len(Tail(s)) + 1 -> Stacks]
  BY <1>1, <1>2
<1>4. e[1] = d[2] /\ e[Len(Tail(s)) + 1] = b
  BY <1>1, <1>2
<1>5. ASSUME NEW k \in 1 .. Len(Tail(s)) PROVE Effect(Tail(s)[k], e[k], e[k + 1])
  <2>1. /\ Tail(s)[k] = s[k + 1] /\ e[k] = d[k + 1] /\ e[k + 1] = d[(k + 1) + 1]
        /\ k + 1 \in 1 .. Len(s)
    BY <1>1
  <2> QED
    BY <1>2, <2>1
<1>6. Effect(Head(s), a, d[2]) /\ d[2] \in Stacks
  <2>1. 1 \in 1 .. Len(s) /\ 2 \in 1 .. Len(s) + 1
    BY <1>1
  <2> QED
    BY <1>1, <1>2, <2>1
<1> HIDE DEF e
<1> QED
  BY <1>3, <1>4, <1>5, <1>6 DEF Fits

(* Nothing is opened or closed.                                            *)
LEMMA FitsFlat ==
  ASSUME NEW s, Len(s) \in Nat, \A k \in 1 .. Len(s) : s[k].do \notin Bracketing,
         NEW a \in Stacks
  PROVE  Fits(s, a, a)
<1> DEFINE d == [k \in 1 .. Len(s) + 1 |-> a]
<1>1. d \in [1 .. Len(s) + 1 -> Stacks] /\ d[1] = a /\ d[Len(s) + 1] = a
  OBVIOUS
<1>2. \A k \in 1 .. Len(s) : d[k] = a /\ d[k + 1] = a
  OBVIOUS
<1>3. \A k \in 1 .. Len(s) : Effect(s[k], a, a)
  BY DEF Effect, Bracketing
<1> HIDE DEF d
<1> QED
  BY <1>1, <1>2, <1>3 DEF Fits

-----------------------------------------------------------------------------
(* A plan is a sequence of things to do that closes what it opens.         *)
IsPlan(s) == AreTasks(s) /\ \A a \in Stacks : Fits(s, a, a)

(* A list of things to do is a sequence of its elements.                   *)
LEMMA TasksAre ==
  ASSUME NEW s, AreTasks(s)
  PROVE  s \in Seq(Range(s)) /\ Len(s) \in Nat /\ DOMAIN s = 1 .. Len(s)
BY DEF AreTasks

(* Each thing to do of two lists is one of either.                         *)
LEMMA TasksConcat ==
  ASSUME NEW s, NEW t, AreTasks(s), AreTasks(t)
  PROVE  /\ AreTasks(s \o t)
         /\ \A k \in DOMAIN (s \o t) : \/ \E i \in DOMAIN s : (s \o t)[k] = s[i]
                                       \/ \E i \in DOMAIN t : (s \o t)[k] = t[i]
<1> DEFINE S == Range(s) \cup Range(t)
<1>1. s \in Seq(S) /\ t \in Seq(S) /\ Len(s) \in Nat /\ Len(t) \in Nat
      /\ DOMAIN s = 1 .. Len(s) /\ DOMAIN t = 1 .. Len(t)
  BY DEF AreTasks, S
<1> HIDE DEF S
<1>2. /\ s \o t \in Seq(S) /\ Len(s \o t) = Len(s) + Len(t)
      /\ DOMAIN (s \o t) = 1 .. Len(s) + Len(t)
      /\ \A i \in 1 .. Len(s) + Len(t) : (s \o t)[i] =
                     IF i <= Len(s) THEN s[i] ELSE t[i - Len(s)]
  BY <1>1, ConcatProperties, LenProperties
<1>3. s \o t \in Seq(Range(s \o t))
  BY <1>2, SeqOfRange
<1>4. ASSUME NEW k \in DOMAIN (s \o t)
      PROVE  \/ \E i \in DOMAIN s : (s \o t)[k] = s[i]
             \/ \E i \in DOMAIN t : (s \o t)[k] = t[i]
  <2>1. CASE k <= Len(s)
    BY <1>1, <1>2, <2>1
  <2>2. CASE ~(k <= Len(s))
    <3>1. k - Len(s) \in DOMAIN t /\ (s \o t)[k] = t[k - Len(s)]
      BY <1>1, <1>2, <2>2
    <3> QED
      BY <3>1
  <2> QED
    BY <2>1, <2>2
<1> QED
  BY <1>3, <1>4 DEF AreTasks

(* FitsConcat, for things to do.                                           *)
LEMMA TasksFit ==
  ASSUME NEW s, NEW t, AreTasks(s), AreTasks(t), NEW a, NEW b, NEW c,
         Fits(s, a, b), Fits(t, b, c)
  PROVE  Fits(s \o t, a, c)
<1> DEFINE S == Range(s) \cup Range(t)
<1>1. s \in Seq(S) /\ t \in Seq(S)
  BY DEF AreTasks
<1> HIDE DEF S
<1> QED
  BY <1>1, FitsConcat

(* Two plans one after the other are a plan.                               *)
LEMMA PlanConcat ==
  ASSUME NEW s, NEW t, IsPlan(s), IsPlan(t)
  PROVE  IsPlan(s \o t)
BY TasksConcat, TasksFit DEF IsPlan

(* A plan that opens and closes nothing.                                   *)
IsFlat(s) == AreTasks(s) /\ \A k \in DOMAIN s : s[k].do \notin Bracketing

(* What opens nothing and closes nothing closes what it opens.             *)
LEMMA FlatPlan == ASSUME NEW s, IsFlat(s) PROVE IsPlan(s)
BY TasksAre, FitsFlat DEF IsFlat, IsPlan

(* Two flat plans are one.                                                 *)
LEMMA FlatConcat ==
  ASSUME NEW s, NEW t, IsFlat(s), IsFlat(t) PROVE IsFlat(s \o t)
<1>1. /\ AreTasks(s \o t)
      /\ \A k \in DOMAIN (s \o t) : \/ \E i \in DOMAIN s : (s \o t)[k] = s[i]
                                    \/ \E i \in DOMAIN t : (s \o t)[k] = t[i]
  BY TasksConcat DEF IsFlat
<1> QED
  BY <1>1 DEF IsFlat

(* To do nothing is a flat plan.                                           *)
LEMMA FlatNothing == IsFlat(<<>>)
<1>1. <<>> \in Seq(Range(<<>>)) /\ DOMAIN <<>> = {}
  OBVIOUS
<1> QED
  BY <1>1 DEF IsFlat, AreTasks

(* One thing to do, as a list.                                             *)
LEMMA TaskAlone ==
  ASSUME NEW t, IsTask(t)
  PROVE  /\ AreTasks(<<t>>)
         /\ t.do \notin Bracketing => IsFlat(<<t>>)
         /\ \A a \in Stacks, b \in Stacks : Effect(t, a, b) => Fits(<<t>>, a, b)
<1>1. <<t>> \in Seq(Range(<<t>>)) /\ DOMAIN <<t>> = 1 .. 1 /\ <<t>>[1] = t /\ Len(<<t>>) = 1
  BY DEF Range
<1>2. AreTasks(<<t>>)
  BY <1>1 DEF AreTasks
<1>3. t.do \notin Bracketing => IsFlat(<<t>>)
  BY <1>1, <1>2 DEF IsFlat
<1>4. ASSUME NEW a \in Stacks, NEW b \in Stacks, Effect(t, a, b)
      PROVE  Fits(<<t>>, a, b)
  <2> DEFINE d == [k \in 1 .. 2 |-> IF k = 1 THEN a ELSE b]
  <2>1. d \in [1 .. Len(<<t>>) + 1 -> Stacks] /\ d[1] = a /\ d[Len(<<t>>) + 1] = b
    BY <1>1
  <2>2. \A k \in 1 .. Len(<<t>>) : Effect(<<t>>[k], d[k], d[k + 1])
    BY <1>1, <1>4, <2>1
  <2> HIDE DEF d
  <2> QED
    BY <2>1, <2>2 DEF Fits
<1> QED
  BY <1>2, <1>3, <1>4

-----------------------------------------------------------------------------
(* Flattening is concatenating: what FlattenSeq returns for a sequence of  *)
(* sequences over a set is a sequence over the set.  The function its      *)
(* definition chooses exists for each length, or there would be a least    *)
(* one for which it does not.                                              *)
Flattens(f, ss, n) ==
  f = [i \in 1 .. n |-> IF i = 1 THEN ss[i] ELSE f[i - 1] \o ss[i]]

(* A set of numbers has a least one.                                       *)
LEMMA LeastExists ==
  ASSUME NEW S, S \subseteq Nat, S # {}
  PROVE  \E k \in S : \A j \in S : k <= j
<1> DEFINE R == {ss \in Nat \X Nat : ss[1] < ss[2]}
<1>1. IsWellFoundedOn(R, Nat)
  BY NatLessThanWellFounded DEF OpToRel
<1>2. PICK x \in S : \A y \in S : <<y, x>> \notin R
  <2> HIDE DEF R
  <2> QED BY <1>1, WFMin
<1>3. ASSUME NEW j \in S PROVE x <= j
  <2>1. <<j, x>> \notin R
    BY <1>2
  <2> QED
    BY <2>1
<1> QED
  BY <1>3

(* The function FlattenSeq chooses is there.                               *)
LEMMA FlatteningExists ==
  ASSUME NEW ss, NEW n \in Nat
  PROVE  \E f : Flattens(f, ss, n)
<1> DEFINE Bad == {m \in Nat : ~\E f : Flattens(f, ss, m)}
<1>1. SUFFICES ASSUME Bad # {} PROVE FALSE
  OBVIOUS
<1>2. PICK m \in Bad : \A j \in Bad : m <= j
  <2> HIDE DEF Bad
  <2>1. Bad \subseteq Nat
    BY DEF Bad
  <2> QED
    BY <1>1, <2>1, LeastExists
<1>3. m # 0
  <2> DEFINE f == [i \in 1 .. 0 |-> ss[i]]
  <2>1. Flattens(f, ss, 0)
    BY DEF Flattens
  <2> QED
    BY <1>2, <2>1
<1>4. m \in Nat /\ m - 1 \in Nat /\ m - 1 \notin Bad
  BY <1>2, <1>3
<1>5. PICK f : Flattens(f, ss, m - 1)
  BY <1>4
<1> DEFINE g == [i \in 1 .. m |-> IF i = 1 THEN ss[i] ELSE f[i - 1] \o ss[i]]
<1>6. \A i \in 1 .. m - 1 : g[i] = f[i]
  <2> HIDE DEF Bad
  <2>1. \A i \in 1 .. m - 1 :
          f[i] = IF i = 1 THEN ss[i] ELSE f[i - 1] \o ss[i]
    BY <1>5 DEF Flattens
  <2>2. \A i \in 1 .. m - 1 : i \in 1 .. m
    BY <1>4
  <2> QED
    BY <2>1, <2>2
<1>7. Flattens(g, ss, m)
  <2>1. \A i \in 1 .. m : i # 1 => g[i - 1] = f[i - 1]
    <3>1. \A i \in 1 .. m : i # 1 => i - 1 \in 1 .. m - 1
      BY <1>2
    <3> HIDE DEF g
    <3> QED
      BY <1>6, <3>1
  <2>2. \A i \in 1 .. m :
          g[i] = IF i = 1 THEN ss[i] ELSE g[i - 1] \o ss[i]
    BY <2>1
  <2>3. g = [i \in 1 .. m |-> g[i]]
    OBVIOUS
  <2> HIDE DEF g
  <2> QED
    BY <2>2, <2>3 DEF Flattens
<1> QED
  BY <1>2, <1>7

(* Sequences over a set are flattened into one.                            *)
LEMMA FlattenType ==
  ASSUME NEW S, NEW ss, NEW n \in Nat, ss \in [1 .. n -> Seq(S)]
  PROVE  FlattenSeq(ss) \in Seq(S)
<1>1. Len(ss) = n /\ ss \in Seq(Seq(S))
  OBVIOUS
<1>2. CASE n = 0
  <2>1. ss = <<>>
    BY <1>2
  <2> QED
    BY <1>1, <1>2, <2>1 DEF FlattenSeq
<1>3. CASE n # 0
  <2> DEFINE f == CHOOSE g : Flattens(g, ss, n)
  <2>1. Flattens(f, ss, n)
    BY FlatteningExists
  <2>2. FlattenSeq(ss) = f[n]
    BY <1>1, <1>3 DEF FlattenSeq, Flattens
  <2> HIDE DEF f
  <2> DEFINE Bad == {m \in 1 .. n : f[m] \notin Seq(S)}
  <2>3. Bad = {}
    <3>1. SUFFICES ASSUME Bad # {} PROVE FALSE
      OBVIOUS
    <3>2. PICK m \in Bad : \A j \in Bad : m <= j
      <4> HIDE DEF Bad
      <4>1. Bad \subseteq Nat
        BY DEF Bad
      <4> QED
        BY <3>1, <4>1, LeastExists
    <3>3. f[m] = IF m = 1 THEN ss[m] ELSE f[m - 1] \o ss[m]
      BY <2>1 DEF Flattens
    <3>4. CASE m = 1
      BY <3>2, <3>3, <3>4
    <3>5. CASE m # 1
      <4>1. m - 1 \in 1 .. n /\ m - 1 \notin Bad
        BY <3>2, <3>5
      <4>2. f[m - 1] \in Seq(S) /\ ss[m] \in Seq(S)
        BY <4>1
      <4>3. f[m - 1] \o ss[m] \in Seq(S)
        BY <4>2, ConcatProperties
      <4> QED
        BY <3>2, <3>3, <3>5, <4>3
    <3> QED
      BY <3>4, <3>5
  <2> QED
    BY <1>3, <2>2, <2>3
<1> QED
  BY <1>2, <1>3

(* A sequence of flat plans, flattened, is one.                            *)
LEMMA FlattenFlat ==
  ASSUME NEW ss, NEW n \in Nat, DOMAIN ss = 1 .. n,
         ss = [k \in 1 .. n |-> ss[k]],
         \A k \in 1 .. n : IsFlat(ss[k])
  PROVE  IsFlat(FlattenSeq(ss))
<1> DEFINE S == UNION {Range(ss[k]) : k \in 1 .. n}
           s == FlattenSeq(ss)
<1>1. \A k \in 1 .. n : ss[k] \in Seq(S)
  <2>1. ASSUME NEW k \in 1 .. n PROVE ss[k] \in Seq(S)
    <3>1. ss[k] \in Seq(Range(ss[k]))
      BY DEF IsFlat, AreTasks
    <3>2. Range(ss[k]) \subseteq S
      OBVIOUS
    <3> HIDE DEF S
    <3> QED
      BY <3>1, <3>2, SeqMonotonic
  <2> QED
    BY <2>1
<1>2. ASSUME NEW t \in S PROVE IsTask(t) /\ t.do \notin Bracketing
  <2>1. PICK k \in 1 .. n : t \in Range(ss[k])
    OBVIOUS
  <2>2. PICK i \in DOMAIN ss[k] : t = ss[k][i]
    BY <2>1 DEF Range
  <2> QED
    BY <2>2 DEF IsFlat, AreTasks
<1> HIDE DEF S
<1>3. s \in Seq(S)
  BY <1>1, FlattenType
<1> HIDE DEF s
<1>4. s \in Seq(Range(s)) /\ \A k \in DOMAIN s : s[k] \in S
  BY <1>3, SeqOfRange, LenProperties
<1> QED
  BY <1>2, <1>4 DEF IsFlat, AreTasks, s

-----------------------------------------------------------------------------
(* What generate(node) does is a plan, for every class of node.            *)
IsSimple(t) == IsTask(t) /\ t.do \notin Bracketing

(* The things to do that open and close nothing.                           *)
LEMMA SimpleTasks ==
  /\ IsSimple(SetStatement(TRUE)) /\ IsSimple(SetStatement(FALSE))
  /\ \A value : IsSimple(PushConstant(value))
  /\ \A name : IsSimple(PushFrom(name)) /\ IsSimple(MoveTo(name))
  /\ \A def : IsSimple(CallDefinition(def)) /\ IsSimple(PushFunction(def))
  /\ \A name, n : IsSimple(CallVariable(name, n))
  /\ IsSimple(EndScope) /\ IsSimple(KeepGlobals) /\ IsSimple(LeaveFunction)
  /\ \A node \in Nodes : IsSimple(Visit(node))
  /\ \A stab : IsFiniteSet(stab) => IsSimple(BeginScope(stab))
  /\ \A how \in Failures : IsSimple(Fail(how))
  /\ \A op : op \notin Jumping \cup {"push_const"}
                => \A delta \in Int : IsSimple(Emit(op, delta))
  /\ \A op, arg : op \notin Jumping \cup {"push_const"} => IsSimple(EmitArg(op, arg))
<1> USE DEF IsSimple, IsTask, Bracketing
<1>1. IsSimple(SetStatement(TRUE)) /\ IsSimple(SetStatement(FALSE))
  BY DEF SetStatement
<1>2. \A value : IsSimple(PushConstant(value))
  BY DEF PushConstant
<1>3. \A name : IsSimple(PushFrom(name)) /\ IsSimple(MoveTo(name))
  BY DEF PushFrom, MoveTo
<1>4. \A def : IsSimple(CallDefinition(def)) /\ IsSimple(PushFunction(def))
  BY DEF CallDefinition, PushFunction
<1>5. \A name, n : IsSimple(CallVariable(name, n))
  BY DEF CallVariable
<1>6. IsSimple(EndScope) /\ IsSimple(KeepGlobals) /\ IsSimple(LeaveFunction)
  BY DEF EndScope, KeepGlobals, LeaveFunction
<1>7. \A node \in Nodes : IsSimple(Visit(node))
  BY DEF Visit
<1>8. \A stab : IsFiniteSet(stab) => IsSimple(BeginScope(stab))
  BY DEF BeginScope
<1>9. \A how \in Failures : IsSimple(Fail(how))
  BY DEF Fail
<1>10. \A op : op \notin Jumping \cup {"push_const"}
                => \A delta \in Int : IsSimple(Emit(op, delta))
  BY DEF Emit
<1>11. \A op, arg : op \notin Jumping \cup {"push_const"} => IsSimple(EmitArg(op, arg))
  BY DEF EmitArg
<1> QED
  BY <1>1, <1>2, <1>3, <1>4, <1>5, <1>6, <1>7, <1>8, <1>9, <1>10, <1>11

(* A list of simple things is a flat plan.                                 *)
LEMMA FlatList ==
  ASSUME NEW s, NEW n \in Nat, DOMAIN s = 1 .. n, s = [k \in 1 .. n |-> s[k]],
         \A k \in 1 .. n : IsSimple(s[k])
  PROVE  IsFlat(s)
<1>1. s \in Seq(Range(s))
  BY DEF Range
<1> QED
  BY <1>1 DEF IsFlat, AreTasks, IsSimple

(* And so is one of them.                                                  *)
LEMMA FlatOne == ASSUME NEW t, IsSimple(t) PROVE IsFlat(<<t>>)
BY TaskAlone DEF IsSimple

(* A binary operation: its operands, then one instruction.                 *)
LEMMA BinaryPlan ==
  ASSUME NEW ref \in Nodes, ref.node = "binary" PROVE IsFlat(GenerateBinary(ref))
<1> DEFINE s == GenerateBinary(ref)
<1>1. ref.op \in BinaryOperators /\ ref.left \in Nodes /\ ref.right \in Nodes
  BY TreesAssumption DEF AreTrees, IsMade
<1>2. Mnemonic(ref.op) \notin Jumping \cup {"push_const"}
  BY <1>1 DEF Mnemonic, BinaryOperators, Jumping
<1>3. /\ IsSimple(SetStatement(FALSE))
      /\ IsSimple(Visit(ref.left)) /\ IsSimple(Visit(ref.right))
      /\ IsSimple(Emit(Mnemonic(ref.op), -1))
  BY <1>1, <1>2, SimpleTasks DEF SetStatement
<1>4. \A k \in 1 .. 5 : IsSimple(s[k])
  <2>1. /\ IsSimple(s[1]) /\ IsSimple(s[2]) /\ IsSimple(s[3])
        /\ IsSimple(s[4]) /\ IsSimple(s[5])
    BY <1>3 DEF GenerateBinary, SetStatement
  <2> HIDE DEF s
  <2> QED
    BY <2>1
<1>5. DOMAIN s = 1 .. 5 /\ s = [k \in 1 .. 5 |-> s[k]]
  BY DEF GenerateBinary
<1> HIDE DEF s
<1>6. IsFlat(s)
  BY <1>4, <1>5, FlatList
<1> QED
  BY <1>6 DEF s

(* A unary operation: its operand, then what its operator needs.           *)
LEMMA UnaryPlan ==
  ASSUME NEW ref \in Nodes, ref.node = "unary" PROVE IsFlat(GenerateUnary(ref))
<1>1. ref.op \in UnaryOperators /\ ref.expr \in Nodes
  BY TreesAssumption DEF AreTrees, IsMade
<1>2. /\ IsSimple(SetStatement(FALSE)) /\ IsSimple(PushConstant(0))
      /\ IsSimple(Visit(ref.expr))
      /\ IsSimple(Emit("sub", -1)) /\ IsSimple(Emit("not", 0))
  BY <1>1, SimpleTasks DEF Jumping, SetStatement
<1>3. IsFlat(<<SetStatement(FALSE)>>) /\ IsFlat(<<Visit(ref.expr)>>)
  BY <1>2, FlatOne
<1>4. IsFlat(<<PushConstant(0), Visit(ref.expr), Emit("sub", -1)>>)
  <2> DEFINE s == <<PushConstant(0), Visit(ref.expr), Emit("sub", -1)>>
  <2>1. /\ DOMAIN s = 1 .. 3 /\ s = [k \in 1 .. 3 |-> s[k]]
        /\ \A k \in 1 .. 3 : IsSimple(s[k])
    BY <1>2
  <2> HIDE DEF s
  <2>2. IsFlat(s)
    BY <2>1, FlatList
  <2> QED
    BY <2>2 DEF s
<1>5. IsFlat(<<Visit(ref.expr), Emit("not", 0)>>)
  <2> DEFINE s == <<Visit(ref.expr), Emit("not", 0)>>
  <2>1. /\ DOMAIN s = 1 .. 2 /\ s = [k \in 1 .. 2 |-> s[k]]
        /\ \A k \in 1 .. 2 : IsSimple(s[k])
    BY <1>2
  <2> HIDE DEF s
  <2>2. IsFlat(s)
    BY <2>1, FlatList
  <2> QED
    BY <2>2 DEF s
<1>6. CASE ref.op = "-"
  BY <1>3, <1>4, <1>6, FlatConcat DEF GenerateUnary
<1>7. CASE ref.op = "+"
  BY <1>3, <1>7, FlatConcat DEF GenerateUnary
<1>8. CASE ref.op = "!"
  BY <1>3, <1>5, <1>8, FlatConcat DEF GenerateUnary
<1> QED
  BY <1>1, <1>6, <1>7, <1>8 DEF UnaryOperators

(* A print: its argument, then the instruction.                            *)
LEMMA PrintPlan ==
  ASSUME NEW ref \in Nodes, ref.node = "print" PROVE IsFlat(GeneratePrint(ref))
<1> DEFINE s == GeneratePrint(ref)
<1>1. ref.expr \in Nodes
  BY TreesAssumption DEF AreTrees, IsMade
<1>2. /\ IsSimple(SetStatement(FALSE)) /\ IsSimple(Visit(ref.expr))
      /\ IsSimple(Emit("print", -1))
  BY <1>1, SimpleTasks DEF Jumping, SetStatement
<1>3. /\ DOMAIN s = 1 .. 3 /\ s = [k \in 1 .. 3 |-> s[k]]
      /\ \A k \in 1 .. 3 : IsSimple(s[k])
  BY <1>2 DEF GeneratePrint, SetStatement
<1> HIDE DEF s
<1>4. IsFlat(s)
  BY <1>3, FlatList
<1> QED
  BY <1>4 DEF s

(* An assignment: its right side, then a move to each of its names.        *)
LEMMA AssignmentPlan ==
  ASSUME NEW ref \in Nodes, ref.node = "assignment"
  PROVE  IsFlat(GenerateAssignment(ref))
<1> DEFINE n == Len(ref.lefts)
           Stored(name, wanted) ==
             <<MoveTo(name)>> \o IF wanted THEN <<PushFrom(name)>> ELSE <<>>
           Target(k) == IF ref.lefts[k].node = "variable"
                          THEN Stored(ref.lefts[k].name, k < n \/ ~isStatement)
                          ELSE <<Fail("assertion")>>
           ss == [k \in 1 .. n |-> Target(k)]
<1>1. ref.lefts \in Seq(Nodes) /\ ref.right \in Nodes
  BY TreesAssumption DEF AreTrees, IsMade
<1>2. n \in Nat
  BY <1>1
<1>3. ASSUME NEW k \in 1 .. n PROVE IsFlat(Target(k))
  <2> DEFINE name   == ref.lefts[k].name
             wanted == k < n \/ ~isStatement
  <2>1. IsFlat(<<MoveTo(name)>>) /\ IsFlat(<<PushFrom(name)>>)
    BY SimpleTasks, FlatOne
  <2>2. IsFlat(IF wanted THEN <<PushFrom(name)>> ELSE <<>>)
    BY <2>1, FlatNothing
  <2>3. IsFlat(Stored(name, wanted))
    BY <2>1, <2>2, FlatConcat
  <2>4. IsFlat(<<Fail("assertion")>>)
    BY SimpleTasks, FlatOne DEF Failures
  <2> QED
    BY <2>3, <2>4
<1>4. IsFlat(FlattenSeq(ss))
  <2>1. /\ DOMAIN ss = 1 .. n /\ ss = [k \in 1 .. n |-> ss[k]]
        /\ \A k \in 1 .. n : ss[k] = Target(k)
    OBVIOUS
  <2> HIDE DEF ss, Target, n
  <2> QED
    BY <1>2, <1>3, <2>1, FlattenFlat
<1>5. IsFlat(<<Visit(ref.right)>>)
  BY <1>1, SimpleTasks, FlatOne
<1>6. GenerateAssignment(ref) = <<Visit(ref.right)>> \o FlattenSeq(ss)
  BY DEF GenerateAssignment
<1> QED
  BY <1>4, <1>5, <1>6, FlatConcat

(* A statement of a block: its visit, after the flag has been set.         *)
LEMMA StatementPlan ==
  ASSUME NEW st \in Nodes PROVE IsFlat(GenerateStatement(st))
<1> DEFINE isAssignment == st.node = "assignment"
           visit == IF st.node = "function_definition" THEN <<>> ELSE <<Visit(st)>>
           drop == IF isAssignment \/ ~IsExpression(st) THEN <<>>
                   ELSE CASE TypeOf(st) = "null" -> <<Fail("bad_type")>>
                          [] TypeOf(st) = "void" -> <<>>
                          [] OTHER               -> <<Emit("pop", -1)>>
<1>1. /\ IsFlat(<<SetStatement(isAssignment)>>) /\ IsFlat(<<Visit(st)>>)
      /\ IsFlat(<<Fail("bad_type")>>) /\ IsFlat(<<Emit("pop", -1)>>)
  <2>1. /\ IsSimple(Visit(st))
        /\ IsSimple(Fail("bad_type")) /\ IsSimple(Emit("pop", -1))
    BY SimpleTasks DEF Failures, Jumping
  <2>2. IsSimple(SetStatement(isAssignment))
    BY DEF IsSimple, IsTask, Bracketing, SetStatement
  <2> QED
    BY <2>1, <2>2, FlatOne
<1>2. IsFlat(visit)
  BY <1>1, FlatNothing
<1>3. IsFlat(drop)
  BY <1>1, FlatNothing
<1>4. GenerateStatement(st) = <<SetStatement(isAssignment)>> \o visit \o drop
  BY DEF GenerateStatement
<1> HIDE DEF visit, drop
<1>5. IsFlat(<<SetStatement(isAssignment)>> \o visit)
  BY <1>1, <1>2, FlatConcat
<1> QED
  BY <1>3, <1>4, <1>5, FlatConcat

(* A block is visited statement by statement.                              *)
LEMMA BlockPlan ==
  ASSUME NEW ref \in Nodes, ref.node \in {"value_block", "statement_block"}
  PROVE  IsFlat(GenerateBlock(ref, FALSE)) /\ IsFlat(GenerateBlock(ref, TRUE))
<1> DEFINE n == Len(ref.stmts)
           ss == [k \in 1 .. n |-> GenerateStatement(ref.stmts[k])]
<1>1. ref.stmts \in Seq(Nodes) /\ IsFiniteSet(ref.stab)
  BY TreesAssumption DEF AreTrees, IsMade, IsScope
<1>2. n \in Nat /\ \A k \in 1 .. n : IsFlat(ss[k])
  BY <1>1, StatementPlan
<1>3. IsFlat(FlattenSeq(ss))
  <2>1. DOMAIN ss = 1 .. n /\ ss = [k \in 1 .. n |-> ss[k]]
    OBVIOUS
  <2> HIDE DEF ss, n
  <2> QED
    BY <1>2, <2>1, FlattenFlat
<1>4. IsFlat(<<BeginScope(ref.stab)>>) /\ IsFlat(<<KeepGlobals>>) /\ IsFlat(<<EndScope>>)
  BY <1>1, SimpleTasks, FlatOne
<1> DEFINE body == <<BeginScope(ref.stab)>> \o FlattenSeq(ss)
<1>5. IsFlat(body)
  BY <1>3, <1>4, FlatConcat
<1>6. /\ GenerateBlock(ref, TRUE) = body \o <<KeepGlobals>> \o <<EndScope>>
      /\ GenerateBlock(ref, FALSE) = body \o <<>> \o <<EndScope>>
  BY DEF GenerateBlock
<1> HIDE DEF body
<1>7. IsFlat(body \o <<KeepGlobals>> \o <<EndScope>>)
  <2>1. IsFlat(body \o <<KeepGlobals>>)
    BY <1>4, <1>5, FlatConcat
  <2> QED
    BY <1>4, <2>1, FlatConcat
<1>8. IsFlat(body \o <<>> \o <<EndScope>>)
  <2>1. IsFlat(body \o <<>>)
    BY <1>5, FlatNothing, FlatConcat
  <2> QED
    BY <1>4, <2>1, FlatConcat
<1> QED
  BY <1>6, <1>7, <1>8

(* A list in which one thing opens or closes something.                    *)
LEMMA FitsOnce ==
  ASSUME NEW s, NEW n \in Nat, Len(s) = n, NEW at \in 1 .. n,
         \A k \in 1 .. n : k # at => s[k].do \notin Bracketing,
         NEW a \in Stacks, NEW b \in Stacks, Effect(s[at], a, b)
  PROVE  Fits(s, a, b)
<1> DEFINE d == [k \in 1 .. n + 1 |-> IF k <= at THEN a ELSE b]
<1>1. d \in [1 .. Len(s) + 1 -> Stacks] /\ d[1] = a /\ d[Len(s) + 1] = b
  OBVIOUS
<1>2. ASSUME NEW k \in 1 .. n PROVE Effect(s[k], d[k], d[k + 1])
  <2>1. CASE k = at
    <3>1. d[k] = a /\ d[k + 1] = b
      BY <2>1
    <3> HIDE DEF d
    <3> QED
      BY <2>1, <3>1
  <2>2. CASE k # at
    <3>1. d[k] = d[k + 1]
      BY <2>2
    <3> HIDE DEF d
    <3> QED
      BY <2>2, <3>1 DEF Effect, Bracketing
  <2> QED
    BY <2>1, <2>2
<1> HIDE DEF d
<1> QED
  BY <1>1, <1>2 DEF Fits

(* A list of things to do, by its elements.                                *)
LEMMA TaskList ==
  ASSUME NEW s, NEW n \in Nat, DOMAIN s = 1 .. n, s = [k \in 1 .. n |-> s[k]],
         \A k \in 1 .. n : IsTask(s[k])
  PROVE  AreTasks(s) /\ Len(s) = n
BY DEF AreTasks, Range

(* One more local variable.                                                *)
LEMMA PushKind ==
  ASSUME NEW a \in Stacks, NEW kind \in Kinds
  PROVE  Append(a, kind) \in Stacks
BY DEF Stacks

(* What each thing to do that opens or closes something does to the kinds. *)
LEMMA BracketTasks ==
  /\ IsTask(OpenReturn(TRUE)) /\ IsTask(OpenReturn(FALSE)) /\ IsTask(CloseReturn)
  /\ IsTask(OpenJump) /\ IsTask(ElseJump) /\ IsTask(CloseJump)
  /\ IsTask(MarkLoop) /\ IsTask(CloseLoop)
  /\ \A a \in Stacks :
       /\ Effect(OpenReturn(TRUE), a, Append(a, "ret"))
       /\ Effect(OpenReturn(FALSE), a, Append(a, "ret"))
       /\ Effect(CloseReturn, Append(a, "ret"), a)
       /\ Effect(OpenJump, a, Append(a, "jump"))
       /\ Effect(ElseJump, Append(a, "jump"), Append(a, "jump"))
       /\ Effect(CloseJump, Append(a, "jump"), a)
       /\ Effect(MarkLoop, a, Append(a, "start"))
       /\ Effect(CloseLoop, Append(Append(a, "start"), "jump"), a)
BY DEF IsTask, Effect, Bracketing, OpenReturn, CloseReturn, OpenJump, ElseJump,
       CloseJump, MarkLoop, CloseLoop

(* A value block with a value opens a return address and closes it behind  *)
(* its statements.                                                         *)
LEMMA ValueBlockPlan ==
  ASSUME NEW ref \in Nodes, ref.node = "value_block"
  PROVE  IsPlan(GenerateValueBlock(ref))
<1> DEFINE open  == <<OpenReturn(TRUE)>>
           body  == GenerateBlock(ref, FALSE)
           close == <<CloseReturn, Emit("store_r0", 1)>>
<1>1. IsPlan(body) /\ IsPlan(<<Fail("bad_type")>>)
  <2>1. IsSimple(Fail("bad_type"))
    BY SimpleTasks DEF Failures
  <2> QED
    BY <2>1, BlockPlan, FlatOne, FlatPlan
<1>2. /\ AreTasks(open)
      /\ \A a \in Stacks : Fits(open, a, Append(a, "ret"))
  BY BracketTasks, TaskAlone, PushKind DEF OpenReturn, Kinds
<1>3. /\ AreTasks(close)
      /\ \A a \in Stacks : Fits(close, Append(a, "ret"), a)
  <2>1. IsSimple(Emit("store_r0", 1))
    BY SimpleTasks DEF Jumping
  <2>2. /\ DOMAIN close = 1 .. 2 /\ close = [k \in 1 .. 2 |-> close[k]]
        /\ close[1] = CloseReturn /\ close[2] = Emit("store_r0", 1)
    OBVIOUS
  <2> HIDE DEF close
  <2>3. \A k \in 1 .. 2 : IsTask(close[k])
    BY <2>1, <2>2, BracketTasks DEF IsSimple
  <2>4. AreTasks(close) /\ Len(close) = 2
    BY <2>2, <2>3, TaskList
  <2>5. ASSUME NEW a \in Stacks PROVE Fits(close, Append(a, "ret"), a)
    <3>1. /\ Append(a, "ret") \in Stacks
          /\ Effect(close[1], Append(a, "ret"), a)
      BY <2>2, BracketTasks, PushKind DEF Kinds
    <3>2. \A k \in 1 .. 2 : k # 1 => close[k].do \notin Bracketing
      BY <2>1, <2>2 DEF IsSimple
    <3>3. 2 \in Nat /\ 1 \in 1 .. 2
      OBVIOUS
    <3> QED
      BY <2>4, <3>1, <3>2, <3>3, FitsOnce
  <2> QED
    BY <2>4, <2>5
<1> HIDE DEF open, body, close
<1>4. IsPlan(open \o body \o close)
  <2>1. AreTasks(open \o body \o close)
    BY <1>1, <1>2, <1>3, TasksConcat DEF IsPlan
  <2>2. ASSUME NEW a \in Stacks PROVE Fits(open \o body \o close, a, a)
    <3>1. Append(a, "ret") \in Stacks
      BY PushKind DEF Kinds
    <3>2. Fits(open \o body, a, Append(a, "ret"))
      BY <1>1, <1>2, <3>1, TasksFit DEF IsPlan
    <3>3. AreTasks(open \o body)
      BY <1>1, <1>2, TasksConcat DEF IsPlan
    <3> QED
      BY <1>3, <3>2, <3>3, TasksFit
  <2> QED
    BY <2>1, <2>2 DEF IsPlan
<1> QED
  BY <1>1, <1>4, BlockPlan, FlatPlan DEF GenerateValueBlock, open, body, close

(* An if opens a jump over its first branch and closes it, or the one over *)
(* the second.                                                             *)
LEMMA IfPlan ==
  ASSUME NEW ref \in Nodes, ref.node = "if"
  PROVE  IsPlan(GenerateIf(ref))
<1> DEFINE open  == <<BeginScope(ref.stab), SetStatement(FALSE), Visit(ref.cond),
                      OpenJump, SetStatement(TRUE), Visit(ref.true_block)>>
           other == <<ElseJump, SetStatement(TRUE), Visit(Head(ref.else_block))>>
           close == <<CloseJump, EndScope>>
           mid   == IF ref.else_block = <<>> THEN <<>> ELSE other
<1>1. /\ ref.cond \in Nodes /\ ref.true_block \in Nodes /\ IsFiniteSet(ref.stab)
      /\ ref.else_block # <<>> => Head(ref.else_block) \in Nodes
  <2>1. IsMade(ref, Nodes)
    BY TreesAssumption DEF AreTrees
  <2>2. ref.else_block \in Seq(Nodes)
    BY <2>1 DEF IsMade, IsOptional
  <2> QED
    BY <2>1, <2>2, HeadTailProperties DEF IsMade, IsScope
<1>2. /\ IsSimple(BeginScope(ref.stab)) /\ IsSimple(Visit(ref.cond))
      /\ IsSimple(Visit(ref.true_block)) /\ IsSimple(EndScope)
      /\ ref.else_block # <<>> => IsSimple(Visit(Head(ref.else_block)))
  BY <1>1, SimpleTasks
<1>3. /\ AreTasks(open)
      /\ \A a \in Stacks : Fits(open, a, Append(a, "jump"))
  <2>1. /\ DOMAIN open = 1 .. 6 /\ open = [k \in 1 .. 6 |-> open[k]]
        /\ open[4] = OpenJump
        /\ IsSimple(open[1]) /\ IsSimple(open[2]) /\ IsSimple(open[3])
        /\ IsSimple(open[5]) /\ IsSimple(open[6])
    BY <1>2, SimpleTasks DEF SetStatement
  <2> HIDE DEF open
  <2>2. \A k \in 1 .. 6 : IsTask(open[k]) /\ (k # 4 => open[k].do \notin Bracketing)
    BY <2>1, BracketTasks DEF IsSimple
  <2>3. AreTasks(open) /\ Len(open) = 6
    BY <2>1, <2>2, TaskList
  <2>4. ASSUME NEW a \in Stacks PROVE Fits(open, a, Append(a, "jump"))
    <3>1. Append(a, "jump") \in Stacks /\ Effect(open[4], a, Append(a, "jump"))
      BY <2>1, BracketTasks, PushKind DEF Kinds
    <3>2. 6 \in Nat /\ 4 \in 1 .. 6
      OBVIOUS
    <3> QED
      BY <2>2, <2>3, <3>1, <3>2, FitsOnce
  <2> QED
    BY <2>3, <2>4
<1>4. /\ AreTasks(close)
      /\ \A a \in Stacks : Fits(close, Append(a, "jump"), a)
  <2>1. /\ DOMAIN close = 1 .. 2 /\ close = [k \in 1 .. 2 |-> close[k]]
        /\ close[1] = CloseJump /\ IsSimple(close[2])
    BY <1>2
  <2> HIDE DEF close
  <2>2. \A k \in 1 .. 2 : IsTask(close[k]) /\ (k # 1 => close[k].do \notin Bracketing)
    BY <2>1, BracketTasks DEF IsSimple
  <2>3. AreTasks(close) /\ Len(close) = 2
    BY <2>1, <2>2, TaskList
  <2>4. ASSUME NEW a \in Stacks PROVE Fits(close, Append(a, "jump"), a)
    <3>1. Append(a, "jump") \in Stacks /\ Effect(close[1], Append(a, "jump"), a)
      BY <2>1, BracketTasks, PushKind DEF Kinds
    <3>2. 2 \in Nat /\ 1 \in 1 .. 2
      OBVIOUS
    <3> QED
      BY <2>2, <2>3, <3>1, <3>2, FitsOnce
  <2> QED
    BY <2>3, <2>4
<1>5. /\ AreTasks(mid)
      /\ \A a \in Stacks : Fits(mid, Append(a, "jump"), Append(a, "jump"))
  <2>1. CASE ref.else_block = <<>>
    <3>1. mid = <<>> /\ IsPlan(<<>>)
      BY <2>1, FlatNothing, FlatPlan
    <3>2. \A a \in Stacks : Append(a, "jump") \in Stacks
      BY PushKind DEF Kinds
    <3> QED
      BY <3>1, <3>2 DEF IsPlan
  <2>2. CASE ref.else_block # <<>>
    <3>1. mid = other
      BY <2>2
    <3>2. /\ DOMAIN other = 1 .. 3 /\ other = [k \in 1 .. 3 |-> other[k]]
          /\ other[1] = ElseJump /\ IsSimple(other[2]) /\ IsSimple(other[3])
      BY <1>2, <2>2, SimpleTasks DEF SetStatement
    <3> HIDE DEF other
    <3>3. \A k \in 1 .. 3 : IsTask(other[k]) /\ (k # 1 => other[k].do \notin Bracketing)
      BY <3>2, BracketTasks DEF IsSimple
    <3>4. AreTasks(other) /\ Len(other) = 3
      BY <3>2, <3>3, TaskList
    <3>5. ASSUME NEW a \in Stacks
          PROVE  Fits(other, Append(a, "jump"), Append(a, "jump"))
      <4>1. /\ Append(a, "jump") \in Stacks
            /\ Effect(other[1], Append(a, "jump"), Append(a, "jump"))
        BY <3>2, BracketTasks, PushKind DEF Kinds
      <4>2. 3 \in Nat /\ 1 \in 1 .. 3
        OBVIOUS
      <4> QED
        BY <3>3, <3>4, <4>1, <4>2, FitsOnce
    <3> QED
      BY <3>1, <3>4, <3>5
  <2> QED
    BY <2>1, <2>2
<1>6. GenerateIf(ref) = open \o mid \o close
  BY DEF GenerateIf
<1> HIDE DEF open, mid, close
<1>7. AreTasks(open \o mid) /\ AreTasks(open \o mid \o close)
  BY <1>3, <1>4, <1>5, TasksConcat
<1>8. ASSUME NEW a \in Stacks PROVE Fits(open \o mid \o close, a, a)
  <2>1. Fits(open \o mid, a, Append(a, "jump"))
    BY <1>3, <1>5, TasksFit
  <2> QED
    BY <1>4, <1>7, <2>1, TasksFit
<1> QED
  BY <1>6, <1>7, <1>8 DEF IsPlan

(* A while marks its start and opens a jump over its body; both are closed *)
(* behind it.                                                              *)
LEMMA WhilePlan ==
  ASSUME NEW ref \in Nodes, ref.node = "while"
  PROVE  IsPlan(GenerateWhile(ref))
<1> DEFINE s == GenerateWhile(ref)
<1>1. ref.cond \in Nodes /\ ref.block \in Nodes /\ IsFiniteSet(ref.stab)
  BY TreesAssumption DEF AreTrees, IsMade, IsScope
<1>2. /\ IsSimple(BeginScope(ref.stab)) /\ IsSimple(Visit(ref.cond))
      /\ IsSimple(Visit(ref.block)) /\ IsSimple(EndScope)
  BY <1>1, SimpleTasks
<1>3. /\ DOMAIN s = 1 .. 9 /\ s = [k \in 1 .. 9 |-> s[k]]
      /\ s[2] = MarkLoop /\ s[5] = OpenJump /\ s[8] = CloseLoop
      /\ IsSimple(s[1]) /\ IsSimple(s[3]) /\ IsSimple(s[4]) /\ IsSimple(s[6])
      /\ IsSimple(s[7]) /\ IsSimple(s[9])
  BY <1>2, SimpleTasks DEF SetStatement, GenerateWhile
<1> HIDE DEF s
<1>4. \A k \in 1 .. 9 : IsTask(s[k])
  BY <1>3, BracketTasks DEF IsSimple
<1>5. AreTasks(s) /\ Len(s) = 9
  BY <1>3, <1>4, TaskList
<1>6. ASSUME NEW a \in Stacks PROVE Fits(s, a, a)
  <2> DEFINE b == Append(a, "start")
             c == Append(b, "jump")
             d == [k \in 1 .. 10 |-> IF k \in {1, 2, 9, 10} THEN a
                                     ELSE IF k \in {3, 4, 5} THEN b ELSE c]
  <2>1. b \in Stacks /\ c \in Stacks
    BY PushKind DEF Kinds
  <2>2. Effect(s[2], a, b) /\ Effect(s[5], b, c) /\ Effect(s[8], c, a)
    BY <1>3, <2>1, BracketTasks
  <2> HIDE DEF b, c
  <2>3. \A e \in Stacks : /\ Effect(s[1], e, e) /\ Effect(s[3], e, e)
                          /\ Effect(s[4], e, e) /\ Effect(s[6], e, e)
                          /\ Effect(s[7], e, e) /\ Effect(s[9], e, e)
    BY <1>3 DEF IsSimple, Effect, Bracketing
  <2>4. d \in [1 .. Len(s) + 1 -> Stacks] /\ d[1] = a /\ d[Len(s) + 1] = a
    BY <1>5, <2>1
  <2>5. /\ d[1] = a /\ d[2] = a /\ d[3] = b /\ d[4] = b /\ d[5] = b
        /\ d[6] = c /\ d[7] = c /\ d[8] = c /\ d[9] = a /\ d[10] = a
    OBVIOUS
  <2> HIDE DEF d
  <2>6. /\ Effect(s[1], d[1], d[2]) /\ Effect(s[2], d[2], d[3])
        /\ Effect(s[3], d[3], d[4]) /\ Effect(s[4], d[4], d[5])
        /\ Effect(s[5], d[5], d[6]) /\ Effect(s[6], d[6], d[7])
        /\ Effect(s[7], d[7], d[8]) /\ Effect(s[8], d[8], d[9])
        /\ Effect(s[9], d[9], d[10])
    BY <2>1, <2>2, <2>3, <2>5
  <2>7. \A k \in 1 .. Len(s) : Effect(s[k], d[k], d[k + 1])
    BY <1>5, <2>6
  <2> QED
    BY <2>4, <2>7 DEF Fits
<1> QED
  BY <1>5, <1>6 DEF IsPlan, s

(* A call opens a return address and closes it after the jump.             *)
LEMMA CallPlan ==
  ASSUME NEW ref \in Nodes, ref.node = "call"
  PROVE  IsPlan(GenerateCall(ref))
<1> DEFINE open   == <<OpenReturn(FALSE)>>
           args   == VisitAll(ref.args)
           callee == IF ref.def # "none" THEN CallDefinition(ref.def)
                                         ELSE CallVariable(ref.name, Len(ref.args))
           close  == <<EmitArg("update_sp", Len(ref.args)), callee, CloseReturn>>
           result == IF ref.type = "void" THEN <<>> ELSE <<Emit("store_r0", 1)>>
<1>1. ref.args \in Seq(Nodes)
  BY TreesAssumption DEF AreTrees, IsMade
<1>2. IsFlat(args)
  <2>1. /\ Len(ref.args) \in Nat /\ DOMAIN args = 1 .. Len(ref.args)
        /\ args = [k \in 1 .. Len(ref.args) |-> args[k]]
        /\ \A k \in 1 .. Len(ref.args) : IsSimple(args[k])
    BY <1>1, SimpleTasks DEF VisitAll
  <2> HIDE DEF args
  <2> QED
    BY <2>1, FlatList
<1>3. /\ AreTasks(open)
      /\ \A a \in Stacks : Fits(open, a, Append(a, "ret"))
  BY BracketTasks, TaskAlone, PushKind DEF OpenReturn, Kinds
<1>4. /\ AreTasks(close)
      /\ \A a \in Stacks : Fits(close, Append(a, "ret"), a)
  <2>1. IsSimple(callee) /\ IsSimple(EmitArg("update_sp", Len(ref.args)))
    BY SimpleTasks DEF Jumping
  <2> HIDE DEF callee
  <2>2. /\ DOMAIN close = 1 .. 3 /\ close = [k \in 1 .. 3 |-> close[k]]
        /\ close[3] = CloseReturn /\ IsSimple(close[1]) /\ IsSimple(close[2])
    BY <2>1
  <2> HIDE DEF close
  <2>3. \A k \in 1 .. 3 : IsTask(close[k]) /\ (k # 3 => close[k].do \notin Bracketing)
    BY <2>2, BracketTasks DEF IsSimple
  <2>4. AreTasks(close) /\ Len(close) = 3
    BY <2>2, <2>3, TaskList
  <2>5. ASSUME NEW a \in Stacks PROVE Fits(close, Append(a, "ret"), a)
    <3>1. Append(a, "ret") \in Stacks /\ Effect(close[3], Append(a, "ret"), a)
      BY <2>2, BracketTasks, PushKind DEF Kinds
    <3>2. 3 \in Nat /\ 3 \in 1 .. 3
      OBVIOUS
    <3> QED
      BY <2>3, <2>4, <3>1, <3>2, FitsOnce
  <2> QED
    BY <2>4, <2>5
<1>5. IsPlan(result) /\ IsPlan(<<Fail("bad_type")>>)
  <2>1. IsSimple(Emit("store_r0", 1)) /\ IsSimple(Fail("bad_type"))
    BY SimpleTasks DEF Jumping, Failures
  <2> QED
    BY <2>1, FlatOne, FlatNothing, FlatPlan
<1>6. GenerateCall(ref) = IF ref.type = "null" THEN <<Fail("bad_type")>>
                          ELSE open \o args \o close \o result
  BY DEF GenerateCall
<1> HIDE DEF open, args, close, result
<1>7. IsPlan(open \o args \o close)
  <2>1. AreTasks(open \o args) /\ AreTasks(open \o args \o close)
    BY <1>2, <1>3, <1>4, TasksConcat DEF IsFlat
  <2>2. ASSUME NEW a \in Stacks PROVE Fits(open \o args \o close, a, a)
    <3>1. Append(a, "ret") \in Stacks
      BY PushKind DEF Kinds
    <3>2. Fits(open \o args, a, Append(a, "ret"))
      <4>1. AreTasks(args) /\ Fits(args, Append(a, "ret"), Append(a, "ret"))
        BY <1>2, <3>1, FlatPlan DEF IsPlan
      <4> QED
        BY <1>3, <4>1, TasksFit
    <3> QED
      BY <1>4, <2>1, <3>2, TasksFit
  <2> QED
    BY <2>1, <2>2 DEF IsPlan
<1> QED
  BY <1>5, <1>6, <1>7, PlanConcat

(* A return opens nothing: it takes its address from the machine's stack.  *)
LEMMA ReturnPlan ==
  ASSUME NEW ref \in Nodes, ref.node = "return"
  PROVE  IsFlat(GenerateReturn(ref))
<1> DEFINE value == <<Visit(Head(ref.expr)), Emit("load_r0", -1)>>
<1>1. ref.expr # <<>> => Head(ref.expr) \in Nodes
  <2>1. ref.expr \in Seq(Nodes)
    BY TreesAssumption DEF AreTrees, IsMade, IsOptional
  <2> QED
    BY <2>1, HeadTailProperties
<1>2. ref.expr # <<>> => IsFlat(value)
  <2>1. /\ DOMAIN value = 1 .. 2 /\ value = [k \in 1 .. 2 |-> value[k]]
        /\ value[1] = Visit(Head(ref.expr)) /\ value[2] = Emit("load_r0", -1)
    OBVIOUS
  <2> HIDE DEF value
  <2>2. IsSimple(Emit("load_r0", -1))
        /\ (ref.expr # <<>> => IsSimple(Visit(Head(ref.expr))))
    BY <1>1, SimpleTasks DEF Jumping
  <2>3. ref.expr # <<>> => \A k \in 1 .. 2 : IsSimple(value[k])
    BY <2>1, <2>2
  <2> QED
    BY <2>1, <2>3, FlatList
<1>3. IsFlat(IF ref.expr = <<>> THEN <<>> ELSE value)
  BY <1>2, FlatNothing
<1>4. IsFlat(<<LeaveFunction>>)
  BY SimpleTasks, FlatOne
<1>5. GenerateReturn(ref)
        = (IF ref.expr = <<>> THEN <<>> ELSE value) \o <<LeaveFunction>>
  BY DEF GenerateReturn
<1> QED
  BY <1>3, <1>4, <1>5, FlatConcat

(* Whatever the node, its handler closes what it opens.                    *)
LEMMA GeneratePlan == ASSUME NEW ref \in Nodes PROVE IsPlan(Generate(ref))
<1>1. /\ IsPlan(<<PushConstant(ref.value)>>) /\ IsPlan(<<Emit("push_read", 1)>>)
      /\ IsPlan(<<PushFrom(ref.name)>>) /\ IsPlan(<<PushFunction(ref.definition)>>)
      /\ IsPlan(<<Fail("unhandled_node")>>)
  <2>1. /\ IsSimple(PushConstant(ref.value)) /\ IsSimple(Emit("push_read", 1))
        /\ IsSimple(PushFrom(ref.name)) /\ IsSimple(PushFunction(ref.definition))
        /\ IsSimple(Fail("unhandled_node"))
    BY SimpleTasks DEF Jumping, Failures
  <2> QED
    BY <2>1, FlatOne, FlatPlan
<1>2. /\ ref.node = "print"           => IsPlan(GeneratePrint(ref))
      /\ ref.node = "assignment"      => IsPlan(GenerateAssignment(ref))
      /\ ref.node = "binary"          => IsPlan(GenerateBinary(ref))
      /\ ref.node = "unary"           => IsPlan(GenerateUnary(ref))
      /\ ref.node = "return"          => IsPlan(GenerateReturn(ref))
      /\ ref.node = "statement_block" => IsPlan(GenerateBlock(ref, FALSE))
  BY PrintPlan, AssignmentPlan, BinaryPlan, UnaryPlan, ReturnPlan, BlockPlan, FlatPlan
<1>3. /\ ref.node = "value_block"     => IsPlan(GenerateValueBlock(ref))
      /\ ref.node = "if"              => IsPlan(GenerateIf(ref))
      /\ ref.node = "while"           => IsPlan(GenerateWhile(ref))
      /\ ref.node = "call"            => IsPlan(GenerateCall(ref))
  BY ValueBlockPlan, IfPlan, WhilePlan, CallPlan
<1> QED
  BY <1>1, <1>2, <1>3 DEF Generate

-----------------------------------------------------------------------------
(* The invariant.  A local variable is a jump to be patched, the start of  *)
(* a loop, or a return address to be filled in.                            *)
Kind(l) == CASE DOMAIN l = {"jump"}  -> "jump"
             [] DOMAIN l = {"start"} -> "start"
             [] OTHER                -> "ret"
KindsOf(s) == [k \in DOMAIN s |-> Kind(s[k])]

Awaits(k)  == \E i \in DOMAIN locals :
                Kind(locals[i]) = "ret" /\ locals[i].ret = k
Patches(k) == \E i \in DOMAIN locals :
                Kind(locals[i]) = "jump" /\ locals[i].jump = k

IsHeld(l) ==
  /\ Kind(l) = "jump"  => /\ l.jump \in DOMAIN code
                          /\ code[l.jump].op \in {"jmp", "jmp_false"}
  /\ Kind(l) = "start" => l.start \in Places(code)
  /\ Kind(l) = "ret"   => /\ l.ret \in DOMAIN returnAddresses
                          /\ l.prev \in Int /\ code # <<>>

LocalsHold == /\ locals \in Seq(Range(locals))
              /\ \A k \in DOMAIN locals : IsHeld(locals[k])

(* The sizes are numbers, so that what end_scope and a return pop is a     *)
(* list of instructions.                                                   *)
FramesHold == /\ IsTable(symtabStack, {"top", "map"})
              /\ \A k \in DOMAIN symtabStack : symtabStack[k].top \in Int
              /\ prevStackSize \in Int

Layout == IsCode(code) /\ curLoc = End(code)

(* Every address that is known is one of places.                           *)
CodeHolds(places) ==
  \A k \in DOMAIN code :
    /\ code[k].op = "push_const" => code[k].arg \in Taken
    /\ code[k].op \in Jumping    => code[k].arg \in places
    /\ code[k].op = "jmp_false"  => code[k].arg > At(code, k) \/ Patches(k)

ReturnsHold(places) ==
  \A k \in DOMAIN returnAddresses :
    /\ returnAddresses[k].address \in places
    /\ returnAddresses[k].address # 0 \/ Awaits(k)

FunctionsHold(places) ==
  /\ \A f \in DOMAIN functionDefs : functionDefs[f] \in places \ {0}
  /\ IsTable(callRelocs, {"index", "func"})
  /\ \A k \in DOMAIN callRelocs : /\ callRelocs[k].index \in DOMAIN code
                                  /\ code[callRelocs[k].index].op = "jmp"

AddressesHold(places) ==
  CodeHolds(places) /\ ReturnsHold(places) /\ FunctionsHold(places)

(* Inside a function, or the root block, what is left to do closes what is *)
(* open and ends with a ret; the next thing may still be placed where the  *)
(* code ends.  Between two functions nothing is open, and every address is *)
(* that of an instruction which is there.                                  *)
Closing == <<EmitArg("ret", 0), NamedFunctions>>

Left(tasks, a) ==
  \E s : AreTasks(s) /\ tasks = s \o Closing /\ Fits(s, a, <<>>)

Inside == /\ Left(todo, KindsOf(locals))
          /\ AddressesHold(Places(code))

Between == /\ todo = <<NamedFunctions>> /\ locals = <<>> /\ code # <<>>
           /\ AddressesHold(Starts(code))

Working == FramesHold /\ LocalsHold /\ (Inside \/ Between)

Complete ==
  /\ \A k \in DOMAIN code :
       /\ code[k].op = "push_const" => code[k].arg \in Taken
       /\ code[k].op \in Jumping    => code[k].arg \in Starts(code)
       /\ code[k].op = "jmp_false"  => code[k].arg > At(code, k)
  /\ \A r \in Range(returnAddresses) \cup Range(dynamicJumps) :
       r.address \in Starts(code) \ {0}

JumpInv == /\ PoolInv
           /\ program \in Programs /\ pending \subseteq DOMAIN program.functions
           /\ outcome = "working" => Layout /\ Working
           /\ outcome = "done"    => Layout /\ Complete

-----------------------------------------------------------------------------
(* The stack of local variables and its kinds.                             *)
LEMMA KindsAre ==
  ASSUME NEW s, s \in Seq(Range(s))
  PROVE  /\ KindsOf(s) \in Stacks /\ Len(KindsOf(s)) = Len(s)
         /\ Len(s) \in Nat /\ DOMAIN s = 1 .. Len(s)
         /\ \A k \in 1 .. Len(s) : KindsOf(s)[k] = Kind(s[k])
<1>1. Len(s) \in Nat /\ DOMAIN s = 1 .. Len(s)
  OBVIOUS
<1>2. \A k \in DOMAIN s : Kind(s[k]) \in Kinds
  BY DEF Kind, Kinds
<1> QED
  BY <1>1, <1>2 DEF KindsOf, Stacks

IsPushed(s, l, t) == t = Append(s, l)
IsPopped(s, t)    == t = Front(s)

(* A local variable put on the stack is the last one there.                *)
LEMMA LocalPushed ==
  ASSUME NEW s, s \in Seq(Range(s)), NEW l, NEW t, IsPushed(s, l, t)
  PROVE  /\ t \in Seq(Range(t)) /\ KindsOf(t) = Append(KindsOf(s), Kind(l))
         /\ \A k \in DOMAIN s : k \in DOMAIN t /\ t[k] = s[k]
         /\ Len(s) + 1 \in DOMAIN t /\ t[Len(s) + 1] = l
         /\ \A k \in DOMAIN t : t[k] = l \/ k \in DOMAIN s
<1>1. Len(s) \in Nat /\ DOMAIN s = 1 .. Len(s)
  OBVIOUS
<1>2. /\ t \in Seq(Range(s) \cup {l}) /\ Len(t) = Len(s) + 1
      /\ DOMAIN t = 1 .. Len(s) + 1
      /\ t[Len(s) + 1] = l
      /\ \A k \in 1 .. Len(s) : t[k] = s[k]
  <2>1. s \in Seq(Range(s) \cup {l}) /\ l \in Range(s) \cup {l}
    OBVIOUS
  <2> QED
    BY <1>1, <2>1, AppendProperties DEF IsPushed
<1>3. t \in Seq(Range(t))
  BY <1>2, SeqOfRange
<1>4. KindsOf(t) = Append(KindsOf(s), Kind(l))
  <2>1. /\ KindsOf(s) \in Stacks /\ KindsOf(t) \in Stacks
        /\ Len(KindsOf(s)) = Len(s) /\ Len(KindsOf(t)) = Len(s) + 1
        /\ \A k \in 1 .. Len(s) : KindsOf(s)[k] = Kind(s[k])
        /\ \A k \in 1 .. Len(s) + 1 : KindsOf(t)[k] = Kind(t[k])
    BY <1>1, <1>2, <1>3, KindsAre
  <2>2. Kind(l) \in Kinds
    BY DEF Kind, Kinds
  <2>3. /\ Append(KindsOf(s), Kind(l)) \in Seq(Kinds)
        /\ Len(Append(KindsOf(s), Kind(l))) = Len(s) + 1
        /\ Append(KindsOf(s), Kind(l))[Len(s) + 1] = Kind(l)
        /\ \A k \in 1 .. Len(s) : Append(KindsOf(s), Kind(l))[k] = KindsOf(s)[k]
    BY <2>1, <2>2, AppendProperties DEF Stacks
  <2>4. \A k \in 1 .. Len(s) + 1 : KindsOf(t)[k] = Append(KindsOf(s), Kind(l))[k]
    BY <1>1, <1>2, <2>1, <2>3
  <2> QED
    BY <2>1, <2>3, <2>4, SeqEqual DEF Stacks
<1> QED
  BY <1>1, <1>2, <1>3, <1>4

(* The innermost local variable is taken off the stack, and no other.      *)
LEMMA LocalPopped ==
  ASSUME NEW s, s \in Seq(Range(s)), NEW b \in Stacks, NEW kind \in Kinds,
         KindsOf(s) = Append(b, kind), NEW t, IsPopped(s, t)
  PROVE  /\ t \in Seq(Range(t)) /\ KindsOf(t) = b
         /\ Len(s) \in DOMAIN s /\ Last(s) = s[Len(s)] /\ Kind(Last(s)) = kind
         /\ Len(t) = Len(s) - 1 /\ Len(s) \in Nat
         /\ \A k \in DOMAIN t : k \in DOMAIN s /\ t[k] = s[k]
         /\ \A k \in DOMAIN s : s[k] = Last(s) \/ k \in DOMAIN t
<1>1. /\ Len(b) \in Nat /\ Len(Append(b, kind)) = Len(b) + 1
      /\ Append(b, kind)[Len(b) + 1] = kind
      /\ \A k \in 1 .. Len(b) : Append(b, kind)[k] = b[k]
  BY AppendProperties DEF Stacks
<1>2. /\ KindsOf(s) \in Stacks /\ Len(KindsOf(s)) = Len(s)
      /\ Len(s) \in Nat /\ DOMAIN s = 1 .. Len(s)
      /\ \A k \in 1 .. Len(s) : KindsOf(s)[k] = Kind(s[k])
  BY KindsAre
<1>3. Len(s) = Len(b) + 1
  BY <1>1, <1>2
<1>4. /\ t \in Seq(Range(s)) /\ Len(t) = Len(b) /\ DOMAIN t = 1 .. Len(b)
      /\ \A k \in 1 .. Len(b) : t[k] = s[k]
  <2>1. t = SubSeq(s, 1, Len(b))
    BY <1>1, <1>3 DEF Front, IsPopped
  <2> QED
    BY <1>1, <1>2, <1>3, <2>1
<1>5. t \in Seq(Range(t))
  BY <1>4, SeqOfRange
<1>6. KindsOf(t) = b
  <2>1. KindsOf(t) \in Stacks /\ Len(KindsOf(t)) = Len(b)
        /\ \A k \in 1 .. Len(b) : KindsOf(t)[k] = Kind(t[k])
    BY <1>4, <1>5, KindsAre
  <2>2. \A k \in 1 .. Len(b) : KindsOf(t)[k] = b[k]
    BY <1>1, <1>2, <1>3, <1>4, <2>1
  <2> QED
    BY <2>1, <2>2, SeqEqual DEF Stacks
<1>7. Last(s) = s[Len(s)]
  BY DEF Last
<1>8. Kind(Last(s)) = kind
  BY <1>1, <1>2, <1>3, <1>7
<1> QED
  BY <1>1, <1>2, <1>3, <1>4, <1>5, <1>6, <1>7, <1>8

-----------------------------------------------------------------------------
(* What a step does to the code: it emits a list of instructions, and may  *)
(* patch one jump to where the code then ends.                             *)
CodeGrows ==
  /\ Layout'
  /\ \A k \in DOMAIN code : k \in DOMAIN code' /\ code'[k].op = code[k].op
  /\ Places(code) \subseteq Places(code')
  /\ code # <<>> => code' # <<>>

(* What is emitted names constants of the pool and jumps to known places,  *)
(* or to a place that a local variable remembers to patch.                 *)
Emits(d) ==
  /\ IsCode(d)
  /\ \A k \in DOMAIN d :
       /\ d[k].op = "push_const" => d[k].arg \in Taken'
       /\ d[k].op \in Jumping    => d[k].arg \in Places(code)
       /\ \A i \in Nat : i = Len(code) + k /\ d[k].op = "jmp_false" => Patches(i)'

(* Code is something if it has a first instruction.                        *)
LEMMA NotEmpty == ASSUME NEW c, IsCode(c) PROVE c # <<>> <=> 1 \in DOMAIN c
BY CodeIs, EmptySeq

(* Emitting leaves every jump where it goes, and makes a start of what was *)
(* the end.                                                                *)
LEMMA CodeEmitted ==
  ASSUME Layout, NEW places, places \subseteq Places(code), CodeHolds(places),
         Taken \subseteq Taken', NEW d, Emits(d),
         code' = code \o d, curLoc' = curLoc + End(d),
         \A k \in DOMAIN code : Patches(k) => Patches(k)'
  PROVE  /\ CodeGrows /\ CodeHolds(Places(code))'
         /\ d # <<>> => /\ Places(code) \subseteq Starts(code')
                        /\ CodeHolds(Starts(code))' /\ code' # <<>>
<1>0. IsCode(code) /\ IsCode(d)
  BY DEF Layout, Emits
<1>0a. Follows(code, d, code')
  BY DEF Follows
<1>1. /\ IsCode(code') /\ End(code') = End(code) + End(d)
      /\ Len(code') = Len(code) + Len(d)
      /\ \A k \in DOMAIN code : /\ k \in DOMAIN code' /\ code'[k] = code[k]
                                /\ At(code', k) = At(code, k)
      /\ \A k \in DOMAIN d : Len(code) + k \in DOMAIN code' /\ code'[Len(code) + k] = d[k]
      /\ \A k \in DOMAIN code' : k \in DOMAIN code \/ k - Len(code) \in DOMAIN d
      /\ Places(code) \subseteq Places(code')
      /\ d # <<>> => Places(code) \subseteq Starts(code')
  BY <1>0, <1>0a, Emission
<1>2. CodeGrows
  BY <1>1, NotEmpty DEF CodeGrows, Layout
<1>3. ASSUME NEW k \in DOMAIN code'
      PROVE  /\ code'[k].op = "push_const" => code'[k].arg \in Taken'
             /\ code'[k].op \in Jumping    => code'[k].arg \in Places(code)
             /\ code'[k].op = "jmp_false"  => code'[k].arg > At(code', k) \/ Patches(k)'
  <2>1. CASE k \in DOMAIN code
    BY <1>1, <2>1 DEF CodeHolds
  <2>2. CASE k - Len(code) \in DOMAIN d
    <3>1. DOMAIN code' = 1 .. Len(code') /\ Len(code) \in Nat /\ Len(code') \in Nat
      BY <1>1, CodeIs DEF Layout
    <3>2. k = Len(code) + (k - Len(code)) /\ k \in Nat
      BY <3>1
    <3>3. code'[k] = d[k - Len(code)]
      BY <1>1, <2>2, <3>2
    <3>4. d[k - Len(code)].op = "jmp_false" => Patches(k)'
      BY <2>2, <3>1, <3>2 DEF Emits
    <3> QED
      BY <1>1, <2>2, <3>3, <3>4 DEF Emits
  <2> QED
    BY <1>1, <2>1, <2>2
<1>4. d # <<>> => code' # <<>>
  <2>1. 0 \in Places(code)
    BY <1>0, PlacesAre
  <2>2. d # <<>> => 0 \in Starts(code')
    BY <1>1, <2>1
  <2> QED
    BY <2>2 DEF Starts
<1> QED
  BY <1>1, <1>2, <1>3, <1>4 DEF CodeHolds, Places

(* Patching one jump leaves the others, and it goes to the end of the      *)
(* code.                                                                   *)
LEMMA CodePatched ==
  ASSUME Layout, CodeHolds(Places(code)), Taken \subseteq Taken',
         NEW d, Emits(d),
         NEW at \in DOMAIN code, code[at].op \in {"jmp", "jmp_false"},
         code' = Patched(code \o d, at, curLoc + End(d)),
         curLoc' = curLoc + End(d),
         \A k \in DOMAIN code : Patches(k) /\ k # at => Patches(k)'
  PROVE  /\ CodeGrows /\ CodeHolds(Places(code))'
         /\ \A k \in DOMAIN d : /\ Len(code) + k \in DOMAIN code'
                                /\ code'[Len(code) + k].op = d[k].op
<1> DEFINE e == code \o d
<1>0. IsCode(code) /\ IsCode(d)
  BY DEF Layout, Emits
<1>0a. Follows(code, d, e)
  BY DEF Follows
<1>1. /\ IsCode(e) /\ End(e) = End(code) + End(d)
      /\ Len(e) = Len(code) + Len(d)
      /\ \A k \in DOMAIN code : /\ k \in DOMAIN e /\ e[k] = code[k]
                                /\ At(e, k) = At(code, k)
      /\ \A k \in DOMAIN d : Len(code) + k \in DOMAIN e /\ e[Len(code) + k] = d[k]
      /\ \A k \in DOMAIN e : k \in DOMAIN code \/ k - Len(code) \in DOMAIN d
      /\ Places(code) \subseteq Places(e)
  BY <1>0, <1>0a, Emission
<1>2. code' = Patched(e, at, End(e)) /\ curLoc' = End(e)
  BY <1>1 DEF Layout
<1> HIDE DEF e
<1>2a. at \in DOMAIN e /\ IsPatched(e, at, End(e), code')
  BY <1>1, <1>2 DEF IsPatched
<1>3. /\ IsCode(code') /\ End(code') = End(e) /\ DOMAIN code' = DOMAIN e
      /\ Places(code') = Places(e)
      /\ \A k \in DOMAIN e : /\ code'[k].op = e[k].op /\ At(code', k) = At(e, k)
                             /\ k # at => code'[k] = e[k]
      /\ code'[at].arg = End(e)
  <2>1. IsCode(e) /\ at \in DOMAIN e /\ IsPatched(e, at, End(e), code')
    BY <1>1, <1>2a
  <2> QED
    BY <2>1, Patching
<1>4. CodeGrows
  BY <1>1, <1>2, <1>3, NotEmpty DEF CodeGrows, Layout
<1>5. End(e) \in Places(code') /\ At(code', at) < End(e)
  BY <1>1, <1>3, PlacesAre DEF Places
<1>6. End(e) \in Nat /\ At(code', at) \in Nat
  BY <1>1, <1>3, PlacesAre
<1>7. ASSUME NEW k \in DOMAIN code'
      PROVE  /\ code'[k].op = "push_const" => code'[k].arg \in Taken'
             /\ code'[k].op \in Jumping    => code'[k].arg \in Places(code')
             /\ code'[k].op = "jmp_false"  => code'[k].arg > At(code', k) \/ Patches(k)'
  <2>1. CASE k = at
    <3>1. code'[k].op \in {"jmp", "jmp_false"}
      BY <1>1, <1>3, <2>1
    <3> QED
      BY <1>3, <1>5, <1>6, <2>1, <3>1
  <2>2. CASE k \in DOMAIN code /\ k # at
    BY <1>1, <1>3, <2>2 DEF CodeHolds
  <2>3. CASE k - Len(code) \in DOMAIN d /\ k # at
    <3>1. DOMAIN code' = 1 .. Len(e) /\ Len(code) \in Nat /\ Len(e) \in Nat
      BY <1>1, <1>3, CodeIs DEF Layout
    <3>2. k = Len(code) + (k - Len(code)) /\ k \in Nat
      BY <3>1
    <3>3. code'[k] = d[k - Len(code)]
      BY <1>1, <1>3, <2>3, <3>2
    <3>4. d[k - Len(code)].op = "jmp_false" => Patches(k)'
      BY <2>3, <3>1, <3>2 DEF Emits
    <3> QED
      BY <1>1, <1>3, <2>3, <3>3, <3>4 DEF Emits
  <2> QED
    BY <1>1, <1>3, <2>1, <2>2, <2>3
<1>8. \A k \in DOMAIN d : /\ Len(code) + k \in DOMAIN code'
                          /\ code'[Len(code) + k].op = d[k].op
  BY <1>1, <1>3
<1> QED
  BY <1>4, <1>7, <1>8 DEF CodeHolds

(* What the code's growth leaves true of the tables and the locals.        *)
LEMMA FunctionsKept ==
  ASSUME CodeGrows, NEW places, FunctionsHold(places), places \subseteq Places(code),
         UNCHANGED <<functionDefs, callRelocs>>
  PROVE  FunctionsHold(Places(code))'
BY DEF FunctionsHold, CodeGrows, IsTable

(* Return addresses that do not change are still places.                   *)
LEMMA ReturnsKept ==
  ASSUME CodeGrows, NEW places, ReturnsHold(places), places \subseteq Places(code),
         UNCHANGED returnAddresses,
         \A k \in DOMAIN returnAddresses : Awaits(k) => Awaits(k)'
  PROVE  ReturnsHold(Places(code))'
BY DEF ReturnsHold, CodeGrows

(* A local variable still remembers what it did.                           *)
LEMMA StillHeld ==
  ASSUME CodeGrows, NEW l, IsHeld(l),
         \A k \in DOMAIN returnAddresses : k \in DOMAIN returnAddresses'
  PROVE  IsHeld(l)'
<1>1. Kind(l)' = Kind(l)
  BY DEF Kind
<1> QED
  BY <1>1 DEF IsHeld, CodeGrows

-----------------------------------------------------------------------------
(* The thing to do next, inside a function.                                *)
LEMMA FitsNothing == ASSUME NEW a, NEW b, Fits(<<>>, a, b) PROVE a = b
BY DEF Fits

(* The ret, and then the next function.                                    *)
LEMMA ClosingIs ==
  /\ Closing \in Seq(Range(Closing)) /\ Len(Closing) = 2
  /\ Closing # <<>> /\ Head(Closing) = EmitArg("ret", 0)
  /\ Tail(Closing) = <<NamedFunctions>>
BY DEF Closing, Range

(* What is left is the final ret, or a thing to do and what is left after  *)
(* it.                                                                     *)
LEMMA LeftIs ==
  ASSUME NEW tasks, NEW a, Left(tasks, a)
  PROVE  \/ /\ Head(tasks) = EmitArg("ret", 0)
            /\ Tail(tasks) = <<NamedFunctions>> /\ a = <<>>
         \/ /\ IsTask(Head(tasks))
            /\ \E c \in Stacks : Effect(Head(tasks), a, c) /\ Left(Tail(tasks), c)
<1>1. PICK s : AreTasks(s) /\ tasks = s \o Closing /\ Fits(s, a, <<>>)
  BY DEF Left
<1>2. CASE s = <<>>
  <2>1. tasks = Closing
    BY <1>1, <1>2, ClosingIs
  <2>2. a = <<>>
    BY <1>1, <1>2, FitsNothing
  <2> QED
    BY <2>1, <2>2, ClosingIs
<1>3. CASE s # <<>>
  <2> DEFINE S == Range(s) \cup Range(Closing)
  <2>1. s \in Seq(S) /\ Closing \in Seq(S)
    BY <1>1, ClosingIs DEF AreTasks
  <2> HIDE DEF S
  <2>2. /\ Len(s) \in Nat /\ Len(s) > 0 /\ Head(s) = s[1] /\ DOMAIN s = 1 .. Len(s)
        /\ Tail(s) \in Seq(S) /\ Len(Tail(s)) = Len(s) - 1
        /\ \A i \in 1 .. Len(s) - 1 : Tail(s)[i] = s[i + 1]
    BY <1>3, <2>1, HeadTailProperties, LenProperties, EmptySeq
  <2>3. /\ tasks \in Seq(S) /\ Len(tasks) = Len(s) + 2
        /\ \A i \in 1 .. Len(s) + 2 :
              tasks[i] = IF i <= Len(s) THEN s[i] ELSE Closing[i - Len(s)]
    <3>1. /\ s \o Closing \in Seq(S) /\ Len(s \o Closing) = Len(s) + Len(Closing)
          /\ \A i \in 1 .. Len(s) + Len(Closing) : (s \o Closing)[i]
               = IF i <= Len(s) THEN s[i] ELSE Closing[i - Len(s)]
      BY <2>1, ConcatProperties
    <3> QED
      BY <1>1, <3>1, ClosingIs
  <2>4. /\ Head(tasks) = tasks[1] /\ tasks # <<>>
        /\ Tail(tasks) \in Seq(S) /\ Len(Tail(tasks)) = Len(s) + 1
        /\ \A i \in 1 .. Len(s) + 1 : Tail(tasks)[i] = tasks[i + 1]
    <3>1. tasks # <<>>
      BY <2>2, <2>3
    <3> QED
      BY <2>2, <2>3, <3>1, HeadTailProperties
  <2>5. Head(tasks) = Head(s) /\ IsTask(Head(s))
    BY <1>1, <2>2, <2>3, <2>4 DEF AreTasks
  <2>6. /\ Tail(s) \o Closing \in Seq(S) /\ Len(Tail(s) \o Closing) = Len(s) + 1
        /\ \A i \in 1 .. Len(s) + 1 : (Tail(s) \o Closing)[i]
             = IF i <= Len(s) - 1 THEN Tail(s)[i] ELSE Closing[i - (Len(s) - 1)]
    <3>1. /\ Tail(s) \o Closing \in Seq(S)
          /\ Len(Tail(s) \o Closing) = Len(Tail(s)) + Len(Closing)
          /\ \A i \in 1 .. Len(Tail(s)) + Len(Closing) : (Tail(s) \o Closing)[i]
               = IF i <= Len(Tail(s)) THEN Tail(s)[i] ELSE Closing[i - Len(Tail(s))]
      BY <2>1, <2>2, ConcatProperties
    <3> QED
      BY <2>2, <3>1, ClosingIs
  <2>7. Tail(tasks) = Tail(s) \o Closing
    <3>1. ASSUME NEW i \in 1 .. Len(s) + 1
          PROVE  Tail(tasks)[i] = (Tail(s) \o Closing)[i]
      <4>1. Tail(tasks)[i] = tasks[i + 1] /\ i + 1 \in 1 .. Len(s) + 2
        BY <2>2, <2>4
      <4>2. CASE i <= Len(s) - 1
        BY <2>2, <2>3, <2>6, <4>1, <4>2
      <4>3. CASE ~(i <= Len(s) - 1)
        <5>1. tasks[i + 1] = Closing[(i + 1) - Len(s)]
          BY <2>2, <2>3, <4>1, <4>3
        <5>2. (i + 1) - Len(s) = i - (Len(s) - 1)
          BY <2>2
        <5> QED
          BY <2>6, <4>1, <4>3, <5>1, <5>2
      <4> QED
        BY <4>2, <4>3
    <3> QED
      BY <2>4, <2>6, <3>1, SeqEqual
  <2>8. AreTasks(Tail(s))
    <3>1. Tail(s) \in Seq(Range(Tail(s)))
      BY <2>2, SeqOfRange
    <3>2. \A k \in DOMAIN Tail(s) : k \in 1 .. Len(s) - 1 /\ k + 1 \in DOMAIN s
      BY <2>2, LenProperties
    <3> QED
      BY <1>1, <2>2, <3>1, <3>2 DEF AreTasks
  <2>9. PICK c \in Stacks : Effect(Head(s), a, c) /\ Fits(Tail(s), c, <<>>)
    BY <1>1, <1>3, <2>1, FitsHead
  <2>10. Left(Tail(tasks), c)
    BY <2>7, <2>8, <2>9 DEF Left
  <2> QED
    BY <2>5, <2>9, <2>10
<1> QED
  BY <1>2, <1>3

(* Inside a function or between two of them, by what is next.              *)
LEMMA TaskAhead ==
  ASSUME Layout, Working, NEW what, Doing(what),
         what \notin {"emit", "named_functions"}
  PROVE  /\ IsTask(Task) /\ AddressesHold(Places(code))
         /\ \E c \in Stacks : Effect(Task, KindsOf(locals), c) /\ Left(Tail(todo), c)
<1>1. Task.do = what
  BY DEF Doing, Task
<1>2. Inside
  <2>1. <<NamedFunctions>>[1] = NamedFunctions /\ NamedFunctions.do = "named_functions"
    BY DEF NamedFunctions
  <2>2. ~Between
    BY <1>1, <2>1 DEF Between, Task
  <2> QED
    BY <2>2 DEF Working
<1>3. Task # EmitArg("ret", 0)
  BY <1>1 DEF EmitArg
<1> QED
  BY <1>2, <1>3, LeftIs DEF Inside, Task

-----------------------------------------------------------------------------
(* The stack of blocks.                                                    *)
FrontHolds(stack) ==
  /\ IsTable(stack, {"top", "map"})
  /\ \A k \in DOMAIN stack : stack[k].top \in Int

(* The size of a block is a number, and so are those of the others.        *)
LEMMA BlockSizeType ==
  ASSUME NEW stack, FrontHolds(stack)
  PROVE  /\ BlockSize(stack) \in Int
         /\ FrontHolds(Front(stack))
<1>1. stack \in Seq(Range(stack)) /\ Len(stack) \in Nat /\ DOMAIN stack = 1 .. Len(stack)
  BY DEF FrontHolds, IsTable
<1>2. BlockSize(stack) \in Int
  <2>1. CASE stack = <<>>
    BY <2>1 DEF BlockSize
  <2>2. CASE stack # <<>>
    <3>1. Len(stack) \in DOMAIN stack
      BY <1>1, <2>2, EmptySeq
    <3> QED
      BY <2>2, <3>1 DEF BlockSize, Last, FrontHolds
  <2> QED
    BY <2>1, <2>2
<1>3. FrontHolds(Front(stack))
  <2> DEFINE front == Front(stack)
  <2>1. CASE stack = <<>>
    <3>1. Len(stack) = 0
      BY <2>1
    <3>2. front = <<>>
      BY <2>1, <3>1 DEF Front
    <3>3. <<>> \in Seq(Range(<<>>)) /\ DOMAIN <<>> = {}
      OBVIOUS
    <3> QED
      BY <3>2, <3>3 DEF FrontHolds, IsTable
  <2>2. CASE stack # <<>>
    <3>1. Len(stack) > 0
      BY <1>1, <2>2, EmptySeq
    <3>2. front = SubSeq(stack, 1, Len(stack) - 1)
      BY DEF Front
    <3>3. /\ front \in Seq(Range(stack)) /\ Len(front) = Len(stack) - 1
          /\ \A k \in 1 .. Len(stack) - 1 : front[k] = stack[k]
      BY <1>1, <3>1, <3>2
    <3> HIDE DEF front
    <3>4. front \in Seq(Range(front)) /\ DOMAIN front = 1 .. Len(stack) - 1
      BY <3>3, SeqOfRange, LenProperties
    <3>5. \A k \in DOMAIN front : k \in DOMAIN stack /\ front[k] = stack[k]
      BY <1>1, <3>3, <3>4
    <3> QED
      BY <3>4, <3>5 DEF FrontHolds, IsTable, front
  <2> QED
    BY <2>1, <2>2
<1> QED
  BY <1>2, <1>3

(* FramesHold is about the stack and the size kept from it.                *)
LEMMA FramesAre == FramesHold <=> FrontHolds(symtabStack) /\ prevStackSize \in Int
BY DEF FramesHold, FrontHolds

(* A step that leaves both alone.                                          *)
LEMMA FramesKept ==
  ASSUME FramesHold, UNCHANGED <<symtabStack, prevStackSize>> PROVE FramesHold'
BY DEF FramesHold, IsTable

(* A step that grows or shrinks the innermost block.                       *)
LEMMA GrownKept ==
  ASSUME FramesHold, NEW delta \in Int, symtabStack' = Grown(delta),
         UNCHANGED prevStackSize
  PROVE  FramesHold'
<1> DEFINE s == symtabStack
<1>1. s \in Seq(Range(s)) /\ Len(s) \in Nat /\ DOMAIN s = 1 .. Len(s)
  BY DEF FramesHold, IsTable
<1>2. \A k \in DOMAIN s : DOMAIN s[k] = {"top", "map"} /\ s[k].top \in Int
  BY DEF FramesHold, IsTable
<1>3. s' = [s EXCEPT ![Len(s)].top = @ + delta]
  BY DEF Grown
<1>4. /\ DOMAIN s' = DOMAIN s /\ s' = [k \in 1 .. Len(s) |-> s'[k]]
      /\ \A k \in DOMAIN s : DOMAIN s'[k] = {"top", "map"} /\ s'[k].top \in Int
  <2>1. s' = [k \in DOMAIN s |-> IF k = Len(s)
                THEN [s[k] EXCEPT !.top = s[k].top + delta] ELSE s[k]]
    BY <1>1, <1>3
  <2>2. DOMAIN s' = DOMAIN s /\ s' = [k \in 1 .. Len(s) |-> s'[k]]
    BY <1>1, <2>1
  <2>3. ASSUME NEW k \in DOMAIN s
        PROVE  DOMAIN s'[k] = {"top", "map"} /\ s'[k].top \in Int
    <3>1. CASE k # Len(s)
      BY <1>2, <2>1, <3>1
    <3>2. CASE k = Len(s)
      <4>1. s'[k] = [s[k] EXCEPT !.top = s[k].top + delta]
        BY <2>1, <3>2
      <4> QED
        BY <1>2, <4>1
    <3> QED
      BY <3>1, <3>2
  <2> QED
    BY <2>2, <2>3
<1>5. s' \in Seq(Range(s'))
  BY <1>1, <1>4 DEF Range
<1> QED
  BY <1>4, <1>5 DEF FramesHold, IsTable

(* A step that begins a block.                                             *)
LEMMA BlockPushed ==
  ASSUME FramesHold, NEW block, DOMAIN block = {"top", "map"}, block.top \in Int,
         symtabStack' = Append(symtabStack, block), prevStackSize' \in Int
  PROVE  FramesHold'
<1>1. IsTable(symtabStack, {"top", "map"})
  BY DEF FramesHold
<1>2. IsTable(symtabStack', {"top", "map"})
  BY <1>1, AppendTable
<1>3. /\ Len(symtabStack) \in Nat /\ DOMAIN symtabStack = 1 .. Len(symtabStack)
      /\ DOMAIN symtabStack' = 1 .. Len(symtabStack) + 1
      /\ \A k \in 1 .. Len(symtabStack) + 1 : symtabStack'[k]
           = IF k <= Len(symtabStack) THEN symtabStack[k] ELSE block
  <2> DEFINE S == Range(symtabStack) \cup {block}
  <2>1. symtabStack \in Seq(S) /\ block \in S
    BY <1>1 DEF IsTable
  <2> QED
    BY <2>1, AppendProperties, LenProperties
<1>4. \A k \in DOMAIN symtabStack' : symtabStack'[k].top \in Int
  BY <1>3 DEF FramesHold
<1> QED
  BY <1>2, <1>4 DEF FramesHold

(* A step that ends the innermost block.                                   *)
LEMMA BlockPopped ==
  ASSUME FramesHold, symtabStack' = Front(symtabStack), prevStackSize' \in Int
  PROVE  FramesHold'
<1>1. FrontHolds(symtabStack')
  BY BlockSizeType, FramesAre
<1> QED
  BY <1>1 DEF FramesHold, FrontHolds

-----------------------------------------------------------------------------
(* Steps that leave the locals and the tables of addresses alone.          *)
LEMMA AddressesKept ==
  ASSUME NEW places, places \subseteq Places(code), AddressesHold(places),
         CodeGrows, CodeHolds(Places(code))', LocalsHold,
         UNCHANGED <<locals, returnAddresses, functionDefs, callRelocs>>
  PROVE  AddressesHold(Places(code))' /\ LocalsHold'
<1>1. \A k : Awaits(k) => Awaits(k)'
  BY DEF Awaits, Kind
<1>2. ReturnsHold(Places(code))'
  BY <1>1, ReturnsKept DEF AddressesHold
<1>3. FunctionsHold(Places(code))'
  BY FunctionsKept DEF AddressesHold
<1>4. LocalsHold'
  <2>1. \A k \in DOMAIN returnAddresses : k \in DOMAIN returnAddresses'
    OBVIOUS
  <2>2. ASSUME NEW k \in DOMAIN locals PROVE IsHeld(locals[k])'
    <3>1. IsHeld(locals[k])
      BY DEF LocalsHold
    <3>2. \A l : IsHeld(l) => IsHeld(l)'
      BY <2>1, StillHeld
    <3> QED
      BY <3>1, <3>2
  <2> QED
    BY <2>2 DEF LocalsHold
<1> QED
  BY <1>2, <1>3, <1>4 DEF AddressesHold

(* Such a step emits a list of instructions, perhaps none.                 *)
Emitted(d) == Emits(d) /\ code' = code \o d /\ curLoc' = curLoc + End(d)

PlainStep ==
  /\ \E d : Emitted(d)
  /\ todo' = Tail(todo)
  /\ UNCHANGED <<locals, returnAddresses, functionDefs, callRelocs>>

(* A plain step leaves the rest to be done.                                *)
LEMMA PlainKept ==
  ASSUME Layout, Working, Taken \subseteq Taken', NEW what, Doing(what),
         what \notin {"emit", "named_functions"} \cup Bracketing,
         PlainStep, FramesHold'
  PROVE  Layout' /\ Working'
<1>1. /\ Task.do = what /\ IsTask(Task) /\ AddressesHold(Places(code))
      /\ \E c \in Stacks : Effect(Task, KindsOf(locals), c) /\ Left(Tail(todo), c)
  BY TaskAhead DEF Doing, Task
<1>2. Left(Tail(todo), KindsOf(locals))
  BY <1>1 DEF Effect
<1>3. \A k : Patches(k) => Patches(k)'
  BY DEF PlainStep, Patches, Kind
<1>4. CodeGrows /\ CodeHolds(Places(code))'
  <2>1. CodeHolds(Places(code)) /\ Places(code) \subseteq Places(code)
    BY <1>1 DEF AddressesHold
  <2>2. PICK d : Emits(d) /\ code' = code \o d /\ curLoc' = curLoc + End(d)
    BY DEF PlainStep, Emitted
  <2> QED
    BY <1>3, <2>1, <2>2, CodeEmitted
<1>5. AddressesHold(Places(code))' /\ LocalsHold'
  BY <1>1, <1>4, AddressesKept DEF PlainStep, Working
<1>6. Left(todo, KindsOf(locals))'
  BY <1>2 DEF PlainStep, Left, KindsOf, Kind
<1> QED
  BY <1>4, <1>5, <1>6 DEF Working, Inside, CodeGrows

-----------------------------------------------------------------------------
(* What steps emit.                                                        *)
LEMMA InstrIs ==
  \A op, arg : /\ DOMAIN I(op, arg) = {"op", "arg"}
               /\ I(op, arg).op = op /\ I(op, arg).arg = arg
BY DEF I

(* A list of one instruction,                                              *)
LEMMA OneInstr ==
  ASSUME NEW op, NEW arg
  PROVE  /\ IsCode(<<I(op, arg)>>) /\ Len(<<I(op, arg)>>) = 1
         /\ DOMAIN <<I(op, arg)>> = {1} /\ <<I(op, arg)>>[1] = I(op, arg)
<1> DEFINE x == I(op, arg)
<1>1. DOMAIN x = {"op", "arg"}
  BY InstrIs
<1> HIDE DEF x
<1>2. <<x>> \in Seq({x}) /\ DOMAIN <<x>> = {1} /\ <<x>>[1] = x /\ Len(<<x>>) = 1
  OBVIOUS
<1>3. <<x>> \in Seq(Range(<<x>>))
  BY <1>2 DEF Range
<1>4. IsCode(<<x>>)
  BY <1>1, <1>2, <1>3 DEF IsCode, IsTable
<1> QED
  BY <1>2, <1>4 DEF x

(* of the same one many times,                                             *)
LEMMA SameInstrs ==
  ASSUME NEW n \in Nat, NEW op, NEW arg, NEW d, d = [k \in 1 .. n |-> I(op, arg)]
  PROVE  IsCode(d) /\ DOMAIN d = 1 .. n /\ \A k \in DOMAIN d : d[k] = I(op, arg)
<1>1. DOMAIN d = 1 .. n /\ \A k \in DOMAIN d : d[k] = I(op, arg)
  OBVIOUS
<1>2. d \in Seq({I(op, arg)})
  OBVIOUS
<1>3. d \in Seq(Range(d))
  BY <1>2, SeqOfRange
<1> QED
  BY <1>1, <1>3, InstrIs DEF IsCode, IsTable

(* and of two.                                                             *)
LEMMA TwoInstrs ==
  ASSUME NEW x, NEW y, DOMAIN x = {"op", "arg"}, DOMAIN y = {"op", "arg"}
  PROVE  /\ IsCode(<<x, y>>)
         /\ \A k \in DOMAIN <<x, y>> : <<x, y>>[k] \in {x, y}
<1>1. /\ <<x, y>> \in Seq({x, y}) /\ DOMAIN <<x, y>> = 1 .. 2
      /\ <<x, y>>[1] = x /\ <<x, y>>[2] = y
  OBVIOUS
<1>2. <<x, y>> \in Seq(Range(<<x, y>>))
  BY <1>1, SeqOfRange
<1>3. \A k \in DOMAIN <<x, y>> : <<x, y>>[k] \in {x, y}
  BY <1>1
<1> QED
  BY <1>2, <1>3 DEF IsCode, IsTable

(* What is emitted does not jump, and names constants of the pool.         *)
LEMMA QuietEmitted ==
  ASSUME NEW d, IsCode(d), EmitAll(d),
         \A k \in DOMAIN d : /\ d[k].op \notin Jumping
                             /\ d[k].op = "push_const" => d[k].arg \in Taken'
  PROVE  Emitted(d)
<1>1. Emits(d)
  BY DEF Emits, Jumping
<1> QED
  BY <1>1 DEF EmitAll, Emitted, End

(* One such instruction.                                                   *)
LEMMA OneEmitted ==
  ASSUME NEW op, op \notin Jumping, NEW arg, op = "push_const" => arg \in Taken',
         EmitOne(op, arg)
  PROVE  \E d : Emitted(d) /\ d # <<>>
<1>1. EmitAll(<<I(op, arg)>>)
  BY DEF EmitOne
<1>2. Emitted(<<I(op, arg)>>)
  BY <1>1, OneInstr, InstrIs, QuietEmitted
<1>3. <<I(op, arg)>> # <<>>
  OBVIOUS
<1> QED
  BY <1>2, <1>3

(* Nothing is emitted.                                                     *)
LEMMA NoneEmitted ==
  ASSUME Layout, UNCHANGED <<code, curLoc>> PROVE \E d : Emitted(d)
<1>1. IsCode(<<>>) /\ DOMAIN <<>> = {} /\ Len(<<>>) = 0
  BY DEF IsCode, IsTable
<1>2. End(<<>>) = 0
  BY <1>1, FirstLocation DEF End
<1>3. code \o <<>> = code
  BY ConcatEmptySeq, CodeIs DEF Layout
<1>4. curLoc \in Nat
  BY PlacesAre DEF Layout
<1>5. Emits(<<>>)
  BY <1>1 DEF Emits
<1>6. Emitted(<<>>)
  BY <1>2, <1>3, <1>4, <1>5 DEF Emitted
<1> QED
  BY <1>6

-----------------------------------------------------------------------------
(* The plain steps, one by one.                                            *)
Ongoing == PoolInv /\ Layout /\ Working

(* The sizes the visitor computes with are numbers.                        *)
LEMMA SizesAre ==
  ASSUME Working
  PROVE  Size \in Int /\ Excess \in Int /\ prevStackSize \in Int /\ FramesHold
<1>1. FrontHolds(symtabStack) /\ prevStackSize \in Int /\ FramesHold
  BY FramesAre DEF Working
<1>2. BlockSize(symtabStack) \in Int /\ BlockSize(Front(symtabStack)) \in Int
  BY <1>1, BlockSizeType
<1> QED
  BY <1>1, <1>2 DEF Size, Excess

(* A plain step keeps the invariant if it takes the thing to do off the    *)
(* list.                                                                   *)
LEMMA Kept ==
  ASSUME Ongoing, PoolInv', Taken \subseteq Taken', NEW what, Doing(what),
         what \notin {"emit", "named_functions"} \cup Bracketing,
         \E d : Emitted(d), Done, FramesHold',
         UNCHANGED <<locals, returnAddresses, functionDefs, callRelocs>>
  PROVE  Ongoing'
<1>1. PlainStep
  BY DEF PlainStep, Done
<1> QED
  BY <1>1, PlainKept DEF Ongoing

(* The flag of a statement is not part of the invariant.                   *)
LEMMA SetFlagKept ==
  ASSUME Ongoing, PoolInv', Taken \subseteq Taken', SetFlag PROVE Ongoing'
<1>1. UNCHANGED <<code, curLoc, symtabStack, prevStackSize, locals,
                  returnAddresses, functionDefs, callRelocs>>
  BY DEF SetFlag, scopes, tables, control
<1>2. \E d : Emitted(d)
  BY <1>1, NoneEmitted DEF Ongoing
<1>3. FramesHold'
  BY <1>1, FramesKept DEF Ongoing, Working
<1> QED
  BY <1>1, <1>2, <1>3, Kept DEF SetFlag, Bracketing

(* The global scope is kept; nothing is emitted.                           *)
LEMMA KeepGlobalsKept ==
  ASSUME Ongoing, PoolInv', Taken \subseteq Taken', KeepGlobalsStep PROVE Ongoing'
<1>1. UNCHANGED <<code, curLoc, symtabStack, prevStackSize, locals,
                  returnAddresses, functionDefs, callRelocs>>
  BY DEF KeepGlobalsStep, tables, flags, control
<1>2. \E d : Emitted(d)
  BY <1>1, NoneEmitted DEF Ongoing
<1>3. FramesHold'
  BY <1>1, FramesKept DEF Ongoing, Working
<1> QED
  BY <1>1, <1>2, <1>3, Kept DEF KeepGlobalsStep, Bracketing

(* The place of a constant is taken once it has been looked up.            *)
LEMMA InsertedIsTaken ==
  ASSUME NEW c, constantMap' = Inserted(c) PROVE LookupConstant(c) \in Taken'
<1>1. c \in DOMAIN constantMap' /\ constantMap'[c] = LookupConstant(c)
  BY DEF Inserted
<1> QED
  BY <1>1 DEF Taken

(* A push_const names the place that its constant has or takes.            *)
LEMMA PushConstantKept ==
  ASSUME Ongoing, PoolInv', Taken \subseteq Taken', PushConstantStep PROVE Ongoing'
<1>1. UNCHANGED <<prevStackSize, locals, returnAddresses, functionDefs, callRelocs>>
  BY DEF PushConstantStep, flags, control
<1>2. \E d : Emitted(d)
  <2>1. LookupConstant(Task.value) \in Taken'
    BY InsertedIsTaken DEF PushConstantStep
  <2>2. "push_const" \notin Jumping
    BY DEF Jumping
  <2> QED
    BY <2>1, <2>2, OneEmitted DEF PushConstantStep
<1>3. FramesHold'
  BY <1>1, GrownKept DEF PushConstantStep, Ongoing, Working
<1> QED
  BY <1>1, <1>2, <1>3, Kept DEF PushConstantStep, Bracketing

(* A variable is read by one instruction, of the frame or of the global    *)
(* scope.                                                                  *)
LEMMA PushFromKept ==
  ASSUME Ongoing, PoolInv', Taken \subseteq Taken', PushFromStep PROVE Ongoing'
<1>1. UNCHANGED <<prevStackSize, locals, returnAddresses, functionDefs, callRelocs>>
  BY DEF PushFromStep, tables, flags, control
<1>2. \E d : Emitted(d)
  <2>1. "push_local_rel" \notin Jumping /\ "push_local" \notin Jumping
    BY DEF Jumping
  <2>2. CASE EmitOne("push_local_rel", Location(Task.name))
    BY <2>1, <2>2, OneEmitted
  <2>3. CASE EmitOne("push_local", globalScope.map[Task.name])
    BY <2>1, <2>3, OneEmitted
  <2>4. CASE UNCHANGED <<code, curLoc>>
    BY <2>4, NoneEmitted DEF Ongoing
  <2> QED
    BY <2>2, <2>3, <2>4 DEF PushFromStep
<1>3. FramesHold'
  <2>1. CASE symtabStack' = Grown(1)
    BY <1>1, <2>1, GrownKept DEF Ongoing, Working
  <2>2. CASE UNCHANGED symtabStack
    BY <1>1, <2>2, FramesKept DEF Ongoing, Working
  <2> QED
    BY <2>1, <2>2 DEF PushFromStep
<1> QED
  BY <1>1, <1>2, <1>3, Kept DEF PushFromStep, Bracketing

(* A variable is written by one instruction.                               *)
LEMMA MoveToKept ==
  ASSUME Ongoing, PoolInv', Taken \subseteq Taken', MoveToStep PROVE Ongoing'
<1>1. UNCHANGED <<prevStackSize, locals, returnAddresses, functionDefs, callRelocs>>
  BY DEF MoveToStep, tables, flags, control
<1>2. \E d : Emitted(d)
  <2>1. "mov_local_rel" \notin Jumping /\ "mov_local" \notin Jumping
    BY DEF Jumping
  <2>2. CASE EmitOne("mov_local_rel", Location(Task.name))
    BY <2>1, <2>2, OneEmitted
  <2>3. CASE EmitOne("mov_local", globalScope.map[Task.name])
    BY <2>1, <2>3, OneEmitted
  <2>4. CASE UNCHANGED <<code, curLoc>>
    BY <2>4, NoneEmitted DEF Ongoing
  <2> QED
    BY <2>2, <2>3, <2>4 DEF MoveToStep
<1>3. FramesHold'
  <2>1. CASE symtabStack' = Grown(-1)
    BY <1>1, <2>1, GrownKept DEF Ongoing, Working
  <2>2. CASE UNCHANGED symtabStack
    BY <1>1, <2>2, FramesKept DEF Ongoing, Working
  <2> QED
    BY <2>1, <2>2 DEF MoveToStep
<1> QED
  BY <1>1, <1>2, <1>3, Kept DEF MoveToStep, Bracketing

(* A scope begins with a constant for each of its names.                   *)
LEMMA BeginScopeKept ==
  ASSUME Ongoing, PoolInv', Taken \subseteq Taken', BeginScopeStep PROVE Ongoing'
<1> DEFINE n == Cardinality(Task.stab)
           d == [k \in 1 .. n |-> I("push_const", LookupConstant(0))]
<1>1. /\ UNCHANGED <<prevStackSize, locals, returnAddresses, functionDefs, callRelocs>>
      /\ Doing("begin_scope") /\ EmitAll(d)
      /\ constantMap' = IF n = 0 THEN constantMap ELSE Inserted(0)
  BY DEF BeginScopeStep, flags, control
<1>2. Task.do = "begin_scope" /\ IsTask(Task)
  BY <1>1, TaskAhead DEF Ongoing, Doing, Task
<1>3. n \in Nat
  BY <1>2, FS_CardinalityType DEF IsTask
<1>4. \E e : Emitted(e)
  <2>1. IsCode(d) /\ DOMAIN d = 1 .. n
        /\ \A k \in DOMAIN d : d[k] = I("push_const", LookupConstant(0))
    BY <1>3, SameInstrs
  <2>2. \A k \in DOMAIN d : d[k].op = "push_const" /\ d[k].arg = LookupConstant(0)
    BY <2>1, InstrIs
  <2>3. \A k \in DOMAIN d : LookupConstant(0) \in Taken'
    <3>1. CASE n = 0
      <4>1. DOMAIN d = {}
        BY <2>1, <3>1
      <4> QED
        BY <4>1
    <3>2. CASE n # 0
      BY <1>1, <3>2, InsertedIsTaken
    <3> QED
      BY <3>1, <3>2
  <2> HIDE DEF d
  <2>4. Emitted(d)
    BY <1>1, <2>1, <2>2, <2>3, QuietEmitted DEF Jumping
  <2> QED
    BY <2>4
<1>5. FramesHold'
  <2>1. PICK order \in SetToSeqs(Task.stab) :
          symtabStack' = Append(symtabStack,
            [top |-> Size + n,
             map |-> [name \in Task.stab |->
                        Size + (CHOOSE k \in 1 .. n : order[k] = name) - 1]])
    BY DEF BeginScopeStep
  <2> DEFINE block == [top |-> Size + n,
                       map |-> [name \in Task.stab |->
                         Size + (CHOOSE k \in 1 .. n : order[k] = name) - 1]]
  <2>2. DOMAIN block = {"top", "map"} /\ block.top = Size + n
        /\ symtabStack' = Append(symtabStack, block)
    BY <2>1
  <2> HIDE DEF block, n
  <2> QED
    BY <1>1, <1>3, <2>2, SizesAre, BlockPushed DEF Ongoing
<1> HIDE DEF n, d
<1> QED
  BY <1>1, <1>4, <1>5, Kept DEF BeginScopeStep, Bracketing

(* A scope ends with a pop for each element above the outer one.           *)
LEMMA EndScopeKept ==
  ASSUME Ongoing, PoolInv', Taken \subseteq Taken', EndScopeStep PROVE Ongoing'
<1> DEFINE d == Pops(Excess)
<1>1. /\ UNCHANGED <<prevStackSize, locals, returnAddresses, functionDefs, callRelocs>>
      /\ EmitAll(d) /\ Excess >= 0 /\ symtabStack' = Front(symtabStack)
  BY DEF EndScopeStep, tables, flags, control
<1>2. Excess \in Nat
  BY <1>1, SizesAre DEF Ongoing
<1>3. \E e : Emitted(e)
  <2>1. IsCode(d) /\ \A k \in DOMAIN d : d[k] = I("pop", 0)
    BY <1>2, SameInstrs DEF Pops
  <2>2. \A k \in DOMAIN d : d[k].op = "pop"
    BY <2>1, InstrIs
  <2> HIDE DEF d
  <2>3. Emitted(d)
    BY <1>1, <2>1, <2>2, QuietEmitted DEF Jumping
  <2> QED
    BY <2>3
<1>4. FramesHold'
  BY <1>1, SizesAre, BlockPopped DEF Ongoing
<1> HIDE DEF d
<1> QED
  BY <1>1, <1>3, <1>4, Kept DEF EndScopeStep, Bracketing

(* A call through a variable jumps to no address of the code.              *)
LEMMA CallVariableKept ==
  ASSUME Ongoing, PoolInv', Taken \subseteq Taken', CallVariableStep PROVE Ongoing'
<1> DEFINE x == I("push_local_rel", ToUnsigned(Location(Task.name) - (Size - Task.args)))
           y == I("jmp_dynamic", 0)
<1>1. /\ UNCHANGED <<symtabStack, prevStackSize, locals, returnAddresses,
                     functionDefs, callRelocs>>
      /\ EmitAll(<<x, y>>)
  BY DEF CallVariableStep, scopes, tables, flags, control
<1>2. x.op = "push_local_rel" /\ y.op = "jmp_dynamic"
      /\ DOMAIN x = {"op", "arg"} /\ DOMAIN y = {"op", "arg"}
  BY InstrIs
<1> HIDE DEF x, y
<1>3. \E e : Emitted(e)
  <2>1. IsCode(<<x, y>>) /\ \A k \in DOMAIN <<x, y>> : <<x, y>>[k] \in {x, y}
    BY <1>2, TwoInstrs
  <2>2. \A k \in DOMAIN <<x, y>> : <<x, y>>[k].op \in {"push_local_rel", "jmp_dynamic"}
    BY <1>2, <2>1
  <2>3. Emitted(<<x, y>>)
    BY <1>1, <2>1, <2>2, QuietEmitted DEF Jumping
  <2> QED
    BY <2>3
<1>4. FramesHold'
  BY <1>1, FramesKept DEF Ongoing, Working
<1> QED
  BY <1>1, <1>3, <1>4, Kept DEF CallVariableStep, Bracketing

(* A return pops what is above its frame and ends with a ret.              *)
LEMMA LeaveFunctionKept ==
  ASSUME Ongoing, PoolInv', Taken \subseteq Taken', LeaveFunctionStep PROVE Ongoing'
<1> DEFINE p == Pops(Size - prevStackSize)
           d == Append(p, I("ret", 0))
<1>1. /\ UNCHANGED <<symtabStack, prevStackSize, locals, returnAddresses,
                     functionDefs, callRelocs>>
      /\ EmitAll(d) /\ Size >= prevStackSize
  BY DEF LeaveFunctionStep, scopes, tables, flags, control
<1>2. Size - prevStackSize \in Nat
  BY <1>1, SizesAre DEF Ongoing
<1>3. \E e : Emitted(e)
  <2>1. IsCode(p) /\ \A k \in DOMAIN p : p[k] = I("pop", 0)
    BY <1>2, SameInstrs DEF Pops
  <2>2. \A k \in DOMAIN p : p[k].op = "pop"
    BY <2>1, InstrIs
  <2> HIDE DEF p
  <2>3. DOMAIN I("ret", 0) = {"op", "arg"} /\ I("ret", 0).op = "ret"
    BY InstrIs
  <2>4. IsCode(d)
    BY <2>1, <2>3, AppendTable DEF IsCode
  <2>5. \A k \in DOMAIN d : d[k].op \in {"pop", "ret"}
    <3>1. p \in Seq(Range(p) \cup {I("ret", 0)}) /\ I("ret", 0) \in Range(p) \cup {I("ret", 0)}
      BY <2>1, CodeIs
    <3>2. \A k \in DOMAIN d :
            d[k] = I("ret", 0) \/ (k \in DOMAIN p /\ d[k] = p[k])
      BY <3>1, AppendProperties, LenProperties
    <3> QED
      BY <2>2, <2>3, <3>2
  <2> HIDE DEF d
  <2>6. Emitted(d)
    BY <1>1, <2>4, <2>5, QuietEmitted DEF Jumping
  <2> QED
    BY <2>6
<1>4. FramesHold'
  BY <1>1, FramesKept DEF Ongoing, Working
<1> HIDE DEF d, p
<1> QED
  BY <1>1, <1>3, <1>4, Kept DEF LeaveFunctionStep, Bracketing

(* A function used as a value takes a place in the pool.                   *)
LEMMA PushFunctionKept ==
  ASSUME Ongoing, PoolInv', Taken \subseteq Taken', PushFunctionStep PROVE Ongoing'
<1> DEFINE e == [index |-> CurrentConstantIndex, address |-> 0, func |-> Task.def]
<1>1. /\ UNCHANGED <<prevStackSize, locals, returnAddresses, functionDefs, callRelocs>>
      /\ dynamicJumps' = Append(dynamicJumps, e)
  BY DEF PushFunctionStep, flags, control
<1>2. CurrentConstantIndex \in Taken'
  <2>1. IsTable(dynamicJumps, {"index", "address", "func"})
        /\ DOMAIN e = {"index", "address", "func"} /\ e.index = CurrentConstantIndex
    BY DEF Ongoing, PoolInv, Tables
  <2> HIDE DEF e
  <2>2. CurrentConstantIndex \in IndicesOf(dynamicJumps')
    BY <1>1, <2>1, AppendTable
  <2> QED
    BY <2>2 DEF Taken
<1>3. \E d : Emitted(d)
  BY <1>2, OneEmitted DEF PushFunctionStep, Jumping
<1>4. FramesHold'
  BY <1>1, SizesAre, GrownKept DEF PushFunctionStep, Ongoing
<1> QED
  BY <1>1, <1>3, <1>4, Kept DEF PushFunctionStep, Bracketing

-----------------------------------------------------------------------------
(* A call by name, the visit of a node, and an instruction of the visitor. *)
LEMMA CallDefinitionKept ==
  ASSUME Ongoing, PoolInv', Taken \subseteq Taken', CallDefinitionStep
  PROVE  Ongoing'
<1> DEFINE d == <<I("jmp", 0)>>
           r == [index |-> Len(code) + 1, func |-> Task.def]
<1>1. /\ UNCHANGED <<symtabStack, prevStackSize, locals, returnAddresses, functionDefs>>
      /\ EmitAll(d) /\ callRelocs' = Append(callRelocs, r) /\ todo' = Tail(todo)
  BY DEF CallDefinitionStep, EmitOne, scopes, tables, flags, control, Done
<1>2. /\ Task.do = "call_definition" /\ AddressesHold(Places(code))
      /\ \E c \in Stacks : Effect(Task, KindsOf(locals), c) /\ Left(Tail(todo), c)
  BY TaskAhead DEF CallDefinitionStep, Doing, Task, Ongoing
<1>3. Left(Tail(todo), KindsOf(locals))
  BY <1>2 DEF Effect, Bracketing
<1>4. Left(todo, KindsOf(locals))'
  BY <1>1, <1>3 DEF Left, KindsOf, Kind
<1>5. /\ IsCode(d) /\ DOMAIN d = {1} /\ d[1].op = "jmp" /\ d[1].arg = 0
      /\ DOMAIN r = {"index", "func"} /\ r.index = Len(code) + 1
  BY OneInstr, InstrIs
<1> HIDE DEF d, r
<1>6. Emits(d) /\ code' = code \o d /\ curLoc' = curLoc + End(d)
  <2>1. 0 \in Places(code)
    BY PlacesAre DEF Ongoing, Layout
  <2> QED
    BY <1>1, <1>5, <2>1 DEF Emits, EmitAll, End
<1>7. \A k : Patches(k) => Patches(k)'
  BY <1>1 DEF Patches, Kind
<1>8. CodeGrows /\ CodeHolds(Places(code))'
  BY <1>2, <1>6, <1>7, CodeEmitted DEF Ongoing, AddressesHold
<1>9. FunctionsHold(Places(code))'
  <2>1. FunctionsHold(Places(code))
    BY <1>2 DEF AddressesHold
  <2>2. Len(code) + 1 \in DOMAIN code' /\ code'[Len(code) + 1].op = "jmp"
    <3>1. IsCode(code) /\ IsCode(d) /\ Follows(code, d, code')
      BY <1>5, <1>6 DEF Ongoing, Layout, Follows
    <3>2. \A k \in DOMAIN d : Len(code) + k \in DOMAIN code' /\ code'[Len(code) + k] = d[k]
      BY <3>1, Emission
    <3> QED
      BY <1>5, <3>2
  <2>3. IsTable(callRelocs', {"index", "func"})
    BY <1>1, <1>5, <2>1, AppendTable DEF FunctionsHold
  <2>4. ASSUME NEW k \in DOMAIN callRelocs'
        PROVE  /\ callRelocs'[k].index \in DOMAIN code'
               /\ code'[callRelocs'[k].index].op = "jmp"
    <3>1. callRelocs \in Seq(Range(callRelocs) \cup {r}) /\ r \in Range(callRelocs) \cup {r}
      BY <2>1 DEF FunctionsHold, IsTable
    <3>2. \/ callRelocs'[k] = r
          \/ k \in DOMAIN callRelocs /\ callRelocs'[k] = callRelocs[k]
      BY <1>1, <3>1, AppendProperties, LenProperties
    <3>3. CASE callRelocs'[k] = r
      BY <1>5, <2>2, <3>3
    <3>4. CASE k \in DOMAIN callRelocs /\ callRelocs'[k] = callRelocs[k]
      BY <1>8, <2>1, <3>4 DEF FunctionsHold, CodeGrows
    <3> QED
      BY <3>2, <3>3, <3>4
  <2>5. \A f \in DOMAIN functionDefs' : functionDefs'[f] \in Places(code') \ {0}
    BY <1>1, <1>8, <2>1 DEF FunctionsHold, CodeGrows
  <2> QED
    BY <2>3, <2>4, <2>5 DEF FunctionsHold
<1>10. ReturnsHold(Places(code))'
  <2>1. \A k : Awaits(k) => Awaits(k)'
    BY <1>1 DEF Awaits, Kind
  <2> QED
    BY <1>1, <1>2, <1>8, <2>1, ReturnsKept DEF AddressesHold
<1>11. LocalsHold'
  <2>1. ASSUME NEW k \in DOMAIN locals PROVE IsHeld(locals[k])'
    <3>1. IsHeld(locals[k])
      BY DEF LocalsHold, Ongoing, Working
    <3>2. \A l : IsHeld(l) => IsHeld(l)'
      BY <1>1, <1>8, StillHeld
    <3> QED
      BY <1>1, <3>1, <3>2
  <2> QED
    BY <1>1, <2>1 DEF LocalsHold, Ongoing, Working
<1>12. FramesHold'
  BY <1>1, FramesKept DEF Ongoing, Working
<1> QED
  BY <1>4, <1>8, <1>9, <1>10, <1>11, <1>12
     DEF Ongoing, Working, Inside, AddressesHold, CodeGrows

(* A visit puts a plan in front of what is left to do.                     *)
LEMMA VisitNodeKept ==
  ASSUME Ongoing, PoolInv', Taken \subseteq Taken', VisitNode PROVE Ongoing'
<1>1. /\ UNCHANGED <<code, curLoc, symtabStack, prevStackSize, locals,
                     returnAddresses, functionDefs, callRelocs>>
      /\ todo' = Generate(Task.node) \o Tail(todo)
  BY DEF VisitNode, scopes, tables, flags, control
<1>2. /\ Task.do = "visit" /\ AddressesHold(Places(code)) /\ IsTask(Task)
      /\ \E c \in Stacks : Effect(Task, KindsOf(locals), c) /\ Left(Tail(todo), c)
  BY TaskAhead DEF VisitNode, Doing, Task, Ongoing
<1>3. Left(Tail(todo), KindsOf(locals)) /\ KindsOf(locals) \in Stacks
  BY <1>2 DEF Effect, Bracketing
<1>4. IsPlan(Generate(Task.node))
  BY <1>2, GeneratePlan DEF IsTask
<1>5. Left(todo, KindsOf(locals))'
  <2> DEFINE p == Generate(Task.node)
             a == KindsOf(locals)
  <2>1. PICK s : AreTasks(s) /\ Tail(todo) = s \o Closing /\ Fits(s, a, <<>>)
    BY <1>3 DEF Left
  <2>2. AreTasks(p) /\ Fits(p, a, a)
    BY <1>3, <1>4 DEF IsPlan
  <2> HIDE DEF p, a
  <2>3. AreTasks(p \o s) /\ Fits(p \o s, a, <<>>)
    BY <2>1, <2>2, TasksConcat, TasksFit
  <2>4. p \o Tail(todo) = (p \o s) \o Closing
    <3> DEFINE S == (Range(p) \cup Range(s)) \cup Range(Closing)
    <3>1. p \in Seq(S) /\ s \in Seq(S) /\ Closing \in Seq(S)
      BY <2>1, <2>2, ClosingIs DEF AreTasks
    <3> HIDE DEF S
    <3>2. (p \o s) \o Closing = p \o (s \o Closing)
      BY <3>1, ConcatAssociative
    <3> QED
      BY <2>1, <3>2
  <2>5. Left(p \o Tail(todo), a)
    BY <2>3, <2>4 DEF Left
  <2>6. todo' = p \o Tail(todo) /\ KindsOf(locals)' = a
    BY <1>1 DEF p, a, KindsOf, Kind
  <2> QED
    BY <2>5, <2>6 DEF Left
<1>6. \E d : Emitted(d)
  BY <1>1, NoneEmitted DEF Ongoing
<1>7. CodeGrows /\ CodeHolds(Places(code))'
  <2>1. PICK d : Emits(d) /\ code' = code \o d /\ curLoc' = curLoc + End(d)
    BY <1>6 DEF Emitted
  <2>2. \A k : Patches(k) => Patches(k)'
    BY <1>1 DEF Patches, Kind
  <2> QED
    BY <1>2, <2>1, <2>2, CodeEmitted DEF Ongoing, AddressesHold
<1>8. AddressesHold(Places(code))' /\ LocalsHold'
  BY <1>1, <1>2, <1>7, AddressesKept DEF Ongoing, Working
<1>9. FramesHold'
  BY <1>1, FramesKept DEF Ongoing, Working
<1> QED
  BY <1>5, <1>7, <1>8, <1>9 DEF Ongoing, Working, Inside, CodeGrows

(* The ret at the end of the root block or of a function is the            *)
(* instruction that every address so far may have been waiting for.        *)
LEMMA EmitKept ==
  ASSUME Ongoing, PoolInv', Taken \subseteq Taken', EmitStep PROVE Ongoing'
<1>1. /\ UNCHANGED <<prevStackSize, locals, returnAddresses, functionDefs, callRelocs>>
      /\ Doing("emit") /\ EmitOne(Task.op, Task.arg) /\ todo' = Tail(todo)
      /\ symtabStack' = IF Task.delta = 0 THEN symtabStack ELSE Grown(Task.delta)
  BY DEF EmitStep, tables, flags, control, Done
<1>2. Task.do = "emit" /\ Inside
  <2>1. <<NamedFunctions>>[1] = NamedFunctions /\ NamedFunctions.do = "named_functions"
    BY DEF NamedFunctions
  <2>2. ~Between
    BY <1>1, <2>1 DEF Between, Doing, Task
  <2> QED
    BY <1>1, <2>2 DEF Working, Ongoing, Doing, Task
<1>3. \/ /\ Task = EmitArg("ret", 0)
         /\ Tail(todo) = <<NamedFunctions>> /\ KindsOf(locals) = <<>>
      \/ /\ IsTask(Task)
         /\ \E c \in Stacks : Effect(Task, KindsOf(locals), c) /\ Left(Tail(todo), c)
  BY <1>2, LeftIs DEF Inside, Task
<1>4. Task.op \notin Jumping \cup {"push_const"} /\ Task.delta \in Int
  <2>1. CASE Task = EmitArg("ret", 0)
    BY <2>1 DEF EmitArg, Jumping
  <2>2. CASE IsTask(Task)
    BY <1>2, <2>2 DEF IsTask
  <2> QED
    BY <1>3, <2>1, <2>2
<1>5. FramesHold'
  <2>1. CASE symtabStack' = Grown(Task.delta)
    BY <1>1, <1>4, <2>1, GrownKept DEF Ongoing, Working
  <2>2. CASE UNCHANGED symtabStack
    BY <1>1, <2>2, FramesKept DEF Ongoing, Working
  <2> QED
    BY <1>1, <2>1, <2>2
<1>6. PICK d : Emitted(d) /\ d # <<>>
  BY <1>1, <1>4, OneEmitted
<1>7. AddressesHold(Places(code))
  BY <1>2 DEF Inside
<1>8. /\ CodeGrows /\ CodeHolds(Places(code))'
      /\ Places(code) \subseteq Starts(code')
      /\ CodeHolds(Starts(code))' /\ code' # <<>>
  <2>1. \A k : Patches(k) => Patches(k)'
    BY <1>1 DEF Patches, Kind
  <2>2. Emits(d) /\ code' = code \o d /\ curLoc' = curLoc + End(d)
    BY <1>6 DEF Emitted
  <2> QED
    BY <1>6, <1>7, <2>1, <2>2, CodeEmitted DEF Ongoing, AddressesHold
<1>9. AddressesHold(Places(code))' /\ LocalsHold'
  BY <1>1, <1>7, <1>8, AddressesKept DEF Ongoing, Working
<1>10. Layout'
  BY <1>8 DEF CodeGrows
<1>11. CASE /\ Task = EmitArg("ret", 0)
            /\ Tail(todo) = <<NamedFunctions>> /\ KindsOf(locals) = <<>>
  <2>1. locals = <<>> /\ locals' = <<>>
    <3>1. Len(locals) = 0 /\ locals \in Seq(Range(locals))
      BY <1>11, KindsAre DEF Ongoing, Working, LocalsHold
    <3> QED
      BY <1>1, <3>1, EmptySeq
  <2>2. AddressesHold(Starts(code))'
    <3>1. ReturnsHold(Starts(code))'
      BY <1>1, <1>7, <1>8, <1>9 DEF AddressesHold, ReturnsHold
    <3>2. FunctionsHold(Starts(code))'
      BY <1>1, <1>7, <1>8, <1>9 DEF AddressesHold, FunctionsHold
    <3> QED
      BY <1>8, <3>1, <3>2 DEF AddressesHold
  <2> QED
    BY <1>1, <1>5, <1>8, <1>9, <1>10, <1>11, <2>1, <2>2
       DEF Ongoing, Working, Between, NamedFunctions
<1>12. CASE /\ IsTask(Task)
            /\ \E c \in Stacks : Effect(Task, KindsOf(locals), c) /\ Left(Tail(todo), c)
  <2>1. Left(Tail(todo), KindsOf(locals))
    BY <1>2, <1>12 DEF Effect, Bracketing
  <2>2. Left(todo, KindsOf(locals))'
    BY <1>1, <2>1 DEF Left, KindsOf, Kind
  <2> QED
    BY <1>5, <1>9, <1>10, <2>2 DEF Ongoing, Working, Inside
<1> QED
  BY <1>3, <1>11, <1>12

-----------------------------------------------------------------------------
(* Jumps, and the steps that open and close something.                     *)
LEMMA JumpSize ==
  ASSUME NEW op \in {"jmp", "jmp_false"}, NEW arg
  PROVE  End(<<I(op, arg)>>) = SizeOf("jmp")
<1> DEFINE d == <<I(op, arg)>>
<1>1. IsCode(d) /\ Len(d) = 1 /\ DOMAIN d = {1} /\ d[1].op = op
  BY OneInstr, InstrIs
<1> HIDE DEF d
<1>2. op \in UnaryOps /\ "jmp" \in UnaryOps
  BY DEF UnaryOps
<1>3. Unary(d, 1) = {1}
  BY <1>1, <1>2 DEF Unary
<1>4. Cardinality(Unary(d, 1)) = 1
  BY <1>3, FS_Singleton
<1>5. 1 \in 0 .. Len(d)
  BY <1>1
<1>6. Locations(d)[1] = 1 + 4 * Cardinality(Unary(d, 1))
  BY <1>1, <1>5, LocationIs
<1>7. End(d) = 5
  BY <1>1, <1>4, <1>6 DEF End
<1> QED
  BY <1>2, <1>7 DEF d, SizeOf

(* Emitting one instruction is emitting a list of one.                     *)
LEMMA AppendedInstr ==
  ASSUME NEW c, IsCode(c), NEW op, NEW arg
  PROVE  Append(c, I(op, arg)) = c \o <<I(op, arg)>>
<1> DEFINE x == I(op, arg)
           S == Range(c) \cup {x}
<1>1. c \in Seq(S) /\ x \in S /\ <<x>> \in Seq(S)
  BY CodeIs
<1> HIDE DEF x, S
<1> QED
  BY <1>1, AppendIsConcat DEF x

(* Patching changes the operand of one instruction.                        *)
LEMMA PatchedIs ==
  ASSUME NEW c, IsCode(c), NEW at \in DOMAIN c, NEW target
  PROVE  LET p == Patched(c, at, target) IN
         /\ IsCode(p) /\ Len(p) = Len(c) /\ DOMAIN p = DOMAIN c
         /\ \A k \in DOMAIN c : k # at => p[k] = c[k]
         /\ p[at] = [c[at] EXCEPT !.arg = target]
<1> DEFINE p == Patched(c, at, target)
<1>1. IsPatched(c, at, target, p)
  BY DEF IsPatched
<1>2. p[at] = [c[at] EXCEPT !.arg = target]
  BY CodeIs DEF Patched
<1> HIDE DEF p
<1>3. /\ IsCode(p) /\ Len(p) = Len(c) /\ DOMAIN p = DOMAIN c
      /\ \A k \in DOMAIN c : k # at => p[k] = c[k]
  BY <1>1, Patching
<1> QED
  BY <1>2, <1>3 DEF p

(* Lists with the same instructions are the same.                          *)
LEMMA SameCode ==
  ASSUME NEW c, NEW d, IsCode(c), IsCode(d), Len(c) = Len(d),
         \A k \in 1 .. Len(c) : c[k] = d[k]
  PROVE  c = d
<1> DEFINE S == Range(c) \cup Range(d)
<1>1. c \in Seq(S) /\ d \in Seq(S)
  BY CodeIs
<1> HIDE DEF S
<1> QED
  BY <1>1, SeqEqual

(* Patching an instruction and emitting another are done in either order.  *)
LEMMA PatchedBefore ==
  ASSUME NEW c, IsCode(c), NEW at \in DOMAIN c, NEW target, NEW op, NEW arg
  PROVE  Append(Patched(c, at, target), I(op, arg))
           = Patched(c \o <<I(op, arg)>>, at, target)
<1> DEFINE d == <<I(op, arg)>>
           p == Patched(c, at, target)
           e == c \o d
           q == Patched(e, at, target)
<1>1. IsCode(d) /\ Len(d) = 1 /\ DOMAIN d = {1}
  BY OneInstr
<1> HIDE DEF d
<1>2. /\ IsCode(e) /\ Len(e) = Len(c) + Len(d)
      /\ \A k \in DOMAIN c : e[k] = c[k]
      /\ \A k \in DOMAIN d : e[Len(c) + k] = d[k]
  <2>1. Follows(c, d, e) /\ IsCode(d)
    BY <1>1 DEF Follows
  <2> QED
    BY <2>1, Emission
<1> HIDE DEF e
<1>3. /\ Len(c) \in Nat /\ DOMAIN c = 1 .. Len(c) /\ DOMAIN e = 1 .. Len(e)
      /\ at \in DOMAIN e
  BY <1>1, <1>2, CodeIs
<1>4. /\ IsCode(p) /\ Len(p) = Len(c)
      /\ \A k \in DOMAIN c : k # at => p[k] = c[k]
      /\ p[at] = [c[at] EXCEPT !.arg = target]
  BY PatchedIs
<1>5. /\ IsCode(q) /\ Len(q) = Len(e)
      /\ \A k \in DOMAIN e : k # at => q[k] = e[k]
      /\ q[at] = [e[at] EXCEPT !.arg = target]
  BY <1>2, <1>3, PatchedIs
<1>6. p[at] = q[at]
  BY <1>2, <1>3, <1>4, <1>5
<1> HIDE DEF p, q
<1>7. /\ IsCode(p \o d) /\ Len(p \o d) = Len(p) + Len(d)
      /\ \A k \in DOMAIN p : (p \o d)[k] = p[k]
      /\ \A k \in DOMAIN d : (p \o d)[Len(p) + k] = d[k]
  <2>1. Follows(p, d, p \o d) /\ IsCode(p) /\ IsCode(d)
    BY <1>1, <1>4 DEF Follows
  <2> QED
    BY <2>1, Emission
<1>8. Len(p) = Len(c) /\ Len(q) = Len(e) /\ DOMAIN p = DOMAIN c
      /\ (\A k \in DOMAIN c : k # at => p[k] = c[k])
      /\ \A k \in DOMAIN e : k # at => q[k] = e[k]
  BY <1>3, <1>4, <1>5, CodeIs
<1>9. ASSUME NEW k \in 1 .. Len(p \o d) PROVE (p \o d)[k] = q[k]
  <2>1. CASE k = at
    BY <1>3, <1>6, <1>7, <1>8, <2>1
  <2>2. CASE k # at /\ k <= Len(c)
    BY <1>1, <1>2, <1>3, <1>7, <1>8, <2>2
  <2>3. CASE k = Len(c) + 1
    <3>1. k # at /\ k \in DOMAIN e /\ e[k] = d[1]
      BY <1>1, <1>2, <1>3, <2>3
    <3>2. (p \o d)[k] = d[1]
      BY <1>1, <1>7, <1>8, <2>3
    <3> QED
      BY <1>8, <3>1, <3>2
  <2> QED
    BY <1>1, <1>3, <1>7, <1>8, <2>1, <2>2, <2>3
<1>10. p \o d = q
  <2>1. IsCode(q) /\ Len(p \o d) = Len(q)
    BY <1>1, <1>2, <1>5, <1>7, <1>8
  <2> QED
    BY <1>7, <1>9, <2>1, SameCode
<1>11. Append(p, I(op, arg)) = p \o d
  <2>1. IsCode(p)
    BY <1>4
  <2> QED
    BY <2>1, AppendedInstr DEF d
<1> QED
  BY <1>10, <1>11 DEF p, q, e, d

(* What the local variables remember is still there.                       *)
LEMMA LocalsStill ==
  ASSUME LocalsHold, CodeGrows,
         \A k \in DOMAIN returnAddresses : k \in DOMAIN returnAddresses',
         locals' \in Seq(Range(locals)'),
         \A k \in DOMAIN locals' : \/ \E i \in DOMAIN locals : locals'[k] = locals[i]
                                   \/ IsHeld(locals[k])'
  PROVE  LocalsHold'
<1>1. \A l : IsHeld(l) => IsHeld(l)'
  BY StillHeld
<1>2. \A i \in DOMAIN locals : IsHeld(locals[i])
  BY DEF LocalsHold
<1>3. \A k \in DOMAIN locals' : IsHeld(locals[k])'
  BY <1>1, <1>2
<1> QED
  BY <1>3 DEF LocalsHold

(* A step that opens or closes something.                                  *)
LEMMA BracketKept ==
  ASSUME Ongoing, PoolInv', AddressesHold(Places(code)),
         CodeGrows, CodeHolds(Places(code))', ReturnsHold(Places(code))',
         LocalsHold', FramesHold', UNCHANGED <<functionDefs, callRelocs>>,
         NEW c, Left(Tail(todo), c), todo' = Tail(todo), KindsOf(locals)' = c
  PROVE  Ongoing'
<1>1. FunctionsHold(Places(code))'
  <2>1. Places(code) \subseteq Places(code)
    OBVIOUS
  <2> QED
    BY <2>1, FunctionsKept DEF AddressesHold
<1>2. Left(todo, KindsOf(locals))'
  BY DEF Left, KindsOf, Kind
<1> QED
  BY <1>1, <1>2 DEF Ongoing, Working, Inside, AddressesHold, CodeGrows

(* A return address is made, and the local variable remembers it.          *)
LEMMA OpenReturnKept ==
  ASSUME Ongoing, PoolInv', Taken \subseteq Taken', OpenReturnStep
  PROVE  Ongoing'
<1> DEFINE e == [index |-> CurrentConstantIndex, address |-> 0]
           x == I("push_const", CurrentConstantIndex)
           y == I("call_setup", 0)
           l == [ret |-> Len(returnAddresses) + 1, prev |-> prevStackSize]
           b == [top |-> Size + 2, map |-> <<>>]
<1>1. /\ UNCHANGED <<functionDefs, callRelocs>>
      /\ Doing("open_return")
      /\ returnAddresses' = Append(returnAddresses, e)
      /\ EmitAll(<<x, y>>)
      /\ symtabStack' = Append(symtabStack, b)
      /\ locals' = Append(locals, l)
      /\ todo' = Tail(todo)
      /\ prevStackSize' = IF Task.isBlock THEN Size + 2 ELSE prevStackSize
  BY DEF OpenReturnStep, Done
<1>2. /\ DOMAIN e = {"index", "address"} /\ e.index = CurrentConstantIndex
      /\ e.address = 0
  OBVIOUS
<1>3. /\ DOMAIN x = {"op", "arg"} /\ x.op = "push_const" /\ x.arg = CurrentConstantIndex
      /\ DOMAIN y = {"op", "arg"} /\ y.op = "call_setup"
  BY InstrIs
<1>4. /\ DOMAIN l = {"ret", "prev"} /\ l.ret = Len(returnAddresses) + 1
      /\ l.prev = prevStackSize
  OBVIOUS
<1>5. DOMAIN b = {"top", "map"} /\ b.top = Size + 2
  OBVIOUS
<1> HIDE DEF e, x, y, l, b
<1>6. /\ Task.do = "open_return" /\ AddressesHold(Places(code))
      /\ \E c \in Stacks : Effect(Task, KindsOf(locals), c) /\ Left(Tail(todo), c)
  BY <1>1, TaskAhead DEF Doing, Task, Ongoing
<1>7. Left(Tail(todo), Append(KindsOf(locals), "ret"))
  BY <1>6 DEF Effect
<1>8. /\ Size \in Int /\ prevStackSize \in Int /\ FramesHold
      /\ LocalsHold /\ locals \in Seq(Range(locals))
      /\ IsTable(returnAddresses, {"index", "address"})
  BY SizesAre DEF Ongoing, Working, LocalsHold, PoolInv, Tables
<1>9. FramesHold'
  <2>1. prevStackSize' \in Int /\ b.top \in Int
    BY <1>1, <1>5, <1>8
  <2> QED
    BY <1>1, <1>5, <1>8, <2>1, BlockPushed
<1>10. Kind(l) = "ret"
  BY <1>4 DEF Kind
<1>11. /\ locals' \in Seq(Range(locals')) /\ KindsOf(locals') = Append(KindsOf(locals), Kind(l))
       /\ \A k \in DOMAIN locals : k \in DOMAIN locals' /\ locals'[k] = locals[k]
       /\ Len(locals) + 1 \in DOMAIN locals' /\ locals'[Len(locals) + 1] = l
       /\ \A k \in DOMAIN locals' : locals'[k] = l \/ k \in DOMAIN locals
  <2>1. locals \in Seq(Range(locals)) /\ IsPushed(locals, l, locals')
    BY <1>1, <1>8 DEF IsPushed
  <2> QED
    BY <2>1, LocalPushed
<1>12. /\ \A k : Patches(k) => Patches(k)'
       /\ \A k : Awaits(k) => Awaits(k)'
       /\ \A k : k = Len(returnAddresses) + 1 => Awaits(k)'
  <2>1. ASSUME NEW k, Patches(k) PROVE Patches(k)'
    BY <1>11, <2>1 DEF Patches, Kind
  <2>2. ASSUME NEW k, Awaits(k) PROVE Awaits(k)'
    BY <1>11, <2>2 DEF Awaits, Kind
  <2>3. ASSUME NEW k, k = Len(returnAddresses) + 1 PROVE Awaits(k)'
    <3>1. l.ret = k /\ Kind(l)' = "ret"
      BY <1>4, <1>10, <2>3 DEF Kind, l
    <3> QED
      BY <1>11, <3>1, <1>10 DEF Awaits, Kind
  <2> QED
    BY <2>1, <2>2, <2>3
<1>13. CurrentConstantIndex \in Taken'
  <2>1. CurrentConstantIndex \in IndicesOf(returnAddresses')
    BY <1>1, <1>2, <1>8, AppendTable
  <2> QED
    BY <2>1 DEF Taken
<1>14. PICK d : Emitted(d) /\ d # <<>>
  <2>1. IsCode(<<x, y>>) /\ \A k \in DOMAIN <<x, y>> : <<x, y>>[k] \in {x, y}
    BY <1>3, TwoInstrs
  <2>2. \A k \in DOMAIN <<x, y>> :
          /\ <<x, y>>[k].op \notin Jumping
          /\ <<x, y>>[k].op = "push_const" => <<x, y>>[k].arg \in Taken'
    BY <1>3, <1>13, <2>1 DEF Jumping
  <2>3. Emitted(<<x, y>>) /\ <<x, y>> # <<>>
    BY <1>1, <2>1, <2>2, QuietEmitted
  <2> QED
    BY <2>3
<1>15. CodeGrows /\ CodeHolds(Places(code))' /\ code' # <<>>
  <2>1. Emits(d) /\ code' = code \o d /\ curLoc' = curLoc + End(d) /\ d # <<>>
    BY <1>14 DEF Emitted
  <2>2. Layout /\ CodeHolds(Places(code)) /\ Places(code) \subseteq Places(code)
    BY <1>6 DEF Ongoing, AddressesHold
  <2>3. \A k \in DOMAIN code : Patches(k) => Patches(k)'
    BY <1>12
  <2> QED
    BY <2>1, <2>2, <2>3, CodeEmitted
<1>16. /\ Len(returnAddresses) \in Nat
       /\ DOMAIN returnAddresses = 1 .. Len(returnAddresses)
       /\ DOMAIN returnAddresses' = 1 .. Len(returnAddresses) + 1
       /\ \A k \in DOMAIN returnAddresses : returnAddresses'[k] = returnAddresses[k]
       /\ returnAddresses'[Len(returnAddresses) + 1] = e
  <2> DEFINE S == Range(returnAddresses) \cup {e}
  <2>1. returnAddresses \in Seq(S) /\ e \in S
    BY <1>8 DEF IsTable
  <2> HIDE DEF S
  <2> QED
    BY <1>1, <2>1, AppendProperties, LenProperties
<1>17. ReturnsHold(Places(code))'
  <2>1. 0 \in Places(code')
    BY <1>15, PlacesAre DEF CodeGrows, Layout
  <2>2. ASSUME NEW k \in DOMAIN returnAddresses'
        PROVE  /\ returnAddresses'[k].address \in Places(code')
               /\ returnAddresses'[k].address # 0 \/ Awaits(k)'
    <3>1. CASE k \in DOMAIN returnAddresses
      BY <1>6, <1>12, <1>15, <1>16, <3>1 DEF AddressesHold, ReturnsHold, CodeGrows
    <3>2. CASE k = Len(returnAddresses) + 1
      BY <1>2, <1>12, <1>16, <2>1, <3>2
    <3> QED
      BY <1>16, <3>1, <3>2
  <2> QED
    BY <2>2 DEF ReturnsHold
<1>18. LocalsHold'
  <2>1. ASSUME NEW m, m = l PROVE IsHeld(m)'
    <3>1. Kind(m)' = "ret"
      BY <1>10, <2>1 DEF Kind
    <3>2. m.ret \in DOMAIN returnAddresses' /\ m.prev \in Int
      BY <1>4, <1>8, <1>16, <2>1
    <3> QED
      BY <1>15, <3>1, <3>2 DEF IsHeld
  <2>2. \A k \in DOMAIN returnAddresses : k \in DOMAIN returnAddresses'
    BY <1>16
  <2>3. \A m : IsHeld(m) => IsHeld(m)'
    BY <1>15, <2>2, StillHeld
  <2>4. ASSUME NEW k \in DOMAIN locals' PROVE IsHeld(locals[k])'
    <3>1. PICK m : m = locals'[k]
      OBVIOUS
    <3>2. IsHeld(m)'
      BY <1>8, <1>11, <2>1, <2>3, <3>1 DEF LocalsHold
    <3> QED
      BY <3>1, <3>2
  <2> QED
    BY <1>11, <2>4 DEF LocalsHold
<1>19. KindsOf(locals)' = Append(KindsOf(locals), "ret")
  BY <1>10, <1>11
<1> QED
  BY <1>1, <1>6, <1>7, <1>9, <1>15, <1>17, <1>18, <1>19, BracketKept

(* The return address is where the code ends, which is past its beginning. *)
LEMMA CloseReturnKept ==
  ASSUME Ongoing, PoolInv', Taken \subseteq Taken', CloseReturnStep
  PROVE  Ongoing'
<1>1. /\ UNCHANGED <<code, curLoc, functionDefs, callRelocs>>
      /\ Doing("close_return")
      /\ returnAddresses' = [returnAddresses EXCEPT ![Last(locals).ret].address = curLoc]
      /\ symtabStack' = Front(symtabStack)
      /\ locals' = Front(locals)
      /\ todo' = Tail(todo)
      /\ prevStackSize' = Last(locals).prev
  BY DEF CloseReturnStep, Done
<1>2. /\ Task.do = "close_return" /\ AddressesHold(Places(code))
      /\ \E c \in Stacks : Effect(Task, KindsOf(locals), c) /\ Left(Tail(todo), c)
  BY <1>1, TaskAhead DEF Doing, Task, Ongoing
<1>3. PICK c \in Stacks : KindsOf(locals) = Append(c, "ret") /\ Left(Tail(todo), c)
  BY <1>2 DEF Effect
<1>4. /\ FramesHold /\ LocalsHold /\ locals \in Seq(Range(locals)) /\ Layout
      /\ IsTable(returnAddresses, {"index", "address"})
  BY DEF Ongoing, Working, LocalsHold, PoolInv, Tables
<1>5. /\ locals' \in Seq(Range(locals')) /\ KindsOf(locals') = c
      /\ Len(locals) \in DOMAIN locals /\ Last(locals) = locals[Len(locals)]
      /\ Kind(Last(locals)) = "ret"
      /\ Len(locals') = Len(locals) - 1 /\ Len(locals) \in Nat
      /\ \A k \in DOMAIN locals' : k \in DOMAIN locals /\ locals'[k] = locals[k]
      /\ \A k \in DOMAIN locals : locals[k] = Last(locals) \/ k \in DOMAIN locals'
  <2>1. locals \in Seq(Range(locals)) /\ IsPopped(locals, locals') /\ "ret" \in Kinds
    BY <1>1, <1>4 DEF IsPopped, Kinds
  <2> QED
    BY <1>3, <2>1, LocalPopped
<1>6. PICK l : l = Last(locals) /\ Kind(l) = "ret" /\ IsHeld(l)
  BY <1>4, <1>5 DEF LocalsHold
<1>7. l.ret \in DOMAIN returnAddresses /\ l.prev \in Int /\ code # <<>>
  BY <1>6 DEF IsHeld
<1>8. FramesHold'
  BY <1>1, <1>4, <1>6, <1>7, BlockPopped
<1>9. /\ \A k : Patches(k) => Patches(k)'
      /\ \A k : Awaits(k) /\ k # l.ret => Awaits(k)'
  <2>1. ASSUME NEW k, Patches(k) PROVE Patches(k)'
    <3>1. PICK i \in DOMAIN locals : Kind(locals[i]) = "jump" /\ locals[i].jump = k
      BY <2>1 DEF Patches
    <3>2. i \in DOMAIN locals' /\ locals'[i] = locals[i]
      BY <1>5, <3>1
    <3> QED
      BY <3>1, <3>2 DEF Patches, Kind
  <2>2. ASSUME NEW k, Awaits(k), k # l.ret PROVE Awaits(k)'
    <3>1. PICK i \in DOMAIN locals : Kind(locals[i]) = "ret" /\ locals[i].ret = k
      BY <2>2 DEF Awaits
    <3>2. i \in DOMAIN locals' /\ locals'[i] = locals[i]
      BY <1>5, <1>6, <2>2, <3>1
    <3> QED
      BY <3>1, <3>2 DEF Awaits, Kind
  <2> QED
    BY <2>1, <2>2
<1>10. CodeGrows /\ CodeHolds(Places(code))'
  <2>1. PICK d : Emits(d) /\ code' = code \o d /\ curLoc' = curLoc + End(d)
    BY <1>1, <1>4, NoneEmitted DEF Emitted
  <2>2. CodeHolds(Places(code)) /\ Places(code) \subseteq Places(code)
    BY <1>2 DEF AddressesHold
  <2>3. \A k \in DOMAIN code : Patches(k) => Patches(k)'
    BY <1>9
  <2> QED
    BY <1>4, <2>1, <2>2, <2>3, CodeEmitted
<1>11. /\ DOMAIN returnAddresses' = DOMAIN returnAddresses
       /\ \A k \in DOMAIN returnAddresses :
            k # l.ret => returnAddresses'[k] = returnAddresses[k]
       /\ returnAddresses'[l.ret].address = curLoc
  <2>1. DOMAIN returnAddresses[l.ret] = {"index", "address"}
    BY <1>4, <1>7 DEF IsTable
  <2> QED
    BY <1>1, <1>6, <1>7, <2>1
<1>12. ReturnsHold(Places(code))'
  <2>1. curLoc \in Places(code') /\ curLoc # 0
    BY <1>1, <1>4, <1>7, PlacesAre DEF Layout, Places
  <2>2. ASSUME NEW k \in DOMAIN returnAddresses'
        PROVE  /\ returnAddresses'[k].address \in Places(code')
               /\ returnAddresses'[k].address # 0 \/ Awaits(k)'
    <3>1. CASE k = l.ret
      BY <1>11, <2>1, <3>1
    <3>2. CASE k # l.ret
      BY <1>2, <1>9, <1>10, <1>11, <3>2 DEF AddressesHold, ReturnsHold, CodeGrows
    <3> QED
      BY <3>1, <3>2
  <2> QED
    BY <2>2 DEF ReturnsHold
<1>13. LocalsHold'
  <2>1. \A k \in DOMAIN returnAddresses : k \in DOMAIN returnAddresses'
    BY <1>11
  <2>2. \A k \in DOMAIN locals' : \E i \in DOMAIN locals : locals'[k] = locals[i]
    BY <1>5
  <2> QED
    BY <1>4, <1>5, <1>10, <2>1, <2>2, LocalsStill
<1> QED
  BY <1>1, <1>2, <1>3, <1>5, <1>8, <1>10, <1>12, <1>13, BracketKept

(* A local variable is pushed.                                             *)
LEMMA LocalsPushed ==
  ASSUME LocalsHold, NEW l, locals' = Append(locals, l)
  PROVE  /\ locals' \in Seq(Range(locals)')
         /\ KindsOf(locals)' = Append(KindsOf(locals), Kind(l))
         /\ \A k : Patches(k) => Patches(k)'
         /\ \A k : Awaits(k) => Awaits(k)'
         /\ \A k : Kind(l) = "jump" /\ l.jump = k => Patches(k)'
         /\ \A k \in DOMAIN locals' : \/ \E i \in DOMAIN locals : locals'[k] = locals[i]
                                      \/ locals'[k] = l
<1>1. locals \in Seq(Range(locals)) /\ IsPushed(locals, l, locals')
  BY DEF IsPushed, LocalsHold
<1>2. /\ locals' \in Seq(Range(locals')) /\ KindsOf(locals') = Append(KindsOf(locals), Kind(l))
      /\ \A k \in DOMAIN locals : k \in DOMAIN locals' /\ locals'[k] = locals[k]
      /\ Len(locals) + 1 \in DOMAIN locals' /\ locals'[Len(locals) + 1] = l
      /\ \A k \in DOMAIN locals' : locals'[k] = l \/ k \in DOMAIN locals
  BY <1>1, LocalPushed
<1>3. ASSUME NEW k, Patches(k) PROVE Patches(k)'
  BY <1>2, <1>3 DEF Patches, Kind
<1>4. ASSUME NEW k, Awaits(k) PROVE Awaits(k)'
  BY <1>2, <1>4 DEF Awaits, Kind
<1>5. ASSUME NEW k, Kind(l) = "jump", l.jump = k PROVE Patches(k)'
  BY <1>2, <1>5 DEF Patches, Kind
<1> QED
  BY <1>2, <1>3, <1>4, <1>5

(* A jump without a target is emitted, and the local variable remembers    *)
(* it.                                                                     *)
LEMMA OpenJumpKept ==
  ASSUME Ongoing, PoolInv', Taken \subseteq Taken', OpenJumpStep
  PROVE  Ongoing'
<1> DEFINE d == <<I("jmp_false", 0)>>
           l == [jump |-> Len(code) + 1]
<1>1. /\ UNCHANGED <<prevStackSize, returnAddresses, functionDefs, callRelocs>>
      /\ Doing("open_jump")
      /\ EmitAll(d)
      /\ symtabStack' = Grown(-1)
      /\ locals' = Append(locals, l)
      /\ todo' = Tail(todo)
  BY DEF OpenJumpStep, Done, EmitOne, tables, flags
<1>2. DOMAIN l = {"jump"} /\ l.jump = Len(code) + 1
  OBVIOUS
<1>3. /\ IsCode(d) /\ DOMAIN d = {1} /\ d[1].op = "jmp_false" /\ d[1].arg = 0
      /\ d # <<>>
  BY OneInstr, InstrIs
<1> HIDE DEF d, l
<1>4. Kind(l) = "jump"
  BY <1>2 DEF Kind
<1>5. /\ Task.do = "open_jump" /\ AddressesHold(Places(code))
      /\ \E c \in Stacks : Effect(Task, KindsOf(locals), c) /\ Left(Tail(todo), c)
  BY <1>1, TaskAhead DEF Doing, Task, Ongoing
<1>6. Left(Tail(todo), Append(KindsOf(locals), "jump"))
  BY <1>5 DEF Effect
<1>7. FramesHold /\ LocalsHold /\ Layout /\ IsCode(code)
  BY DEF Ongoing, Working, Layout
<1>8. FramesHold'
  BY <1>1, <1>7, GrownKept
<1>9. /\ locals' \in Seq(Range(locals)')
      /\ KindsOf(locals)' = Append(KindsOf(locals), "jump")
      /\ \A k : Patches(k) => Patches(k)'
      /\ \A k : Awaits(k) => Awaits(k)'
      /\ \A k : Len(code) + 1 = k => Patches(k)'
      /\ \A k \in DOMAIN locals' : \/ \E i \in DOMAIN locals : locals'[k] = locals[i]
                                   \/ locals'[k] = l
  BY <1>1, <1>2, <1>4, <1>7, LocalsPushed
<1>10. Emits(d) /\ code' = code \o d /\ curLoc' = curLoc + End(d)
  <2>1. 0 \in Places(code)
    BY <1>7, PlacesAre
  <2> QED
    BY <1>1, <1>3, <1>9, <2>1 DEF Emits, EmitAll, End
<1>11. CodeGrows /\ CodeHolds(Places(code))'
  <2>1. CodeHolds(Places(code)) /\ Places(code) \subseteq Places(code)
    BY <1>5 DEF AddressesHold
  <2>2. \A k \in DOMAIN code : Patches(k) => Patches(k)'
    BY <1>9
  <2>3. PICK e : e = d
    OBVIOUS
  <2>4. Emits(e) /\ code' = code \o e /\ curLoc' = curLoc + End(e)
    BY <1>10, <2>3
  <2> QED
    BY <1>7, <2>1, <2>2, <2>4, CodeEmitted
<1>12. ReturnsHold(Places(code))'
  <2>1. ReturnsHold(Places(code)) /\ Places(code) \subseteq Places(code)
    BY <1>5 DEF AddressesHold
  <2> QED
    BY <1>1, <1>9, <1>11, <2>1, ReturnsKept
<1>13. LocalsHold'
  <2>1. ASSUME NEW m, m = l PROVE IsHeld(m)'
    <3>1. Kind(m)' = "jump"
      BY <1>4, <2>1 DEF Kind
    <3>2. m.jump \in DOMAIN code' /\ code'[m.jump] = d[1]
      <4>1. IsCode(code) /\ IsCode(d) /\ Follows(code, d, code')
        BY <1>3, <1>7, <1>10 DEF Follows
      <4>2. \A k \in DOMAIN d : Len(code) + k \in DOMAIN code' /\ code'[Len(code) + k] = d[k]
        BY <4>1, Emission
      <4> QED
        BY <1>2, <1>3, <2>1, <4>2
    <3> QED
      BY <1>3, <3>1, <3>2 DEF IsHeld
  <2>2. ASSUME NEW k \in DOMAIN locals', locals'[k] = l PROVE IsHeld(locals[k])'
    <3>1. PICK m : m = locals'[k]
      OBVIOUS
    <3>2. IsHeld(m)'
      BY <2>1, <2>2, <3>1
    <3> QED
      BY <3>1, <3>2
  <2> QED
    BY <1>1, <1>7, <1>9, <1>11, <2>2, LocalsStill
<1> QED
  BY <1>1, <1>5, <1>6, <1>8, <1>9, <1>11, <1>12, <1>13, BracketKept

(* The local variable remembers where the loop starts.                     *)
LEMMA MarkLoopKept ==
  ASSUME Ongoing, PoolInv', Taken \subseteq Taken', MarkLoopStep
  PROVE  Ongoing'
<1> DEFINE l == [start |-> curLoc]
<1>1. /\ UNCHANGED <<code, curLoc, symtabStack, prevStackSize, returnAddresses,
                     functionDefs, callRelocs>>
      /\ Doing("mark_loop")
      /\ locals' = Append(locals, l)
      /\ todo' = Tail(todo)
  BY DEF MarkLoopStep, Done, scopes, tables, flags
<1>2. DOMAIN l = {"start"} /\ l.start = curLoc
  OBVIOUS
<1> HIDE DEF l
<1>3. Kind(l) = "start"
  BY <1>2 DEF Kind
<1>4. /\ Task.do = "mark_loop" /\ AddressesHold(Places(code))
      /\ \E c \in Stacks : Effect(Task, KindsOf(locals), c) /\ Left(Tail(todo), c)
  BY <1>1, TaskAhead DEF Doing, Task, Ongoing
<1>5. Left(Tail(todo), Append(KindsOf(locals), "start"))
  BY <1>4 DEF Effect
<1>6. FramesHold /\ LocalsHold /\ Layout
  BY DEF Ongoing, Working
<1>7. FramesHold'
  BY <1>1, <1>6, FramesKept
<1>8. /\ locals' \in Seq(Range(locals)')
      /\ KindsOf(locals)' = Append(KindsOf(locals), "start")
      /\ \A k : Patches(k) => Patches(k)'
      /\ \A k : Awaits(k) => Awaits(k)'
      /\ \A k \in DOMAIN locals' : \/ \E i \in DOMAIN locals : locals'[k] = locals[i]
                                   \/ locals'[k] = l
  BY <1>1, <1>3, <1>6, LocalsPushed
<1>9. CodeGrows /\ CodeHolds(Places(code))'
  <2>1. CodeHolds(Places(code)) /\ Places(code) \subseteq Places(code)
    BY <1>4 DEF AddressesHold
  <2>2. \A k \in DOMAIN code : Patches(k) => Patches(k)'
    BY <1>8
  <2>3. PICK d : Emits(d) /\ code' = code \o d /\ curLoc' = curLoc + End(d)
    BY <1>1, <1>6, NoneEmitted DEF Emitted
  <2> QED
    BY <1>6, <2>1, <2>2, <2>3, CodeEmitted
<1>10. ReturnsHold(Places(code))'
  <2>1. ReturnsHold(Places(code)) /\ Places(code) \subseteq Places(code)
    BY <1>4 DEF AddressesHold
  <2> QED
    BY <1>1, <1>8, <1>9, <2>1, ReturnsKept
<1>11. LocalsHold'
  <2>1. ASSUME NEW m, m = l PROVE IsHeld(m)'
    <3>1. Kind(m)' = "start"
      BY <1>3, <2>1 DEF Kind
    <3>2. m.start \in Places(code')
      BY <1>1, <1>2, <1>6, <2>1 DEF Layout, Places
    <3> QED
      BY <3>1, <3>2 DEF IsHeld
  <2>2. ASSUME NEW k \in DOMAIN locals', locals'[k] = l PROVE IsHeld(locals[k])'
    <3>1. PICK m : m = locals'[k]
      OBVIOUS
    <3>2. IsHeld(m)'
      BY <2>1, <2>2, <3>1
    <3> QED
      BY <3>1, <3>2
  <2> QED
    BY <1>1, <1>6, <1>8, <1>9, <2>2, LocalsStill
<1> QED
  BY <1>1, <1>4, <1>5, <1>7, <1>8, <1>9, <1>10, <1>11, BracketKept

(* The innermost local variable is popped.                                 *)
LEMMA LocalsPopped ==
  ASSUME LocalsHold, NEW c \in Stacks, NEW kind \in Kinds,
         KindsOf(locals) = Append(c, kind), NEW t, IsPopped(locals, t)
  PROVE  /\ t \in Seq(Range(t)) /\ KindsOf(t) = c
         /\ Kind(Last(locals)) = kind /\ IsHeld(Last(locals))
         /\ Len(locals) \in Nat /\ Len(t) = Len(locals) - 1
         /\ \A k \in DOMAIN t : k \in DOMAIN locals /\ t[k] = locals[k]
         /\ \A k \in DOMAIN locals : locals[k] = Last(locals) \/ k \in DOMAIN t
<1>1. locals \in Seq(Range(locals))
  BY DEF LocalsHold
<1>2. /\ t \in Seq(Range(t)) /\ KindsOf(t) = c
      /\ Len(locals) \in DOMAIN locals /\ Last(locals) = locals[Len(locals)]
      /\ Kind(Last(locals)) = kind
      /\ Len(t) = Len(locals) - 1 /\ Len(locals) \in Nat
      /\ \A k \in DOMAIN t : k \in DOMAIN locals /\ t[k] = locals[k]
      /\ \A k \in DOMAIN locals : locals[k] = Last(locals) \/ k \in DOMAIN t
  BY <1>1, LocalPopped
<1>3. IsHeld(Last(locals))
  BY <1>2 DEF LocalsHold
<1> QED
  BY <1>2, <1>3

(* Steps that patch the jump of a local variable l.                        *)
LEMMA PatchKept ==
  ASSUME Ongoing, PoolInv', Taken \subseteq Taken', AddressesHold(Places(code)),
         NEW c, Left(Tail(todo), c), todo' = Tail(todo), KindsOf(locals)' = c,
         NEW l, IsHeld(l), Kind(l) = "jump", NEW d, Emits(d),
         code' = Patched(code \o d, l.jump, curLoc + End(d)),
         curLoc' = curLoc + End(d),
         UNCHANGED <<symtabStack, prevStackSize, returnAddresses, functionDefs,
                     callRelocs>>,
         \A k : Patches(k) /\ k # l.jump => Patches(k)',
         \A k : Awaits(k) => Awaits(k)',
         locals' \in Seq(Range(locals)'),
         \A k \in DOMAIN locals' :
           \/ \E i \in DOMAIN locals : locals'[k] = locals[i]
           \/ /\ Kind(locals'[k]) = "jump"
              /\ \E i \in DOMAIN d : locals'[k].jump = Len(code) + i /\ d[i].op = "jmp"
  PROVE  Ongoing'
<1>1. FramesHold /\ LocalsHold /\ Layout
  BY DEF Ongoing, Working
<1>2. FramesHold'
  BY <1>1, FramesKept
<1>3. PICK at \in DOMAIN code : at = l.jump /\ code[at].op \in {"jmp", "jmp_false"}
  BY DEF IsHeld
<1>4. /\ CodeGrows /\ CodeHolds(Places(code))'
      /\ \A k \in DOMAIN d : /\ Len(code) + k \in DOMAIN code'
                             /\ code'[Len(code) + k].op = d[k].op
  <2>1. CodeHolds(Places(code))
    BY DEF AddressesHold
  <2>2. \A k \in DOMAIN code : Patches(k) /\ k # at => Patches(k)'
    BY <1>3
  <2>3. code' = Patched(code \o d, at, curLoc + End(d))
    BY <1>3
  <2> QED
    BY <1>1, <1>3, <2>1, <2>2, <2>3, CodePatched
<1>5. ReturnsHold(Places(code))'
  <2>1. ReturnsHold(Places(code)) /\ Places(code) \subseteq Places(code)
    BY DEF AddressesHold
  <2> QED
    BY <1>4, <2>1, ReturnsKept
<1>6. LocalsHold'
  <2>1. ASSUME NEW m, Kind(m) = "jump", NEW i \in DOMAIN d,
               m.jump = Len(code) + i, d[i].op = "jmp"
        PROVE  IsHeld(m)'
    <3>1. Kind(m)' = "jump"
      BY <2>1 DEF Kind
    <3> QED
      BY <1>4, <2>1, <3>1 DEF IsHeld
  <2>2. ASSUME NEW k \in DOMAIN locals', Kind(locals'[k]) = "jump", NEW i \in DOMAIN d,
               locals'[k].jump = Len(code) + i, d[i].op = "jmp"
        PROVE  IsHeld(locals[k])'
    <3>1. PICK m : m = locals'[k]
      OBVIOUS
    <3>2. IsHeld(m)'
      BY <2>1, <2>2, <3>1
    <3> QED
      BY <3>1, <3>2
  <2>3. \A k \in DOMAIN locals' : \/ \E i \in DOMAIN locals : locals'[k] = locals[i]
                                  \/ IsHeld(locals[k])'
    BY <2>2
  <2>4. \A k \in DOMAIN returnAddresses : k \in DOMAIN returnAddresses'
    OBVIOUS
  <2> QED
    BY <1>1, <1>4, <2>3, <2>4, LocalsStill
<1> QED
  BY <1>2, <1>4, <1>5, <1>6, BracketKept

(* The jump goes to where the code ends.                                   *)
LEMMA CloseJumpKept ==
  ASSUME Ongoing, PoolInv', Taken \subseteq Taken', CloseJumpStep
  PROVE  Ongoing'
<1>1. /\ UNCHANGED <<curLoc, symtabStack, prevStackSize, returnAddresses,
                     functionDefs, callRelocs>>
      /\ Doing("close_jump")
      /\ code' = Patched(code, Last(locals).jump, curLoc)
      /\ IsPopped(locals, locals')
      /\ todo' = Tail(todo)
  BY DEF CloseJumpStep, Done, scopes, tables, flags, IsPopped
<1>2. /\ Task.do = "close_jump" /\ AddressesHold(Places(code))
      /\ \E c \in Stacks : Effect(Task, KindsOf(locals), c) /\ Left(Tail(todo), c)
  BY <1>1, TaskAhead DEF Doing, Task, Ongoing
<1>3. PICK c \in Stacks : KindsOf(locals) = Append(c, "jump") /\ Left(Tail(todo), c)
  BY <1>2 DEF Effect
<1>4. LocalsHold /\ Layout /\ "jump" \in Kinds
  BY DEF Ongoing, Working, Kinds
<1>5. /\ locals' \in Seq(Range(locals')) /\ KindsOf(locals') = c
      /\ Kind(Last(locals)) = "jump" /\ IsHeld(Last(locals))
      /\ \A k \in DOMAIN locals' : k \in DOMAIN locals /\ locals'[k] = locals[k]
      /\ \A k \in DOMAIN locals : locals[k] = Last(locals) \/ k \in DOMAIN locals'
  BY <1>1, <1>3, <1>4, LocalsPopped
<1>6. PICK l : l = Last(locals) /\ Kind(l) = "jump" /\ IsHeld(l)
  BY <1>5
<1>7. /\ \A k : Patches(k) /\ k # l.jump => Patches(k)'
      /\ \A k : Awaits(k) => Awaits(k)'
  <2>1. ASSUME NEW k, Patches(k), k # l.jump PROVE Patches(k)'
    <3>1. PICK i \in DOMAIN locals : Kind(locals[i]) = "jump" /\ locals[i].jump = k
      BY <2>1 DEF Patches
    <3>2. i \in DOMAIN locals' /\ locals'[i] = locals[i]
      BY <1>5, <1>6, <2>1, <3>1
    <3> QED
      BY <3>1, <3>2 DEF Patches, Kind
  <2>2. ASSUME NEW k, Awaits(k) PROVE Awaits(k)'
    <3>1. PICK i \in DOMAIN locals : Kind(locals[i]) = "ret" /\ locals[i].ret = k
      BY <2>2 DEF Awaits
    <3>2. i \in DOMAIN locals' /\ locals'[i] = locals[i]
      BY <1>5, <3>1
    <3> QED
      BY <3>1, <3>2 DEF Awaits, Kind
  <2> QED
    BY <2>1, <2>2
<1>8. PICK d : Emits(d) /\ code \o d = code /\ curLoc + End(d) = curLoc
  <2>1. IsCode(<<>>) /\ DOMAIN <<>> = {} /\ Len(<<>>) = 0
    BY DEF IsCode, IsTable
  <2>2. End(<<>>) = 0
    BY <2>1, FirstLocation DEF End
  <2>3. code \o <<>> = code
    BY <1>4, ConcatEmptySeq, CodeIs DEF Layout
  <2>4. curLoc \in Nat
    BY <1>4, PlacesAre DEF Layout
  <2>5. Emits(<<>>)
    BY <2>1 DEF Emits
  <2>6. curLoc + End(<<>>) = curLoc
    BY <2>2, <2>4
  <2> QED
    BY <2>3, <2>5, <2>6, Zenon
<1>9. /\ code' = Patched(code \o d, l.jump, curLoc + End(d))
      /\ curLoc' = curLoc + End(d)
  BY <1>1, <1>6, <1>8
<1>10. \A k \in DOMAIN locals' : \E i \in DOMAIN locals : locals'[k] = locals[i]
  BY <1>5
<1> QED
  BY <1>1, <1>2, <1>3, <1>5, <1>6, <1>7, <1>8, <1>9, <1>10, PatchKept

(* The jump goes past the jump over the second branch, which is remembered *)
(* instead.                                                                *)
LEMMA ElseJumpKept ==
  ASSUME Ongoing, PoolInv', Taken \subseteq Taken', ElseJumpStep
  PROVE  Ongoing'
<1> DEFINE d == <<I("jmp", 0)>>
           m == [jump |-> Len(code) + 1]
           t == Front(locals)
<1>1. /\ UNCHANGED <<symtabStack, prevStackSize, returnAddresses, functionDefs, callRelocs>>
      /\ Doing("else_jump")
      /\ code' = Append(Patched(code, Last(locals).jump, curLoc + SizeOf("jmp")), I("jmp", 0))
      /\ curLoc' = curLoc + SizeOf("jmp")
      /\ locals' = Append(t, m)
      /\ todo' = Tail(todo)
  BY DEF ElseJumpStep, Done, scopes, tables, flags
<1>2. /\ IsCode(d) /\ DOMAIN d = {1} /\ d[1].op = "jmp" /\ d[1].arg = 0
      /\ End(d) = SizeOf("jmp")
  BY OneInstr, InstrIs, JumpSize
<1>3. DOMAIN m = {"jump"} /\ m.jump = Len(code) + 1 /\ IsPopped(locals, t)
  BY DEF IsPopped
<1> HIDE DEF m, t
<1>4. Kind(m) = "jump"
  BY <1>3 DEF Kind
<1>5. /\ Task.do = "else_jump" /\ AddressesHold(Places(code))
      /\ \E c \in Stacks : Effect(Task, KindsOf(locals), c) /\ Left(Tail(todo), c)
  BY <1>1, TaskAhead DEF Doing, Task, Ongoing
<1>6. PICK c \in Stacks : /\ KindsOf(locals) = Append(c, "jump")
                          /\ Left(Tail(todo), Append(c, "jump"))
  BY <1>5 DEF Effect
<1>7. LocalsHold /\ Layout /\ "jump" \in Kinds
  BY DEF Ongoing, Working, Kinds
<1>8. /\ t \in Seq(Range(t)) /\ KindsOf(t) = c
      /\ Kind(Last(locals)) = "jump" /\ IsHeld(Last(locals))
      /\ \A k \in DOMAIN t : k \in DOMAIN locals /\ t[k] = locals[k]
      /\ \A k \in DOMAIN locals : locals[k] = Last(locals) \/ k \in DOMAIN t
  BY <1>3, <1>6, <1>7, LocalsPopped
<1>9. /\ locals' \in Seq(Range(locals')) /\ KindsOf(locals') = Append(c, "jump")
      /\ \A k \in DOMAIN t : k \in DOMAIN locals' /\ locals'[k] = t[k]
      /\ \A k \in DOMAIN locals' : locals'[k] = m \/ (k \in DOMAIN t /\ locals'[k] = t[k])
  <2>1. IsPushed(t, m, locals')
    BY <1>1 DEF IsPushed
  <2>2. /\ locals' \in Seq(Range(locals')) /\ KindsOf(locals') = Append(KindsOf(t), Kind(m))
        /\ \A k \in DOMAIN t : k \in DOMAIN locals' /\ locals'[k] = t[k]
        /\ \A k \in DOMAIN locals' : locals'[k] = m \/ k \in DOMAIN t
    BY <1>8, <2>1, LocalPushed
  <2> QED
    BY <1>4, <1>8, <2>2
<1>10. PICK l : l = Last(locals) /\ Kind(l) = "jump" /\ IsHeld(l)
  BY <1>8
<1>11. /\ \A k : Patches(k) /\ k # l.jump => Patches(k)'
       /\ \A k : Awaits(k) => Awaits(k)'
  <2>1. ASSUME NEW k, Patches(k), k # l.jump PROVE Patches(k)'
    <3>1. PICK i \in DOMAIN locals : Kind(locals[i]) = "jump" /\ locals[i].jump = k
      BY <2>1 DEF Patches
    <3>2. i \in DOMAIN locals' /\ locals'[i] = locals[i]
      BY <1>8, <1>9, <1>10, <2>1, <3>1
    <3> QED
      BY <3>1, <3>2 DEF Patches, Kind
  <2>2. ASSUME NEW k, Awaits(k) PROVE Awaits(k)'
    <3>1. PICK i \in DOMAIN locals : Kind(locals[i]) = "ret" /\ locals[i].ret = k
      BY <2>2 DEF Awaits
    <3>2. i \in DOMAIN locals' /\ locals'[i] = locals[i]
      BY <1>8, <1>9, <3>1
    <3> QED
      BY <3>1, <3>2 DEF Awaits, Kind
  <2> QED
    BY <2>1, <2>2
<1>12. /\ code' = Patched(code \o d, l.jump, curLoc + End(d))
       /\ curLoc' = curLoc + End(d)
  <2>1. PICK at \in DOMAIN code : at = l.jump
    BY <1>10 DEF IsHeld
  <2>2. Append(Patched(code, at, curLoc + End(d)), I("jmp", 0))
          = Patched(code \o <<I("jmp", 0)>>, at, curLoc + End(d))
    BY <1>7, PatchedBefore DEF Layout
  <2> QED
    BY <1>1, <1>2, <1>10, <2>1, <2>2
<1>13. Emits(d)
  <2>1. 0 \in Places(code)
    BY <1>7, PlacesAre DEF Layout
  <2> QED
    BY <1>2, <2>1 DEF Emits
<1> HIDE DEF d
<1>14. \A k \in DOMAIN locals' :
         \/ \E i \in DOMAIN locals : locals'[k] = locals[i]
         \/ /\ Kind(locals'[k]) = "jump"
            /\ \E i \in DOMAIN d : locals'[k].jump = Len(code) + i /\ d[i].op = "jmp"
  BY <1>2, <1>3, <1>4, <1>8, <1>9
<1>15. Left(Tail(todo), KindsOf(locals'))
  BY <1>6, <1>9
<1> QED
  BY <1>1, <1>5, <1>9, <1>10, <1>11, <1>12, <1>13, <1>14, <1>15, PatchKept

(* The jump back goes to where the loop starts, the other one past it.     *)
LEMMA CloseLoopKept ==
  ASSUME Ongoing, PoolInv', Taken \subseteq Taken', CloseLoopStep
  PROVE  Ongoing'
<1> DEFINE start == locals[Len(locals) - 1].start
           d == <<I("jmp", start)>>
           t == Front(locals)
<1>1. /\ UNCHANGED <<symtabStack, prevStackSize, returnAddresses, functionDefs, callRelocs>>
      /\ Doing("close_loop")
      /\ code' = Patched(Append(code, I("jmp", start)), Last(locals).jump,
                         curLoc + SizeOf("jmp"))
      /\ curLoc' = curLoc + SizeOf("jmp")
      /\ locals' = Front(t)
      /\ todo' = Tail(todo)
  BY DEF CloseLoopStep, Done, scopes, tables, flags
<1>2. /\ IsCode(d) /\ DOMAIN d = {1} /\ d[1].op = "jmp" /\ d[1].arg = start
      /\ End(d) = SizeOf("jmp")
  BY OneInstr, InstrIs, JumpSize
<1>3. IsPopped(locals, t) /\ IsPopped(t, locals')
  BY <1>1 DEF IsPopped
<1> HIDE DEF t
<1>4. /\ Task.do = "close_loop" /\ AddressesHold(Places(code))
      /\ \E c \in Stacks : Effect(Task, KindsOf(locals), c) /\ Left(Tail(todo), c)
  BY <1>1, TaskAhead DEF Doing, Task, Ongoing
<1>5. PICK c \in Stacks : /\ KindsOf(locals) = Append(Append(c, "start"), "jump")
                          /\ Left(Tail(todo), c)
  BY <1>4 DEF Effect
<1>6. LocalsHold /\ Layout /\ "jump" \in Kinds /\ "start" \in Kinds
      /\ Append(c, "start") \in Stacks
  BY PushKind DEF Ongoing, Working, Kinds
<1>7. /\ t \in Seq(Range(t)) /\ KindsOf(t) = Append(c, "start")
      /\ Kind(Last(locals)) = "jump" /\ IsHeld(Last(locals))
      /\ Len(locals) \in Nat /\ Len(t) = Len(locals) - 1
      /\ \A k \in DOMAIN t : k \in DOMAIN locals /\ t[k] = locals[k]
      /\ \A k \in DOMAIN locals : locals[k] = Last(locals) \/ k \in DOMAIN t
  BY <1>3, <1>5, <1>6, LocalsPopped
<1>8. /\ locals' \in Seq(Range(locals')) /\ KindsOf(locals') = c
      /\ Len(t) \in DOMAIN t /\ Last(t) = t[Len(t)] /\ Kind(Last(t)) = "start"
      /\ \A k \in DOMAIN locals' : k \in DOMAIN t /\ locals'[k] = t[k]
      /\ \A k \in DOMAIN t : t[k] = Last(t) \/ k \in DOMAIN locals'
  <2>1. t \in Seq(Range(t)) /\ KindsOf(t) = Append(c, "start") /\ "start" \in Kinds
        /\ IsPopped(t, locals')
    BY <1>3, <1>6, <1>7
  <2> QED
    BY <2>1, LocalPopped
<1>9. start \in Places(code)
  <2>1. locals[Len(locals) - 1] = Last(t) /\ Len(locals) - 1 \in DOMAIN locals
    BY <1>7, <1>8
  <2>2. IsHeld(Last(t))
    BY <1>6, <2>1 DEF LocalsHold
  <2> QED
    BY <1>8, <2>1, <2>2 DEF IsHeld
<1> HIDE DEF start
<1>10. PICK l : l = Last(locals) /\ Kind(l) = "jump" /\ IsHeld(l)
  BY <1>7
<1>11. /\ \A k : Patches(k) /\ k # l.jump => Patches(k)'
       /\ \A k : Awaits(k) => Awaits(k)'
  <2>1. ASSUME NEW k, Patches(k), k # l.jump PROVE Patches(k)'
    <3>1. PICK i \in DOMAIN locals : Kind(locals[i]) = "jump" /\ locals[i].jump = k
      BY <2>1 DEF Patches
    <3>2. i \in DOMAIN locals' /\ locals'[i] = locals[i]
      BY <1>7, <1>8, <1>10, <2>1, <3>1
    <3> QED
      BY <3>1, <3>2 DEF Patches, Kind
  <2>2. ASSUME NEW k, Awaits(k) PROVE Awaits(k)'
    <3>1. PICK i \in DOMAIN locals : Kind(locals[i]) = "ret" /\ locals[i].ret = k
      BY <2>2 DEF Awaits
    <3>2. i \in DOMAIN locals' /\ locals'[i] = locals[i]
      BY <1>7, <1>8, <3>1
    <3> QED
      BY <3>1, <3>2 DEF Awaits, Kind
  <2> QED
    BY <2>1, <2>2
<1>12. /\ code' = Patched(code \o d, l.jump, curLoc + End(d))
       /\ curLoc' = curLoc + End(d)
  <2>1. Append(code, I("jmp", start)) = code \o d
    BY <1>6, AppendedInstr DEF Layout
  <2> QED
    BY <1>1, <1>2, <1>10, <2>1
<1>13. Emits(d)
  BY <1>2, <1>9 DEF Emits
<1> HIDE DEF d
<1>14. \A k \in DOMAIN locals' : \E i \in DOMAIN locals : locals'[k] = locals[i]
  BY <1>7, <1>8
<1>15. Left(Tail(todo), KindsOf(locals'))
  BY <1>5, <1>8
<1> QED
  BY <1>1, <1>4, <1>8, <1>10, <1>11, <1>12, <1>13, <1>14, <1>15, PatchKept

-----------------------------------------------------------------------------
(* Between the functions.                                                  *)
LEMMA FunctionsAhead ==
  ASSUME Layout, Working, Doing("named_functions") PROVE Between
<1>1. ~Inside
  <2>1. SUFFICES ASSUME Inside PROVE FALSE
    OBVIOUS
  <2>2. Head(todo) = EmitArg("ret", 0) \/ IsTask(Head(todo))
    BY <2>1, LeftIs DEF Inside
  <2> QED
    BY <2>2 DEF Doing, EmitArg, IsTask
<1> QED
  BY <1>1 DEF Working

(* What a list of things to do leaves behind it.                           *)
LEMMA FlatLeft ==
  ASSUME NEW s, IsFlat(s), NEW t, t = s \o Closing, NEW a, a = <<>>
  PROVE  Left(t, KindsOf(a))
<1>1. KindsOf(a) = <<>> /\ <<>> \in Stacks
  BY DEF KindsOf, Stacks
<1>2. AreTasks(s) /\ Fits(s, <<>>, <<>>)
  BY <1>1, FlatPlan DEF IsPlan
<1> QED
  BY <1>1, <1>2 DEF Left

(* A function starts where the code ends, and its body and a ret are left  *)
(* to do.                                                                  *)
LEMMA GenerateFunctionKept ==
  ASSUME Ongoing, PoolInv', Taken \subseteq Taken', program \in Programs,
         pending \subseteq DOMAIN program.functions,
         NEW f \in pending, GenerateFunction(f)
  PROVE  Ongoing'
<1> DEFINE params == program.functions[f].params
           body   == program.functions[f].body
           block  == [top |-> Len(params),
                      map |-> [p \in Range(params) |->
                         (CHOOSE k \in 1 .. Len(params) : params[k] = p) - 1]]
<1>1. /\ UNCHANGED <<code, curLoc, prevStackSize, returnAddresses, callRelocs, locals>>
      /\ Doing("named_functions")
      /\ symtabStack' = <<block>>
      /\ functionDefs' = [g \in DOMAIN functionDefs \cup {f} |->
                            IF g = f THEN curLoc ELSE functionDefs[g]]
      /\ todo' = <<Visit(body), EndScope, EmitArg("ret", 0)>> \o todo
  BY DEF GenerateFunction, tables, flags
<1>2. params \in Seq(STRING) /\ body \in Nodes
  BY TreesAssumption DEF AreTrees, IsProgram
<1>3. DOMAIN block = {"top", "map"} /\ block.top = Len(params) /\ Len(params) \in Int
  BY <1>2
<1> HIDE DEF block, params, body
<1>4. Layout /\ FramesHold /\ Between
  BY <1>1, FunctionsAhead DEF Ongoing, Working
<1>5. FramesHold'
  <2>1. <<block>> \in Seq({block}) /\ DOMAIN <<block>> = {1} /\ <<block>>[1] = block
    OBVIOUS
  <2>2. <<block>> \in Seq(Range(<<block>>))
    BY <2>1, SeqOfRange
  <2> QED
    BY <1>1, <1>3, <1>4, <2>1, <2>2 DEF FramesHold, IsTable
<1>6. Left(todo, KindsOf(locals))'
  <2> DEFINE s == <<Visit(body), EndScope>>
  <2>1. IsFlat(s)
    <3>1. IsSimple(Visit(body)) /\ IsSimple(EndScope)
      BY <1>2, SimpleTasks
    <3>2. IsFlat(<<Visit(body)>>) /\ IsFlat(<<EndScope>>)
      BY <3>1, FlatOne
    <3>3. s = <<Visit(body)>> \o <<EndScope>>
      OBVIOUS
    <3> QED
      BY <3>2, <3>3, FlatConcat
  <2>2. todo' = s \o Closing
    BY <1>1, <1>4 DEF Between, Closing
  <2> HIDE DEF s
  <2>3. Left(todo', KindsOf(locals'))
    BY <1>1, <1>4, <2>1, <2>2, FlatLeft DEF Between
  <2> QED
    BY <2>3
<1>7. CodeGrows
  BY <1>1, <1>4 DEF CodeGrows, Layout, IsCode, IsTable, Places, Starts, At, End
<1>8. /\ code # <<>> /\ locals = <<>> /\ AddressesHold(Starts(code))
      /\ Starts(code) \subseteq Places(code)
  BY <1>4 DEF Between, Places
<1>9. CodeHolds(Places(code))' /\ ReturnsHold(Places(code))'
  <2>1. /\ \A k : ~Patches(k) /\ ~Awaits(k)
    BY <1>8 DEF Patches, Awaits
  <2>2. Places(code)' = Places(code) /\ \A k : At(code, k)' = At(code, k)
    BY <1>1 DEF Places, Starts, At, End
  <2> QED
    BY <1>1, <1>8, <2>1, <2>2 DEF AddressesHold, CodeHolds, ReturnsHold
<1>10. FunctionsHold(Places(code))'
  <2>1. curLoc \in Places(code) /\ curLoc # 0
    BY <1>4, <1>8, PlacesAre DEF Layout, Places
  <2>2. \A g \in DOMAIN functionDefs' : functionDefs'[g] \in Places(code) \ {0}
    BY <1>1, <1>8, <2>1 DEF AddressesHold, FunctionsHold
  <2>3. Places(code)' = Places(code)
    BY <1>1 DEF Places, Starts, At, End
  <2> QED
    BY <1>1, <1>8, <2>2, <2>3 DEF AddressesHold, FunctionsHold, IsTable
<1>11. LocalsHold'
  BY <1>1, <1>8 DEF LocalsHold
<1> QED
  BY <1>5, <1>6, <1>7, <1>9, <1>10, <1>11
     DEF Ongoing, Working, Inside, AddressesHold, CodeGrows

(* The calls get the addresses of the functions: only operands change.     *)
LEMMA Relocated ==
  ASSUME Ongoing, Taken \subseteq Taken', Relocate, outcome' = "done"
  PROVE  Layout' /\ Complete'
<1> DEFINE called(n) == \E r \in Range(callRelocs) : r.index = n
           reloc(n) == CHOOSE r \in Range(callRelocs) : r.index = n
<1>1. Layout /\ Between /\ curLoc = End(code) /\ IsCode(code)
  BY FunctionsAhead DEF Relocate, Ongoing, Layout
<1>2. /\ AddressesHold(Starts(code)) /\ locals = <<>> /\ IsTable(dynamicJumps, {"index", "address", "func"})
      /\ returnAddresses \in Seq(Range(returnAddresses))
  BY <1>1 DEF Between, Ongoing, PoolInv, Tables, IsTable
<1>3. Wanted \subseteq DOMAIN functionDefs
  <2>1. SUFFICES ASSUME ~(Wanted \subseteq DOMAIN functionDefs) PROVE FALSE
    OBVIOUS
  <2>2. outcome' = "missing_function"
    BY <2>1 DEF Relocate, Failing
  <2> QED
    BY <2>2
<1>4. /\ code' = [n \in DOMAIN code |->
                    IF called(n) THEN I("jmp", functionDefs[reloc(n).func]) ELSE code[n]]
      /\ dynamicJumps' = [n \in DOMAIN dynamicJumps |->
                 [dynamicJumps[n] EXCEPT !.address = functionDefs[dynamicJumps[n].func]]]
      /\ UNCHANGED <<curLoc, returnAddresses>>
  BY <1>3 DEF Relocate
<1>5. \A func \in Wanted : functionDefs[func] \in Starts(code) \ {0}
  BY <1>2, <1>3 DEF AddressesHold, FunctionsHold
<1>6. ASSUME NEW n \in DOMAIN code, called(n)
      PROVE  code[n].op = "jmp" /\ functionDefs[reloc(n).func] \in Starts(code) \ {0}
  <2>1. reloc(n) \in Range(callRelocs) /\ reloc(n).index = n
    BY <1>6
  <2>2. PICK k \in DOMAIN callRelocs : callRelocs[k] = reloc(n)
    BY <2>1 DEF Range
  <2>3. code[n].op = "jmp"
    BY <1>2, <2>1, <2>2 DEF AddressesHold, FunctionsHold
  <2>4. reloc(n).func \in Wanted
    BY <2>1 DEF Wanted
  <2> QED
    BY <1>5, <2>3, <2>4
<1> HIDE DEF reloc, called
<1>7. /\ DOMAIN code' = DOMAIN code
      /\ \A n \in DOMAIN code :
           /\ code'[n].op = code[n].op /\ DOMAIN code'[n] = {"op", "arg"}
           /\ \/ code'[n] = code[n]
              \/ code[n].op = "jmp" /\ code'[n].arg \in Starts(code)
  <2>1. \A n \in DOMAIN code : DOMAIN code[n] = {"op", "arg"}
    BY <1>1 DEF IsCode, IsTable
  <2>2. DOMAIN code' = DOMAIN code
    BY <1>4
  <2>3. ASSUME NEW n \in DOMAIN code
        PROVE  /\ code'[n].op = code[n].op /\ DOMAIN code'[n] = {"op", "arg"}
               /\ \/ code'[n] = code[n]
                  \/ code[n].op = "jmp" /\ code'[n].arg \in Starts(code)
    <3>1. CASE called(n)
      <4>1. code'[n] = I("jmp", functionDefs[reloc(n).func])
        BY <1>4, <3>1
      <4> QED
        BY <1>6, <3>1, <4>1, InstrIs
    <3>2. CASE ~called(n)
      <4>1. code'[n] = code[n]
        BY <1>4, <3>2
      <4> QED
        BY <2>1, <4>1
    <3> QED
      BY <3>1, <3>2
  <2> QED
    BY <2>2, <2>3
<1>8. IsCode(code') /\ Len(code') = Len(code)
  <2>1. Len(code) \in Nat /\ DOMAIN code = 1 .. Len(code)
    BY <1>1, CodeIs
  <2>2. code' = [n \in 1 .. Len(code) |-> code'[n]]
    BY <1>4, <2>1
  <2>3. code' \in Seq(Range(code')) /\ Len(code') = Len(code)
    BY <1>7, <2>1, <2>2 DEF Range
  <2> QED
    BY <1>7, <2>3 DEF IsCode, IsTable
<1>9. \A n \in 0 .. Len(code) : Locations(code')[n] = Locations(code)[n]
  <2>1. Len(code) \in Nat /\ DOMAIN code = 1 .. Len(code)
    BY <1>1, CodeIs
  <2>2. Len(code) <= Len(code') /\ \A k \in 1 .. Len(code) : code'[k].op = code[k].op
    BY <1>7, <1>8, <2>1
  <2> QED
    BY <1>1, <1>8, <2>2, SameLocations
<1>10. /\ End(code') = End(code) /\ Starts(code') = Starts(code)
       /\ \A n \in DOMAIN code : At(code', n) = At(code, n)
  <2>1. Len(code) \in Nat /\ DOMAIN code = 1 .. Len(code)
    BY <1>1, CodeIs
  <2>2. \A n \in DOMAIN code : At(code', n) = At(code, n)
    BY <1>9, <2>1 DEF At
  <2> QED
    BY <1>7, <1>8, <1>9, <2>1, <2>2 DEF Starts, End
<1>11. Layout'
  BY <1>1, <1>4, <1>8, <1>10 DEF Layout
<1>12. \A k : ~Patches(k) /\ ~Awaits(k)
  BY <1>2 DEF Patches, Awaits
<1>13. ASSUME NEW k \in DOMAIN code'
       PROVE  /\ code'[k].op = "push_const" => code'[k].arg \in Taken'
              /\ code'[k].op \in Jumping    => code'[k].arg \in Starts(code')
              /\ code'[k].op = "jmp_false"  => code'[k].arg > At(code', k)
  <2>1. /\ code[k].op = "push_const" => code[k].arg \in Taken
        /\ code[k].op \in Jumping    => code[k].arg \in Starts(code)
        /\ code[k].op = "jmp_false"  => code[k].arg > At(code, k)
    BY <1>2, <1>7, <1>12 DEF AddressesHold, CodeHolds
  <2>2. CASE code'[k] = code[k]
    BY <1>7, <1>10, <2>1, <2>2
  <2>3. CASE code[k].op = "jmp" /\ code'[k].arg \in Starts(code)
    BY <1>7, <1>10, <2>3
  <2> QED
    BY <1>7, <2>2, <2>3
<1>14. ASSUME NEW r \in Range(returnAddresses')
       PROVE  r.address \in Starts(code') \ {0}
  <2>1. PICK k \in DOMAIN returnAddresses : r = returnAddresses[k]
    BY <1>4 DEF Range
  <2> QED
    BY <1>2, <1>10, <1>12, <2>1 DEF AddressesHold, ReturnsHold
<1>15. ASSUME NEW r \in Range(dynamicJumps')
       PROVE  r.address \in Starts(code') \ {0}
  <2>1. PICK k \in DOMAIN dynamicJumps :
          r = [dynamicJumps[k] EXCEPT !.address = functionDefs[dynamicJumps[k].func]]
    BY <1>4 DEF Range
  <2>2. dynamicJumps[k].func \in Wanted
    BY DEF Wanted, Range
  <2>3. DOMAIN dynamicJumps[k] = {"index", "address", "func"}
    BY <1>2 DEF IsTable
  <2>4. r.address = functionDefs[dynamicJumps[k].func]
    BY <2>1, <2>3
  <2> QED
    BY <1>5, <1>10, <2>2, <2>4
<1> QED
  BY <1>11, <1>13, <1>14, <1>15 DEF Complete

-----------------------------------------------------------------------------
(* Every step.                                                             *)
PlainSteps == \/ VisitNode \/ SetFlag \/ EmitStep \/ PushConstantStep
              \/ PushFromStep \/ MoveToStep
              \/ BeginScopeStep \/ EndScopeStep \/ KeepGlobalsStep
Openings   == \/ OpenReturnStep \/ CloseReturnStep \/ CallDefinitionStep
              \/ CallVariableStep \/ LeaveFunctionStep
              \/ PushFunctionStep \/ OpenJumpStep \/ ElseJumpStep \/ CloseJumpStep
              \/ MarkLoopStep \/ CloseLoopStep
Thrown     == \E how \in Failures : Failing(how)

(* A generation that has failed is neither working nor done.               *)
LEMMA ThrownKept == ASSUME JumpInv, PoolInv', Thrown PROVE JumpInv'
<1>1. outcome' \in Failures /\ UNCHANGED <<program, pending>>
  BY DEF Thrown, Failing
<1>2. outcome' # "working" /\ outcome' # "done"
  BY <1>1 DEF Failures
<1> QED
  BY <1>1, <1>2 DEF JumpInv

(* The steps that go on with a function or the root block.                 *)
LEMMA OngoingKept ==
  ASSUME JumpInv, PoolInv', Taken \subseteq Taken', outcome = "working",
         PlainSteps \/ Openings
  PROVE  JumpInv'
<1>1. Ongoing
  BY DEF JumpInv, Ongoing
<1>2. Ongoing'
  <2>1. CASE PlainSteps
    BY <1>1, <2>1, VisitNodeKept, SetFlagKept, EmitKept, PushConstantKept,
       PushFromKept, MoveToKept, BeginScopeKept, EndScopeKept, KeepGlobalsKept
       DEF PlainSteps
  <2>2. CASE Openings
    BY <1>1, <2>2, OpenReturnKept, CloseReturnKept, CallDefinitionKept,
       CallVariableKept, LeaveFunctionKept, PushFunctionKept, OpenJumpKept,
       ElseJumpKept, CloseJumpKept, MarkLoopKept, CloseLoopKept
       DEF Openings
  <2> QED
    BY <2>1, <2>2
<1>3. UNCHANGED <<program, pending, outcome>>
  <2>1. CASE PlainSteps
    BY <2>1 DEF PlainSteps, VisitNode, SetFlag, EmitStep, PushConstantStep,
         PushFromStep, MoveToStep, BeginScopeStep, EndScopeStep, KeepGlobalsStep,
         control
  <2>2. CASE Openings
    BY <2>2 DEF Openings, OpenReturnStep, CloseReturnStep, CallDefinitionStep,
         CallVariableStep, LeaveFunctionStep, PushFunctionStep, OpenJumpStep,
         ElseJumpStep, CloseJumpStep, MarkLoopStep, CloseLoopStep, control
  <2> QED
    BY <2>1, <2>2
<1> QED
  BY <1>2, <1>3 DEF JumpInv, Ongoing

(* The steps that throw or fail an assert.                                 *)
LEMMA FailingSteps ==
  ASSUME JumpInv,
         PopsNothing \/ ScopeUnderflow \/ NoCallee \/ LeaveUnderflow
           \/ ParameterTwice \/ FailStep
  PROVE  Thrown
<1>1. CASE PopsNothing
  BY <1>1 DEF PopsNothing, Thrown, Failures
<1>2. CASE ScopeUnderflow
  BY <1>2 DEF ScopeUnderflow, Thrown, Failures
<1>3. CASE NoCallee
  BY <1>3 DEF NoCallee, Thrown, Failures
<1>4. CASE LeaveUnderflow
  BY <1>4 DEF LeaveUnderflow, Thrown, Failures
<1>6. CASE ParameterTwice
  BY <1>6 DEF ParameterTwice, Thrown, Failures
<1>5. CASE FailStep
  <2>1. Doing("fail") /\ Failing(Task.how)
    BY <1>5 DEF FailStep
  <2>2. Layout /\ Working
    BY <2>1 DEF JumpInv, Doing
  <2>3. IsTask(Task) /\ Task.do = "fail"
    BY <2>1, <2>2, TaskAhead DEF Doing, Task
  <2>4. Task.how \in Failures
    BY <2>3 DEF IsTask
  <2> QED
    BY <2>1, <2>4 DEF Thrown
<1> QED
  BY <1>1, <1>2, <1>3, <1>4, <1>5, <1>6

(* When no function is left the calls get their addresses, and the chunk   *)
(* is done.                                                                *)
LEMMA RelocateKept ==
  ASSUME JumpInv, PoolInv', Taken \subseteq Taken', Relocate PROVE JumpInv'
<1>1. Ongoing
  BY DEF JumpInv, Ongoing, Relocate, Doing
<1>2. CASE Wanted \subseteq DOMAIN functionDefs
  <2>1. outcome' = "done" /\ UNCHANGED <<program, pending>>
    BY <1>2 DEF Relocate
  <2>2. Layout' /\ Complete'
    BY <1>1, <2>1, Relocated
  <2> QED
    BY <2>1, <2>2 DEF JumpInv
<1>3. CASE ~(Wanted \subseteq DOMAIN functionDefs)
  <2>1. Thrown
    BY <1>3 DEF Relocate, Thrown, Failures
  <2> QED
    BY <2>1, ThrownKept
<1> QED
  BY <1>2, <1>3

(* Another function is taken up.                                           *)
LEMMA FunctionKept ==
  ASSUME JumpInv, PoolInv', Taken \subseteq Taken',
         NEW f \in pending, GenerateFunction(f)
  PROVE  JumpInv'
<1>1. Ongoing /\ program \in Programs /\ pending \subseteq DOMAIN program.functions
      /\ outcome = "working"
  BY DEF JumpInv, Ongoing, GenerateFunction, Doing
<1>2. Ongoing'
  BY <1>1, GenerateFunctionKept
<1>3. UNCHANGED <<program, outcome>> /\ pending' \subseteq pending
  BY DEF GenerateFunction
<1> QED
  BY <1>1, <1>2, <1>3 DEF JumpInv, Ongoing

(* Nothing happens.                                                        *)
LEMMA StillKept ==
  ASSUME JumpInv, PoolInv', Taken \subseteq Taken', UNCHANGED genVars PROVE JumpInv'
<1>1. UNCHANGED <<program, code, curLoc, symtabStack, returnAddresses, dynamicJumps,
                  callRelocs, functionDefs, prevStackSize, todo, pending, locals,
                  outcome>>
  BY DEF genVars, scopes, tables, flags, control
<1>2. Layout => Layout'
  BY <1>1 DEF Layout, IsCode, IsTable, End
<1>3. Complete => Complete'
  BY <1>1 DEF Complete, Starts, At
<1>4. Working => Working'
  <2>1. Places(code)' = Places(code) /\ Starts(code)' = Starts(code)
        /\ \A k : At(code, k)' = At(code, k)
    BY <1>1 DEF Places, Starts, At, End
  <2>2. FramesHold => FramesHold'
    BY <1>1, FramesKept
  <2>3. \A k : (Patches(k) => Patches(k)') /\ (Awaits(k) => Awaits(k)')
    BY <1>1 DEF Patches, Awaits, Kind
  <2>4. \A l : IsHeld(l) => IsHeld(l)'
    BY <1>1, <2>1 DEF IsHeld, Kind
  <2>5. LocalsHold => LocalsHold'
    BY <1>1, <2>4 DEF LocalsHold
  <2>6. ASSUME AddressesHold(Places(code)) PROVE AddressesHold(Places(code))'
    <3>1. CodeHolds(Places(code))' /\ ReturnsHold(Places(code))'
      BY <1>1, <2>1, <2>3, <2>6 DEF AddressesHold, CodeHolds, ReturnsHold, Taken, IndicesOf
    <3>2. FunctionsHold(Places(code))'
      BY <1>1, <2>1, <2>6 DEF AddressesHold, FunctionsHold, IsTable
    <3> QED
      BY <3>1, <3>2 DEF AddressesHold
  <2>7. ASSUME AddressesHold(Starts(code)) PROVE AddressesHold(Starts(code))'
    <3>1. CodeHolds(Starts(code))' /\ ReturnsHold(Starts(code))'
      BY <1>1, <2>1, <2>3, <2>7 DEF AddressesHold, CodeHolds, ReturnsHold, Taken, IndicesOf
    <3>2. FunctionsHold(Starts(code))'
      BY <1>1, <2>1, <2>7 DEF AddressesHold, FunctionsHold, IsTable
    <3> QED
      BY <3>1, <3>2 DEF AddressesHold
  <2>8. Inside => Inside'
    <3>1. Left(todo, KindsOf(locals)) => Left(todo, KindsOf(locals))'
      BY <1>1 DEF Left, KindsOf, Kind
    <3> QED
      BY <2>6, <3>1 DEF Inside
  <2>9. Between => Between'
    BY <1>1, <2>7 DEF Between
  <2> QED
    BY <2>2, <2>5, <2>8, <2>9 DEF Working
<1> QED
  BY <1>1, <1>2, <1>3, <1>4 DEF JumpInv

(* The invariant is inductive,                                             *)
LEMMA JumpStep == ASSUME JumpInv, [Next]_genVars PROVE JumpInv'
<1>1. PoolInv' /\ Taken \subseteq Taken'
  BY PoolStep DEF JumpInv
<1>2. CASE PlainSteps \/ Openings
  <2>1. outcome = "working"
    BY <1>2 DEF PlainSteps, VisitNode, SetFlag, EmitStep, PushConstantStep,
         PushFromStep, MoveToStep, BeginScopeStep, EndScopeStep, KeepGlobalsStep,
         Openings, OpenReturnStep, CloseReturnStep, CallDefinitionStep,
         CallVariableStep, LeaveFunctionStep, PushFunctionStep, OpenJumpStep,
         ElseJumpStep, CloseJumpStep, MarkLoopStep, CloseLoopStep, Doing
  <2> QED
    BY <1>1, <1>2, <2>1, OngoingKept
<1>3. CASE PopsNothing \/ ScopeUnderflow \/ NoCallee \/ LeaveUnderflow
             \/ ParameterTwice \/ FailStep
  BY <1>1, <1>3, FailingSteps, ThrownKept
<1>4. CASE \E f \in pending : GenerateFunction(f)
  BY <1>1, <1>4, FunctionKept
<1>5. CASE Relocate
  BY <1>1, <1>5, RelocateKept
<1>6. CASE Finished \/ UNCHANGED genVars
  <2>1. UNCHANGED genVars
    BY <1>6 DEF Finished
  <2> QED
    BY <1>1, <2>1, StillKept
<1> QED
  BY <1>2, <1>3, <1>4, <1>5, <1>6 DEF Next, GenerateStep, PlainSteps, Openings

-----------------------------------------------------------------------------
(* The beginning and the end.                                              *)
LEMMA AllLeft ==
  ASSUME NEW prog \in Programs, NEW a, a = <<>>
  PROVE  Left(AllOf(prog), KindsOf(a))
<1> DEFINE s == IF prog.main = <<>> THEN <<>> ELSE GenerateBlock(Head(prog.main), TRUE)
<1>1. IsFlat(s)
  <2>1. CASE prog.main = <<>>
    BY <2>1, FlatNothing
  <2>2. CASE prog.main # <<>>
    <3>1. prog.main \in Seq(Nodes) /\ \A k \in DOMAIN prog.main :
                                        prog.main[k].node = "statement_block"
      BY TreesAssumption DEF AreTrees, IsProgram, IsOptional
    <3>2. Head(prog.main) = prog.main[1] /\ 1 \in DOMAIN prog.main
          /\ Head(prog.main) \in Nodes
      BY <2>2, <3>1
    <3>3. Head(prog.main).node = "statement_block"
      BY <3>1, <3>2
    <3>4. IsFlat(GenerateBlock(Head(prog.main), TRUE))
      BY <3>2, <3>3, BlockPlan
    <3> QED
      BY <2>2, <3>4
  <2> QED
    BY <2>1, <2>2
<1>2. AllOf(prog) = s \o Closing
  BY DEF AllOf, Closing
<1> HIDE DEF s
<1> QED
  BY <1>1, <1>2, FlatLeft

(* and holds at the beginning: the root block, if there is one, and a ret  *)
(* are left to do.                                                         *)
LEMMA JumpInit == ASSUME Init PROVE JumpInv
<1>1. /\ program \in Programs /\ pending = DOMAIN program.functions
      /\ todo = AllOf(program) /\ outcome = "working"
      /\ code = <<>> /\ curLoc = 0 /\ symtabStack = <<>> /\ returnAddresses = <<>>
      /\ callRelocs = <<>> /\ functionDefs = <<>> /\ prevStackSize = 0 /\ locals = <<>>
  BY DEF Init, Created
<1>2. /\ \A fields : IsTable(<<>>, fields)
      /\ <<>> \in Seq(Range(<<>>)) /\ DOMAIN <<>> = {} /\ Len(<<>>) = 0
  BY DEF IsTable
<1>3. Layout
  BY <1>1, <1>2, FirstLocation DEF Layout, End, IsCode
<1>4. FramesHold /\ LocalsHold
  BY <1>1, <1>2 DEF FramesHold, LocalsHold
<1>5. AddressesHold(Places(code))
  BY <1>1, <1>2 DEF AddressesHold, CodeHolds, ReturnsHold, FunctionsHold
<1>6. Left(todo, KindsOf(locals))
  BY <1>1, AllLeft
<1> QED
  BY <1>1, <1>3, <1>4, <1>5, <1>6, PoolInit DEF JumpInv, Working, Inside

(* A chunk has the instructions where the builder placed them.             *)
LEMMA AssembleIs ==
  ASSUME NEW c, IsCode(c), NEW pool, NEW ch, ch = Assemble(c, pool)
  PROVE  /\ DOMAIN ch.code = Starts(c) /\ ch.size = End(c) /\ ch.pool = pool
         /\ \A k \in DOMAIN c : ch.code[At(c, k)] = c[k]
<1> DEFINE placed == {[at |-> Locations(c)[n - 1], instr |-> c[n]] : n \in DOMAIN c}
<1>1. /\ ch.code = [a \in {p.at : p \in placed} |->
                      (CHOOSE p \in placed : p.at = a).instr]
      /\ ch.size = End(c) /\ ch.pool = pool
  BY DEF Assemble, End
<1>2. \A p \in placed : \E n \in DOMAIN c : p.at = At(c, n) /\ p.instr = c[n]
  BY DEF At
<1>3. ASSUME NEW n \in DOMAIN c
      PROVE  \E p \in placed : p.at = At(c, n) /\ p.instr = c[n]
  <2> DEFINE q == [at |-> Locations(c)[n - 1], instr |-> c[n]]
  <2>1. q \in placed /\ q.at = At(c, n) /\ q.instr = c[n]
    BY DEF At
  <2> HIDE DEF q, placed
  <2> QED
    BY <2>1
<1> HIDE DEF placed
<1>4. {p.at : p \in placed} = Starts(c)
  BY <1>2, <1>3 DEF Starts
<1>5. ASSUME NEW k \in DOMAIN c PROVE ch.code[At(c, k)] = c[k]
  <2>1. At(c, k) \in {p.at : p \in placed}
    BY <1>4 DEF Starts
  <2>2. PICK q \in placed : q = CHOOSE p \in placed : p.at = At(c, k)
    BY <1>3
  <2>3. q.at = At(c, k)
    BY <1>3, <2>2
  <2>4. q.instr = c[k]
    BY <1>2, <2>3, PlacesAre
  <2> QED
    BY <1>1, <2>1, <2>2, <2>4
<1> QED
  BY <1>1, <1>4, <1>5

(* The invariant is enough.                                                *)
LEMMA JumpsDo == ASSUME JumpInv PROVE JumpsLand
<1> SUFFICES ASSUME outcome = "done" PROVE JumpsLand
  BY DEF JumpsLand
<1>1. Layout /\ Complete /\ PoolInv
  BY DEF JumpInv
<1>2. PICK ch : ch = Chunk
  OBVIOUS
<1>3. /\ DOMAIN ch.code = Starts(code) /\ ch.size = End(code) /\ ch.pool = Pool
      /\ \A k \in DOMAIN code : ch.code[At(code, k)] = code[k]
  BY <1>1, <1>2, AssembleIs DEF Chunk, Layout
<1>4. Len(ch.pool) = CurrentConstantIndex /\ CurrentConstantIndex \in Nat
  <2>1. CurrentConstantIndex \in Nat
    BY <1>1, CounterType DEF PoolInv
  <2> QED
    BY <1>3, <2>1 DEF Pool
<1>5. \A i \in Taken : i < Len(ch.pool)
  BY <1>1, <1>4 DEF PoolInv
<1>6. ASSUME NEW a \in Starts(code)
      PROVE  /\ ch.code[a].op \in {"jmp", "jmp_false", "jmp_true"}
                  => ch.code[a].arg \in Starts(code)
             /\ ch.code[a].op = "jmp_false" => ch.code[a].arg > a
             /\ ch.code[a].op = "push_const" => ch.code[a].arg < Len(ch.pool)
  <2>1. PICK k \in DOMAIN code : a = At(code, k)
    BY DEF Starts
  <2>2. ch.code[a] = code[k]
    BY <1>3, <2>1
  <2> QED
    BY <1>1, <1>5, <2>1, <2>2 DEF Complete, Jumping
<1>7. \A r \in Range(returnAddresses) \cup Range(dynamicJumps) :
        r.address \in Starts(code) \ {0}
  BY <1>1 DEF Complete
<1>8. ch.size = curLoc
  BY <1>1, <1>3 DEF Layout
<1> QED
  BY <1>2, <1>3, <1>6, <1>7, <1>8 DEF JumpsLand

(* Every forward reference of a finished chunk is resolved, whatever the   *)
(* programs: to_chunk is reached only when each jump, return address and   *)
(* function address has become the start of an instruction, each branch    *)
(* goes forward, and each constant an instruction names is in the pool.    *)
THEOREM JumpsAlwaysLand == Spec => []JumpsLand
<1>1. Init => JumpInv
  BY JumpInit
<1>2. JumpInv /\ [Next]_genVars => JumpInv'
  BY JumpStep
<1>3. JumpInv => JumpsLand
  BY JumpsDo
<1> QED
  BY <1>1, <1>2, <1>3, PTL DEF Spec
=============================================================================
