-------------------------- MODULE RegAllocatorProofs --------------------------
(***************************************************************************)
(* Proofs about RegAllocator, for every number of parameters, locals and   *)
(* temporaries, every function body that the actions generate and all      *)
(* levels of operands.                                                     *)
(*                                                                         *)
(*  - NInv: what the code generator holds and has written into the         *)
(*    instructions are temporaries of the pool (RegisterPoolProofs).       *)
(*  - CInv: numberVirtualRegs, undone construct by construct, gives        *)
(*    every register one number and no two the same.  Hence                *)
(*    RegistersNumbered.                                                   *)
(*  - AInv: the allocator's spill registers and what it has emitted, from  *)
(*    the registers that an adjusted instruction needs at most.  Hence     *)
(*    TmpAlwaysFound and OutputFits.                                       *)
(*  - SInv: what has been emitted simulates what it was made from, from    *)
(*    whatever values the registers begin with; each action is shown to    *)
(*    put out code that does what its instruction does (Does).  Hence      *)
(*    FunctionKept.                                                        *)
(*                                                                         *)
(* Two hypotheses.  RestTargets \subseteq {"binding"}: no rest element is  *)
(* assigned to a member expression, which is what reorders the temporaries *)
(* (see RegisterPool).  4 <= LevelB, 256 in the code: the registers that   *)
(* an instruction without a range names, and as many temporaries, fit.     *)
(***************************************************************************)
EXTENDS RegisterPoolProofs, InductionLemmas

-----------------------------------------------------------------------------
(* Executions.                                                             *)

Begun(start) == [reg |-> start, trace |-> <<>>]

(* The execution of the virtual instructions, one by one.                     *)
StepV(s, insn) == Executed(s, insn, ReadsVirtual(insn, s.reg))
RunV(program, start) == RunOf(program, start, ReadsVirtual)
PartV(f, program, start, i) ==
  IF i = 0 THEN Begun(start) ELSE StepV(f[i - 1], program[i])
ListV(f, program, start, n) ==
  f = [i \in 0 .. n |-> PartV(f, program, start, i)]

(* The equation for one of them.                                           *)
LEMMA ListVStep ==
  ASSUME NEW f, NEW program, NEW start, NEW n, ListV(f, program, start, n)
  PROVE  \A i \in 0 .. n : f[i] = PartV(f, program, start, i)
BY Zenon DEF ListV

(* There is such an execution.                                             *)
LEMMA ListVExists ==
  ASSUME NEW program, NEW start
  PROVE  \A n \in Nat : \E f : ListV(f, program, start, n)
<1> DEFINE S == {n \in Nat : \E f : ListV(f, program, start, n)}
<1>1. 0 \in S
  <2>1. PICK f : f = [i \in 0 .. 0 |-> Begun(start)]
    OBVIOUS
  <2>2. \A i \in 0 .. 0 : PartV(f, program, start, i) = Begun(start)
    BY DEF PartV
  <2>3. PICK h : h = [i \in 0 .. 0 |-> PartV(f, program, start, i)]
    OBVIOUS
  <2>4. h = f
    BY <2>1, <2>2, <2>3
  <2>5. ListV(f, program, start, 0)
    BY <2>3, <2>4 DEF ListV
  <2> QED
    BY <2>5
<1>2. ASSUME NEW n \in Nat, n \in S
      PROVE  n + 1 \in S
  <2>1. PICK f : ListV(f, program, start, n)
    BY <1>2
  <2>2. PICK g : g = [i \in 0 .. n + 1 |->
                        IF i <= n THEN f[i] ELSE PartV(f, program, start, i)]
    OBVIOUS
  <2>3. \A i \in 0 .. n : g[i] = f[i]
    BY <2>2
  <2>4. ASSUME NEW i \in 0 .. n + 1
        PROVE  g[i] = PartV(g, program, start, i)
    <3>1. i # 0 => g[i - 1] = f[i - 1]
      BY <2>3
    <3>2. PartV(g, program, start, i) = PartV(f, program, start, i)
      BY <3>1 DEF PartV
    <3>3. CASE i <= n
      <4>1. f[i] = PartV(f, program, start, i)
        BY <2>1, <3>3, ListVStep
      <4> QED
        BY <2>3, <3>2, <3>3, <4>1
    <3>4. CASE i = n + 1
      BY <2>2, <3>2, <3>4
    <3> QED
      BY <3>3, <3>4
  <2>5. PICK h : h = [i \in 0 .. n + 1 |-> PartV(g, program, start, i)]
    OBVIOUS
  <2>6. g = [i \in 0 .. n + 1 |-> g[i]] /\ h = [i \in 0 .. n + 1 |-> h[i]]
        /\ \A i \in 0 .. n + 1 : h[i] = g[i]
    BY <2>2, <2>4, <2>5
  <2>7. g = h
    BY <2>6
  <2>8. ListV(g, program, start, n + 1)
    BY <2>5, <2>7 DEF ListV
  <2> QED
    BY <2>8
<1> HIDE DEF S
<1>3. S = Nat
  <2>1. S \in SUBSET Nat
    BY DEF S
  <2> QED
    BY <1>1, <1>2, <2>1, SetInduction
<1> QED
  BY <1>3 DEF S

(* RunOf is its end.                                                       *)
LEMMA RunVIsList ==
  ASSUME NEW program, NEW start, Len(program) \in Nat
  PROVE  \E f : /\ ListV(f, program, start, Len(program))
                /\ RunV(program, start) = f[Len(program)]
<1> DEFINE P(f) == f = [i \in 0 .. Len(program) |->
                         IF i = 0 THEN [reg |-> start, trace |-> <<>>]
                         ELSE Executed(f[i - 1], program[i],
                                       ReadsVirtual(program[i], f[i - 1].reg))]
<1>1. \E f : P(f)
  <2>1. PICK f : ListV(f, program, start, Len(program))
    BY ListVExists
  <2>2. P(f)
    BY <2>1, Zenon DEF ListV, PartV, Begun, StepV
  <2> QED
    BY <2>2, Zenon
<1>2. P(CHOOSE f : P(f))
  BY <1>1, Zenon
<1>3. RunV(program, start) = (CHOOSE f : P(f))[Len(program)]
  BY Zenon DEF RunV, RunOf
<1> DEFINE f == CHOOSE f : P(f)
<1>4. P(f)
  BY <1>2
<1>5. RunV(program, start) = f[Len(program)]
  BY <1>3
<1> HIDE DEF f
<1>6. ListV(f, program, start, Len(program))
  BY <1>4, Zenon DEF ListV, PartV, Begun, StepV
<1> QED
  BY <1>5, <1>6, Zenon

(* Nothing is executed,                                                    *)
LEMMA RunVEmpty ==
  ASSUME NEW start
  PROVE  RunV(<<>>, start) = Begun(start)
<1>1. PICK f : ListV(f, <<>>, start, 0) /\ RunV(<<>>, start) = f[0]
  <2>1. Len(<<>>) = 0
    OBVIOUS
  <2> QED
    BY <2>1, RunVIsList
<1>2. f[0] = PartV(f, <<>>, start, 0)
  BY <1>1, ListVStep
<1> QED
  BY <1>1, <1>2 DEF PartV

(* or an instruction more.                                                 *)
LEMMA RunVAppend ==
  ASSUME NEW S, NEW p \in Seq(S), NEW x \in S, NEW start
  PROVE  RunV(Append(p, x), start) = StepV(RunV(p, start), x)
<1> DEFINE q == Append(p, x)
           n == Len(p)
<1>1. /\ n \in Nat /\ Len(q) = n + 1
      /\ \A i \in 1 .. n : q[i] = p[i]
      /\ q[n + 1] = x
  BY LenProperties, AppendProperties
<1> HIDE DEF q, n
<1>2. PICK f : ListV(f, p, start, n) /\ RunV(p, start) = f[n]
  BY <1>1, RunVIsList DEF n
<1>3. PICK g : ListV(g, q, start, n + 1) /\ RunV(q, start) = g[n + 1]
  <2>1. Len(q) \in Nat
    BY <1>1
  <2> QED
    BY <1>1, <2>1, RunVIsList
<1> DEFINE A == {i \in Nat : i <= n => f[i] = g[i]}
<1>4. 0 \in A
  <2>1. f[0] = PartV(f, p, start, 0) /\ g[0] = PartV(g, q, start, 0)
    <3>1. 0 \in 0 .. n /\ 0 \in 0 .. n + 1
      BY <1>1
    <3> QED
      BY <1>2, <1>3, <3>1, ListVStep
  <2> QED
    BY <2>1 DEF PartV
<1>5. ASSUME NEW i \in Nat, i \in A
      PROVE  i + 1 \in A
  <2> SUFFICES ASSUME i + 1 <= n
               PROVE  f[i + 1] = g[i + 1]
    OBVIOUS
  <2>1. /\ i + 1 \in 0 .. n /\ i + 1 \in 0 .. n + 1 /\ i + 1 # 0
        /\ i + 1 - 1 = i /\ i <= n /\ i + 1 \in 1 .. n
    BY <1>1
  <2>2. f[i + 1] = PartV(f, p, start, i + 1) /\ g[i + 1] = PartV(g, q, start, i + 1)
    BY <1>2, <1>3, <2>1, ListVStep
  <2>3. f[i] = g[i] /\ p[i + 1] = q[i + 1]
    BY <1>1, <1>5, <2>1
  <2> QED
    BY <2>1, <2>2, <2>3 DEF PartV
<1> HIDE DEF A
<1>6. A = Nat
  <2>1. A \in SUBSET Nat
    BY DEF A
  <2> QED
    BY <1>4, <1>5, <2>1, SetInduction
<1>7. f[n] = g[n]
  BY <1>1, <1>6 DEF A
<1>8. g[n + 1] = StepV(g[n], x)
  <2>1. n + 1 \in 0 .. n + 1 /\ n + 1 # 0 /\ n + 1 - 1 = n
    BY <1>1
  <2>2. g[n + 1] = PartV(g, q, start, n + 1)
    BY <1>3, <2>1, ListVStep
  <2> QED
    BY <1>1, <2>1, <2>2 DEF PartV
<1> QED
  BY <1>2, <1>3, <1>7, <1>8 DEF q

(* The execution of numbered instructions, one by one.                     *)
StepN(s, insn) == Executed(s, insn, ReadsNumbered(insn, s.reg))
RunN(program, start) == RunOf(program, start, ReadsNumbered)
PartN(f, program, start, i) ==
  IF i = 0 THEN Begun(start) ELSE StepN(f[i - 1], program[i])
ListN(f, program, start, n) ==
  f = [i \in 0 .. n |-> PartN(f, program, start, i)]

(* The equation for one of them.                                           *)
LEMMA ListNStep ==
  ASSUME NEW f, NEW program, NEW start, NEW n, ListN(f, program, start, n)
  PROVE  \A i \in 0 .. n : f[i] = PartN(f, program, start, i)
BY Zenon DEF ListN

(* There is such an execution.                                             *)
LEMMA ListNExists ==
  ASSUME NEW program, NEW start
  PROVE  \A n \in Nat : \E f : ListN(f, program, start, n)
<1> DEFINE S == {n \in Nat : \E f : ListN(f, program, start, n)}
<1>1. 0 \in S
  <2>1. PICK f : f = [i \in 0 .. 0 |-> Begun(start)]
    OBVIOUS
  <2>2. \A i \in 0 .. 0 : PartN(f, program, start, i) = Begun(start)
    BY DEF PartN
  <2>3. PICK h : h = [i \in 0 .. 0 |-> PartN(f, program, start, i)]
    OBVIOUS
  <2>4. h = f
    BY <2>1, <2>2, <2>3
  <2>5. ListN(f, program, start, 0)
    BY <2>3, <2>4 DEF ListN
  <2> QED
    BY <2>5
<1>2. ASSUME NEW n \in Nat, n \in S
      PROVE  n + 1 \in S
  <2>1. PICK f : ListN(f, program, start, n)
    BY <1>2
  <2>2. PICK g : g = [i \in 0 .. n + 1 |->
                        IF i <= n THEN f[i] ELSE PartN(f, program, start, i)]
    OBVIOUS
  <2>3. \A i \in 0 .. n : g[i] = f[i]
    BY <2>2
  <2>4. ASSUME NEW i \in 0 .. n + 1
        PROVE  g[i] = PartN(g, program, start, i)
    <3>1. i # 0 => g[i - 1] = f[i - 1]
      BY <2>3
    <3>2. PartN(g, program, start, i) = PartN(f, program, start, i)
      BY <3>1 DEF PartN
    <3>3. CASE i <= n
      <4>1. f[i] = PartN(f, program, start, i)
        BY <2>1, <3>3, ListNStep
      <4> QED
        BY <2>3, <3>2, <3>3, <4>1
    <3>4. CASE i = n + 1
      BY <2>2, <3>2, <3>4
    <3> QED
      BY <3>3, <3>4
  <2>5. PICK h : h = [i \in 0 .. n + 1 |-> PartN(g, program, start, i)]
    OBVIOUS
  <2>6. g = [i \in 0 .. n + 1 |-> g[i]] /\ h = [i \in 0 .. n + 1 |-> h[i]]
        /\ \A i \in 0 .. n + 1 : h[i] = g[i]
    BY <2>2, <2>4, <2>5
  <2>7. g = h
    BY <2>6
  <2>8. ListN(g, program, start, n + 1)
    BY <2>5, <2>7 DEF ListN
  <2> QED
    BY <2>8
<1> HIDE DEF S
<1>3. S = Nat
  <2>1. S \in SUBSET Nat
    BY DEF S
  <2> QED
    BY <1>1, <1>2, <2>1, SetInduction
<1> QED
  BY <1>3 DEF S

(* RunOf is its end.                                                       *)
LEMMA RunNIsList ==
  ASSUME NEW program, NEW start, Len(program) \in Nat
  PROVE  \E f : /\ ListN(f, program, start, Len(program))
                /\ RunN(program, start) = f[Len(program)]
<1> DEFINE P(f) == f = [i \in 0 .. Len(program) |->
                         IF i = 0 THEN [reg |-> start, trace |-> <<>>]
                         ELSE Executed(f[i - 1], program[i],
                                       ReadsNumbered(program[i], f[i - 1].reg))]
<1>1. \E f : P(f)
  <2>1. PICK f : ListN(f, program, start, Len(program))
    BY ListNExists
  <2>2. P(f)
    BY <2>1, Zenon DEF ListN, PartN, Begun, StepN
  <2> QED
    BY <2>2, Zenon
<1>2. P(CHOOSE f : P(f))
  BY <1>1, Zenon
<1>3. RunN(program, start) = (CHOOSE f : P(f))[Len(program)]
  BY Zenon DEF RunN, RunOf
<1> DEFINE f == CHOOSE f : P(f)
<1>4. P(f)
  BY <1>2
<1>5. RunN(program, start) = f[Len(program)]
  BY <1>3
<1> HIDE DEF f
<1>6. ListN(f, program, start, Len(program))
  BY <1>4, Zenon DEF ListN, PartN, Begun, StepN
<1> QED
  BY <1>5, <1>6, Zenon

(* Nothing is executed,                                                    *)
LEMMA RunNEmpty ==
  ASSUME NEW start
  PROVE  RunN(<<>>, start) = Begun(start)
<1>1. PICK f : ListN(f, <<>>, start, 0) /\ RunN(<<>>, start) = f[0]
  <2>1. Len(<<>>) = 0
    OBVIOUS
  <2> QED
    BY <2>1, RunNIsList
<1>2. f[0] = PartN(f, <<>>, start, 0)
  BY <1>1, ListNStep
<1> QED
  BY <1>1, <1>2 DEF PartN

(* or an instruction more.                                                 *)
LEMMA RunNAppend ==
  ASSUME NEW S, NEW p \in Seq(S), NEW x \in S, NEW start
  PROVE  RunN(Append(p, x), start) = StepN(RunN(p, start), x)
<1> DEFINE q == Append(p, x)
           n == Len(p)
<1>1. /\ n \in Nat /\ Len(q) = n + 1
      /\ \A i \in 1 .. n : q[i] = p[i]
      /\ q[n + 1] = x
  BY LenProperties, AppendProperties
<1> HIDE DEF q, n
<1>2. PICK f : ListN(f, p, start, n) /\ RunN(p, start) = f[n]
  BY <1>1, RunNIsList DEF n
<1>3. PICK g : ListN(g, q, start, n + 1) /\ RunN(q, start) = g[n + 1]
  <2>1. Len(q) \in Nat
    BY <1>1
  <2> QED
    BY <1>1, <2>1, RunNIsList
<1> DEFINE A == {i \in Nat : i <= n => f[i] = g[i]}
<1>4. 0 \in A
  <2>1. f[0] = PartN(f, p, start, 0) /\ g[0] = PartN(g, q, start, 0)
    <3>1. 0 \in 0 .. n /\ 0 \in 0 .. n + 1
      BY <1>1
    <3> QED
      BY <1>2, <1>3, <3>1, ListNStep
  <2> QED
    BY <2>1 DEF PartN
<1>5. ASSUME NEW i \in Nat, i \in A
      PROVE  i + 1 \in A
  <2> SUFFICES ASSUME i + 1 <= n
               PROVE  f[i + 1] = g[i + 1]
    OBVIOUS
  <2>1. /\ i + 1 \in 0 .. n /\ i + 1 \in 0 .. n + 1 /\ i + 1 # 0
        /\ i + 1 - 1 = i /\ i <= n /\ i + 1 \in 1 .. n
    BY <1>1
  <2>2. f[i + 1] = PartN(f, p, start, i + 1) /\ g[i + 1] = PartN(g, q, start, i + 1)
    BY <1>2, <1>3, <2>1, ListNStep
  <2>3. f[i] = g[i] /\ p[i + 1] = q[i + 1]
    BY <1>1, <1>5, <2>1
  <2> QED
    BY <2>1, <2>2, <2>3 DEF PartN
<1> HIDE DEF A
<1>6. A = Nat
  <2>1. A \in SUBSET Nat
    BY DEF A
  <2> QED
    BY <1>4, <1>5, <2>1, SetInduction
<1>7. f[n] = g[n]
  BY <1>1, <1>6 DEF A
<1>8. g[n + 1] = StepN(g[n], x)
  <2>1. n + 1 \in 0 .. n + 1 /\ n + 1 # 0 /\ n + 1 - 1 = n
    BY <1>1
  <2>2. g[n + 1] = PartN(g, q, start, n + 1)
    BY <1>3, <2>1, ListNStep
  <2> QED
    BY <1>1, <2>1, <2>2 DEF PartN
<1> QED
  BY <1>2, <1>3, <1>7, <1>8 DEF q

(* What has left no trace yet, and then the rest.                          *)
LEMMA RunNConcat ==
  ASSUME NEW S, NEW p \in Seq(S), NEW q \in Seq(S), NEW start, NEW reg,
         RunN(p, start) = Begun(reg)
  PROVE  RunN(p \o q, start) = RunN(q, reg)
<1> DEFINE A == {m \in Nat : m <= Len(q) =>
                   RunN(p \o SubSeq(q, 1, m), start) = RunN(SubSeq(q, 1, m), reg)}
<1>0. Len(q) \in Nat
  BY LenProperties
<1>1. 0 \in A
  <2>1. SubSeq(q, 1, 0) = <<>> /\ p \o <<>> = p
    BY Beginnings, ConcatEmptySeq
  <2> QED
    BY <2>1, RunNEmpty
<1>2. ASSUME NEW m \in Nat, m \in A
      PROVE  m + 1 \in A
  <2> SUFFICES ASSUME m + 1 <= Len(q)
               PROVE  RunN(p \o SubSeq(q, 1, m + 1), start)
                        = RunN(SubSeq(q, 1, m + 1), reg)
    OBVIOUS
  <2> DEFINE a == SubSeq(q, 1, m)
  <2>1. /\ m \in 0 .. Len(q) - 1 /\ m <= Len(q)
    BY <1>0
  <2>2. /\ a \in Seq(S) /\ q[m + 1] \in S
        /\ SubSeq(q, 1, m + 1) = Append(a, q[m + 1])
    BY <2>1, Beginnings
  <2>3. RunN(p \o a, start) = RunN(a, reg)
    BY <1>2, <2>1
  <2> HIDE DEF a
  <2>4. p \o a \in Seq(S) /\ p \o Append(a, q[m + 1]) = Append(p \o a, q[m + 1])
    BY <2>2, ConcatProperties, ConcatAppend
  <2>5. /\ RunN(Append(p \o a, q[m + 1]), start) = StepN(RunN(p \o a, start), q[m + 1])
        /\ RunN(Append(a, q[m + 1]), reg) = StepN(RunN(a, reg), q[m + 1])
    BY <2>2, <2>4, RunNAppend
  <2> QED
    BY <2>2, <2>3, <2>4, <2>5
<1> HIDE DEF A
<1>3. A = Nat
  <2>1. A \in SUBSET Nat
    BY DEF A
  <2> QED
    BY <1>1, <1>2, <2>1, SetInduction
<1>4. SubSeq(q, 1, Len(q)) = q
  BY Beginnings
<1>5. Len(q) \in A /\ Len(q) <= Len(q)
  BY <1>0, <1>3
<1>6. RunN(p \o SubSeq(q, 1, Len(q)), start) = RunN(SubSeq(q, 1, Len(q)), reg)
  BY <1>5 DEF A
<1> QED
  BY <1>4, <1>6

-----------------------------------------------------------------------------
(* The i-th element of a set of numbers.                                   *)

Below(S, r) == {q \in S : q <= r}

(* Each element has a rank of its own, and each rank its element.          *)
LEMMA Ranks ==
  ASSUME NEW S \in SUBSET Nat, IsFiniteSet(S)
  PROVE  /\ Cardinality(S) \in Nat
         /\ \A r \in S : Cardinality(Below(S, r)) \in 1 .. Cardinality(S)
         /\ \A r, t \in S :
              Cardinality(Below(S, r)) = Cardinality(Below(S, t)) => r = t
         /\ \A i \in 1 .. Cardinality(S) :
              \E r \in S : Cardinality(Below(S, r)) = i
<1> DEFINE n == Cardinality(S)
           f == [r \in S |-> Cardinality(Below(S, r))]
<1>0. \A q \in S : q \in Nat
  OBVIOUS
<1>1. n \in Nat
  BY FS_CardinalityType
<1>2. ASSUME NEW r \in S
      PROVE  /\ IsFiniteSet(Below(S, r))
             /\ Cardinality(Below(S, r)) \in 1 .. n
  <2>1. Below(S, r) \in SUBSET S /\ r \in Below(S, r)
    BY DEF Below
  <2>2. IsFiniteSet(Below(S, r)) /\ Cardinality(Below(S, r)) <= n
    BY <2>1, FS_Subset
  <2>3. Cardinality(Below(S, r)) \in Nat
    BY <2>2, FS_CardinalityType
  <2>4. Cardinality(Below(S, r)) # 0
    BY <2>1, <2>2, FS_EmptySet
  <2> QED
    BY <1>1, <2>2, <2>3, <2>4
<1>3. ASSUME NEW r \in S, NEW t \in S, r < t
      PROVE  Cardinality(Below(S, r)) # Cardinality(Below(S, t))
  <2>1. Below(S, r) \in SUBSET Below(S, t)
    <3>1. \A q \in S : q <= r => q <= t
      BY <1>0, <1>3
    <3> QED
      BY <3>1 DEF Below
  <2>2. t \in Below(S, t) /\ t \notin Below(S, r)
    BY <1>3 DEF Below
  <2> QED
    BY <1>2, <2>1, <2>2, FS_Subset
<1>4. \A r, t \in S : Cardinality(Below(S, r)) = Cardinality(Below(S, t)) => r = t
  <2>1. \A r, t \in S : r < t \/ t < r \/ r = t
    OBVIOUS
  <2> QED
    BY <1>3, <2>1
<1>5. f \in Injection(S, 1 .. n)
  <2>1. f \in [S -> 1 .. n]
    BY <1>2
  <2>2. \A r, t \in S : f[r] = f[t] => r = t
    BY <1>4
  <2> QED
    BY <2>1, <2>2 DEF Injection, IsInjective
<1>6. IsFiniteSet(1 .. n) /\ Cardinality(1 .. n) = n
  <2> HIDE DEF n
  <2>1. Cardinality(1 .. n) = IF 1 > n THEN 0 ELSE n - 1 + 1
    BY <1>1, FS_Interval
  <2> QED
    BY <1>1, <2>1, FS_Interval
<1>7. f \in Surjection(S, 1 .. n)
  <2> HIDE DEF f
  <2> QED
    BY <1>5, <1>6, FS_Injection
<1>8. \A i \in 1 .. n : \E r \in S : f[r] = i
  BY <1>7 DEF Surjection
<1> QED
  BY <1>1, <1>2, <1>4, <1>8

(* Smallest finds it.                                                      *)
LEMMA SmallestRank ==
  ASSUME NEW S \in SUBSET Nat, IsFiniteSet(S)
  PROVE  /\ \A i \in 1 .. Cardinality(S) :
              /\ Smallest(S, i) \in S
              /\ Cardinality(Below(S, Smallest(S, i))) = i
         /\ \A r \in S : Smallest(S, Cardinality(Below(S, r))) = r
<1>1. \A i : Smallest(S, i) = CHOOSE r \in S : Cardinality(Below(S, r)) = i
  BY DEF Smallest, Below
<1>2. ASSUME NEW i \in 1 .. Cardinality(S)
      PROVE  /\ Smallest(S, i) \in S
             /\ Cardinality(Below(S, Smallest(S, i))) = i
  <2>1. \E r \in S : Cardinality(Below(S, r)) = i
    BY Ranks
  <2> QED
    BY <1>1, <2>1
<1>3. ASSUME NEW r \in S
      PROVE  Smallest(S, Cardinality(Below(S, r))) = r
  <2>1. Cardinality(Below(S, r)) \in 1 .. Cardinality(S)
    BY Ranks
  <2> DEFINE i == Cardinality(Below(S, r))
             t == Smallest(S, i)
  <2>2. t \in S /\ Cardinality(Below(S, t)) = Cardinality(Below(S, r))
    BY <1>2, <2>1
  <2> HIDE DEF t, i
  <2>3. \A a, b \in S : Cardinality(Below(S, a)) = Cardinality(Below(S, b)) => a = b
    BY Ranks
  <2>4. t = r
    BY <2>2, <2>3
  <2> QED
    BY <2>4 DEF t, i
<1> QED
  BY <1>2, <1>3

(* The elements of a beginning of the numbers are counted by their ranks.  *)
LEMMA RankInList ==
  ASSUME NEW n \in Nat, NEW S \in SUBSET (1 .. n), NEW r \in 1 .. n
  PROVE  S \cap (1 .. r) = Below(S, r)
<1>1. \A q \in S : q \in 1 .. r <=> q <= r
  OBVIOUS
<1> QED
  BY <1>1 DEF Below

(* The smallest is 0 if 0 is there.                                        *)
LEMMA SmallestZero ==
  ASSUME NEW S \in SUBSET Nat, IsFiniteSet(S), 0 \in S
  PROVE  Smallest(S, 1) = 0
<1>1. Below(S, 0) = {0}
  <2>1. \A q \in S : q <= 0 <=> q = 0
    OBVIOUS
  <2> QED
    BY <2>1 DEF Below
<1>2. Cardinality(Below(S, 0)) = 1
  BY <1>1, FS_Singleton
<1> QED
  BY <1>2, SmallestRank

-----------------------------------------------------------------------------
(* The registers that instructions name.                                   *)

(* Locals, temporary registers and caches that get a number.               *)
UsedLocals == {i \in Range(locals) : i <= Hidden => i \in callOpt}
KnownRegs ==
  {Local(i) : i \in UsedLocals} \cup {Temp(i) : i \in 1 .. pool.made}
    \cup {Cache(c) : c \in needed}

(* Instructions as they are generated, with registers of W.                *)
OneReg   == {"sta", "lda"}
Shape(x) ==
  /\ x.op \in {"sta", "lda", "use", "mov", "range", "keys", "super"}
  /\ x.op # "super" => x.args = x.regs
  /\ x.op \in OneReg => Len(x.regs) = 1
  /\ x.op = "mov" => Len(x.regs) = 2
  /\ x.op = "use" => Len(x.regs) \in 1 .. 4
  /\ x.op = "range" => Len(x.regs) >= 1
  /\ x.op = "keys" =>
       /\ Len(x.regs) >= 2
       /\ \E a \in Nat : /\ x.regs[1] = Temp(a)
                         /\ x.regs[2] \in {Temp(a + 1), Temp(a + 2)}
  /\ x.op = "super" =>
       Len(x.regs) = 1 /\ (Len(x.args) >= 1 => x.regs[1] = x.args[1])
Named(x, W) == x.regs \in Seq(W) /\ x.args \in Seq(W) /\ Shape(x)
NamedBy(ins, W) == \E S : ins \in Seq(S) /\ \A x \in S : Named(x, W)

(* Instructions that are put together, and name more registers.            *)
LEMMA NamedConcat ==
  ASSUME NEW a, NEW b, NEW W, NEW V, V \subseteq W, NamedBy(a, V), NamedBy(b, W)
  PROVE  NamedBy(a \o b, W)
<1>1. PICK S : a \in Seq(S) /\ \A x \in S : Named(x, V)
  BY DEF NamedBy
<1>2. PICK U : b \in Seq(U) /\ \A x \in U : Named(x, W)
  BY DEF NamedBy
<1>3. ASSUME NEW x, Named(x, V)
      PROVE  Named(x, W)
  <2>1. x.regs \in Seq(V) /\ x.args \in Seq(V) /\ Shape(x)
    BY <1>3 DEF Named
  <2>2. x.regs \in Seq(W) /\ x.args \in Seq(W)
    BY <2>1, SeqMonotonic
  <2> QED
    BY <2>1, <2>2 DEF Named
<1>4. a \in Seq(S \cup U) /\ b \in Seq(S \cup U)
  BY <1>1, <1>2
<1>5. a \o b \in Seq(S \cup U)
  BY <1>4, ConcatProperties
<1> QED
  BY <1>1, <1>2, <1>3, <1>5 DEF NamedBy

(* A few instructions.                                                     *)
LEMMA NamedCode ==
  ASSUME NEW W
  PROVE  /\ NamedBy(<<>>, W)
         /\ \A x : Named(x, W) => NamedBy(<<x>>, W)
         /\ \A x, y : Named(x, W) /\ Named(y, W) => NamedBy(<<x, y>>, W)
         /\ \A x, y, z : Named(x, W) /\ Named(y, W) /\ Named(z, W) =>
                           NamedBy(<<x, y, z>>, W)
         /\ \A x, y, z, u, v :
              Named(x, W) /\ Named(y, W) /\ Named(z, W) /\ Named(u, W) /\ Named(v, W) =>
                NamedBy(<<x, y, z, u, v>>, W)
<1>1. ASSUME NEW U, NEW more, more \in Seq(U), \A x \in U : Named(x, W)
      PROVE  NamedBy(more, W)
  BY <1>1 DEF NamedBy
<1>2. NamedBy(<<>>, W)
  <2>1. PICK U, more : U = {} /\ more = <<>>
    OBVIOUS
  <2>2. more \in Seq(U) /\ \A w \in U : Named(w, W)
    BY <2>1
  <2> QED
    BY <1>1, <2>1, <2>2
<1>3. ASSUME NEW x, Named(x, W)
      PROVE  NamedBy(<<x>>, W)
  <2>1. PICK U, more : U = {x} /\ more = <<x>>
    OBVIOUS
  <2>2. more \in Seq(U) /\ \A w \in U : Named(w, W)
    BY <1>3, <2>1
  <2> QED
    BY <1>1, <2>1, <2>2
<1>4. ASSUME NEW x, NEW y, Named(x, W), Named(y, W)
      PROVE  NamedBy(<<x, y>>, W)
  <2>1. PICK U, more : U = {x, y} /\ more = <<x, y>>
    OBVIOUS
  <2>2. more \in Seq(U) /\ \A w \in U : Named(w, W)
    BY <1>4, <2>1
  <2> QED
    BY <1>1, <2>1, <2>2
<1>5. ASSUME NEW x, NEW y, NEW z, Named(x, W), Named(y, W), Named(z, W)
      PROVE  NamedBy(<<x, y, z>>, W)
  <2>1. PICK U, more : U = {x, y, z} /\ more = <<x, y, z>>
    OBVIOUS
  <2>2. more \in Seq(U) /\ \A w \in U : Named(w, W)
    BY <1>5, <2>1
  <2> QED
    BY <1>1, <2>1, <2>2
<1>6. ASSUME NEW x, NEW y, NEW z, NEW u, NEW v,
             Named(x, W), Named(y, W), Named(z, W), Named(u, W), Named(v, W)
      PROVE  NamedBy(<<x, y, z, u, v>>, W)
  <2>1. PICK U, more : U = {x, y, z, u, v} /\ more = <<x, y, z, u, v>>
    OBVIOUS
  <2>2. more \in Seq(U) /\ \A w \in U : Named(w, W)
    BY <1>6, <2>1
  <2> QED
    BY <1>1, <2>1, <2>2
<1> QED
  BY <1>2, <1>3, <1>4, <1>5, <1>6, Zenon

(* Instructions with one or two registers.                                 *)
LEMMA NamedOps ==
  ASSUME NEW W, NEW v \in W, NEW w \in W
  PROVE  /\ Named(Sta(v), W) /\ Named(Lda(v), W) /\ Named(Mov(v, w), W)
         /\ Named(Use(<<v>>), W) /\ Named(Use(<<v, w>>), W)
<1>1. <<v>> \in Seq(W) /\ <<v, w>> \in Seq(W) /\ Len(<<v>>) = 1 /\ Len(<<v, w>>) = 2
  OBVIOUS
<1>2. Named(Sta(v), W)
  BY <1>1 DEF Named, Shape, Sta, Insn, OneReg
<1>3. Named(Lda(v), W)
  BY <1>1 DEF Named, Shape, Lda, Insn, OneReg
<1>4. Named(Mov(v, w), W)
  BY <1>1 DEF Named, Shape, Mov, Insn, OneReg
<1>5. Named(Use(<<v>>), W) /\ Named(Use(<<v, w>>), W)
  BY <1>1 DEF Named, Shape, Use, Insn, OneReg
<1> QED
  BY <1>2, <1>3, <1>4, <1>5

(* Calls.                                                                  *)
LEMMA NamedCalls ==
  ASSUME NEW W, NEW regs \in Seq(W), Len(regs) >= 1, NEW passThis \in BOOLEAN
  PROVE  Named(Insn("range", regs), W) /\ Named(Call(regs, passThis), W)
<1>1. Len(regs) \in Nat
  BY LenProperties
<1>2. Named(Insn("range", regs), W)
  BY DEF Named, Shape, Insn, OneReg
<1>3. CASE ~passThis /\ Len(regs) <= 4
  <2>1. Call(regs, passThis) = Insn("use", regs)
    BY <1>3 DEF Call
  <2>4. Len(regs) <= 4
    BY <1>3, Zenon
  <2>5. \A n \in Nat : n >= 1 /\ n <= 4 => n \in 1 .. 4
    OBVIOUS
  <2>2. Len(regs) \in 1 .. 4
    BY <1>1, <2>4, <2>5
  <2>3. Named(Insn("use", regs), W)
    BY <2>2 DEF Named, Shape, Insn, OneReg
  <2> QED
    BY <1>2, <2>1, <2>3
<1>4. CASE ~(~passThis /\ Len(regs) <= 4)
  <2>1. Call(regs, passThis) = Insn("range", regs)
    BY <1>4 DEF Call
  <2> QED
    BY <1>2, <2>1
<1> QED
  BY <1>3, <1>4

(* Open expressions have the registers that their next steps name.         *)
Enough(kind, step, keys, len) ==
  /\ kind = "binary" => len = 1
  /\ kind = "call" => len >= 1
  /\ kind \in {"method", "new"} => len >= 2
  /\ step = 3 => len >= 1
  /\ kind = "pattern" => 2 + keys + (IF step = 0 THEN 0 ELSE 1) <= len

OpenEnough(o) ==
  \A k \in 1 .. Len(o) :
    Enough(o[k].kind, o[k].step, o[k].keys, Len(o[k].regs))

(* The names that instructions use are known; until callOpt drops some,    *)
(* the locals are numbered from 1 on and the parameters are the first.     *)
NInv ==
  /\ IInv
  /\ OpenEnough(open)
  /\ NamedBy(insns, KnownRegs)
  /\ callOpt \subseteq 1 .. Hidden
  /\ params \in Nat /\ params <= Len(locals)
  /\ \A i, j \in 1 .. Len(locals) : locals[i] = locals[j] => i = j
  /\ ~generated =>
       Hidden <= params /\ locals = [i \in 1 .. Len(locals) |-> i]

(* What a step of the generation adds.                                     *)
Grown ==
  /\ ~generated /\ ~generated'
  /\ locals' = locals \/ locals' = Append(locals, Len(locals) + 1)
  /\ callOpt \subseteq callOpt' /\ callOpt' \subseteq 1 .. Hidden
  /\ needed \subseteq needed'
  /\ params' = params
NamesWritten == \E more : Emit(more) /\ NamedBy(more, KnownRegs')

(* The locals before and after such a step.                                *)
LEMMA LocalsGrow ==
  ASSUME NInv, Grown
  PROVE  /\ Len(locals) \in Nat /\ Len(locals') \in Nat
         /\ Len(locals) <= Len(locals')
         /\ locals' = [i \in 1 .. Len(locals') |-> i]
         /\ Range(locals) = 1 .. Len(locals) /\ Range(locals') = 1 .. Len(locals')
<1>1. locals = [i \in 1 .. Len(locals) |-> i] /\ locals \in Seq(Range(locals))
  BY DEF NInv, IInv, Grown
<1>2. Len(locals) \in Nat
  BY <1>1, LenProperties
<1>3. locals \in Seq(Nat)
  BY <1>1, <1>2
<1>4. CASE locals' = locals
  BY <1>1, <1>2, <1>4 DEF Range
<1>5. CASE locals' = Append(locals, Len(locals) + 1)
  <2> DEFINE n == Len(locals)
             l == Append(locals, n + 1)
  <2>1. /\ Len(l) = n + 1
        /\ \A i \in 1 .. n : l[i] = locals[i]
        /\ l[n + 1] = n + 1
        /\ l \in Seq(Nat)
    BY <1>2, <1>3, AppendProperties
  <2>2. \A i \in 1 .. n : locals[i] = i
    BY <1>1
  <2> HIDE DEF l, n
  <2>3. DOMAIN l = 1 .. n + 1 /\ l = [i \in 1 .. n + 1 |-> l[i]]
    BY <2>1, LenProperties
  <2>4. n \in Nat
    BY <1>2 DEF n
  <2>5. \A i \in 1 .. n + 1 : l[i] = i
    BY <2>1, <2>2, <2>4
  <2>6. l = [i \in 1 .. n + 1 |-> i]
    BY <2>3, <2>5
  <2>7. Range(l) = 1 .. n + 1
    BY <2>3, <2>5 DEF Range
  <2>8. n + 1 \in Nat /\ n <= n + 1
    BY <2>4
  <2>9. locals' = l
    BY <1>5 DEF l, n
  <2>10. Range(locals) = 1 .. n
    BY <1>1 DEF Range, n
  <2> QED
    BY <2>1, <2>4, <2>6, <2>7, <2>8, <2>9, <2>10 DEF n
<1> QED
  BY <1>4, <1>5 DEF Grown

(* Known registers stay known.                                             *)
LEMMA KnownGrows ==
  ASSUME NInv, Moved, Grown
  PROVE  /\ KnownRegs \subseteq KnownRegs'
         /\ pool.made \in Nat /\ pool'.made \in Nat /\ pool.made <= pool'.made
         /\ \A i \in 1 .. pool'.made : Temp(i) \in KnownRegs'
<1>1. /\ Range(locals) = 1 .. Len(locals) /\ Range(locals') = 1 .. Len(locals')
      /\ Len(locals) \in Nat /\ Len(locals') \in Nat /\ Len(locals) <= Len(locals')
  BY LocalsGrow
<1>2. /\ callOpt \subseteq callOpt' /\ needed \subseteq needed'
  BY DEF Grown
<1>3. pool.made \in Nat /\ pool'.made \in Nat /\ pool.made <= pool'.made
  <2>1. pool.made \in Nat
    BY MadeNat DEF NInv, IInv
  <2>2. pool'.made \in Nat
    BY MadeNat DEF Moved
  <2> QED
    BY <2>1, <2>2 DEF Moved
<1>4. UsedLocals \subseteq UsedLocals'
  <2>1. Range(locals) \subseteq Range(locals')
    BY <1>1
  <2>2. UsedLocals' = {i \in Range(locals') : i <= Hidden => i \in callOpt'}
    BY DEF UsedLocals
  <2> QED
    BY <1>2, <2>1, <2>2 DEF UsedLocals
<1>5. 1 .. pool.made \subseteq 1 .. pool'.made
  BY <1>3
<1>6. KnownRegs' = {Local(i) : i \in UsedLocals'} \cup {Temp(i) : i \in 1 .. pool'.made}
                     \cup {Cache(c) : c \in needed'}
  BY DEF KnownRegs
<1> QED
  BY <1>2, <1>3, <1>4, <1>5, <1>6 DEF KnownRegs

(* Steps that move registers and write code keep the invariant.            *)
LEMMA NamesKept ==
  ASSUME NInv, Moved, Written, Kept, Grown, OpenEnough(open'), NamesWritten
  PROVE  NInv'
<1>1. IInv'
  BY StepKeeps DEF NInv
<1>2. PICK more : Emit(more) /\ NamedBy(more, KnownRegs')
  BY DEF NamesWritten
<1>3. insns' = insns \o more
  BY <1>2 DEF Emit
<1>4. NamedBy(insns', KnownRegs')
  <2>1. NamedBy(insns, KnownRegs) /\ KnownRegs \subseteq KnownRegs'
    BY KnownGrows DEF NInv
  <2> QED
    BY <1>2, <1>3, <2>1, NamedConcat
<1>5. callOpt' \subseteq 1 .. Hidden /\ params' = params
  BY DEF Grown
<1>6. /\ params' \in Nat /\ params' <= Len(locals') /\ Hidden <= params'
      /\ locals' = [i \in 1 .. Len(locals') |-> i]
      /\ \A i, j \in 1 .. Len(locals') : locals'[i] = locals'[j] => i = j
  <2>1. params \in Nat /\ params <= Len(locals) /\ Hidden <= params
    BY DEF NInv, Grown
  <2>2. /\ params' \in Nat /\ params' <= Len(locals') /\ Hidden <= params'
        /\ locals' = [i \in 1 .. Len(locals') |-> i]
    BY <1>5, <2>1, LocalsGrow
  <2>3. \A i \in 1 .. Len(locals') : locals'[i] = i
    BY <2>2
  <2> QED
    BY <2>2, <2>3
<1>7. OpenEnough(open)' = OpenEnough(open')
  BY DEF OpenEnough
<1> QED
  BY <1>1, <1>4, <1>5, <1>6, <1>7 DEF NInv

-----------------------------------------------------------------------------
(* What the steps of the generation do to names.                           *)

(* A step that leaves the locals and the callee's options as they are.     *)
LEMMA SameGrown ==
  ASSUME NInv, NEW more, Emit(more),
         UNCHANGED <<locals, params, callOpt, generated>>, needed \subseteq needed'
  PROVE  Grown
BY DEF NInv, Grown, Emit

(* All but the last of a list.                                             *)
LEMMA AllButLast ==
  ASSUME NEW S, NEW q \in Seq(S), q # <<>>
  PROVE  /\ Len(q) \in Nat /\ Len(q) >= 1
         /\ Front(q) \in Seq(S) /\ Len(Front(q)) = Len(q) - 1
         /\ \A k \in 1 .. Len(q) - 1 : Front(q)[k] = q[k]
<1>1. Len(q) \in Nat /\ Len(q) >= 1
  BY EmptySeq, LenProperties
<1>2. PICK m \in Nat : m = Len(q) - 1
  BY <1>1
<1>3. m <= Len(q)
  BY <1>1, <1>2
<1>4. Front(q) = SubSeq(q, 1, m)
  BY <1>2 DEF Front
<1> QED
  BY <1>1, <1>2, <1>3, <1>4, Beginnings

(* An expression more,                                                     *)
LEMMA EnoughPush ==
  ASSUME NInv, NEW f \in Frames, open' = Append(open, f),
         Enough(f.kind, f.step, f.keys, Len(f.regs))
  PROVE  OpenEnough(open')
<1>1. open \in Seq(Frames) /\ OpenEnough(open)
  BY DEF NInv, IInv
<1>2. /\ Len(open') = Len(open) + 1 /\ Len(open) \in Nat
      /\ \A k \in 1 .. Len(open) : open'[k] = open[k]
      /\ open'[Len(open) + 1] = f
  BY <1>1, AppendProperties
<1>3. ASSUME NEW k \in 1 .. Len(open')
      PROVE  Enough(open'[k].kind, open'[k].step, open'[k].keys, Len(open'[k].regs))
  <2>1. k \in 1 .. Len(open) \/ k = Len(open) + 1
    BY <1>2
  <2> QED
    BY <1>1, <1>2, <2>1 DEF OpenEnough
<1> QED
  BY <1>3 DEF OpenEnough

(* one that goes on,                                                       *)
LEMMA EnoughTop ==
  ASSUME NInv, open # <<>>, NEW step, NEW regs, NEW keys,
         Becomes(step, regs, keys), Enough(Top.kind, step, keys, Len(regs))
  PROVE  OpenEnough(open')
<1> DEFINE f == [kind |-> Top.kind, regs |-> regs, step |-> step, keys |-> keys]
<1>1. open \in Seq(Frames) /\ OpenEnough(open)
  BY DEF NInv, IInv
<1>2. /\ Front(open) \in Seq(Frames) /\ Len(Front(open)) = Len(open) - 1
      /\ \A k \in 1 .. Len(open) - 1 : Front(open)[k] = open[k]
      /\ Len(open) \in Nat
  BY <1>1, AllButLast
<1>3. open' = Append(Front(open), f)
  BY DEF Becomes
<1>4. f.kind = Top.kind /\ f.step = step /\ f.keys = keys /\ f.regs = regs
  OBVIOUS
<1> HIDE DEF f
<1>5. /\ Len(open') = Len(open)
      /\ \A k \in 1 .. Len(open) - 1 : open'[k] = open[k]
      /\ open'[Len(open)] = f
  <2> DEFINE q == Front(open)
  <2>0. q \in Seq(Frames \cup {f}) /\ f \in Frames \cup {f}
    BY <1>2
  <2>1. /\ Len(open') = Len(q) + 1
        /\ \A k \in 1 .. Len(q) : open'[k] = q[k]
        /\ open'[Len(q) + 1] = f
    <3> HIDE DEF q
    <3> QED
      BY <1>3, <2>0, AppendProperties DEF q
  <2> QED
    BY <1>2, <2>1
<1>6. ASSUME NEW k \in 1 .. Len(open')
      PROVE  Enough(open'[k].kind, open'[k].step, open'[k].keys, Len(open'[k].regs))
  <2>1. k \in 1 .. Len(open) - 1 \/ k = Len(open)
    BY <1>2, <1>5
  <2>2. k \in 1 .. Len(open)
    BY <1>5
  <2> QED
    BY <1>1, <1>4, <1>5, <2>1, <2>2 DEF OpenEnough
<1> QED
  BY <1>6 DEF OpenEnough

(* or one that ends.                                                       *)
LEMMA EnoughEnd ==
  ASSUME NInv, open # <<>>, End
  PROVE  OpenEnough(open')
<1>1. open \in Seq(Frames) /\ OpenEnough(open)
  BY DEF NInv, IInv
<1>2. /\ Len(open') = Len(open) - 1
      /\ \A k \in 1 .. Len(open) - 1 : open'[k] = open[k]
      /\ Len(open) \in Nat
  BY <1>1, AllButLast DEF End
<1>3. ASSUME NEW k \in 1 .. Len(open')
      PROVE  Enough(open'[k].kind, open'[k].step, open'[k].keys, Len(open'[k].regs))
  <2>1. k \in 1 .. Len(open) - 1 /\ k \in 1 .. Len(open)
    BY <1>2
  <2> QED
    BY <1>1, <1>2, <2>1 DEF OpenEnough
<1> QED
  BY <1>3 DEF OpenEnough

(* The registers of the innermost expression, and those that come next.    *)
LEMMA TopNamed ==
  ASSUME NInv, open # <<>>, Moved, Grown
  PROVE  /\ Temps(Top.regs) \in Seq(KnownRegs')
         /\ Len(Temps(Top.regs)) = Len(Top.regs) /\ Len(Top.regs) \in Nat
         /\ \A i \in 1 .. Len(Top.regs) :
              Temps(Top.regs)[i] \in KnownRegs' /\ Temps(Top.regs)[i] = Temp(Top.regs[i])
         /\ Enough(Top.kind, Top.step, Top.keys, Len(Top.regs))
         /\ Top \in Frames
<1>0. IInv /\ open \in Seq(Frames) /\ OpenEnough(open)
  BY DEF NInv, IInv
<1>1. PICK s \in Nat, n \in Nat :
        /\ Top.regs = Run(s, n) /\ Len(Top.regs) = n
        /\ \A i \in 1 .. n : Top.regs[i] = s + i
        /\ s + n <= pool.made /\ pool.made \in Nat
  BY <1>0, TopRegs
<1>2. Top \in Frames /\ open[Len(open)] = Top
  BY <1>0, TopRegs
<1>3. DOMAIN Top.regs = 1 .. n
  BY <1>1 DEF Run
<1>4. \A i \in 1 .. n : Temp(s + i) \in KnownRegs'
  <2>1. pool.made <= pool'.made /\ pool'.made \in Nat
        /\ \A i \in 1 .. pool'.made : Temp(i) \in KnownRegs'
    BY KnownGrows
  <2>2. \A i \in 1 .. n : s + i \in 1 .. pool'.made
    BY <1>1, <2>1
  <2> QED
    BY <2>1, <2>2
<1>5. Temps(Top.regs) = [i \in 1 .. n |-> Temp(s + i)]
  BY <1>1, <1>3 DEF Temps
<1>6. Temps(Top.regs) \in Seq(KnownRegs') /\ Len(Temps(Top.regs)) = n
  BY <1>4, <1>5
<1>7. \A i \in 1 .. n : /\ Temps(Top.regs)[i] = Temp(s + i)
                        /\ Temp(Top.regs[i]) = Temp(s + i)
  BY <1>1, <1>5
<1>8. Enough(Top.kind, Top.step, Top.keys, Len(Top.regs))
  <2>1. Len(open) \in 1 .. Len(open)
    <3>1. Len(open) \in Nat /\ Len(open) # 0
      BY <1>0, EmptySeq
    <3> QED
      BY <3>1
  <2> QED
    BY <1>0, <1>2, <2>1 DEF OpenEnough
<1> QED
  BY <1>1, <1>2, <1>4, <1>6, <1>7, <1>8

(* The temporaries that getTemp() hands out next are registers known by    *)
(* name.                                                                   *)
LEMMA NextNamed ==
  ASSUME NInv, Moved, Grown, NEW p, NEW t \in Nat, NEW n \in Nat, PoolAt(p, t),
         After(p, n).made <= pool'.made
  PROVE  /\ Temps(Taken(p, n)) \in Seq(KnownRegs')
         /\ Len(Temps(Taken(p, n))) = n /\ Len(Taken(p, n)) = n
         /\ \A i \in 1 .. n : /\ Temps(Taken(p, n))[i] \in KnownRegs'
                              /\ Temps(Taken(p, n))[i] = Temp(Taken(p, n)[i])
                              /\ Taken(p, n)[i] = t + i
<1>1. Taken(p, n) = Run(t, n) /\ PoolAt(After(p, n), t + n)
  BY TakenNext
<1>2. DOMAIN Run(t, n) = 1 .. n /\ Len(Run(t, n)) = n
      /\ \A i \in 1 .. n : Run(t, n)[i] = t + i
  BY RunSeq
<1>3. t + n <= After(p, n).made /\ After(p, n).made \in Nat
  <2>1. t + n \in Nat
    OBVIOUS
  <2> QED
    BY <1>1, <2>1, MadeAll
<1>4. \A i \in 1 .. n : Temp(t + i) \in KnownRegs'
  <2>1. pool'.made \in Nat /\ \A i \in 1 .. pool'.made : Temp(i) \in KnownRegs'
    BY KnownGrows
  <2>2. \A i \in 1 .. n : t + i \in 1 .. pool'.made
    BY <1>3, <2>1
  <2> QED
    BY <2>1, <2>2
<1>5. Temps(Taken(p, n)) = [i \in 1 .. n |-> Temp(t + i)]
  BY <1>1, <1>2 DEF Temps
<1>6. Temps(Taken(p, n)) \in Seq(KnownRegs') /\ Len(Temps(Taken(p, n))) = n
  BY <1>4, <1>5
<1> QED
  BY <1>1, <1>2, <1>4, <1>5, <1>6

(* A register more.                                                        *)
LEMMA OneMore ==
  ASSUME NEW regs \in Seq(Nat), NEW p, NEW t \in Nat, PoolAt(p, t)
  PROVE  Len(regs \o Taken(p, 1)) = Len(regs) + 1
<1>1. Taken(p, 1) = Run(t, 1)
  BY TakenNext
<1>2. Run(t, 1) \in Seq(Nat) /\ Len(Run(t, 1)) = 1
  BY RunSeq
<1>3. \A q \in Seq(Nat) : Len(regs \o q) = Len(regs) + Len(q)
  BY ConcatProperties
<1> QED
  BY <1>1, <1>2, <1>3

(* What is written, when it is a few instructions.                         *)
LEMMA FewWritten ==
  /\ Emit(<<>>) => NamesWritten
  /\ \A x : Named(x, KnownRegs') /\ Emit(<<x>>) => NamesWritten
  /\ \A x, y : Named(x, KnownRegs') /\ Named(y, KnownRegs') /\ Emit(<<x, y>>)
       => NamesWritten
  /\ \A x, y, z : Named(x, KnownRegs') /\ Named(y, KnownRegs')
                    /\ Named(z, KnownRegs') /\ Emit(<<x, y, z>>) => NamesWritten
  /\ \A a, b : NamedBy(a, KnownRegs') /\ NamedBy(b, KnownRegs') /\ Emit(a \o b)
       => NamesWritten
<1>0. ASSUME NEW more, Emit(more), NamedBy(more, KnownRegs')
      PROVE  NamesWritten
  BY <1>0 DEF NamesWritten
<1>1. ASSUME Emit(<<>>) PROVE NamesWritten
  <2>1. PICK more : more = <<>>
    OBVIOUS
  <2> QED
    BY <1>0, <1>1, <2>1, NamedCode
<1>2. ASSUME NEW x, Named(x, KnownRegs'), Emit(<<x>>)
      PROVE  NamesWritten
  <2>1. PICK more : more = <<x>>
    OBVIOUS
  <2> QED
    BY <1>0, <1>2, <2>1, NamedCode
<1>3. ASSUME NEW x, NEW y, Named(x, KnownRegs'), Named(y, KnownRegs'), Emit(<<x, y>>)
      PROVE  NamesWritten
  <2>1. PICK more : more = <<x, y>>
    OBVIOUS
  <2> QED
    BY <1>0, <1>3, <2>1, NamedCode
<1>4. ASSUME NEW x, NEW y, NEW z, Named(x, KnownRegs'), Named(y, KnownRegs'),
             Named(z, KnownRegs'), Emit(<<x, y, z>>)
      PROVE  NamesWritten
  <2>1. PICK more : more = <<x, y, z>>
    OBVIOUS
  <2> QED
    BY <1>0, <1>4, <2>1, NamedCode
<1>5. ASSUME NEW a, NEW b, NamedBy(a, KnownRegs'), NamedBy(b, KnownRegs'), Emit(a \o b)
      PROVE  NamesWritten
  <2>1. NamedBy(a \o b, KnownRegs')
    BY <1>5, NamedConcat
  <2> QED
    BY <1>0, <1>5, <2>1
<1> QED
  BY <1>1, <1>2, <1>3, <1>4, <1>5, Zenon
-----------------------------------------------------------------------------
(* Each step keeps the names known.                                        *)

(* Variables: a hidden parameter is noted when it is used.                *)
LEMMA VariableNamed ==
  ASSUME NInv, Variable
  PROVE  NInv'
<1>1. Moved /\ Written /\ Kept
  BY VariableStep DEF NInv
<1>2. Grown
  <2>1. PICK i \in DOMAIN locals :
          /\ Emit(<<Lda(Local(i))>>) \/ Emit(<<Sta(Local(i))>>)
          /\ callOpt' = Noted(i)
    BY DEF Variable
  <2>2. /\ ~generated /\ UNCHANGED <<locals, params, needed, generated>>
        /\ locals = [j \in 1 .. Len(locals) |-> j]
        /\ callOpt \subseteq 1 .. Hidden
    BY <2>1 DEF Variable, Emit, NInv
  <2>3. i \in Nat /\ i >= 1
    BY <2>2
  <2>5. Hidden \in Nat /\ (i <= Hidden => i \in 1 .. Hidden)
    BY <2>3, PoolAssumption
  <2>6. callOpt' = callOpt \/ (i \in 1 .. Hidden /\ callOpt' = callOpt \cup {i})
    BY <2>1, <2>5, Zenon DEF Noted
  <2>4. callOpt \subseteq callOpt' /\ callOpt' \subseteq 1 .. Hidden
    BY <2>2, <2>6, Zenon
  <2> QED
    BY <2>2, <2>4 DEF Grown
<1>3. OpenEnough(open')
  BY DEF NInv, Variable
<1>4. NamesWritten
  <2>1. PICK i \in DOMAIN locals :
          /\ Emit(<<Lda(Local(i))>>) \/ Emit(<<Sta(Local(i))>>)
          /\ callOpt' = Noted(i)
    BY DEF Variable
  <2>2. locals' = locals /\ locals = [j \in 1 .. Len(locals) |-> j]
    BY <2>1 DEF Variable, NInv, Emit
  <2>3. i \in Range(locals') /\ Len(locals) \in Nat
    <3>1. i \in 1 .. Len(locals) /\ Range(locals) = 1 .. Len(locals)
      BY <1>1, <1>2, <2>2, LocalsGrow
    <3> QED
      BY <1>2, <2>2, <3>1, LocalsGrow
  <2>4. i <= Hidden => i \in callOpt'
    BY <2>1 DEF Noted
  <2>5. Local(i) \in KnownRegs'
    <3>1. i \in {j \in Range(locals') : j <= Hidden => j \in callOpt'}
      BY <2>3, <2>4
    <3> QED
      BY <3>1 DEF KnownRegs, UsedLocals
  <2> QED
    BY <2>1, <2>5, NamedOps, FewWritten
<1> QED
  BY <1>1, <1>2, <1>3, <1>4, NamesKept

(* A new local comes after the parameters.                                *)
LEMMA DeclareNamed ==
  ASSUME NInv, Declare
  PROVE  NInv'
<1>1. Moved /\ Written /\ Kept
  BY DeclareStep DEF NInv
<1>2. Grown
  BY DEF Declare, Emit, NInv, Grown
<1>3. OpenEnough(open')
  BY DEF NInv, Declare
<1>4. NamesWritten
  <2> DEFINE n == Len(locals)
  <2>1. Emit(<<Sta(Local(n + 1))>>) /\ locals' = Append(locals, n + 1)
    BY DEF Declare
  <2>2. /\ n \in Nat /\ params <= n /\ Hidden <= params /\ params \in Nat
    BY <1>2, LocalsGrow DEF NInv, Grown
  <2>3. n + 1 \in Range(locals')
    <3>1. locals \in Seq(Range(locals))
      BY DEF NInv, IInv
    <3> QED
      BY <2>1, <2>2, <3>1 DEF Range
  <2>4. ~(n + 1 <= Hidden)
    BY <2>2, PoolAssumption
  <2>5. n + 1 \in {j \in Range(locals') : j <= Hidden => j \in callOpt'}
    BY <2>3, <2>4
  <2>6. Local(n + 1) \in KnownRegs'
    BY <2>5 DEF KnownRegs, UsedLocals
  <2> HIDE DEF n
  <2> QED
    BY <2>1, <2>6, NamedOps, FewWritten
<1> QED
  BY <1>1, <1>2, <1>3, <1>4, NamesKept

(* A constant that is asked for is cached.                                *)
LEMMA ConstantNamed ==
  ASSUME NInv, NEW c, Constant(c)
  PROVE  NInv'
<1>1. Moved /\ Written /\ Kept
  BY ConstantStep DEF NInv
<1>2. Grown
  <2>1. \E more : Emit(more)
    BY DEF Constant
  <2>2. UNCHANGED <<locals, params, callOpt, generated>> /\ needed \subseteq needed'
    BY DEF Constant
  <2> QED
    BY <2>1, <2>2, SameGrown
<1>3. OpenEnough(open')
  BY DEF NInv, Constant
<1>4. NamesWritten
  <2>1. Emit(<<Lda(Cache(c))>>) /\ c \in needed'
    BY DEF Constant
  <2>2. Cache(c) \in KnownRegs'
    BY <2>1 DEF KnownRegs
  <2> QED
    BY <2>1, <2>2, NamedOps, FewWritten
<1> QED
  BY <1>1, <1>2, <1>3, <1>4, NamesKept

(* left op right takes a register,                                        *)
LEMMA StartBinaryNamed ==
  ASSUME NInv, StartBinary
  PROVE  NInv'
<1>1. Moved /\ Written /\ Kept
  BY StartBinaryStep DEF NInv
<1>2. Grown
  <2>1. \E more : Emit(more)
    BY DEF StartBinary
  <2>2. UNCHANGED <<locals, params, callOpt, generated>> /\ needed \subseteq needed'
    BY DEF StartBinary
  <2> QED
    BY <2>1, <2>2, SameGrown
<1>5. PICK t \in Nat : PoolAt(pool, t)
  BY DEF NInv, IInv, Ordered
<1>3. OpenEnough(open')
  <2> DEFINE f == [kind |-> "binary", regs |-> Taken(pool, 1), step |-> 0, keys |-> 0]
  <2>1. open' = Append(open, f)
    BY DEF StartBinary, Begin
  <2>2. f \in Frames /\ Len(Taken(pool, 1)) = 1
    <3>1. Taken(pool, 1) = Run(t, 1)
      BY <1>5, TakenNext
    <3>2. Taken(pool, 1) \in Seq(Nat) /\ Len(Taken(pool, 1)) = 1
      BY <3>1, RunSeq
    <3>3. ShapeOK("binary", 0, 1) /\ "binary" \in Kinds
      BY DEF ShapeOK, Kinds
    <3> QED
      BY <3>2, <3>3, NewFrame
  <2>3. Enough(f.kind, f.step, f.keys, Len(f.regs))
    BY <2>2 DEF Enough
  <2> HIDE DEF f
  <2> QED
    BY <2>1, <2>2, <2>3, EnoughPush
<1>4. NamesWritten
  BY FewWritten DEF StartBinary
<1> QED
  BY <1>1, <1>2, <1>3, <1>4, NamesKept

(* stores to it,                                                          *)
LEMMA BinaryLeftNamed ==
  ASSUME NInv, BinaryLeft
  PROVE  NInv'
<1>1. Moved /\ Written /\ Kept
  BY BinaryLeftStep DEF NInv
<1>2. Grown
  <2>1. \E more : Emit(more)
    BY DEF BinaryLeft
  <2>2. UNCHANGED <<locals, params, callOpt, generated>> /\ needed \subseteq needed'
    BY DEF BinaryLeft
  <2> QED
    BY <2>1, <2>2, SameGrown
<1>5. /\ open # <<>> /\ Top.kind = "binary" /\ Top.step = 0
      /\ Step(1)
  BY DEF BinaryLeft, InTop
<1>6. /\ Len(Temps(Top.regs)) = Len(Top.regs) /\ Len(Top.regs) \in Nat
      /\ \A i \in 1 .. Len(Top.regs) :
           Temps(Top.regs)[i] \in KnownRegs' /\ Temps(Top.regs)[i] = Temp(Top.regs[i])
      /\ Enough(Top.kind, Top.step, Top.keys, Len(Top.regs))
      /\ Top \in Frames
  BY <1>1, <1>2, <1>5, TopNamed
<1>3. OpenEnough(open')
  <2>1. Enough(Top.kind, 1, Top.keys, Len(Top.regs))
    BY <1>5, <1>6 DEF Enough
  <2> QED
    BY <1>5, <2>1, EnoughTop DEF Step
<1>4. NamesWritten
  <2>1. Temp(Top.regs[1]) \in KnownRegs'
    <3>1. Len(Top.regs) = 1
      BY <1>5, <1>6 DEF Enough
    <3> QED
      BY <1>6, <3>1
  <2> QED
    BY <2>1, NamedOps, FewWritten DEF BinaryLeft
<1> QED
  BY <1>1, <1>2, <1>3, <1>4, NamesKept

(* and gives it back.                                                     *)
LEMMA EndBinaryNamed ==
  ASSUME NInv, EndBinary
  PROVE  NInv'
<1>1. Moved /\ Written /\ Kept
  BY EndBinaryStep DEF NInv
<1>2. Grown
  <2>1. \E more : Emit(more)
    BY DEF EndBinary
  <2>2. UNCHANGED <<locals, params, callOpt, generated>> /\ needed \subseteq needed'
    BY DEF EndBinary
  <2> QED
    BY <2>1, <2>2, SameGrown
<1>5. /\ open # <<>> /\ Top.kind = "binary" /\ Top.step = 1
      /\ End
  BY DEF EndBinary, InTop
<1>6. /\ Temps(Top.regs) \in Seq(KnownRegs')
      /\ Len(Temps(Top.regs)) = Len(Top.regs) /\ Len(Top.regs) \in Nat
      /\ \A i \in 1 .. Len(Top.regs) :
           Temps(Top.regs)[i] \in KnownRegs' /\ Temps(Top.regs)[i] = Temp(Top.regs[i])
      /\ Enough(Top.kind, Top.step, Top.keys, Len(Top.regs))
      /\ Top \in Frames
  BY <1>1, <1>2, <1>5, TopNamed
<1>3. OpenEnough(open')
  BY <1>5, EnoughEnd
<1>4. NamesWritten
  <2>1. Len(Temps(Top.regs)) = 1
    BY <1>5, <1>6 DEF Enough
  <2>2. Named(Use(Temps(Top.regs)), KnownRegs')
    <3>1. \A q \in Seq(KnownRegs') : Len(q) = 1 => Named(Use(q), KnownRegs')
      BY DEF Named, Shape, Use, Insn, OneReg
    <3> QED
      BY <1>6, <2>1, <3>1
  <2> QED
    BY <2>2, FewWritten DEF EndBinary
<1> QED
  BY <1>1, <1>2, <1>3, <1>4, NamesKept

(* Calls take one register or three,                                      *)
LEMMA StartCallNamed ==
  ASSUME NInv, NEW b \in BOOLEAN, StartCall(b)
  PROVE  NInv'
<1>1. Moved /\ Written /\ Kept
  BY StartCallStep DEF NInv
<1>2. Grown
  <2>1. \E more : Emit(more)
    BY DEF StartCall
  <2>2. UNCHANGED <<locals, params, callOpt, generated>> /\ needed \subseteq needed'
    BY DEF StartCall
  <2> QED
    BY <2>1, <2>2, SameGrown
<1>5. PICK t \in Nat : PoolAt(pool, t)
  BY DEF NInv, IInv, Ordered
<1>3. OpenEnough(open')
  <2> DEFINE kind == IF b THEN "method" ELSE "call"
             n    == IF b THEN 3 ELSE 1
             f == [kind |-> kind, regs |-> Taken(pool, n), step |-> 0, keys |-> 0]
  <2>0. n \in Nat
    OBVIOUS
  <2>1. open' = Append(open, f)
    BY DEF StartCall, Begin
  <2>2. f \in Frames /\ Len(Taken(pool, n)) = n
    <3>3. ShapeOK(kind, 0, n) /\ kind \in Kinds
      BY DEF ShapeOK, Kinds
    <3> HIDE DEF n, kind
    <3>1. Taken(pool, n) = Run(t, n)
      BY <1>5, <2>0, TakenNext
    <3>2. Taken(pool, n) \in Seq(Nat) /\ Len(Taken(pool, n)) = n
      BY <2>0, <3>1, RunSeq
    <3> QED
      BY <3>2, <3>3, NewFrame
  <2>3. Enough(f.kind, f.step, f.keys, Len(f.regs))
    <3>1. Enough(kind, 0, 0, n)
      BY DEF Enough
    <3> HIDE DEF n, kind
    <3> QED
      BY <2>2, <3>1
  <2> HIDE DEF f
  <2> QED
    BY <2>1, <2>2, <2>3, EnoughPush
<1>4. NamesWritten
  BY FewWritten DEF StartCall
<1> QED
  BY <1>1, <1>2, <1>3, <1>4, NamesKept

(* new takes two,                                                         *)
LEMMA StartNewNamed ==
  ASSUME NInv, StartNew
  PROVE  NInv'
<1>1. Moved /\ Written /\ Kept
  BY StartNewStep DEF NInv
<1>2. Grown
  <2>1. \E more : Emit(more)
    BY DEF StartNew
  <2>2. UNCHANGED <<locals, params, callOpt, generated>> /\ needed \subseteq needed'
    BY DEF StartNew
  <2> QED
    BY <2>1, <2>2, SameGrown
<1>5. PICK t \in Nat : PoolAt(pool, t)
  BY DEF NInv, IInv, Ordered
<1>3. OpenEnough(open')
  <2> DEFINE f == [kind |-> "new", regs |-> Taken(pool, 2), step |-> 0, keys |-> 0]
  <2>1. open' = Append(open, f)
    BY DEF StartNew, Begin
  <2>2. f \in Frames /\ Len(Taken(pool, 2)) = 2
    <3>1. Taken(pool, 2) = Run(t, 2)
      BY <1>5, TakenNext
    <3>2. Taken(pool, 2) \in Seq(Nat) /\ Len(Taken(pool, 2)) = 2
      BY <3>1, RunSeq
    <3>3. ShapeOK("new", 0, 2) /\ "new" \in Kinds
      BY DEF ShapeOK, Kinds
    <3> QED
      BY <3>2, <3>3, NewFrame
  <2>3. Enough(f.kind, f.step, f.keys, Len(f.regs))
    BY <2>2 DEF Enough
  <2> HIDE DEF f
  <2> QED
    BY <2>1, <2>2, <2>3, EnoughPush
<1>4. NamesWritten
  BY FewWritten DEF StartNew
<1> QED
  BY <1>1, <1>2, <1>3, <1>4, NamesKept

(* a super call none.                                                     *)
LEMMA StartSuperNamed ==
  ASSUME NInv, StartSuper
  PROVE  NInv'
<1>1. Moved /\ Written /\ Kept
  BY StartSuperStep DEF NInv
<1>2. Grown
  <2>1. \E more : Emit(more)
    BY DEF StartSuper
  <2>2. UNCHANGED <<locals, params, callOpt, generated>> /\ needed \subseteq needed'
    BY DEF StartSuper
  <2> QED
    BY <2>1, <2>2, SameGrown
<1>3. OpenEnough(open')
  <2> DEFINE f == [kind |-> "super", regs |-> <<>>, step |-> 2, keys |-> 0]
  <2>1. open' = Append(open, f)
    BY DEF StartSuper
  <2>2. f \in Frames
    <3>1. ShapeOK("super", 2, 0) /\ "super" \in Kinds /\ <<>> \in Seq(Nat) /\ Len(<<>>) = 0
      BY DEF ShapeOK, Kinds
    <3> QED
      BY <3>1, NewFrame
  <2>3. Enough(f.kind, f.step, f.keys, Len(f.regs))
    BY DEF Enough
  <2> HIDE DEF f
  <2> QED
    BY <2>1, <2>2, <2>3, EnoughPush
<1>4. NamesWritten
  BY FewWritten DEF StartSuper
<1> QED
  BY <1>1, <1>2, <1>3, <1>4, NamesKept

(* The object of a method is stored,                                      *)
LEMMA ReceiverNamed ==
  ASSUME NInv, Receiver
  PROVE  NInv'
<1>1. Moved /\ Written /\ Kept
  BY ReceiverStep DEF NInv
<1>2. Grown
  <2>1. \E more : Emit(more)
    BY DEF Receiver
  <2>2. UNCHANGED <<locals, params, callOpt, generated>> /\ needed \subseteq needed'
    BY DEF Receiver
  <2> QED
    BY <2>1, <2>2, SameGrown
<1>5. /\ open # <<>> /\ Top.kind = "method" /\ Top.step = 0
      /\ Step(1)
  BY DEF Receiver, InTop
<1>6. /\ Len(Temps(Top.regs)) = Len(Top.regs) /\ Len(Top.regs) \in Nat
      /\ \A i \in 1 .. Len(Top.regs) :
           Temps(Top.regs)[i] \in KnownRegs' /\ Temps(Top.regs)[i] = Temp(Top.regs[i])
      /\ Enough(Top.kind, Top.step, Top.keys, Len(Top.regs))
      /\ Top \in Frames
  BY <1>1, <1>2, <1>5, TopNamed
<1>3. OpenEnough(open')
  <2>1. Enough(Top.kind, 1, Top.keys, Len(Top.regs))
    BY <1>5, <1>6 DEF Enough
  <2> QED
    BY <1>5, <2>1, EnoughTop DEF Step
<1>4. NamesWritten
  <2>1. Temp(Top.regs[2]) \in KnownRegs'
    <3>1. 2 \in 1 .. Len(Top.regs)
      BY <1>5, <1>6 DEF Enough
    <3> QED
      BY <1>6, <3>1
  <2> QED
    BY <2>1, NamedOps, FewWritten DEF Receiver
<1> QED
  BY <1>1, <1>2, <1>3, <1>4, NamesKept

(* the method is loaded,                                                  *)
LEMMA MethodNamed ==
  ASSUME NInv, NEW computed \in BOOLEAN, Method(computed)
  PROVE  NInv'
<1>1. Moved /\ Written /\ Kept
  BY MethodStep DEF NInv
<1>2. Grown
  <2>1. \E more : Emit(more)
    BY DEF Method
  <2>2. UNCHANGED <<locals, params, callOpt, generated>> /\ needed \subseteq needed'
    BY DEF Method
  <2> QED
    BY <2>1, <2>2, SameGrown
<1>5. /\ open # <<>> /\ Top.kind = "method" /\ Top.step = 1
      /\ Becomes(2, Front(Top.regs), Top.keys)
  BY DEF Method, InTop
<1>6. /\ \A i \in 1 .. Len(Top.regs) : Temps(Top.regs)[i] \in KnownRegs'
      /\ Top \in Frames
  BY <1>1, <1>2, <1>5, TopNamed
<1>7. Len(Top.regs) = 3 /\ Top.regs \in Seq(Nat)
  BY <1>5, <1>6 DEF Frames, ShapeOK
<1>3. OpenEnough(open')
  <2>1. Len(Front(Top.regs)) = 2
    <3>1. Top.regs # <<>>
      BY <1>7, EmptySeq, SMTT(60)
    <3>2. Len(Front(Top.regs)) = Len(Top.regs) - 1
      BY <1>7, <3>1, AllButLast
    <3> QED
      BY <1>7, <3>2
  <2>2. Enough(Top.kind, 2, Top.keys, Len(Front(Top.regs)))
    BY <1>5, <2>1 DEF Enough
  <2> QED
    BY <1>5, <2>2, EnoughTop
<1>4. NamesWritten
  <2> DEFINE r == Temps(Top.regs)
  <2>1. r[1] \in KnownRegs' /\ r[2] \in KnownRegs' /\ r[3] \in KnownRegs'
    BY <1>6, <1>7
  <2>2. Emit((IF computed THEN <<Sta(r[3]), Use(<<r[2], r[3]>>)>>
               ELSE <<Use(<<r[2]>>)>>) \o <<Sta(r[1])>>)
    BY DEF Method
  <2> HIDE DEF r
  <2>3. PICK a, b : /\ a = IF computed THEN <<Sta(r[3]), Use(<<r[2], r[3]>>)>>
                                       ELSE <<Use(<<r[2]>>)>>
                    /\ b = <<Sta(r[1])>>
    OBVIOUS
  <2>4. NamedBy(a, KnownRegs') /\ NamedBy(b, KnownRegs')
    <3>1. /\ Named(Sta(r[3]), KnownRegs') /\ Named(Use(<<r[2], r[3]>>), KnownRegs')
          /\ Named(Use(<<r[2]>>), KnownRegs') /\ Named(Sta(r[1]), KnownRegs')
      BY <2>1, NamedOps
    <3> QED
      BY <2>3, <3>1, NamedCode
  <2> QED
    BY <2>2, <2>3, <2>4, FewWritten
<1> QED
  BY <1>1, <1>2, <1>3, <1>4, NamesKept

(* or the callee.                                                         *)
LEMMA CalleeNamed ==
  ASSUME NInv, Callee
  PROVE  NInv'
<1>1. Moved /\ Written /\ Kept
  BY CalleeStep DEF NInv
<1>2. Grown
  <2>1. \E more : Emit(more)
    BY DEF Callee
  <2>2. UNCHANGED <<locals, params, callOpt, generated>> /\ needed \subseteq needed'
    BY DEF Callee
  <2> QED
    BY <2>1, <2>2, SameGrown
<1>5. /\ open # <<>> /\ Top.kind \in {"call", "new"} /\ Top.step = 0
      /\ Step(2)
  BY DEF Callee, InTop
<1>6. /\ Len(Temps(Top.regs)) = Len(Top.regs) /\ Len(Top.regs) \in Nat
      /\ \A i \in 1 .. Len(Top.regs) :
           Temps(Top.regs)[i] \in KnownRegs' /\ Temps(Top.regs)[i] = Temp(Top.regs[i])
      /\ Enough(Top.kind, Top.step, Top.keys, Len(Top.regs))
      /\ Top \in Frames
  BY <1>1, <1>2, <1>5, TopNamed
<1>3. OpenEnough(open')
  <2>1. Enough(Top.kind, 2, Top.keys, Len(Top.regs))
    BY <1>5, <1>6 DEF Enough
  <2> QED
    BY <1>5, <2>1, EnoughTop DEF Step
<1>4. NamesWritten
  <2> DEFINE r == Temps(Top.regs)
  <2>1. r[1] \in KnownRegs' /\ (Top.kind = "new" => r[2] \in KnownRegs')
    <3>1. 1 \in 1 .. Len(Top.regs) /\ (Top.kind = "new" => 2 \in 1 .. Len(Top.regs))
      BY <1>5, <1>6 DEF Enough
    <3> QED
      BY <1>6, <3>1
  <2>2. \/ Top.kind = "call" /\ Emit(<<Sta(r[1])>>)
        \/ Top.kind = "new" /\ Emit(<<Sta(r[1]), Mov(r[2], r[1])>>)
    BY <1>5 DEF Callee
  <2> HIDE DEF r
  <2>3. CASE Emit(<<Sta(r[1])>>)
    BY <2>1, <2>3, NamedOps, FewWritten
  <2>4. CASE Top.kind = "new" /\ Emit(<<Sta(r[1]), Mov(r[2], r[1])>>)
    <3>1. Named(Sta(r[1]), KnownRegs') /\ Named(Mov(r[2], r[1]), KnownRegs')
      BY <2>1, <2>4, NamedOps
    <3> QED
      BY <2>4, <3>1, FewWritten
  <2> QED
    BY <2>2, <2>3, <2>4
<1> QED
  BY <1>1, <1>2, <1>3, <1>4, NamesKept

(* An argument takes one more,                                            *)
LEMMA ArgumentNamed ==
  ASSUME NInv, Argument
  PROVE  NInv'
<1>1. Moved /\ Written /\ Kept
  BY ArgumentStep DEF NInv
<1>2. Grown
  <2>1. \E more : Emit(more)
    BY DEF Argument
  <2>2. UNCHANGED <<locals, params, callOpt, generated>> /\ needed \subseteq needed'
    BY DEF Argument
  <2> QED
    BY <2>1, <2>2, SameGrown
<1>5. /\ open # <<>> /\ Top.kind \in {"call", "method", "new", "super"}
      /\ Top.step = 2 /\ Becomes(3, Top.regs \o Taken(pool, 1), Top.keys)
  BY DEF Argument, InTop
<1>6. /\ Len(Top.regs) \in Nat
      /\ Enough(Top.kind, Top.step, Top.keys, Len(Top.regs))
  BY <1>1, <1>2, <1>5, TopNamed
<1>7. Len(Top.regs \o Taken(pool, 1)) = Len(Top.regs) + 1
  <2>1. Top.regs \in Seq(Nat)
    BY <1>5, TopRegs DEF NInv, Frames
  <2>2. PICK t \in Nat : PoolAt(pool, t)
    BY DEF NInv, IInv, Ordered
  <2> QED
    BY <2>1, <2>2, OneMore
<1>3. OpenEnough(open')
  <2>1. Enough(Top.kind, 3, Top.keys, Len(Top.regs) + 1)
    BY <1>5, <1>6 DEF Enough
  <2> QED
    BY <1>5, <1>7, <2>1, EnoughTop
<1>4. NamesWritten
  BY FewWritten DEF Argument
<1> QED
  BY <1>1, <1>2, <1>3, <1>4, NamesKept

(* and is stored there.                                                   *)
LEMMA ArgumentValueNamed ==
  ASSUME NInv, ArgumentValue
  PROVE  NInv'
<1>1. Moved /\ Written /\ Kept
  BY ArgumentValueStep DEF NInv
<1>2. Grown
  <2>1. \E more : Emit(more)
    BY DEF ArgumentValue
  <2>2. UNCHANGED <<locals, params, callOpt, generated>> /\ needed \subseteq needed'
    BY DEF ArgumentValue
  <2> QED
    BY <2>1, <2>2, SameGrown
<1>5. /\ open # <<>> /\ Top.kind \in {"call", "method", "new", "super"} /\ Top.step = 3
      /\ Step(2)
  BY DEF ArgumentValue, InTop
<1>6. /\ Len(Temps(Top.regs)) = Len(Top.regs) /\ Len(Top.regs) \in Nat
      /\ \A i \in 1 .. Len(Top.regs) :
           Temps(Top.regs)[i] \in KnownRegs' /\ Temps(Top.regs)[i] = Temp(Top.regs[i])
      /\ Enough(Top.kind, Top.step, Top.keys, Len(Top.regs))
      /\ Top \in Frames
  BY <1>1, <1>2, <1>5, TopNamed
<1>3. OpenEnough(open')
  <2>1. Enough(Top.kind, 2, Top.keys, Len(Top.regs))
    BY <1>5, <1>6 DEF Enough
  <2> QED
    BY <1>5, <2>1, EnoughTop DEF Step
<1>4. NamesWritten
  <2>1. Temp(Last(Top.regs)) \in KnownRegs'
    <3>1. Len(Top.regs) \in 1 .. Len(Top.regs)
      BY <1>5, <1>6 DEF Enough
    <3> QED
      BY <1>6, <3>1 DEF Last
  <2> QED
    BY <2>1, NamedOps, FewWritten DEF ArgumentValue
<1> QED
  BY <1>1, <1>2, <1>3, <1>4, NamesKept

(* The call names them all;                                               *)
LEMMA EndCallNamed ==
  ASSUME NInv, EndCall
  PROVE  NInv'
<1>1. Moved /\ Written /\ Kept
  BY EndCallStep DEF NInv
<1>2. Grown
  <2>1. \E more : Emit(more)
    BY DEF EndCall
  <2>2. UNCHANGED <<locals, params, callOpt, generated>> /\ needed \subseteq needed'
    BY DEF EndCall
  <2> QED
    BY <2>1, <2>2, SameGrown
<1>5. /\ open # <<>> /\ Top.kind \in {"call", "method", "new"} /\ Top.step = 2
      /\ End
  BY DEF EndCall, InTop
<1>6. /\ Temps(Top.regs) \in Seq(KnownRegs')
      /\ Len(Temps(Top.regs)) = Len(Top.regs) /\ Len(Top.regs) \in Nat
      /\ \A i \in 1 .. Len(Top.regs) :
           Temps(Top.regs)[i] \in KnownRegs' /\ Temps(Top.regs)[i] = Temp(Top.regs[i])
      /\ Enough(Top.kind, Top.step, Top.keys, Len(Top.regs))
      /\ Top \in Frames
  BY <1>1, <1>2, <1>5, TopNamed
<1>3. OpenEnough(open')
  BY <1>5, EnoughEnd
<1>4. NamesWritten
  <2>1. Len(Temps(Top.regs)) >= 1
    BY <1>5, <1>6 DEF Enough
  <2>2. /\ Named(Insn("range", Temps(Top.regs)), KnownRegs')
        /\ \A b \in BOOLEAN : Named(Call(Temps(Top.regs), b), KnownRegs')
    BY <1>6, <2>1, NamedCalls
  <2>3. PICK b \in BOOLEAN : b = (Top.kind = "method")
    OBVIOUS
  <2>4. Emit(<<IF Top.kind = "new" THEN Insn("range", Temps(Top.regs))
               ELSE Call(Temps(Top.regs), b)>>)
    BY <2>3 DEF EndCall
  <2>5. \/ Emit(<<Insn("range", Temps(Top.regs))>>)
        \/ Emit(<<Call(Temps(Top.regs), b)>>)
    BY <2>4
  <2> QED
    BY <2>2, <2>5, FewWritten
<1> QED
  BY <1>1, <1>2, <1>3, <1>4, NamesKept

(* a super call names the first, or the constant undefined.               *)
LEMMA EndSuperNamed ==
  ASSUME NInv, EndSuper
  PROVE  NInv'
<1>1. Moved /\ Written /\ Kept
  BY EndSuperStep DEF NInv
<1>2. Grown
  <2>1. \E more : Emit(more)
    BY DEF EndSuper
  <2>2. UNCHANGED <<locals, params, callOpt, generated>> /\ needed \subseteq needed'
    BY DEF EndSuper
  <2> QED
    BY <2>1, <2>2, SameGrown
<1>5. /\ open # <<>> /\ Top.kind = "super" /\ Top.step = 2
      /\ End
  BY DEF EndSuper, InTop
<1>6. /\ Temps(Top.regs) \in Seq(KnownRegs')
      /\ Len(Temps(Top.regs)) = Len(Top.regs) /\ Len(Top.regs) \in Nat
      /\ \A i \in 1 .. Len(Top.regs) :
           Temps(Top.regs)[i] \in KnownRegs' /\ Temps(Top.regs)[i] = Temp(Top.regs[i])
      /\ Enough(Top.kind, Top.step, Top.keys, Len(Top.regs))
      /\ Top \in Frames
  BY <1>1, <1>2, <1>5, TopNamed
<1>3. OpenEnough(open')
  BY <1>5, EnoughEnd
<1>4. NamesWritten
  <2> DEFINE args == Temps(Top.regs)
             tmp  == Temp(Taken(pool, 1)[1])
             start == IF args = <<>> THEN Cache("undefined") ELSE args[1]
  <2>1. Emit(<<Super(start, args), Sta(tmp), Lda(tmp)>>)
    BY DEF EndSuper
  <2>2. tmp \in KnownRegs'
    <3>1. PICK t \in Nat : PoolAt(pool, t) /\ t \in Nat
      BY DEF NInv, IInv, Ordered
    <3>2. pool'.made = After(pool, 1).made
      BY DEF EndSuper, Pool, Freed
    <3>3. After(pool, 1).made <= pool'.made
      BY <3>1, <3>2, Borrowed
    <3>4. /\ Temps(Taken(pool, 1))[1] \in KnownRegs'
          /\ Temps(Taken(pool, 1))[1] = Temp(Taken(pool, 1)[1])
      BY <1>1, <1>2, <3>1, <3>3, NextNamed
    <3> QED
      BY <3>4
  <2>3. start \in KnownRegs' /\ (Len(args) >= 1 => start = args[1])
    <3>1. CASE args = <<>>
      <4>1. needed' = needed \cup {"undefined"}
        BY <3>1 DEF EndSuper
      <4>2. Cache("undefined") \in KnownRegs'
        BY <4>1 DEF KnownRegs
      <4>3. Len(args) = 0
        BY <3>1
      <4> QED
        BY <3>1, <4>2, <4>3
    <3>2. CASE args # <<>>
      <4>1. 1 \in 1 .. Len(Top.regs)
        BY <1>6, <3>2, EmptySeq
      <4> QED
        BY <1>6, <3>2, <4>1
    <3> QED
      BY <3>1, <3>2
  <2>4. args \in Seq(KnownRegs')
    BY <1>6
  <2> HIDE DEF args, tmp, start
  <2>5. Named(Super(start, args), KnownRegs')
    BY <2>3, <2>4 DEF Named, Shape, Super, OneReg
  <2> QED
    BY <2>1, <2>2, <2>5, NamedOps, FewWritten
<1> QED
  BY <1>1, <1>2, <1>3, <1>4, NamesKept

(* A reference takes four,                                                *)
LEMMA StartCompoundNamed ==
  ASSUME NInv, StartCompound
  PROVE  NInv'
<1>1. Moved /\ Written /\ Kept
  BY StartCompoundStep DEF NInv
<1>2. Grown
  <2>1. \E more : Emit(more)
    BY DEF StartCompound
  <2>2. UNCHANGED <<locals, params, callOpt, generated>> /\ needed \subseteq needed'
    BY DEF StartCompound
  <2> QED
    BY <2>1, <2>2, SameGrown
<1>5. PICK t \in Nat : PoolAt(pool, t)
  BY DEF NInv, IInv, Ordered
<1>3. OpenEnough(open')
  <2> DEFINE f == [kind |-> "compound", regs |-> Taken(pool, 4), step |-> 0, keys |-> 0]
  <2>1. open' = Append(open, f)
    BY DEF StartCompound, Begin
  <2>2. f \in Frames /\ Len(Taken(pool, 4)) = 4
    <3>1. Taken(pool, 4) = Run(t, 4)
      BY <1>5, TakenNext
    <3>2. Taken(pool, 4) \in Seq(Nat) /\ Len(Taken(pool, 4)) = 4
      BY <3>1, RunSeq, ZenonT(60)
    <3>3. ShapeOK("compound", 0, 4) /\ "compound" \in Kinds
      BY DEF ShapeOK, Kinds
    <3> QED
      BY <3>2, <3>3, NewFrame
  <2>3. Enough(f.kind, f.step, f.keys, Len(f.regs))
    BY <2>2 DEF Enough
  <2> HIDE DEF f
  <2> QED
    BY <2>1, <2>2, <2>3, EnoughPush
<1>4. NamesWritten
  BY FewWritten DEF StartCompound
<1> QED
  BY <1>1, <1>2, <1>3, <1>4, NamesKept

(* stores to them,                                                        *)
LEMMA CompoundObjectNamed ==
  ASSUME NInv, CompoundObject
  PROVE  NInv'
<1>1. Moved /\ Written /\ Kept
  BY CompoundObjectStep DEF NInv
<1>2. Grown
  <2>1. \E more : Emit(more)
    BY DEF CompoundObject
  <2>2. UNCHANGED <<locals, params, callOpt, generated>> /\ needed \subseteq needed'
    BY DEF CompoundObject
  <2> QED
    BY <2>1, <2>2, SameGrown
<1>5. /\ open # <<>> /\ Top.kind = "compound" /\ Top.step = 0
      /\ Step(1)
  BY DEF CompoundObject, InTop
<1>6. /\ Len(Temps(Top.regs)) = Len(Top.regs) /\ Len(Top.regs) \in Nat
      /\ \A i \in 1 .. Len(Top.regs) :
           Temps(Top.regs)[i] \in KnownRegs' /\ Temps(Top.regs)[i] = Temp(Top.regs[i])
      /\ Enough(Top.kind, Top.step, Top.keys, Len(Top.regs))
      /\ Top \in Frames
  BY <1>1, <1>2, <1>5, TopNamed
<1>3. OpenEnough(open')
  <2>1. Enough(Top.kind, 1, Top.keys, Len(Top.regs))
    BY <1>5, <1>6 DEF Enough
  <2> QED
    BY <1>5, <2>1, EnoughTop DEF Step
<1>4. NamesWritten
  <2>1. Temp(Top.regs[3]) \in KnownRegs'
    <3>1. Len(Top.regs) = 4
      BY <1>5, <1>6 DEF Frames, ShapeOK
    <3> QED
      BY <1>6, <3>1
  <2> QED
    BY <2>1, NamedOps, FewWritten DEF CompoundObject
<1> QED
  BY <1>1, <1>2, <1>3, <1>4, NamesKept

(* keeps the old value,                                                   *)
LEMMA CompoundPropertyNamed ==
  ASSUME NInv, CompoundProperty
  PROVE  NInv'
<1>1. Moved /\ Written /\ Kept
  BY CompoundPropertyStep DEF NInv
<1>2. Grown
  <2>1. \E more : Emit(more)
    BY DEF CompoundProperty
  <2>2. UNCHANGED <<locals, params, callOpt, generated>> /\ needed \subseteq needed'
    BY DEF CompoundProperty
  <2> QED
    BY <2>1, <2>2, SameGrown
<1> DEFINE freed == Freed(pool, SubSeq(Top.regs, 3, 4))
           lhs   == Taken(freed, 1)
<1>5. /\ open # <<>> /\ Top.kind = "compound" /\ Top.step = 1
      /\ Becomes(2, SubSeq(Top.regs, 1, 2) \o lhs, Top.keys)
      /\ pool' = After(freed, 1)
  BY DEF CompoundProperty, InTop, Pool
<1>6. /\ \A i \in 1 .. Len(Top.regs) : Temps(Top.regs)[i] \in KnownRegs'
      /\ Top \in Frames
  BY <1>1, <1>2, <1>5, TopNamed
<1>7. Len(Top.regs) = 4 /\ Top.regs \in Seq(Nat)
  BY <1>5, <1>6 DEF Frames, ShapeOK
<1>8. \E t \in Nat : PoolAt(freed, t)
  <2>1. PICK s \in Nat, n \in Nat :
          /\ Top.regs = Run(s, n) /\ Len(Top.regs) = n
          /\ \A i \in 1 .. n : Top.regs[i] = s + i
          /\ PoolAt(pool, s + n)
    BY <1>5, TopRegs DEF NInv
  <2>2. n = 4
    BY <1>7, <2>1
  <2>6. 4 \in Nat /\ 3 \in 1 .. 4 + 1 /\ 4 \in 0 .. 4 /\ 3 <= 4 + 1
    OBVIOUS
  <2>3. SubSeq(Run(s, 4), 3, 4) = Run(s + 3 - 1, 4 - 3 + 1)
    BY <2>6, RunPart
  <2>4. s + 3 - 1 = s + 2 /\ 4 - 3 + 1 = 2 /\ s + n = (s + 2) + 2 /\ s + 2 \in Nat
    BY <2>2
  <2>5. SubSeq(Top.regs, 3, 4) = Run(s + 2, 2) /\ PoolAt(pool, (s + 2) + 2)
    BY <2>1, <2>2, <2>3, <2>4
  <2> QED
    BY <2>4, <2>5, FreedNext
<1>3. OpenEnough(open')
  <2>1. Len(SubSeq(Top.regs, 1, 2) \o lhs) = 3
    <3>2. SubSeq(Top.regs, 1, 2) \in Seq(Nat) /\ Len(SubSeq(Top.regs, 1, 2)) = 2
      <4>1. \A i \in 1 .. 2 : Top.regs[i] \in Nat
        BY <1>7
      <4> QED
        BY <1>7, <4>1, SubSeqProperties
    <3> HIDE DEF freed
    <3>1. Len(SubSeq(Top.regs, 1, 2) \o Taken(freed, 1)) = Len(SubSeq(Top.regs, 1, 2)) + 1
      BY <1>8, <3>2, OneMore
    <3> QED
      BY <3>1, <3>2
  <2>2. Enough(Top.kind, 2, Top.keys, 3)
    BY <1>5 DEF Enough
  <2> HIDE DEF lhs
  <2> QED
    BY <1>5, <2>1, <2>2, EnoughTop
<1>4. NamesWritten
  <2> DEFINE r == Temps(Top.regs)
  <2>1. /\ r[1] \in KnownRegs' /\ r[2] \in KnownRegs'
        /\ r[3] \in KnownRegs' /\ r[4] \in KnownRegs'
    BY <1>6, <1>7
  <2>2. Temp(lhs[1]) \in KnownRegs'
    <3>1. PICK t \in Nat : PoolAt(freed, t)
      BY <1>8
    <3>2. After(freed, 1).made <= pool'.made
      <4>1. PoolAt(After(freed, 1), t + 1) /\ t + 1 \in Nat
        BY <3>1, TakenNext
      <4>2. After(freed, 1).made \in Nat
        BY <4>1, MadeAll
      <4> QED
        BY <1>5, <4>2
    <3> HIDE DEF freed
    <3>3. /\ Temps(Taken(freed, 1))[1] \in KnownRegs'
          /\ Temps(Taken(freed, 1))[1] = Temp(Taken(freed, 1)[1])
      BY <1>1, <1>2, <3>1, <3>2, NextNamed
    <3> QED
      BY <3>3
  <2>3. Emit(<<Sta(r[4]), Mov(r[1], r[3]), Mov(r[2], r[4]),
                   Use(<<r[1], r[2]>>), Sta(Temp(lhs[1]))>>)
    BY DEF CompoundProperty
  <2> HIDE DEF r, lhs, freed
  <2>4. /\ Named(Sta(r[4]), KnownRegs') /\ Named(Mov(r[1], r[3]), KnownRegs')
        /\ Named(Mov(r[2], r[4]), KnownRegs') /\ Named(Use(<<r[1], r[2]>>), KnownRegs')
        /\ Named(Sta(Temp(lhs[1])), KnownRegs')
    BY <2>1, <2>2, NamedOps
  <2>5. PICK more : more = <<Sta(r[4]), Mov(r[1], r[3]), Mov(r[2], r[4]),
                   Use(<<r[1], r[2]>>), Sta(Temp(lhs[1]))>>
    OBVIOUS
  <2>6. NamedBy(more, KnownRegs')
    BY <2>4, <2>5, NamedCode
  <2> QED
    BY <2>3, <2>5, <2>6 DEF NamesWritten
<1> QED
  BY <1>1, <1>2, <1>3, <1>4, NamesKept

(* and is stored to.                                                      *)
LEMMA EndCompoundNamed ==
  ASSUME NInv, EndCompound
  PROVE  NInv'
<1>1. Moved /\ Written /\ Kept
  BY EndCompoundStep DEF NInv
<1>2. Grown
  <2>1. \E more : Emit(more)
    BY DEF EndCompound
  <2>2. UNCHANGED <<locals, params, callOpt, generated>> /\ needed \subseteq needed'
    BY DEF EndCompound
  <2> QED
    BY <2>1, <2>2, SameGrown
<1>5. /\ open # <<>> /\ Top.kind = "compound" /\ Top.step = 2
      /\ End
  BY DEF EndCompound, InTop
<1>6. /\ Temps(Top.regs) \in Seq(KnownRegs')
      /\ Len(Temps(Top.regs)) = Len(Top.regs) /\ Len(Top.regs) \in Nat
      /\ \A i \in 1 .. Len(Top.regs) :
           Temps(Top.regs)[i] \in KnownRegs' /\ Temps(Top.regs)[i] = Temp(Top.regs[i])
      /\ Enough(Top.kind, Top.step, Top.keys, Len(Top.regs))
      /\ Top \in Frames
  BY <1>1, <1>2, <1>5, TopNamed
<1>3. OpenEnough(open')
  BY <1>5, EnoughEnd
<1>4. NamesWritten
  <2> DEFINE r == Temps(Top.regs)
  <2>1. r[1] \in KnownRegs' /\ r[2] \in KnownRegs' /\ r[3] \in KnownRegs'
    <3>1. Len(Top.regs) = 3
      BY <1>5, <1>6 DEF Frames, ShapeOK
    <3> QED
      BY <1>6, <3>1
  <2>2. Emit(<<Use(<<r[3]>>), Use(<<r[1], r[2]>>)>>)
    BY DEF EndCompound
  <2> HIDE DEF r
  <2> QED
    BY <2>1, <2>2, NamedOps, FewWritten, ZenonT(60)
<1> QED
  BY <1>1, <1>2, <1>3, <1>4, NamesKept

(* A pattern takes two and one for each property,                         *)
LEMMA StartPatternNamed ==
  ASSUME NInv, NEW n \in Nat, StartPattern(n)
  PROVE  NInv'
<1>1. Moved /\ Written /\ Kept
  BY StartPatternStep DEF NInv
<1>2. Grown
  <2>1. \E more : Emit(more)
    BY DEF StartPattern
  <2>2. UNCHANGED <<locals, params, callOpt, generated>> /\ needed \subseteq needed'
    BY DEF StartPattern
  <2> QED
    BY <2>1, <2>2, SameGrown
<1>5. PICK t \in Nat : PoolAt(pool, t)
  BY DEF NInv, IInv, Ordered
<1>6. PICK m \in Nat : m = 2 + n /\ m >= 2
  OBVIOUS
<1>3. OpenEnough(open')
  <2> DEFINE f == [kind |-> "pattern", regs |-> Taken(pool, m), step |-> 0, keys |-> 0]
  <2>1. open' = Append(open, f)
    BY <1>6 DEF StartPattern, Begin
  <2>2. f \in Frames /\ Len(Taken(pool, m)) = m
    <3>1. Taken(pool, m) = Run(t, m)
      BY <1>5, TakenNext
    <3>2. Taken(pool, m) \in Seq(Nat) /\ Len(Taken(pool, m)) = m
      BY <3>1, RunSeq
    <3>3. ShapeOK("pattern", 0, m) /\ "pattern" \in Kinds
      BY DEF ShapeOK, Kinds
    <3> QED
      BY <3>2, <3>3, NewFrame
  <2>3. Enough(f.kind, f.step, f.keys, Len(f.regs))
    <3>1. Enough("pattern", 0, 0, m)
      BY <1>6 DEF Enough
    <3> QED
      BY <2>2, <3>1
  <2> HIDE DEF f
  <2> QED
    BY <2>1, <2>2, <2>3, EnoughPush
<1>4. NamesWritten
  <2> DEFINE r == Temps(Taken(pool, m))
  <2>1. Emit(<<Sta(r[1]), Sta(r[2])>>) /\ pool' = After(pool, m)
    BY <1>6 DEF StartPattern, Pool
  <2>2. After(pool, m).made <= pool'.made
    <3>1. pool'.made \in Nat
      BY <1>1, MadeNat DEF Moved
    <3> QED
      BY <2>1, <3>1
  <2>3. \A i \in 1 .. m : r[i] \in KnownRegs'
    BY <1>1, <1>2, <1>5, <2>2, NextNamed
  <2>4. 1 \in 1 .. m /\ 2 \in 1 .. m
    BY <1>6
  <2> HIDE DEF r
  <2> QED
    BY <2>1, <2>3, <2>4, NamedOps, FewWritten
<1> QED
  BY <1>1, <1>2, <1>3, <1>4, NamesKept

(* and one more for what a key loads;                                     *)
LEMMA PatternKeyNamed ==
  ASSUME NInv, PatternKey
  PROVE  NInv'
<1>1. Moved /\ Written /\ Kept
  BY PatternKeyStep DEF NInv
<1>2. Grown
  <2>1. \E more : Emit(more)
    BY DEF PatternKey
  <2>2. UNCHANGED <<locals, params, callOpt, generated>> /\ needed \subseteq needed'
    BY DEF PatternKey
  <2> QED
    BY <2>1, <2>2, SameGrown
<1>5. /\ open # <<>> /\ Top.kind = "pattern" /\ Top.step = 0
      /\ 2 + Top.keys < Len(Top.regs)
      /\ Becomes(1, Top.regs \o Taken(pool, 1), Top.keys + 1)
  BY DEF PatternKey, InTop
<1>6. Len(Top.regs) \in Nat /\ Top \in Frames
  BY <1>1, <1>2, <1>5, TopNamed
<1>7. Len(Top.regs \o Taken(pool, 1)) = Len(Top.regs) + 1
  <2>1. Top.regs \in Seq(Nat)
    BY <1>5, TopRegs DEF NInv, Frames
  <2>2. PICK t \in Nat : PoolAt(pool, t)
    BY DEF NInv, IInv, Ordered
  <2> QED
    BY <2>1, <2>2, OneMore
<1>3. OpenEnough(open')
  <2>1. Enough(Top.kind, 1, Top.keys + 1, Len(Top.regs) + 1)
    <3>1. Top.keys \in Nat
      BY <1>6 DEF Frames
    <3>2. 2 + (Top.keys + 1) + 1 <= Len(Top.regs) + 1
      BY <1>5, <1>6, <3>1
    <3> QED
      BY <1>5, <3>2 DEF Enough
  <2> QED
    BY <1>5, <1>7, <2>1, EnoughTop
<1>4. NamesWritten
  BY FewWritten DEF PatternKey
<1> QED
  BY <1>1, <1>2, <1>3, <1>4, NamesKept

(* each is loaded                                                         *)
LEMMA PatternLoadNamed ==
  ASSUME NInv, PatternLoad
  PROVE  NInv'
<1>1. Moved /\ Written /\ Kept
  BY PatternLoadStep DEF NInv
<1>2. Grown
  <2>1. \E more : Emit(more)
    BY DEF PatternLoad
  <2>2. UNCHANGED <<locals, params, callOpt, generated>> /\ needed \subseteq needed'
    BY DEF PatternLoad
  <2> QED
    BY <2>1, <2>2, SameGrown
<1>5. /\ open # <<>> /\ Top.kind = "pattern" /\ Top.step = 1
      /\ Step(2)
  BY DEF PatternLoad, InTop
<1>6. /\ Len(Temps(Top.regs)) = Len(Top.regs) /\ Len(Top.regs) \in Nat
      /\ \A i \in 1 .. Len(Top.regs) :
           Temps(Top.regs)[i] \in KnownRegs' /\ Temps(Top.regs)[i] = Temp(Top.regs[i])
      /\ Enough(Top.kind, Top.step, Top.keys, Len(Top.regs))
      /\ Top \in Frames
  BY <1>1, <1>2, <1>5, TopNamed
<1>3. OpenEnough(open')
  <2>1. Enough(Top.kind, 2, Top.keys, Len(Top.regs))
    BY <1>5, <1>6 DEF Enough
  <2> QED
    BY <1>5, <2>1, EnoughTop DEF Step
<1>4. NamesWritten
  <2> DEFINE r    == Temps(Top.regs)
             n    == Len(Top.regs)
             key  == 2 + Top.keys
  <2>1. 2 \in 1 .. n /\ key \in 1 .. n /\ n \in 1 .. n /\ Len(r) = n
    <3>1. key + 1 <= n /\ Top.keys \in Nat
      BY <1>5, <1>6 DEF Enough, Frames
    <3> QED
      BY <1>6, <3>1
  <2>2. r[2] \in KnownRegs' /\ r[key] \in KnownRegs' /\ Last(r) \in KnownRegs'
    BY <1>6, <2>1 DEF Last
  <2>3. Emit(<<Sta(r[key]), Use(<<r[2], r[key]>>), Sta(Last(r))>>)
    BY DEF PatternLoad
  <2> HIDE DEF r, key, n
  <2>4. /\ Named(Sta(r[key]), KnownRegs') /\ Named(Use(<<r[2], r[key]>>), KnownRegs')
        /\ Named(Sta(Last(r)), KnownRegs')
    BY <2>2, NamedOps
  <2> QED
    BY <2>3, <2>4, FewWritten
<1> QED
  BY <1>1, <1>2, <1>3, <1>4, NamesKept

(* and stored.                                                            *)
LEMMA PatternStoreNamed ==
  ASSUME NInv, PatternStore
  PROVE  NInv'
<1>1. Moved /\ Written /\ Kept
  BY PatternStoreStep DEF NInv
<1>2. Grown
  <2>1. \E more : Emit(more)
    BY DEF PatternStore
  <2>2. UNCHANGED <<locals, params, callOpt, generated>> /\ needed \subseteq needed'
    BY DEF PatternStore
  <2> QED
    BY <2>1, <2>2, SameGrown
<1>5. /\ open # <<>> /\ Top.kind = "pattern" /\ Top.step = 2
      /\ Becomes(0, Front(Top.regs), Top.keys)
  BY DEF PatternStore, InTop
<1>6. /\ Enough(Top.kind, Top.step, Top.keys, Len(Top.regs)) /\ Top \in Frames
  BY <1>1, <1>2, <1>5, TopNamed
<1>7. Top.regs \in Seq(Nat) /\ Top.keys \in Nat /\ Top.regs # <<>>
      /\ 2 + Top.keys + 1 <= Len(Top.regs)
  <2>1. 2 + Top.keys + 1 <= Len(Top.regs)
    BY <1>5, <1>6 DEF Enough
  <2>2. Top.regs \in Seq(Nat) /\ Top.keys \in Nat
    BY <1>6 DEF Frames
  <2> QED
    BY <2>1, <2>2
<1>3. OpenEnough(open')
  <2>1. Len(Front(Top.regs)) = Len(Top.regs) - 1 /\ Len(Top.regs) \in Nat
    BY <1>7, AllButLast
  <2>2. 2 + Top.keys + 0 <= Len(Front(Top.regs))
    BY <1>7, <2>1
  <2>3. Enough(Top.kind, 0, Top.keys, Len(Front(Top.regs)))
    BY <1>5, <2>2 DEF Enough
  <2> QED
    BY <1>5, <2>3, EnoughTop
<1>4. NamesWritten
  BY FewWritten DEF PatternStore
<1> QED
  BY <1>1, <1>2, <1>3, <1>4, NamesKept

(* The value is the result.                                               *)
LEMMA EndPatternNamed ==
  ASSUME NInv, EndPattern
  PROVE  NInv'
<1>1. Moved /\ Written /\ Kept
  BY EndPatternStep DEF NInv
<1>2. Grown
  <2>1. \E more : Emit(more)
    BY DEF EndPattern
  <2>2. UNCHANGED <<locals, params, callOpt, generated>> /\ needed \subseteq needed'
    BY DEF EndPattern
  <2> QED
    BY <2>1, <2>2, SameGrown
<1>5. /\ open # <<>> /\ Top.kind = "pattern" /\ Top.step = 0
      /\ End
  BY DEF EndPattern, InTop
<1>6. /\ Temps(Top.regs) \in Seq(KnownRegs')
      /\ Len(Temps(Top.regs)) = Len(Top.regs) /\ Len(Top.regs) \in Nat
      /\ \A i \in 1 .. Len(Top.regs) :
           Temps(Top.regs)[i] \in KnownRegs' /\ Temps(Top.regs)[i] = Temp(Top.regs[i])
      /\ Enough(Top.kind, Top.step, Top.keys, Len(Top.regs))
      /\ Top \in Frames
  BY <1>1, <1>2, <1>5, TopNamed
<1>3. OpenEnough(open')
  BY <1>5, EnoughEnd
<1>4. NamesWritten
  <2>1. Temp(Top.regs[1]) \in KnownRegs'
    <3>1. 1 \in 1 .. Len(Top.regs)
      <4>1. 2 + Top.keys <= Len(Top.regs) /\ Top.keys \in Nat
        BY <1>5, <1>6 DEF Enough, Frames
      <4> QED
        BY <1>6, <4>1
    <3> QED
      BY <1>6, <3>1
  <2> QED
    BY <2>1, NamedOps, FewWritten DEF EndPattern
<1> QED
  BY <1>1, <1>2, <1>3, <1>4, NamesKept

(* The rest of a pattern, bound to a variable.                             *)
LEMMA EndPatternRestNamed ==
  ASSUME NInv, EndPatternRest("binding")
  PROVE  NInv'
<1> DEFINE r    == Temps(Top.regs)
           undef == Taken(pool, 1)
           keys == IF Top.keys = 0 THEN Temps(undef) ELSE SubSeq(r, 3, 2 + Top.keys)
           p    == Freed(After(pool, 1), undef)
           test == IF Top.keys = 0 THEN <<Sta(keys[1])>> ELSE <<>>
           make == Insn("keys", <<r[2]>> \o keys)
<1>0. /\ open # <<>> /\ End /\ pool' = Freed(p, Top.regs)
      /\ Top.kind = "pattern" /\ Top.step = 0
      /\ Len(Top.regs) = 2 + Top.keys + 1
      /\ Emit((((<<>> \o test) \o <<make>>) \o <<>>) \o <<Lda(r[1])>>)
      /\ needed' = IF Top.keys = 0 THEN needed \cup {"null", "undefined"} ELSE needed
      /\ UNCHANGED <<locals, params, callOpt, generated>>
  BY DEF EndPatternRest, InTop, Pool
<1>1. Moved /\ Written /\ Kept
  BY EndPatternRestStep DEF NInv
<1>2. Grown
  <2>1. needed \subseteq needed'
    BY <1>0
  <2> QED
    BY <1>0, <2>1, SameGrown
<1>3. OpenEnough(open')
  BY <1>0, EnoughEnd
<1>4. PICK s \in Nat, n \in Nat :
        /\ Top.regs = Run(s, n) /\ Len(Top.regs) = n
        /\ \A i \in 1 .. n : Top.regs[i] = s + i
        /\ PoolAt(pool, s + n)
  BY <1>0, TopRegs DEF NInv
<1>5. Top.keys \in Nat /\ n = 3 + Top.keys
  <2>1. Top.keys \in Nat
    BY <1>0, TopRegs DEF Frames, NInv
  <2> QED
    BY <1>0, <1>4, <2>1
<1>6. /\ r \in Seq(KnownRegs') /\ Len(r) = n
      /\ \A i \in 1 .. n : r[i] \in KnownRegs' /\ r[i] = Temp(s + i)
  BY <1>0, <1>1, <1>2, <1>4, TopNamed
<1>7. /\ Temps(undef) \in Seq(KnownRegs') /\ Len(Temps(undef)) = 1
      /\ Temps(undef)[1] \in KnownRegs' /\ Temps(undef)[1] = Temp(s + n + 1)
  <2>1. s + n \in Nat
    OBVIOUS
  <2>2. After(pool, 1).made <= pool'.made
    <3>1. pool'.made = After(pool, 1).made
      BY <1>0 DEF Freed
    <3>2. After(pool, 1).made \in Nat
      BY <1>4, <2>1, Borrowed
    <3> QED
      BY <3>1, <3>2
  <2>3. ASSUME NEW t \in Nat, PoolAt(pool, t)
        PROVE  /\ Temps(Taken(pool, 1)) \in Seq(KnownRegs') /\ Len(Temps(Taken(pool, 1))) = 1
               /\ Temps(Taken(pool, 1))[1] \in KnownRegs'
               /\ Temps(Taken(pool, 1))[1] = Temp(Taken(pool, 1)[1])
               /\ Taken(pool, 1)[1] = t + 1
    <3> HIDE DEF undef, keys, test, make, p, r
    <3>1. Temps(Taken(pool, 1)) \in Seq(KnownRegs')
      BY <1>1, <1>2, <2>2, <2>3, NextNamed
    <3>2. Len(Temps(Taken(pool, 1))) = 1
      <4>1. Taken(pool, 1) = Run(t, 1)
        BY <2>3, TakenNext
      <4>2. Temps(Run(t, 1)) = [i \in 1 .. 1 |-> Temp(Run(t, 1)[i])]
        BY DEF Run, Temps
      <4>3. Len(Temps(Run(t, 1))) = 1
        BY <4>2
      <4> QED
        BY <4>1, <4>3
    <3>3. /\ Temps(Taken(pool, 1))[1] \in KnownRegs'
          /\ Temps(Taken(pool, 1))[1] = Temp(Taken(pool, 1)[1])
      BY <1>1, <1>2, <2>2, <2>3, NextNamed
    <3>4. Taken(pool, 1)[1] = t + 1
      BY <2>3, TakenNext, SMTT(60) DEF Run
    <3> QED
      BY <3>1, <3>2, <3>3, <3>4
  <2>4. /\ Temps(undef) \in Seq(KnownRegs') /\ Len(Temps(undef)) = 1
        /\ Temps(undef)[1] \in KnownRegs'
        /\ Temps(undef)[1] = Temp(undef[1]) /\ undef[1] = (s + n) + 1
    BY <1>4, <2>1, <2>3
  <2> HIDE DEF undef
  <2>5. undef[1] = s + n + 1
    BY <2>4
  <2> QED
    BY <2>4, <2>5
<1> HIDE DEF r, undef, p
<1>8. /\ keys \in Seq(KnownRegs') /\ Len(keys) >= 1
      /\ keys[1] \in KnownRegs'
      /\ keys[1] \in {Temp(s + 3), Temp(s + 4)}
  <2>1. CASE Top.keys = 0
    <3>1. keys = Temps(undef) /\ s + n + 1 = s + 4
      BY <1>5, <2>1
    <3>2. Temp(s + n + 1) = Temp(s + 4)
      BY <3>1
    <3> HIDE DEF keys, test, make
    <3>3. Len(keys) = 1 /\ keys[1] = Temp(s + 4)
      BY <1>7, <3>1, <3>2, Zenon
    <3>4. keys \in Seq(KnownRegs') /\ keys[1] \in KnownRegs'
      BY <1>7, <3>1, Zenon
    <3> QED
      BY <3>3, <3>4
  <2>2. CASE Top.keys # 0
    <3>1. PICK k \in Nat : k = Top.keys /\ n = 3 + k /\ k >= 1
      BY <1>5, <2>2
    <3>2. keys = SubSeq(r, 3, 2 + k)
      BY <2>2, <3>1
    <3> HIDE DEF keys
    <3>3. /\ keys \in Seq(KnownRegs') /\ Len(keys) = k
          /\ \A i \in 1 .. k : keys[i] = r[i + 2]
      BY <1>6, <3>1, <3>2, KeyRegs, SMTT(60)
    <3>4. 1 \in 1 .. k /\ 3 \in 1 .. n
      BY <3>1
    <3>5. keys[1] = r[3]
      <4>1. keys[1] = r[1 + 2]
        BY <3>3, <3>4, Zenon
      <4> QED
        BY <4>1
    <3>6. r[3] = Temp(s + 3) /\ r[3] \in KnownRegs'
      BY <1>6, <3>4, Zenon
    <3> QED
      BY <3>1, <3>3, <3>5, <3>6
  <2> QED
    BY <2>1, <2>2
<1>9. /\ r[1] \in KnownRegs' /\ r[2] \in KnownRegs' /\ r[2] = Temp(s + 2)
  <2>1. 1 \in 1 .. n /\ 2 \in 1 .. n
    BY <1>5
  <2> QED
    BY <1>6, <2>1
<1> HIDE DEF keys
<1>10. Named(make, KnownRegs')
  <2> DEFINE q == <<r[2]>> \o keys
  <2>1. q \in Seq(KnownRegs') /\ Len(q) = 1 + Len(keys) /\ q[1] = r[2] /\ q[2] = keys[1]
    <3>1. <<r[2]>> \in Seq(KnownRegs') /\ Len(<<r[2]>>) = 1 /\ <<r[2]>>[1] = r[2]
      BY <1>9
    <3>2. PICK h : h = <<r[2]>>
      OBVIOUS
    <3>3. h \in Seq(KnownRegs') /\ Len(h) = 1 /\ h[1] = r[2]
      BY <3>1, <3>2
    <3> QED
      BY <1>8, <3>2, <3>3, ConcatProperties
  <2>2. Len(q) >= 2
    BY <1>8, <2>1
  <2>3. \E a \in Nat : q[1] = Temp(a) /\ q[2] \in {Temp(a + 1), Temp(a + 2)}
    <3>1. s + 2 \in Nat /\ (s + 2) + 1 = s + 3 /\ (s + 2) + 2 = s + 4
      OBVIOUS
    <3> HIDE DEF q
    <3>2. q[1] = Temp(s + 2) /\ q[2] \in {Temp((s + 2) + 1), Temp((s + 2) + 2)}
      BY <1>8, <1>9, <2>1, <3>1
    <3> QED
      BY <3>1, <3>2
  <2> HIDE DEF q
  <2>4. Named(Insn("keys", q), KnownRegs')
    BY <2>1, <2>2, <2>3 DEF Named, Shape, Insn, OneReg
  <2> QED
    BY <2>4 DEF q
<1> HIDE DEF make
<1>11. NamesWritten
  <2>1. ASSUME NEW a, NEW b, NamedBy(a, KnownRegs'), NamedBy(b, KnownRegs')
        PROVE  NamedBy(a \o b, KnownRegs')
    BY <2>1, NamedConcat
  <2>2. PICK none, c, d : none = <<>> /\ c = <<make>> /\ d = <<Lda(r[1])>>
    OBVIOUS
  <2>3. NamedBy(none, KnownRegs') /\ NamedBy(c, KnownRegs') /\ NamedBy(d, KnownRegs')
    <3>1. Named(Lda(r[1]), KnownRegs')
      BY <1>9, NamedOps
    <3> QED
      BY <1>10, <2>2, <3>1, NamedCode
  <2>4. NamedBy(test, KnownRegs')
    <3>1. NamedBy(<<>>, KnownRegs') /\ NamedBy(<<Sta(keys[1])>>, KnownRegs')
      BY <1>8, NamedOps, NamedCode
    <3> QED
      BY <3>1
  <2>5. Emit((((none \o test) \o c) \o none) \o d)
    BY <1>0, <2>2
  <2> HIDE DEF test
  <2>6. NamedBy((((none \o test) \o c) \o none) \o d, KnownRegs')
    BY <2>1, <2>3, <2>4
  <2> QED
    BY <2>5, <2>6 DEF NamesWritten
<1> QED
  BY <1>1, <1>2, <1>3, <1>11, NamesKept

(* callOpt: some of the first H locals stay, and all the others.           *)
LeftParts(H, D, used, n, kept, part) ==
  /\ used \in SUBSET (1 .. H) /\ n = Cardinality(used) /\ n <= H
  /\ IsFiniteSet(used)
  /\ kept \in Seq(Nat) /\ Len(kept) = n
  /\ \A i \in 1 .. n : kept[i] = Smallest(used, i)
  /\ part \in Seq(Nat) /\ Len(part) = D
  /\ \A i \in 1 .. D : part[i] = H + i

LeftWhole(H, D, used, n, left) ==
  /\ left \in Seq(Nat) /\ Len(left) = n + D
  /\ \A i, j \in 1 .. n + D : left[i] = left[j] => i = j
  /\ Range(left) = used \cup (H + 1 .. H + D)

(* The registers that stay and the temporaries after them, joined: each    *)
(* once.                                                                   *)
LEMMA LeftConcat ==
  ASSUME NEW H \in Nat, NEW D \in Nat, NEW used, NEW n \in Nat, NEW kept, NEW part,
         LeftParts(H, D, used, n, kept, part)
  PROVE  LeftWhole(H, D, used, n, kept \o part)
<1>1. /\ \A i \in 1 .. n : kept[i] \in used
      /\ \A i \in 1 .. n : Cardinality(Below(used, kept[i])) = i
      /\ \A r \in used : \E i \in 1 .. n : kept[i] = r
  <2>0. /\ n = Cardinality(used) /\ IsFiniteSet(used) /\ used \in SUBSET (1 .. H)
        /\ \A i \in 1 .. n : kept[i] = Smallest(used, i)
    BY DEF LeftParts
  <2>1. used \in SUBSET Nat
    BY <2>0
  <2>2. \A i \in 1 .. n : /\ Smallest(used, i) \in used
                          /\ Cardinality(Below(used, Smallest(used, i))) = i
    BY <2>0, <2>1, SmallestRank
  <2>3. \A r \in used : /\ Cardinality(Below(used, r)) \in 1 .. n
                        /\ Smallest(used, Cardinality(Below(used, r))) = r
    BY <2>0, <2>1, SmallestRank, Ranks
  <2> QED
    BY <2>0, <2>2, <2>3
<1>2. PICK m \in Nat : m = n + D
  OBVIOUS
<1>3. PICK left : left = kept \o part
  OBVIOUS
<1>4. /\ left \in Seq(Nat) /\ Len(left) = m
      /\ \A i \in 1 .. m : left[i] = IF i <= n THEN kept[i] ELSE part[i - n]
  <2>1. /\ kept \o part \in Seq(Nat) /\ Len(kept \o part) = Len(kept) + Len(part)
        /\ \A i \in 1 .. Len(kept) + Len(part) :
             (kept \o part)[i] = IF i <= Len(kept) THEN kept[i] ELSE part[i - Len(kept)]
    BY ConcatProperties DEF LeftParts
  <2>2. Len(kept) = n /\ Len(part) = D
    BY DEF LeftParts
  <2> QED
    BY <1>2, <1>3, <2>1, <2>2
<1>5. ASSUME NEW i \in 1 .. m
      PROVE  /\ i <= n => i \in 1 .. n /\ left[i] = kept[i] /\ left[i] \in used /\ left[i] <= H
             /\ ~(i <= n) => left[i] = H + (i - n) /\ H + (i - n) \in H + 1 .. H + D
  <2>1. CASE i <= n
    <3>1. i \in 1 .. n
      BY <2>1
    <3>2. left[i] = kept[i] /\ kept[i] \in used
      BY <1>1, <1>4, <2>1, <3>1
    <3>3. \A u \in used : u <= H
      BY DEF LeftParts
    <3> QED
      BY <2>1, <3>1, <3>2, <3>3
  <2>2. CASE ~(i <= n)
    <3>1. i - n \in 1 .. D
      BY <1>2, <2>2
    <3>4. part[i - n] = H + (i - n)
      BY <3>1 DEF LeftParts
    <3>2. left[i] = part[i - n] /\ part[i - n] = H + (i - n)
      BY <1>4, <2>2, <3>4
    <3>3. H + (i - n) \in H + 1 .. H + D
      BY <3>1
    <3> QED
      BY <2>2, <3>2, <3>3
  <2> QED
    BY <2>1, <2>2
<1>6. ASSUME NEW i \in 1 .. m, NEW j \in 1 .. m, left[i] = left[j]
      PROVE  i = j
  <2>1. CASE i <= n /\ j <= n
    <3>1. i \in 1 .. n /\ j \in 1 .. n /\ kept[i] = kept[j]
      BY <1>5, <1>6, <2>1
    <3>2. Cardinality(Below(used, kept[i])) = i /\ Cardinality(Below(used, kept[j])) = j
      BY <1>1, <3>1
    <3> QED
      BY <3>1, <3>2
  <2>2. CASE ~(i <= n) /\ ~(j <= n)
    <3>1. H + (i - n) = H + (j - n)
      BY <1>5, <1>6, <2>2
    <3> QED
      BY <3>1
  <2>3. CASE i <= n /\ ~(j <= n)
    <3>1. left[i] <= H /\ left[j] \in H + 1 .. H + D
      BY <1>5, <2>3
    <3> QED
      BY <1>6, <3>1
  <2>4. CASE ~(i <= n) /\ j <= n
    <3>1. left[j] <= H /\ left[i] \in H + 1 .. H + D
      BY <1>5, <2>4
    <3> QED
      BY <1>6, <3>1
  <2> QED
    BY <2>1, <2>2, <2>3, <2>4
<1>7. Range(left) = used \cup (H + 1 .. H + D)
  <2>1. DOMAIN left = 1 .. m
    BY <1>4, LenProperties
  <2>2. ASSUME NEW r \in used PROVE \E i \in 1 .. m : left[i] = r
    <3>1. PICK i \in 1 .. n : kept[i] = r
      BY <1>1
    <3>2. i \in 1 .. m /\ i <= n
      BY <1>2
    <3>3. left[i] = kept[i]
      BY <1>5, <3>2
    <3> QED
      BY <3>1, <3>2, <3>3
  <2>3. ASSUME NEW r \in H + 1 .. H + D PROVE \E i \in 1 .. m : left[i] = r
    <3>1. PICK i \in Nat : i = n + (r - H)
      OBVIOUS
    <3>4. r - H \in 1 .. D /\ r \in Int
      OBVIOUS
    <3>2. i \in 1 .. m /\ ~(i <= n) /\ H + (i - n) = r
      BY <1>2, <3>1, <3>4
    <3>3. left[i] = H + (i - n)
      BY <1>5, <3>2
    <3> QED
      BY <3>2, <3>3
  <2>4. ASSUME NEW i \in 1 .. m PROVE left[i] \in used \cup (H + 1 .. H + D)
    BY <1>5
  <2>5. Range(left) = {left[i] : i \in 1 .. m}
    BY <2>1 DEF Range
  <2> QED
    BY <2>2, <2>3, <2>4, <2>5, Zenon
<1> QED
  BY <1>2, <1>3, <1>4, <1>6, <1>7 DEF LeftWhole

(* What is left of locals when the registers in use are kept: every        *)
(* register that is not moved, once.                                       *)
LEMMA LocalsLeft ==
  ASSUME NEW L \in Nat, NEW H \in Nat, H <= L, NEW used \in SUBSET (1 .. H)
  PROVE  LET n    == Cardinality(used)
             left == [i \in 1 .. n |-> [k \in 1 .. L |-> k][Smallest(used, i)]]
                       \o SubSeq([k \in 1 .. L |-> k], H + 1, L)
         IN  /\ n \in Nat /\ n <= H
             /\ left \in Seq(Nat) /\ Len(left) = n + (L - H)
             /\ \A i, j \in 1 .. n + (L - H) : left[i] = left[j] => i = j
             /\ Range(left) = used \cup (H + 1 .. L)
<1> DEFINE n == Cardinality(used)
           kept == [i \in 1 .. n |-> [k \in 1 .. L |-> k][Smallest(used, i)]]
           part == SubSeq([k \in 1 .. L |-> k], H + 1, L)
<1>1. IsFiniteSet(used) /\ n \in Nat /\ n <= H
  <2>1. IsFiniteSet(1 .. H) /\ Cardinality(1 .. H) = H
    <3>1. Cardinality(1 .. H) = IF 1 > H THEN 0 ELSE H - 1 + 1
      BY FS_Interval
    <3> QED
      BY <3>1, FS_Interval
  <2> QED
    BY <2>1, FS_Subset, FS_CardinalityType
<1>2. /\ kept \in Seq(Nat) /\ Len(kept) = n
      /\ \A i \in 1 .. n : kept[i] = Smallest(used, i)
  <2>1. \A i \in 1 .. n : Smallest(used, i) \in 1 .. L
    <3>1. used \in SUBSET Nat
      OBVIOUS
    <3>2. \A i \in 1 .. n : Smallest(used, i) \in used
      BY <1>1, <3>1, SmallestRank
    <3>3. \A u \in used : u \in 1 .. L
      OBVIOUS
    <3> HIDE DEF n
    <3> QED
      BY <3>2, <3>3
  <2> HIDE DEF n
  <2>2. \A i \in 1 .. n : [k \in 1 .. L |-> k][Smallest(used, i)] = Smallest(used, i)
    BY <2>1
  <2>3. kept = [i \in 1 .. n |-> Smallest(used, i)]
    BY <2>2
  <2> HIDE DEF kept
  <2> QED
    BY <1>1, <2>1, <2>3
<1>3. /\ part \in Seq(Nat) /\ Len(part) = L - H
      /\ \A i \in 1 .. L - H : part[i] = H + i
  <2>1. PICK q : q = [k \in 1 .. L |-> k]
    OBVIOUS
  <2>2. \A i \in H + 1 .. L : q[i] \in Nat /\ q[i] = i
    BY <2>1
  <2>4. part = [i \in 1 .. L - H |-> H + i]
    <3>1. part = [i \in 1 .. L - (H + 1) + 1 |-> q[(H + 1) + i - 1]]
      BY <2>1
    <3>2. L - (H + 1) + 1 = L - H
      OBVIOUS
    <3>3. \A i \in 1 .. L - H : q[(H + 1) + i - 1] = H + i
      BY <2>2
    <3> HIDE DEF part
    <3> QED
      BY <3>1, <3>2, <3>3
  <2> HIDE DEF part
  <2>5. L - H \in Nat /\ \A i \in 1 .. L - H : H + i \in Nat
    OBVIOUS
  <2> QED
    BY <2>4, <2>5
<1> HIDE DEF kept, part
<1>4. /\ kept \o part \in Seq(Nat) /\ Len(kept \o part) = n + (L - H)
      /\ \A i, j \in 1 .. n + (L - H) : (kept \o part)[i] = (kept \o part)[j] => i = j
      /\ Range(kept \o part) = used \cup (H + 1 .. L)
  <2>1. PICK D \in Nat : D = L - H /\ L = H + D
    OBVIOUS
  <2>2. n = Cardinality(used)
    OBVIOUS
  <2>3. Len(part) = D /\ \A i \in 1 .. D : part[i] = H + i
    BY <1>3, <2>1
  <2> HIDE DEF n
  <2>5. LeftParts(H, D, used, n, kept, part)
    BY <1>1, <1>2, <1>3, <2>2, <2>3 DEF LeftParts
  <2>4. LeftWhole(H, D, used, n, kept \o part)
    BY <1>1, <2>5, LeftConcat
  <2> QED
    BY <2>1, <2>4 DEF LeftWhole
<1> QED
  BY <1>1, <1>4 DEF kept, part

(* The end of the generation.                                              *)
LEMMA CompiledNamed ==
  ASSUME NInv, NEW debug \in BOOLEAN, Compiled(debug)
  PROVE  NInv'
<1> DEFINE used == {i \in 1 .. Hidden : debug \/ i \in callOpt}
           n    == Cardinality(used)
           kept == [i \in 1 .. n |-> locals[Smallest(used, i)]]
           L    == Len(locals)
<1>0. /\ open = <<>> /\ ~generated
      /\ generated'
      /\ locals' = kept \o SubSeq(locals, Hidden + 1, L)
      /\ params' = params - (Hidden - n)
      /\ UNCHANGED <<callOpt, pool, needed, open, insns>>
  BY DEF Compiled
<1>1. IInv'
  BY CompiledStep DEF NInv
<1>2. /\ locals = [i \in 1 .. L |-> i] /\ Hidden <= params /\ params \in Nat
      /\ params <= L /\ NamedBy(insns, KnownRegs) /\ callOpt \subseteq 1 .. Hidden
      /\ OpenEnough(open)
  BY <1>0 DEF NInv
<1>3. L \in Nat /\ Hidden \in Nat /\ Hidden <= L
  <2>1. L \in Nat
    <3>1. locals \in Seq(Range(locals))
      BY DEF NInv, IInv
    <3> QED
      BY <3>1, LenProperties
  <2> QED
    BY <1>2, <2>1, PoolAssumption
<1>4. used \in SUBSET (1 .. Hidden)
  OBVIOUS
<1>5. /\ n \in Nat /\ n <= Hidden
      /\ locals' \in Seq(Nat) /\ Len(locals') = n + (L - Hidden)
      /\ \A i, j \in 1 .. Len(locals') : locals'[i] = locals'[j] => i = j
      /\ Range(locals') = used \cup (Hidden + 1 .. L)
  <2>1. kept = [i \in 1 .. n |-> [k \in 1 .. L |-> k][Smallest(used, i)]]
    BY <1>2
  <2>2. locals' = kept \o SubSeq([k \in 1 .. L |-> k], Hidden + 1, L)
    BY <1>0, <1>2
  <2> DEFINE left == [i \in 1 .. n |-> [k \in 1 .. L |-> k][Smallest(used, i)]]
                       \o SubSeq([k \in 1 .. L |-> k], Hidden + 1, L)
  <2>3. left = locals'
    BY <2>1, <2>2
  <2>4. /\ n \in Nat /\ n <= Hidden
        /\ left \in Seq(Nat) /\ Len(left) = n + (L - Hidden)
        /\ \A i, j \in 1 .. n + (L - Hidden) : left[i] = left[j] => i = j
        /\ Range(left) = used \cup (Hidden + 1 .. L)
    <3> HIDE DEF used, L
    <3> QED
      BY <1>3, <1>4, LocalsLeft
  <2> HIDE DEF left
  <2> QED
    BY <2>3, <2>4
<1>6. params' \in Nat /\ params' <= Len(locals')
  <2> HIDE DEF n, L
  <2> QED
    BY <1>0, <1>2, <1>3, <1>5
<1>7. UsedLocals \subseteq UsedLocals'
  <2>1. UsedLocals' = {i \in Range(locals') : i <= Hidden => i \in callOpt}
    BY <1>0 DEF UsedLocals
  <2>2. Range(locals) = 1 .. L
    BY <1>2 DEF Range
  <2>3. ASSUME NEW i \in 1 .. L, i <= Hidden => i \in callOpt
        PROVE  i \in Range(locals')
    <3>1. CASE i <= Hidden
      <4>1. i \in used
        BY <1>3, <2>3, <3>1
      <4> QED
        BY <1>5, <4>1
    <3>2. CASE ~(i <= Hidden)
      <4>1. i \in Hidden + 1 .. L
        BY <1>3, <3>2
      <4> QED
        BY <1>5, <4>1
    <3> QED
      BY <3>1, <3>2
  <2> QED
    BY <2>1, <2>2, <2>3 DEF UsedLocals
<1>8. NamedBy(insns', KnownRegs')
  <2>1. KnownRegs \subseteq KnownRegs'
    <3>1. KnownRegs' = {Local(i) : i \in UsedLocals'} \cup {Temp(i) : i \in 1 .. pool.made}
                         \cup {Cache(c) : c \in needed}
      BY <1>0 DEF KnownRegs
    <3> QED
      BY <1>7, <3>1 DEF KnownRegs
  <2>2. NamedBy(<<>>, KnownRegs')
    BY NamedCode
  <2>3. NamedBy(insns \o <<>>, KnownRegs')
    BY <1>2, <2>1, <2>2, NamedConcat
  <2>4. insns \o <<>> = insns
    <3>1. PICK S : insns \in Seq(S)
      BY <1>2 DEF NamedBy
    <3> QED
      BY <3>1
  <2> QED
    BY <1>0, <2>3, <2>4
<1>9. OpenEnough(open)' /\ callOpt' \subseteq 1 .. Hidden
  BY <1>0, <1>2 DEF OpenEnough
<1> QED
  BY <1>0, <1>1, <1>5, <1>6, <1>8, <1>9 DEF NInv

(* The beginning.                                                          *)
LEMMA InitNamed ==
  ASSUME Init
  PROVE  NInv
<1>1. IInv
  BY InitOK
<1>2. /\ params \in Hidden .. MaxParams
      /\ locals = [i \in 1 .. params |-> i]
      /\ callOpt = {} /\ open = <<>> /\ insns = <<>>
  BY DEF Init, PoolInit
<1>3. params \in Nat /\ Hidden <= params
  BY <1>2, PoolAssumption
<1>4. Len(locals) = params
  BY <1>2, <1>3
<1>5. \A i \in 1 .. params : locals[i] = i
  BY <1>2
<1>6. OpenEnough(open)
  BY <1>2 DEF OpenEnough
<1>7. NamedBy(insns, KnownRegs)
  BY <1>2, NamedCode
<1> QED
  BY <1>1, <1>2, <1>3, <1>4, <1>5, <1>6, <1>7 DEF NInv

(* Every step keeps the names known.                                       *)
LEMMA NextNamedStep ==
  ASSUME RestTargets \subseteq {"binding"}, NInv, [Next]_vars
  PROVE  NInv'
<1>1. CASE Generate
  <2>1. CASE Variable
    BY <2>1, VariableNamed
  <2>2. CASE Declare
    BY <2>2, DeclareNamed
  <2>3. CASE \E c \in Caches : Constant(c)
    BY <2>3, ConstantNamed
  <2>4. CASE StartBinary
    BY <2>4, StartBinaryNamed
  <2>5. CASE BinaryLeft
    BY <2>5, BinaryLeftNamed
  <2>6. CASE EndBinary
    BY <2>6, EndBinaryNamed
  <2>7. CASE \E b \in BOOLEAN : StartCall(b) \/ Method(b)
    BY <2>7, StartCallNamed, MethodNamed
  <2>8. CASE StartNew
    BY <2>8, StartNewNamed
  <2>9. CASE StartSuper
    BY <2>9, StartSuperNamed
  <2>10. CASE Receiver
    BY <2>10, ReceiverNamed
  <2>11. CASE Callee
    BY <2>11, CalleeNamed
  <2>12. CASE Argument
    BY <2>12, ArgumentNamed
  <2>13. CASE ArgumentValue
    BY <2>13, ArgumentValueNamed
  <2>14. CASE EndCall
    BY <2>14, EndCallNamed
  <2>15. CASE EndSuper
    BY <2>15, EndSuperNamed
  <2>16. CASE StartCompound
    BY <2>16, StartCompoundNamed
  <2>17. CASE CompoundObject
    BY <2>17, CompoundObjectNamed
  <2>18. CASE CompoundProperty
    BY <2>18, CompoundPropertyNamed
  <2>19. CASE EndCompound
    BY <2>19, EndCompoundNamed
  <2>20. CASE \E n \in 0 .. MaxTemps : StartPattern(n)
    <3>1. PICK n \in 0 .. MaxTemps : StartPattern(n)
      BY <2>20
    <3>2. n \in Nat
      BY PoolAssumption
    <3> QED
      BY <3>1, <3>2, StartPatternNamed
  <2>21. CASE PatternKey
    BY <2>21, PatternKeyNamed
  <2>22. CASE PatternLoad
    BY <2>22, PatternLoadNamed
  <2>23. CASE PatternStore
    BY <2>23, PatternStoreNamed
  <2>24. CASE EndPattern
    BY <2>24, EndPatternNamed
  <2>25. CASE \E target \in RestTargets : EndPatternRest(target)
    BY <2>25, EndPatternRestNamed
  <2>26. CASE \E debug \in BOOLEAN : Compiled(debug)
    BY <2>26, CompiledNamed
  <2> QED
    BY <1>1, <2>1, <2>2, <2>3, <2>4, <2>5, <2>6, <2>7, <2>8, <2>9, <2>10,
       <2>11, <2>12, <2>13, <2>14, <2>15, <2>16, <2>17, <2>18, <2>19, <2>20,
       <2>21, <2>22, <2>23, <2>24, <2>25, <2>26 DEF Generate
<1>2. CASE UNCHANGED poolVars
  <2>1. IInv'
    BY NextStep DEF NInv
  <2>2. UsedLocals' = UsedLocals
    BY <1>2 DEF UsedLocals, poolVars
  <2>3. KnownRegs' = KnownRegs
    BY <1>2, <2>2 DEF KnownRegs, poolVars
  <2>4. UNCHANGED <<locals, params, callOpt, pool, needed, open, insns, generated>>
    BY <1>2 DEF poolVars
  <2>5. OpenEnough(open)'
    BY <2>4 DEF NInv, OpenEnough
  <2> QED
    BY <2>1, <2>3, <2>4, <2>5 DEF NInv
<1>3. Generate \/ UNCHANGED poolVars
  BY DEF Next, Allocate, Keep, Adjust, KeepRange, AdjustRange, Parameters, vars
<1> QED
  BY <1>1, <1>2, <1>3

(* Every register that an instruction names was taken, declared or asked   *)
(* for, and no hidden parameter is named that callOpt drops.               *)
THEOREM NamesInvariance ==
  ASSUME RestTargets \subseteq {"binding"}
  PROVE  Spec => []NInv
<1>1. Init => NInv
  BY InitNamed
<1>2. NInv /\ [Next]_vars => NInv'
  BY NextNamedStep
<1> QED
  BY <1>1, <1>2, PTL DEF Spec

-----------------------------------------------------------------------------
(* Numbers.                                                                *)

OneEach(s) == \A i, j \in 1 .. Len(s) : s[i] = s[j] => i = j
Apart(a, b) == \A i \in 1 .. Len(a), j \in 1 .. Len(b) : a[i] # b[j]

(* Two lists without repetition that have nothing in common.               *)
LEMMA ListsApart ==
  ASSUME NEW V, NEW a \in Seq(V), NEW b \in Seq(V), OneEach(a), OneEach(b), Apart(a, b)
  PROVE  /\ a \o b \in Seq(V) /\ Len(a \o b) = Len(a) + Len(b)
         /\ OneEach(a \o b)
         /\ Range(a \o b) = Range(a) \cup Range(b)
<1> DEFINE s == a \o b
           n == Len(a)
           m == Len(b)
<1>1. /\ s \in Seq(V) /\ Len(s) = n + m /\ n \in Nat /\ m \in Nat
      /\ \A i \in 1 .. n + m : s[i] = IF i <= n THEN a[i] ELSE b[i - n]
  BY ConcatProperties
<1>2. DOMAIN a = 1 .. n /\ DOMAIN b = 1 .. m /\ DOMAIN s = 1 .. n + m
  BY <1>1
<1>3. /\ \A i, j \in 1 .. n : a[i] = a[j] => i = j
      /\ \A i, j \in 1 .. m : b[i] = b[j] => i = j
      /\ \A i \in 1 .. n, j \in 1 .. m : a[i] # b[j]
  BY DEF OneEach, Apart
<1> HIDE DEF s, n, m
<1>4. ASSUME NEW i \in 1 .. n + m
      PROVE  \/ i \in 1 .. n /\ s[i] = a[i]
             \/ i \notin 1 .. n /\ i - n \in 1 .. m /\ s[i] = b[i - n]
  BY <1>1
<1>5. ASSUME NEW i \in 1 .. n + m, NEW j \in 1 .. n + m, s[i] = s[j]
      PROVE  i = j
  <2>1. CASE i \in 1 .. n /\ j \in 1 .. n /\ s[i] = a[i] /\ s[j] = a[j]
    BY <1>3, <1>5, <2>1
  <2>2. CASE i - n \in 1 .. m /\ j - n \in 1 .. m /\ s[i] = b[i - n] /\ s[j] = b[j - n]
    <3>1. i - n = j - n
      BY <1>3, <1>5, <2>2
    <3> QED
      BY <1>1, <3>1
  <2>3. CASE i \in 1 .. n /\ j - n \in 1 .. m /\ s[i] = a[i] /\ s[j] = b[j - n]
    BY <1>3, <1>5, <2>3
  <2>4. CASE i - n \in 1 .. m /\ j \in 1 .. n /\ s[i] = b[i - n] /\ s[j] = a[j]
    BY <1>3, <1>5, <2>4
  <2> QED
    BY <1>4, <2>1, <2>2, <2>3, <2>4
<1>6. Range(s) = Range(a) \cup Range(b)
  <2>1. \A i \in 1 .. n : i \in 1 .. n + m /\ s[i] = a[i]
    BY <1>1
  <2>2. ASSUME NEW i \in 1 .. m
        PROVE  \E k \in 1 .. n + m : s[k] = b[i]
    <3>1. n + i \in 1 .. n + m /\ (n + i) - n = i /\ ~(n + i <= n)
      BY <1>1
    <3> QED
      BY <1>1, <3>1
  <2>3. /\ Range(s) = {s[i] : i \in 1 .. n + m}
        /\ Range(a) = {a[i] : i \in 1 .. n} /\ Range(b) = {b[i] : i \in 1 .. m}
    BY <1>2 DEF Range
  <2>4. \A i \in 1 .. n + m : s[i] \in Range(a) \/ s[i] \in Range(b)
    BY <1>4, <2>3
  <2> QED
    BY <2>1, <2>2, <2>3, <2>4
<1> QED
  BY <1>1, <1>5, <1>6 DEF s, n, m, OneEach

(* The caches, each once.                                                  *)
LEMMA CachesOnce ==
  ASSUME IsFiniteSet(needed)
  PROVE  /\ NeededCaches \in Seq(needed)
         /\ OneEach(NeededCaches) /\ Range(NeededCaches) = needed
<1> DEFINE n == Cardinality(needed)
           f == SetToSeq(needed)
<1>1. n \in Nat /\ ExistsBijection(1 .. n, needed)
  BY FS_CardinalityType
<1>2. \E g \in [1 .. n -> needed] : IsInjective(g)
  BY <1>1 DEF ExistsBijection, Bijection, Injection
<1>3. f \in [1 .. n -> needed] /\ IsInjective(f)
  BY <1>2 DEF SetToSeq
<1> HIDE DEF f
<1>4. f \in Injection(1 .. n, needed)
  BY <1>3 DEF Injection
<1>5. IsFiniteSet(1 .. n) /\ Cardinality(1 .. n) = n
  <2> HIDE DEF n
  <2>1. Cardinality(1 .. n) = IF 1 > n THEN 0 ELSE n - 1 + 1
    BY <1>1, FS_Interval
  <2> QED
    BY <1>1, <2>1, FS_Interval
<1>6. f \in Surjection(1 .. n, needed)
  BY <1>4, <1>5, FS_Injection
<1>7. Range(f) = needed
  BY <1>6 DEF Surjection, Range
<1>8. \A i, j \in 1 .. n : f[i] = f[j] => i = j
  BY <1>3 DEF IsInjective
<1> HIDE DEF n
<1>9. f \in Seq(needed) /\ Len(f) = n
  BY <1>1, <1>3
<1> QED
  BY <1>7, <1>8, <1>9 DEF f, NeededCaches, OneEach

(* The registers that get numbers, each once: all that are known.          *)
LEMMA AllocatedOnce ==
  ASSUME NInv, generated
  PROVE  /\ Allocated \in Seq(VRegs) /\ OneEach(Allocated)
         /\ KnownRegs \subseteq VRegs
         /\ params \in Nat /\ params <= Len(Allocated)
<1>1. PICK d \in Nat : pool.free = Run(0, d) /\ pool.made = d
  <2>1. PICK t \in Nat : Stacked(open, t) /\ PoolAt(pool, t)
    BY DEF NInv, IInv, Ordered
  <2>2. t = 0
    <3>1. open = <<>>
      BY DEF NInv, IInv
    <3>2. PICK b : StackedBy(open, b, t)
      BY <2>1 DEF Stacked
    <3>3. Len(open) + 1 = 1
      BY <3>1
    <3> QED
      BY <3>2, <3>3 DEF StackedBy
  <2>3. PICK d \in Nat : pool = [free |-> Run(0, d), made |-> 0 + d]
    BY <2>1, <2>2 DEF PoolAt
  <2> QED
    BY <2>3
<1> DEFINE a == [i \in DOMAIN locals |-> Local(locals[i])]
           b == [i \in 1 .. d |-> Temp(i)]
           c == [i \in DOMAIN NeededCaches |-> Cache(NeededCaches[i])]
           V == (Range(a) \cup Range(b)) \cup Range(c)
<1>2. Allocated = (a \o b) \o c
  <2>1. DOMAIN Run(0, d) = 1 .. d /\ \A i \in 1 .. d : Run(0, d)[i] = i
    BY DEF Run
  <2>2. Temps(pool.free) = b
    BY <1>1, <2>1 DEF Temps
  <2> QED
    BY <2>2 DEF Allocated
<1>3. /\ Len(locals) \in Nat /\ DOMAIN locals = 1 .. Len(locals)
      /\ \A i, j \in 1 .. Len(locals) : locals[i] = locals[j] => i = j
  BY DEF NInv, IInv
<1>4. /\ NeededCaches \in Seq(needed) /\ Range(NeededCaches) = needed
      /\ \A i, j \in 1 .. Len(NeededCaches) : NeededCaches[i] = NeededCaches[j] => i = j
      /\ DOMAIN NeededCaches = 1 .. Len(NeededCaches) /\ Len(NeededCaches) \in Nat
  BY CachesOnce DEF NInv, IInv, OneEach
<1>5. /\ a \in Seq(Range(a)) /\ Len(a) = Len(locals)
      /\ \A i \in 1 .. Len(locals) : a[i] = Local(locals[i])
  <2>1. a = [i \in 1 .. Len(locals) |-> a[i]] /\ DOMAIN a = 1 .. Len(locals)
        /\ \A i \in 1 .. Len(locals) : a[i] = Local(locals[i])
    BY <1>3
  <2> HIDE DEF a
  <2>2. a \in Seq(Range(a))
    BY <1>3, <2>1, ListSeq
  <2> QED
    BY <1>3, <2>1, <2>2
<1>6. /\ b \in Seq(Range(b)) /\ Len(b) = d
      /\ \A i \in 1 .. d : b[i] = Temp(i)
  <2>1. b = [i \in 1 .. d |-> b[i]] /\ DOMAIN b = 1 .. d
        /\ \A i \in 1 .. d : b[i] = Temp(i)
    OBVIOUS
  <2> HIDE DEF b
  <2>2. b \in Seq(Range(b))
    BY <2>1, ListSeq
  <2> QED
    BY <2>1, <2>2
<1>7. /\ c \in Seq(Range(c)) /\ Len(c) = Len(NeededCaches)
      /\ \A i \in 1 .. Len(NeededCaches) : c[i] = Cache(NeededCaches[i])
  <2>1. c = [i \in 1 .. Len(NeededCaches) |-> c[i]] /\ DOMAIN c = 1 .. Len(NeededCaches)
        /\ \A i \in 1 .. Len(NeededCaches) : c[i] = Cache(NeededCaches[i])
    BY <1>4
  <2> HIDE DEF c
  <2>2. c \in Seq(Range(c))
    BY <1>4, <2>1, ListSeq
  <2> QED
    BY <1>4, <2>1, <2>2
<1>8. UsedLocals \subseteq Range(locals)
  BY DEF UsedLocals
<1>9. /\ \A v \in KnownRegs : v \in Range(a) \/ v \in Range(b) \/ v \in Range(c)
  <2>1. \A i \in UsedLocals : Local(i) \in Range(a)
    BY <1>3, <1>5, <1>8 DEF Range
  <2>2. \A i \in 1 .. d : Temp(i) \in Range(b)
    BY <1>6 DEF Range
  <2>3. \A k \in needed : Cache(k) \in Range(c)
    BY <1>4, <1>7 DEF Range
  <2> HIDE DEF a, b, c
  <2> QED
    BY <1>1, <2>1, <2>2, <2>3 DEF KnownRegs
<1> HIDE DEF a, b, c
<1>10. OneEach(a) /\ OneEach(b) /\ OneEach(c)
  <2>1. \A i, j : /\ Local(i) = Local(j) => i = j
                  /\ Temp(i) = Temp(j) => i = j
                  /\ Cache(i) = Cache(j) => i = j
    BY DEF Local, Temp, Cache
  <2>2. OneEach(a)
    BY <1>3, <1>5, <2>1 DEF OneEach
  <2>3. OneEach(b)
    BY <1>6, <2>1 DEF OneEach
  <2>4. OneEach(c)
    BY <1>4, <1>7, <2>1 DEF OneEach
  <2> QED
    BY <2>2, <2>3, <2>4
<1>11. \A i, j : Local(i) # Temp(j) /\ Local(i) # Cache(j) /\ Temp(i) # Cache(j)
  BY DEF Local, Temp, Cache
<1>12. a \in Seq(V) /\ b \in Seq(V) /\ c \in Seq(V)
  BY <1>5, <1>6, <1>7, WiderSeq
<1>13. /\ a \o b \in Seq(V) /\ Len(a \o b) = Len(a) + Len(b)
       /\ OneEach(a \o b) /\ Range(a \o b) = Range(a) \cup Range(b)
  <2>1. Apart(a, b)
    BY <1>5, <1>6, <1>11 DEF Apart
  <2> HIDE DEF V
  <2> QED
    BY <1>10, <1>12, <2>1, ListsApart
<1>14. /\ (a \o b) \o c \in Seq(V) /\ Len((a \o b) \o c) = Len(a \o b) + Len(c)
       /\ OneEach((a \o b) \o c)
       /\ Range((a \o b) \o c) = Range(a \o b) \cup Range(c)
  <2> DEFINE e == a \o b
  <2>1. Apart(e, c)
    <3>1. \A i \in 1 .. Len(a) + Len(b) :
            (a \o b)[i] = IF i <= Len(a) THEN a[i] ELSE b[i - Len(a)]
      BY <1>5, <1>6, SMTT(60)
    <3>2. ASSUME NEW i \in 1 .. Len(e), NEW j \in 1 .. Len(c)
          PROVE  e[i] # c[j]
      <4>1. i \in 1 .. Len(a) + Len(b)
        BY <1>13
      <4>2. CASE i <= Len(a)
        <5>1. i \in 1 .. Len(a) /\ e[i] = a[i]
          BY <3>1, <4>1, <4>2
        <5>2. a[i] = Local(locals[i]) /\ c[j] = Cache(NeededCaches[j])
          BY <1>5, <1>7, <5>1
        <5> QED
          BY <1>11, <5>1, <5>2
      <4>3. CASE ~(i <= Len(a))
        <5>1. i - Len(a) \in 1 .. Len(b) /\ e[i] = b[i - Len(a)]
          BY <1>3, <1>5, <1>6, <3>1, <4>1, <4>3
        <5>2. b[i - Len(a)] = Temp(i - Len(a)) /\ c[j] = Cache(NeededCaches[j])
          BY <1>6, <1>7, <5>1
        <5> QED
          BY <1>11, <5>1, <5>2
      <4> QED
        BY <4>2, <4>3
    <3> QED
      BY <3>2 DEF Apart
  <2>2. /\ e \in Seq(V) /\ OneEach(e) /\ c \in Seq(V) /\ OneEach(c)
    BY <1>10, <1>12, <1>13
  <2> HIDE DEF V, e
  <2>3. /\ e \o c \in Seq(V) /\ Len(e \o c) = Len(e) + Len(c)
        /\ OneEach(e \o c)
        /\ Range(e \o c) = Range(e) \cup Range(c)
    BY <2>1, <2>2, ListsApart
  <2> QED
    BY <2>3 DEF e
<1>15. Range(Allocated) = V
  BY <1>2, <1>13, <1>14
<1>16. params \in Nat /\ params <= Len(Allocated)
  <2>1. params \in Nat /\ params <= Len(locals)
    BY DEF NInv
  <2>2. Len(Allocated) = Len(locals) + d + Len(NeededCaches)
    BY <1>2, <1>5, <1>6, <1>7, <1>13, <1>14
  <2> QED
    BY <1>3, <1>4, <2>1, <2>2
<1> QED
  BY <1>2, <1>9, <1>14, <1>15, <1>16 DEF VRegs

(* Their numbers.                                                          *)
LEMMA Numbers ==
  ASSUME NInv, generated
  PROVE  /\ Len(Allocated) \in Nat
         /\ \A v \in VRegs : Num(v) \in 0 .. Len(Allocated) - 1
         /\ \A v, w \in VRegs : Num(v) = Num(w) => v = w
         /\ \A n \in 0 .. Len(Allocated) - 1 : \E v \in VRegs : Num(v) = n
         /\ KnownRegs \subseteq VRegs
<1> DEFINE s == Allocated
           M == Len(Allocated)
<1>1. /\ s \in Seq(VRegs) /\ M \in Nat /\ DOMAIN s = 1 .. M
      /\ \A i, j \in 1 .. M : s[i] = s[j] => i = j
      /\ VRegs = Range(s) /\ KnownRegs \subseteq VRegs
  BY AllocatedOnce DEF OneEach, VRegs
<1> HIDE DEF s
<1>2. ASSUME NEW i \in 1 .. M
      PROVE  s[i] \in VRegs /\ Position(s, s[i]) = i
  <2>1. \E j \in DOMAIN s : s[j] = s[i]
    BY <1>1
  <2>2. (CHOOSE j \in DOMAIN s : s[j] = s[i]) = i
    BY <1>1
  <2>3. s[i] \in Range(s)
    BY <1>1 DEF Range
  <2> QED
    BY <1>1, <2>1, <2>2, <2>3 DEF Position
<1>3. \A v \in VRegs : \E i \in 1 .. M : v = s[i]
  BY <1>1 DEF Range
<1> HIDE DEF M
<1>4. \A i \in 1 .. M : Num(s[i]) = i - 1
  BY <1>2 DEF Num, s
<1>5. \A v \in VRegs : Num(v) \in 0 .. M - 1
  <2> SUFFICES ASSUME NEW v \in VRegs PROVE Num(v) \in 0 .. M - 1
    OBVIOUS
  <2>1. PICK i \in 1 .. M : v = s[i]
    BY <1>3
  <2>2. Num(v) = i - 1
    BY <1>4, <2>1
  <2> QED
    BY <1>1, <2>2
<1>6. \A v, w \in VRegs : Num(v) = Num(w) => v = w
  <2> SUFFICES ASSUME NEW v \in VRegs, NEW w \in VRegs, Num(v) = Num(w) PROVE v = w
    OBVIOUS
  <2>1. PICK i \in 1 .. M : v = s[i]
    BY <1>3
  <2>2. PICK j \in 1 .. M : w = s[j]
    BY <1>3
  <2>3. Num(v) = i - 1 /\ Num(w) = j - 1
    BY <1>4, <2>1, <2>2
  <2>4. i - 1 = j - 1
    BY <2>3
  <2>5. i = j
    BY <2>4
  <2> QED
    BY <2>1, <2>2, <2>5
<1>7. \A n \in 0 .. M - 1 : \E v \in VRegs : Num(v) = n
  <2> SUFFICES ASSUME NEW n \in 0 .. M - 1 PROVE \E v \in VRegs : Num(v) = n
    OBVIOUS
  <2>1. n + 1 \in 1 .. M /\ (n + 1) - 1 = n
    BY <1>1
  <2>2. s[n + 1] \in VRegs /\ Num(s[n + 1]) = (n + 1) - 1
    BY <1>2, <1>4, <2>1
  <2> QED
    BY <2>1, <2>2
<1> QED
  BY <1>1, <1>5, <1>6, <1>7 DEF M

-----------------------------------------------------------------------------
(* The code that the allocation begins with.                               *)

(* Nothing is generated any more when compile() has returned.              *)
LEMMA GenerateOpen ==
  ASSUME Generate
  PROVE  ~generated
BY DEF Generate, Variable, Declare, Constant, StartBinary, BinaryLeft, EndBinary,
       StartCall, Method, StartNew, StartSuper, Receiver, Callee, Argument,
       ArgumentValue, EndCall, EndSuper, StartCompound, CompoundObject,
       CompoundProperty, EndCompound, StartPattern, PatternKey, PatternLoad,
       PatternStore, EndPattern, EndPatternRest, Compiled, Emit

(* The instructions before the generated ones name caches.                 *)
LEMMA ExpandedNamed ==
  ASSUME NInv
  PROVE  NamedBy(Expanded, KnownRegs)
<1> DEFINE c == [i \in DOMAIN NeededCaches |-> Sta(Cache(NeededCaches[i]))]
           W == {Cache(x) : x \in needed}
           S == {Sta(w) : w \in W}
<1>1. NeededCaches \in Seq(needed)
  BY CachesOnce DEF NInv, IInv
<1>2. c \in Seq(S)
  BY <1>1
<1> HIDE DEF c
<1>3. Reverse(c) \in Seq(S)
  <2> HIDE DEF S
  <2>1. Reverse(c) = [i \in 1 .. Len(c) |-> c[(Len(c) - i) + 1]]
    BY DEF Reverse
  <2>2. \A i \in 1 .. Len(c) : (Len(c) - i) + 1 \in 1 .. Len(c)
    BY <1>2
  <2>3. \A i \in 1 .. Len(c) : c[(Len(c) - i) + 1] \in S
    BY <1>2, <2>2
  <2>4. Len(c) \in Nat
    BY <1>2
  <2> QED
    BY <2>1, <2>3, <2>4
<1>4. \A x \in S : Named(x, W)
  BY NamedOps
<1>5. NamedBy(Reverse(c), W)
  <2> HIDE DEF S, W
  <2> QED
    BY <1>3, <1>4 DEF NamedBy
<1>6. W \subseteq KnownRegs /\ NamedBy(insns, KnownRegs)
  BY DEF KnownRegs, NInv
<1>7. Expanded = Reverse(c) \o insns
  BY DEF Expanded, c
<1> QED
  BY <1>5, <1>6, <1>7, NamedConcat

(* An instruction with numbers below M.                                    *)
IsInsn(x) == x = [op |-> x.op, regs |-> x.regs, count |-> x.count]
NumberedShape(x, M) ==
  /\ IsInsn(x)
  /\ x.op \in {"sta", "lda", "use", "mov", "range", "keys", "super"}
  /\ x.regs \in Seq(0 .. M - 1)
  /\ x.op \in OneReg \cup {"super"} => Len(x.regs) = 1
  /\ x.op = "mov" => Len(x.regs) = 2
  /\ x.op = "use" => Len(x.regs) \in 1 .. 4
  /\ x.op = "range" => Len(x.regs) >= 1
  /\ x.op = "keys" =>
       Len(x.regs) >= 2 /\ x.regs[2] \in {x.regs[1] + 1, x.regs[1] + 2}

(* is what becomes of an instruction that names known registers.           *)
LEMMA NumberedNamed ==
  ASSUME NInv, generated, NEW x, Named(x, KnownRegs)
  PROVE  NumberedShape(Numbered(x), Len(Allocated))
<1> DEFINE M == Len(Allocated)
           y == Numbered(x)
<1>1. \A v \in KnownRegs : Num(v) \in 0 .. M - 1
  BY Numbers
<1>2. x.regs \in Seq(KnownRegs) /\ Shape(x)
  BY DEF Named
<1>3. /\ y.op = x.op /\ y.regs = [j \in DOMAIN x.regs |-> Num(x.regs[j])]
  BY DEF Numbered
<1>4. /\ DOMAIN x.regs = 1 .. Len(x.regs) /\ Len(x.regs) \in Nat
      /\ \A j \in 1 .. Len(x.regs) : x.regs[j] \in KnownRegs
  BY <1>2
<1> HIDE DEF M, y
<1>5. y.regs \in Seq(0 .. M - 1) /\ Len(y.regs) = Len(x.regs)
  <2>1. \A j \in 1 .. Len(x.regs) : Num(x.regs[j]) \in 0 .. M - 1
    BY <1>1, <1>4
  <2> QED
    BY <1>3, <1>4, <2>1
<1>6. ASSUME x.op = "keys"
      PROVE  Len(y.regs) >= 2 /\ y.regs[2] \in {y.regs[1] + 1, y.regs[1] + 2}
  <2>1. Len(x.regs) >= 2
    BY <1>2, <1>6 DEF Shape
  <2>2. PICK a \in Nat : x.regs[1] = Temp(a) /\ x.regs[2] \in {Temp(a + 1), Temp(a + 2)}
    BY <1>2, <1>6 DEF Shape
  <2>3. PICK l \in Nat : \A i \in 1 .. pool.made : Num(Temp(i)) = l + i - 1
    BY TempsNumbered DEF NInv
  <2>4. ASSUME NEW b, Temp(b) \in KnownRegs
        PROVE  b \in 1 .. pool.made
    BY <2>4 DEF KnownRegs, Temp, Local, Cache
  <2>5. 1 \in 1 .. Len(x.regs) /\ 2 \in 1 .. Len(x.regs)
    BY <1>4, <2>1
  <2>6. x.regs[1] \in KnownRegs /\ x.regs[2] \in KnownRegs
    BY <1>4, <2>5
  <2>7. y.regs[1] = Num(x.regs[1]) /\ y.regs[2] = Num(x.regs[2])
    BY <1>3, <1>4, <2>5
  <2>8. PICK b \in {a + 1, a + 2} : x.regs[2] = Temp(b)
    BY <2>2
  <2>9. a \in 1 .. pool.made /\ b \in 1 .. pool.made
    BY <2>2, <2>4, <2>6, <2>8
  <2>10. y.regs[1] = l + a - 1 /\ y.regs[2] = l + b - 1
    BY <2>2, <2>3, <2>7, <2>8, <2>9
  <2>11. y.regs[2] \in {y.regs[1] + 1, y.regs[1] + 2}
    BY <2>8, <2>10
  <2> QED
    BY <1>5, <2>1, <2>11
<1>7. /\ y.op \in {"sta", "lda", "use", "mov", "range", "keys", "super"}
      /\ y.op \in OneReg \cup {"super"} => Len(y.regs) = 1
      /\ y.op = "mov" => Len(y.regs) = 2
      /\ y.op = "use" => Len(y.regs) \in 1 .. 4
      /\ y.op = "range" => Len(y.regs) >= 1
  BY <1>2, <1>3, <1>5 DEF Shape
<1>8. IsInsn(y)
  BY DEF y, Numbered, IsInsn
<1> QED
  BY <1>3, <1>5, <1>6, <1>7, <1>8 DEF NumberedShape, M, y

(* The code is numbered when the allocation begins, and never changes.     *)
ExpandedCode == [k \in DOMAIN Expanded |-> Numbered(Expanded[k])]
CInv ==
  /\ NInv
  /\ phase = "generate" => code = <<>> /\ spills = <<>> /\ newInsns = <<>>
  /\ phase # "generate" => generated /\ code = ExpandedCode

(* What it is computed from does not change either.                        *)
LEMMA ExpandedKept ==
  ASSUME UNCHANGED poolVars
  PROVE  /\ ExpandedCode' = ExpandedCode
         /\ Allocated' = Allocated
<1>1. /\ UNCHANGED <<locals, params, callOpt, pool, needed, open, insns, generated>>
  BY DEF poolVars
<1>2. NeededCaches' = NeededCaches
  BY <1>1 DEF NeededCaches
<1>3. Allocated' = Allocated
  BY <1>1, <1>2, Zenon DEF Allocated
<1>4. Expanded' = Expanded
  BY <1>1, <1>2, Zenon DEF Expanded
<1>5. \A v : Num(v)' = Num(v)
  BY <1>3, Zenon DEF Num
<1>6. \A x : Numbered(x)' = Numbered(x)
  BY <1>3, Zenon DEF Num, Numbered
<1> QED
  BY <1>3, <1>4, <1>6, Zenon DEF ExpandedCode

(* The failures have names of their own.                                   *)
LEMMA PhaseNames ==
  /\ NoTmp \notin {"generate", "adjust", "done"}
  /\ RunningOut \notin {"generate", "adjust", "done"}
  /\ NotContinuous \notin {"generate", "adjust", "done"}
  /\ RunningOut # NoTmp /\ NotContinuous # NoTmp
BY Zenon DEF NoTmp, RunningOut, NotContinuous

(* Each step keeps the code.                                               *)
LEMMA CodeStep ==
  ASSUME RestTargets \subseteq {"binding"}, CInv, [Next]_vars
  PROVE  CInv'
<1>1. NInv'
  BY NextNamedStep DEF CInv
<1>2. CASE Generate /\ UNCHANGED allocVars
  <2>1. phase = "generate"
    BY <1>2, GenerateOpen DEF CInv
  <2> QED
    BY <1>1, <1>2, <2>1 DEF CInv, allocVars
<1>3. CASE Allocate
  <2>1. UNCHANGED poolVars /\ generated /\ phase' # "generate" /\ code' = ExpandedCode
    BY <1>3, PhaseNames DEF Allocate, ExpandedCode
  <2>2. generated' /\ code' = ExpandedCode'
    BY <2>1, ExpandedKept DEF poolVars
  <2> QED
    BY <1>1, <2>1, <2>2 DEF CInv
<1>4. CASE Keep \/ Adjust \/ KeepRange \/ AdjustRange \/ Parameters \/ UNCHANGED vars
  <2>1. UNCHANGED poolVars /\ UNCHANGED code
    BY <1>4 DEF Keep, Adjust, KeepRange, AdjustRange, Parameters, vars, allocVars
  <2>2. generated' = generated /\ ExpandedCode' = ExpandedCode
    BY <2>1, ExpandedKept DEF poolVars
  <2>3. CASE UNCHANGED vars
    BY <1>1, <2>1, <2>2, <2>3 DEF CInv, vars, allocVars
  <2>4. CASE Keep \/ Adjust \/ KeepRange \/ AdjustRange \/ Parameters
    <3>1. phase # "generate" /\ phase' # "generate"
      BY <2>4, PhaseNames DEF Keep, Adjust, KeepRange, AdjustRange, Parameters,
                              Adjusting
    <3> QED
      BY <1>1, <2>1, <2>2, <3>1 DEF CInv
  <2> QED
    BY <1>4, <2>3, <2>4
<1> QED
  BY <1>2, <1>3, <1>4 DEF Next, vars

(* The numbered instructions.                                              *)
LEMMA CodeShapes ==
  ASSUME CInv, phase # "generate"
  PROVE  /\ Len(code) \in Nat /\ DOMAIN code = 1 .. Len(code)
         /\ \A k \in 1 .. Len(code) : NumberedShape(code[k], Len(Allocated))
<1>1. generated /\ code = ExpandedCode
  BY DEF CInv
<1>2. PICK S : Expanded \in Seq(S) /\ \A x \in S : Named(x, KnownRegs)
  BY ExpandedNamed DEF NamedBy, CInv
<1>3. /\ DOMAIN Expanded = 1 .. Len(Expanded) /\ Len(Expanded) \in Nat
      /\ \A k \in 1 .. Len(Expanded) : Named(Expanded[k], KnownRegs)
  BY <1>2
<1>4. \A k \in 1 .. Len(Expanded) :
        NumberedShape(Numbered(Expanded[k]), Len(Allocated))
  BY <1>1, <1>3, NumberedNamed DEF CInv
<1>5. code = [k \in 1 .. Len(Expanded) |-> Numbered(Expanded[k])]
  BY <1>1, <1>3 DEF ExpandedCode
<1>6. Len(code) = Len(Expanded) /\ DOMAIN code = 1 .. Len(Expanded)
  BY <1>3, <1>5
<1> QED
  BY <1>3, <1>4, <1>5, <1>6

(* The numbers are given once, to the instructions as they were generated. *)
THEOREM CodeInvariance ==
  ASSUME RestTargets \subseteq {"binding"}
  PROVE  Spec => []CInv
<1>1. Init => CInv
  BY InitNamed DEF Init, CInv
<1>2. CInv /\ [Next]_vars => CInv'
  BY CodeStep
<1> QED
  BY <1>1, <1>2, PTL DEF Spec

(* No instruction names a register without a number: every register that   *)
(* was taken is given back when the function has been compiled, and the    *)
(* hidden parameters that callOpt drops are not used.                      *)
THEOREM RegistersNumbered ==
  ASSUME RestTargets \subseteq {"binding"}
  PROVE  Spec => []EveryRegisterNumbered
<1>1. CInv => EveryRegisterNumbered
  <2> SUFFICES ASSUME CInv PROVE EveryRegisterNumbered
    OBVIOUS
  <2>1. CASE phase = "generate"
    BY <2>1 DEF CInv, EveryRegisterNumbered
  <2>2. CASE phase # "generate"
    <3>1. Len(Allocated) \in Nat
      BY <2>2, Numbers DEF CInv
    <3>2. ASSUME NEW k \in DOMAIN code
          PROVE  Range(code[k].regs) \subseteq Nat
      <4>1. code[k].regs \in Seq(0 .. Len(Allocated) - 1)
        BY <2>2, CodeShapes DEF NumberedShape
      <4>2. \A j \in DOMAIN code[k].regs : code[k].regs[j] \in Nat
        BY <3>1, <4>1
      <4> QED
        BY <4>2 DEF Range
    <3> QED
      BY <3>2 DEF EveryRegisterNumbered
  <2> QED
    BY <2>1, <2>2
<1> QED
  BY <1>1, CodeInvariance, PTL

-----------------------------------------------------------------------------
(* Spill registers.                                                        *)

(* Those that are handed out are different ones behind the numbered        *)
(* registers, and so are the free ones when they are given back.           *)
LEMMA SpillsApart ==
  ASSUME NEW M \in Nat, vRegsId \in Nat, M <= vRegsId,
         spills \in Seq(M .. vRegsId - 1), OneEach(spills), NEW n \in Nat
  PROVE  /\ VRegsAfter(n) \in Nat /\ vRegsId <= VRegsAfter(n)
         /\ Spill(n) \in Seq(M .. VRegsAfter(n) - 1)
         /\ Len(Spill(n)) = n /\ OneEach(Spill(n))
         /\ FreeSpills(n) \in Seq(M .. VRegsAfter(n) - 1) /\ OneEach(FreeSpills(n))
<1> DEFINE l == Len(spills)
           v == VRegsAfter(n)
           s == Spill(n)
           r == Reverse(s)
           f == FreeSpills(n)
           D == M .. v - 1
<1>1. /\ l \in Nat
      /\ \A i \in 1 .. l : spills[i] \in M .. vRegsId - 1
      /\ \A i, j \in 1 .. l : spills[i] = spills[j] => i = j
  BY DEF OneEach
<1>2. /\ v = IF n > l THEN vRegsId + n - l ELSE vRegsId
      /\ s = [i \in 1 .. n |-> IF i <= l THEN spills[l + 1 - i] ELSE vRegsId + i - l - 1]
      /\ f = SubSeq(spills, 1, l - n) \o r
  BY DEF VRegsAfter, Spill, FreeSpills
<1> HIDE DEF l, v, s, f
<1>3. v \in Nat /\ vRegsId <= v
  BY <1>1, <1>2
<1>4. ASSUME NEW i \in 1 .. n
      PROVE  /\ i <= l => s[i] = spills[l + 1 - i] /\ l + 1 - i \in 1 .. l
             /\ ~(i <= l) => s[i] = vRegsId + i - l - 1
             /\ s[i] \in D
  BY <1>1, <1>2
<1>5. s \in Seq(D) /\ Len(s) = n
  <2> HIDE DEF D
  <2> QED
    BY <1>2, <1>4
<1>6. ASSUME NEW i \in 1 .. n, NEW j \in 1 .. n, s[i] = s[j]
      PROVE  i = j
  <2>1. CASE i <= l /\ j <= l
    <3>1. l + 1 - i = l + 1 - j
      BY <1>1, <1>4, <1>6, <2>1
    <3> QED
      BY <1>1, <3>1
  <2>2. CASE ~(i <= l) /\ ~(j <= l)
    BY <1>1, <1>4, <1>6, <2>2
  <2>3. CASE i <= l /\ ~(j <= l)
    <3>1. spills[l + 1 - i] \in M .. vRegsId - 1 /\ s[i] = spills[l + 1 - i]
      BY <1>1, <1>4, <2>3
    <3>2. s[j] = vRegsId + j - l - 1
      BY <1>4, <2>3
    <3>3. \A a, b : a \in M .. vRegsId - 1 /\ b = vRegsId + j - l - 1 => a # b
      BY <1>1, <2>3
    <3> QED
      BY <1>6, <3>1, <3>2, <3>3
  <2>4. CASE ~(i <= l) /\ j <= l
    <3>1. spills[l + 1 - j] \in M .. vRegsId - 1 /\ s[j] = spills[l + 1 - j]
      BY <1>1, <1>4, <2>4
    <3>2. s[i] = vRegsId + i - l - 1
      BY <1>4, <2>4
    <3>3. \A a, b : a \in M .. vRegsId - 1 /\ b = vRegsId + i - l - 1 => a # b
      BY <1>1, <2>4
    <3> QED
      BY <1>6, <3>1, <3>2, <3>3
  <2> QED
    BY <2>1, <2>2, <2>3, <2>4
<1>7. /\ r \in Seq(D) /\ Len(r) = n
      /\ \A i \in 1 .. n : n - i + 1 \in 1 .. n /\ r[i] = s[n - i + 1]
  <2>1. r = [i \in 1 .. n |-> s[(n - i) + 1]]
    BY <1>5 DEF Reverse
  <2>2. \A i \in 1 .. n : (n - i) + 1 \in 1 .. n
    OBVIOUS
  <2> HIDE DEF r
  <2>3. \A i \in 1 .. n : s[(n - i) + 1] \in D
    BY <1>4, <2>2
  <2> HIDE DEF D
  <2> QED
    BY <2>1, <2>2, <2>3
<1>8. ASSUME NEW i \in 1 .. n, NEW j \in 1 .. n, r[i] = r[j]
      PROVE  i = j
  <2> DEFINE a == n - i + 1
             b == n - j + 1
  <2>1. a \in 1 .. n /\ b \in 1 .. n /\ s[a] = s[b]
    BY <1>7, <1>8
  <2> HIDE DEF a, b
  <2>2. a = b
    BY <1>6, <2>1
  <2> QED
    BY <2>2 DEF a, b
<1> HIDE DEF r
<1>9. CASE n <= l
  <2> DEFINE p == SubSeq(spills, 1, l - n)
  <2>1. /\ p \in Seq(M .. vRegsId - 1) /\ Len(p) = l - n
        /\ \A i \in 1 .. l - n : p[i] = spills[i]
    <3>1. 1 \in 1 .. l + 1 /\ l - n \in 0 .. l
      BY <1>1, <1>9
    <3>2. p \in Seq(M .. vRegsId - 1)
      BY <1>1, <3>1
    <3> QED
      BY <1>1, <1>9, <3>2
  <2> HIDE DEF p
  <2>2. v = vRegsId
    BY <1>1, <1>2, <1>9
  <2>3. /\ f = p \o r /\ f \in Seq(D) /\ Len(f) = l
        /\ \A i \in 1 .. l : f[i] = IF i <= l - n THEN p[i] ELSE r[i - (l - n)]
    <3> HIDE DEF D
    <3>1. p \in Seq(D)
      BY <2>1, <2>2 DEF D
    <3>2. f = p \o r
      BY <1>2 DEF p
    <3>3. Len(p) + Len(r) = l
      BY <1>1, <1>7, <2>1
    <3>4. /\ p \o r \in Seq(D) /\ Len(p \o r) = Len(p) + Len(r)
          /\ \A i \in 1 .. Len(p) + Len(r) :
               (p \o r)[i] = IF i <= Len(p) THEN p[i] ELSE r[i - Len(p)]
      <4>1. r \in Seq(D)
        BY <1>7 DEF D
      <4> QED
        BY <3>1, <4>1, ConcatProperties
    <3> QED
      BY <2>1, <3>2, <3>3, <3>4
  <2>4. ASSUME NEW i \in 1 .. l
        PROVE  f[i] = spills[i]
    <3>1. CASE i <= l - n
      BY <1>1, <2>1, <2>3, <3>1
    <3>2. CASE ~(i <= l - n)
      <4>1. i - (l - n) \in 1 .. n /\ f[i] = r[i - (l - n)]
        <5>1. i - (l - n) \in 1 .. n
          BY <1>1, <1>9, <3>2
        <5>2. f[i] = r[i - (l - n)]
          BY <2>3, <3>2
        <5> QED
          BY <5>1, <5>2
      <4> DEFINE k == i - (l - n)
      <4>2. n - k + 1 \in 1 .. n /\ r[k] = s[n - k + 1]
        BY <1>7, <4>1
      <4>3. n - k + 1 <= l /\ l + 1 - (n - k + 1) = i
        BY <1>1, <1>9, <4>1
      <4> QED
        BY <1>4, <4>1, <4>2, <4>3
    <3> QED
      BY <3>1, <3>2
  <2>5. \A i, j \in 1 .. l : f[i] = f[j] => i = j
    BY <1>1, <2>4
  <2> QED
    BY <1>3, <1>5, <1>6, <2>3, <2>5 DEF OneEach, v, s, f
<1>10. CASE n > l
  <2>1. SubSeq(spills, 1, l - n) = <<>>
    BY <1>1, <1>10
  <2>2. f = r
    BY <1>2, <1>7, <2>1, ConcatEmptySeq
  <2> HIDE DEF D
  <2> QED
    BY <1>3, <1>5, <1>6, <1>7, <1>8, <2>2 DEF OneEach, v, s, f, D
<1> QED
  BY <1>1, <1>9, <1>10

(* What comes out fits.                                                    *)
FitSeq(ins) == \E S : ins \in Seq(S) /\ \A x \in S : Fits(x)

(* Code that fits, put together.                                           *)
LEMMA FitConcat ==
  ASSUME NEW a, NEW b, FitSeq(a), FitSeq(b)
  PROVE  FitSeq(a \o b)
<1>1. PICK S : a \in Seq(S) /\ \A x \in S : Fits(x)
  BY DEF FitSeq
<1>2. PICK T : b \in Seq(T) /\ \A x \in T : Fits(x)
  BY DEF FitSeq
<1>3. a \in Seq(S \cup T) /\ b \in Seq(S \cup T)
  BY <1>1, <1>2
<1>4. a \o b \in Seq(S \cup T)
  BY <1>3, ConcatProperties
<1> QED
  BY <1>1, <1>2, <1>4 DEF FitSeq

(* One instruction.                                                        *)
LEMMA FitOne ==
  /\ FitSeq(<<>>)
  /\ \A x : Fits(x) => FitSeq(<<x>>)
<1>1. FitSeq(<<>>)
  <2>1. PICK S, s : S = {} /\ s = <<>>
    OBVIOUS
  <2>2. s \in Seq(S) /\ \A y \in S : Fits(y)
    BY <2>1
  <2> QED
    BY <2>1, <2>2 DEF FitSeq
<1>2. ASSUME NEW x, Fits(x)
      PROVE  FitSeq(<<x>>)
  <2>1. PICK S : S = {x}
    OBVIOUS
  <2>2. <<x>> \in Seq(S) /\ \A y \in S : Fits(y)
    BY <1>2, <2>1
  <2> QED
    BY <2>2 DEF FitSeq
<1> QED
  BY <1>1, <1>2

(* A move between registers that 16 bits can name.                         *)
LEMMA MoveFits ==
  ASSUME NEW a \in Int, NEW b \in Int, a < LevelC, b < LevelC
  PROVE  Fits(Move(a, b))
<1> DEFINE x == Move(a, b)
           F == << <<LevelB, LevelB>>, <<LevelC, LevelC>> >>
<1>1. x.op = "mov" /\ x.regs = <<a, b>>
  BY DEF Move
<1> HIDE DEF x
<1>2. Formats(x) = F
  BY <1>1 DEF Formats
<1>3. 2 \in DOMAIN F /\ F[2] = <<LevelC, LevelC>>
  OBVIOUS
<1>4. \A j \in DOMAIN x.regs : x.regs[j] < F[2][j]
  <2>1. DOMAIN x.regs = 1 .. 2 /\ x.regs[1] = a /\ x.regs[2] = b
    BY <1>1
  <2>2. F[2][1] = LevelC /\ F[2][2] = LevelC
    OBVIOUS
  <2>3. \A j \in 1 .. 2 : j = 1 \/ j = 2
    OBVIOUS
  <2> HIDE DEF F
  <2> QED
    BY <2>1, <2>2, <2>3
<1> HIDE DEF F
<1>5. x.op \notin {"range", "keys"}
  BY <1>1
<1> QED
  BY <1>2, <1>3, <1>4, <1>5 DEF Fits, x

(* Blocks of such moves.                                                   *)
LEMMA BlocksFit ==
  ASSUME NEW n \in Nat, NEW b, b = [i \in 1 .. n |-> b[i]],
         \A i \in 1 .. n : FitSeq(b[i])
  PROVE  FitSeq(FlattenSeq(b))
<1> DEFINE T == {x : x \in UNION {Range(b[i]) : i \in 1 .. n}}
<1>1. \A i \in 1 .. n : b[i] \in Seq(T)
  <2> SUFFICES ASSUME NEW i \in 1 .. n PROVE b[i] \in Seq(T)
    OBVIOUS
  <2>1. PICK S : b[i] \in Seq(S)
    BY DEF FitSeq
  <2>2. \A k \in 1 .. Len(b[i]) : b[i][k] \in Range(b[i])
    BY <2>1 DEF Range
  <2>3. \A k \in 1 .. Len(b[i]) : b[i][k] \in T
    BY <2>2
  <2> HIDE DEF T
  <2> QED
    BY <2>1, <2>3
<1>2. \A x \in T : Fits(x)
  <2> SUFFICES ASSUME NEW i \in 1 .. n, NEW x \in Range(b[i]) PROVE Fits(x)
    OBVIOUS
  <2>1. PICK S : b[i] \in Seq(S) /\ \A y \in S : Fits(y)
    BY DEF FitSeq
  <2>2. x \in S
    BY <2>1 DEF Range
  <2> QED
    BY <2>1, <2>2
<1> HIDE DEF T
<1>3. b \in Seq(Seq(T))
  BY <1>1
<1>4. FlattenSeq(b) \in Seq(T)
  <2>1. <<>> \in Seq(T)
    OBVIOUS
  <2> QED
    BY <1>3, <2>1, FlattenAppend
<1> QED
  BY <1>2, <1>4 DEF FitSeq

-----------------------------------------------------------------------------
(* Formats.                                                                *)

(* The format that is chosen: a move always finds one that it fits; every  *)
(* other instruction has one only.                                         *)
LEMMA ChosenFormat ==
  ASSUME NEW M \in Nat, M <= LevelC, NEW x, NumberedShape(x, M)
  PROVE  /\ MinFormat(x) \in DOMAIN Formats(x)
         /\ x.op = "mov" => NumOfInvalid(x, MinFormat(x)) = 0
         /\ x.op # "mov" =>
              Formats(x)[MinFormat(x)] = [j \in DOMAIN x.regs |-> LevelB]
<1> DEFINE N(f) == NumOfInvalid(x, f)
           P(f) == \A g \in DOMAIN Formats(x) :
                     \/ N(f) < N(g)
                     \/ (N(f) = N(g) /\ f <= g)
<1>0. /\ DOMAIN x.regs = 1 .. Len(x.regs) /\ Len(x.regs) \in Nat
      /\ \A j \in 1 .. Len(x.regs) : x.regs[j] \in 0 .. M - 1
  BY DEF NumberedShape
<1>1. \A f : N(f) \in Nat
  <2> SUFFICES ASSUME NEW f PROVE N(f) \in Nat
    OBVIOUS
  <2>1. Invalid(x, Formats(x)[f]) \in SUBSET (1 .. Len(x.regs))
    BY <1>0 DEF Invalid
  <2>2. IsFiniteSet(1 .. Len(x.regs))
    BY <1>0, FS_Interval
  <2> QED
    BY <2>1, <2>2, FS_Subset, FS_CardinalityType DEF NumOfInvalid
<1>2. MinFormat(x) = CHOOSE f \in DOMAIN Formats(x) : P(f)
  BY Zenon DEF MinFormat
<1> HIDE DEF N
<1>3. CASE x.op = "mov"
  <2>1. Formats(x) = << <<LevelB, LevelB>>, <<LevelC, LevelC>> >>
    BY <1>3 DEF Formats
  <2>2. DOMAIN Formats(x) = {1, 2} /\ Formats(x)[2] = <<LevelC, LevelC>>
    BY <2>1
  <2>3. N(2) = 0
    <3>1. Len(x.regs) = 2
      BY <1>3 DEF NumberedShape
    <3>2. Invalid(x, <<LevelC, LevelC>>) = {}
      <4>1. \A j \in 1 .. 2 : <<LevelC, LevelC>>[j] = LevelC
        OBVIOUS
      <4>2. \A j \in 1 .. 2 : ~(x.regs[j] >= LevelC)
        BY <1>0, <3>1, LevelAssumption
      <4> QED
        BY <1>0, <3>1, <4>1, <4>2 DEF Invalid
    <3> QED
      BY <2>2, <3>2, FS_EmptySet DEF N, NumOfInvalid
  <2>4. \E f \in {1, 2} : P(f)
    <3>1. N(1) \in Nat
      BY <1>1
    <3>2. CASE N(1) = 0
      <4>1. P(1)
        BY <2>2, <2>3, <3>2
      <4> QED
        BY <4>1
    <3>3. CASE N(1) # 0
      <4>1. P(2)
        <5>1. 0 < N(1)
          BY <3>1, <3>3
        <5>2. N(2) < N(1) /\ N(2) = N(2) /\ 2 <= 2
          BY <2>3, <5>1
        <5>3. \A g \in {1, 2} : g = 1 \/ g = 2
          OBVIOUS
        <5>4. \A g \in {1, 2} : N(2) < N(g) \/ (N(2) = N(g) /\ 2 <= g)
          BY Zenon, <5>2, <5>3
        <5> QED
          BY Zenon, <2>2, <5>4
      <4> QED
        BY <4>1
    <3> QED
      BY <3>2, <3>3
  <2>5. MinFormat(x) \in {1, 2} /\ P(MinFormat(x))
    <3> HIDE DEF P
    <3> QED
      BY <1>2, <2>2, <2>4
  <2>6. N(MinFormat(x)) \in Nat /\ (N(MinFormat(x)) < 0 \/ N(MinFormat(x)) = 0)
    BY <1>1, <2>2, <2>3, <2>5
  <2>7. N(MinFormat(x)) = 0
    BY <2>6
  <2> QED
    BY <1>3, <2>2, <2>5, <2>7 DEF N
<1>4. CASE x.op # "mov"
  <2> DEFINE F == [j \in DOMAIN x.regs |-> LevelB]
  <2>1. Formats(x) = <<F>>
    BY <1>4 DEF Formats
  <2> HIDE DEF F
  <2>2. DOMAIN Formats(x) = {1} /\ Formats(x)[1] = F
    BY <2>1
  <2>3. P(1)
    BY <2>2
  <2>4. MinFormat(x) = 1
    <3> HIDE DEF P
    <3> QED
      BY <1>2, <2>2, <2>3
  <2> QED
    BY <1>4, <2>2, <2>4 DEF F
<1> QED
  BY <1>3, <1>4

(* An instruction that is kept fits.                                       *)
LEMMA KeptFits ==
  ASSUME NEW M \in Nat, M <= LevelC, NEW x, NumberedShape(x, M),
         x.op \notin {"range", "keys"}, NumOfInvalid(x, MinFormat(x)) = 0
  PROVE  Fits(x)
<1> DEFINE F == Formats(x)[MinFormat(x)]
<1>1. /\ DOMAIN x.regs = 1 .. Len(x.regs) /\ Len(x.regs) \in Nat
      /\ \A j \in 1 .. Len(x.regs) : x.regs[j] \in 0 .. M - 1
  BY DEF NumberedShape
<1>2. MinFormat(x) \in DOMAIN Formats(x)
  BY ChosenFormat
<1>3. Invalid(x, F) = {}
  <2>1. Invalid(x, F) \in SUBSET (1 .. Len(x.regs))
    BY <1>1 DEF Invalid
  <2>2. IsFiniteSet(1 .. Len(x.regs))
    <3> DEFINE l == Len(x.regs)
    <3>1. l \in Int
      BY <1>1
    <3> HIDE DEF l
    <3>2. IsFiniteSet(1 .. l)
      BY <3>1, FS_Interval
    <3> QED
      BY <3>2 DEF l
  <2>3. IsFiniteSet(Invalid(x, F))
    BY <2>1, <2>2, FS_Subset
  <2> QED
    BY <2>3, FS_EmptySet DEF NumOfInvalid
<1>4. \A j \in DOMAIN x.regs : F[j] \in Nat
  <2>1. CASE x.op = "mov"
    <3>1. Formats(x) = << <<LevelB, LevelB>>, <<LevelC, LevelC>> >>
      BY <2>1 DEF Formats
    <3>2. Len(x.regs) = 2
      BY <2>1 DEF NumberedShape
    <3>3. MinFormat(x) \in {1, 2}
      BY <1>2, <3>1
    <3>4. F = <<LevelB, LevelB>> \/ F = <<LevelC, LevelC>>
      BY <3>1, <3>3
    <3>5. \A j \in 1 .. 2 : F[j] = LevelB \/ F[j] = LevelC
      BY <3>4
    <3> QED
      BY <1>1, <3>2, <3>5, LevelAssumption
  <2>2. CASE x.op # "mov"
    <3>1. F = [j \in DOMAIN x.regs |-> LevelB]
      BY <2>2, ChosenFormat
    <3> QED
      BY <3>1, LevelAssumption
  <2> QED
    BY <2>1, <2>2
<1>5. \A j \in DOMAIN x.regs : x.regs[j] < F[j]
  <2> HIDE DEF F
  <2> QED
    BY <1>1, <1>3, <1>4 DEF Invalid
<1> QED
  BY <1>2, <1>5 DEF Fits

(* An instruction that is adjusted: it has few registers, there are more   *)
(* numbered registers than 8 bits can name, and enough of them that the    *)
(* instruction does not name are lower.                                    *)
LEMMA EnoughTmps ==
  ASSUME 4 <= LevelB, NEW M \in Nat, M <= LevelC, vRegsId \in Nat, M <= vRegsId,
         NEW x, NumberedShape(x, M), x.op \notin {"range", "keys"},
         NEW invalid, invalid = Invalid(x, Formats(x)[MinFormat(x)]),
         NEW n, n = Cardinality(invalid), n > 0,
         NEW tmps, tmps = TmpVregs(Marked(x))
  PROVE  /\ x.op # "mov" /\ LevelB < M /\ n \in 1 .. Len(x.regs)
         /\ invalid = {j \in 1 .. Len(x.regs) : x.regs[j] >= LevelB}
         /\ IsFiniteSet(invalid) /\ n <= 4
         /\ tmps \in SUBSET (0 .. LevelB - 1) /\ IsFiniteSet(tmps)
         /\ \A j \in 1 .. Len(x.regs) : x.regs[j] \notin tmps
         /\ Cardinality(tmps) \in Nat /\ n <= Cardinality(tmps)
<1> DEFINE len == Len(x.regs)
           A == 0 .. LevelB - 1
           valid == (1 .. len) \ invalid
           B == {x.regs[j] : j \in valid}
<1>1. /\ DOMAIN x.regs = 1 .. len /\ len \in Nat
      /\ \A j \in 1 .. len : x.regs[j] \in 0 .. M - 1
  BY DEF NumberedShape
<1>2. x.op # "mov"
  <2>1. x.op = "mov" => NumOfInvalid(x, MinFormat(x)) = 0
    BY ChosenFormat
  <2>2. NumOfInvalid(x, MinFormat(x)) = n
    BY DEF NumOfInvalid
  <2>3. n # 0
    OBVIOUS
  <2> QED
    BY <2>1, <2>2, <2>3
<1>3. len <= 4
  <2>1. x.op \in {"sta", "lda", "super", "use"}
    BY <1>2 DEF NumberedShape
  <2>2. len = 1 \/ len \in 1 .. 4
    BY <2>1 DEF NumberedShape, OneReg
  <2> HIDE DEF len
  <2> QED
    BY <2>2
<1>4. LevelB \in Nat /\ LevelC \in Nat
  BY LevelAssumption
<1>5. invalid = {j \in 1 .. len : x.regs[j] >= LevelB}
  <2>1. invalid = Invalid(x, [j \in DOMAIN x.regs |-> LevelB])
    BY <1>2, ChosenFormat
  <2> QED
    BY <1>1, <2>1 DEF Invalid
<1> HIDE DEF len
<1>6. IsFiniteSet(1 .. len) /\ Cardinality(1 .. len) = len
  <2>1. Cardinality(1 .. len) = IF 1 > len THEN 0 ELSE len - 1 + 1
    BY <1>1, FS_Interval
  <2> QED
    BY <1>1, <2>1, FS_Interval
<1>7. /\ IsFiniteSet(invalid) /\ n \in Nat /\ n <= len
      /\ IsFiniteSet(valid) /\ Cardinality(valid) = len - n
  <2>1. invalid \in SUBSET (1 .. len)
    BY <1>5
  <2>2. IsFiniteSet(invalid) /\ n <= len
    BY <1>6, <2>1, FS_Subset
  <2>3. n \in Nat
    BY <2>2, FS_CardinalityType
  <2>4. (1 .. len) \cap invalid = invalid
    BY <2>1
  <2>5. /\ IsFiniteSet(valid)
        /\ Cardinality(valid) = Cardinality(1 .. len) - Cardinality((1 .. len) \cap invalid)
    BY <1>6, FS_Difference
  <2> QED
    BY <1>6, <2>2, <2>3, <2>4, <2>5
<1>8. LevelB < M
  <2>1. invalid # {}
    BY <1>7, FS_EmptySet
  <2>2. PICK j \in 1 .. len : x.regs[j] >= LevelB
    BY <1>5, <2>1
  <2> QED
    BY <1>1, <1>4, <2>2
<1>9. tmps = A \ B
  <2>1. Marked(x) = {x.regs[j] : j \in 1 .. len}
    BY <1>1 DEF Marked, Range
  <2>2. {r \in 0 .. vRegsId - 1 : r < LevelB} = A
    BY <1>4, <1>8
  <2>3. A \cap Marked(x) = A \cap B
    BY <1>1, <1>4, <1>5, <2>1
  <2>4. tmps = A \ Marked(x)
    BY <2>2 DEF TmpVregs
  <2> QED
    BY <2>3, <2>4
<1>10. IsFiniteSet(B) /\ Cardinality(B) <= len - n /\ Cardinality(B) \in Nat
  <2>1. IsFiniteSet(B) /\ Cardinality(B) <= Cardinality(valid)
    <3> DEFINE f == [j \in valid |-> x.regs[j]]
    <3>1. f \in Surjection(valid, B)
      BY DEF Surjection
    <3> HIDE DEF f, B, valid
    <3> QED
      BY <1>7, <3>1, FS_Surjection
  <2> QED
    BY <1>7, <2>1, FS_CardinalityType
<1>11. IsFiniteSet(A) /\ Cardinality(A) = LevelB
  <2>1. Cardinality(A) = IF 0 > LevelB - 1 THEN 0 ELSE LevelB - 1 - 0 + 1
    BY <1>4, FS_Interval
  <2> QED
    BY <1>4, <2>1, FS_Interval
<1>12. /\ IsFiniteSet(tmps) /\ Cardinality(tmps) \in Nat
       /\ Cardinality(tmps) = LevelB - Cardinality(A \cap B)
  <2>1. IsFiniteSet(A \ B) /\ Cardinality(A \ B) = Cardinality(A) - Cardinality(A \cap B)
    BY <1>11, FS_Difference
  <2> QED
    BY <1>9, <1>11, <2>1, FS_CardinalityType
<1>13. Cardinality(A \cap B) \in Nat /\ Cardinality(A \cap B) <= Cardinality(B)
  <2>1. A \cap B \in SUBSET B
    OBVIOUS
  <2> HIDE DEF A, B
  <2>2. IsFiniteSet(A \cap B) /\ Cardinality(A \cap B) <= Cardinality(B)
    BY <1>10, <2>1, FS_Subset
  <2> QED
    BY <2>2, FS_CardinalityType
<1>14. n <= Cardinality(tmps)
  <2> HIDE DEF A, B
  <2> QED
    BY <1>1, <1>3, <1>4, <1>7, <1>10, <1>12, <1>13
<1>15. \A j \in 1 .. len : x.regs[j] \notin tmps
  <2> SUFFICES ASSUME NEW j \in 1 .. len, x.regs[j] \in tmps PROVE FALSE
    OBVIOUS
  <2>1. Marked(x) = {x.regs[i] : i \in 1 .. len}
    BY <1>1 DEF Marked, Range
  <2> QED
    BY <2>1 DEF TmpVregs
<1>16. tmps \in SUBSET A
  BY <1>9
<1>17. n \in 1 .. len /\ n <= 4
  BY <1>1, <1>3, <1>7
<1> QED
  BY <1>2, <1>5, <1>7, <1>8, <1>12, <1>14, <1>15, <1>16, <1>17 DEF len

-----------------------------------------------------------------------------
(* The invariant of the allocation.                                        *)

(* Everything that has come out fits; the registers in use can be named    *)
(* with 16 bits, and the free spill registers are different ones of those  *)
(* behind the numbered registers.                                          *)
AInv ==
  /\ CInv
  /\ FitSeq(newInsns)
  /\ phase # NoTmp
  /\ phase = "adjust" =>
       /\ vRegsId \in Nat /\ Len(Allocated) <= vRegsId /\ vRegsId <= LevelC
       /\ index \in 1 .. Len(code) + 1
       /\ spills \in Seq(Len(Allocated) .. vRegsId - 1) /\ OneEach(spills)

(* An instruction with other registers.                                    *)
LEMMA Replaced ==
  ASSUME NEW x, IsInsn(x), NEW e
  PROVE  [x EXCEPT !.regs = e] = [op |-> x.op, regs |-> e, count |-> x.count]
<1> DEFINE y == [op |-> x.op, regs |-> x.regs, count |-> x.count]
<1>1. [y EXCEPT !.regs = e] = [op |-> x.op, regs |-> e, count |-> x.count]
  OBVIOUS
<1> QED
  BY <1>1 DEF IsInsn

(* While instructions are adjusted.                                        *)
LEMMA CurrentShape ==
  ASSUME AInv, Adjusting
  PROVE  /\ Len(Allocated) \in Nat /\ Len(Allocated) <= LevelC
         /\ NumberedShape(Current, Len(Allocated))
         /\ index + 1 \in 1 .. Len(code) + 1
<1>1. /\ phase = "adjust" /\ index <= Len(code) /\ index \in 1 .. Len(code) + 1
      /\ vRegsId \in Nat /\ Len(Allocated) <= vRegsId /\ vRegsId <= LevelC
  BY DEF AInv, Adjusting
<1>2. /\ Len(code) \in Nat
      /\ \A k \in 1 .. Len(code) : NumberedShape(code[k], Len(Allocated))
  BY <1>1, CodeShapes DEF AInv
<1>3. Len(Allocated) \in Nat
  BY <1>1, Numbers DEF AInv, CInv
<1>4. LevelC \in Nat
  BY LevelAssumption
<1> QED
  BY <1>1, <1>2, <1>3, <1>4 DEF Current

(* What the next step of the invariant is, when the numbers do not change. *)
LEMMA AllocationKept ==
  ASSUME AInv, CInv', UNCHANGED poolVars, UNCHANGED code, FitSeq(newInsns'),
         phase' # NoTmp,
         phase' = "adjust" =>
           /\ vRegsId' \in Nat /\ Len(Allocated) <= vRegsId' /\ vRegsId' <= LevelC
           /\ index' \in 1 .. Len(code) + 1
           /\ spills' \in Seq(Len(Allocated) .. vRegsId' - 1) /\ OneEach(spills')
  PROVE  AInv'
<1>1. Allocated' = Allocated
  BY ExpandedKept
<1>2. FitSeq(newInsns)' = FitSeq(newInsns') /\ OneEach(spills)' = OneEach(spills')
  BY DEF FitSeq, OneEach
<1>3. NoTmp' = NoTmp
  BY Zenon DEF NoTmp
<1> QED
  BY <1>1, <1>2, <1>3 DEF AInv

(* The beginning of the allocation.                                        *)
LEMMA AllocateKeeps ==
  ASSUME AInv, CInv', Allocate
  PROVE  AInv'
<1>1. /\ UNCHANGED poolVars /\ generated /\ phase = "generate"
      /\ UNCHANGED spills /\ UNCHANGED newInsns
      /\ index' = 1 /\ vRegsId' = Len(Allocated)
      /\ phase' = IF Len(Allocated) <= LevelC THEN "adjust" ELSE RunningOut
  BY DEF Allocate
<1>2. Allocated' = Allocated
  BY <1>1, ExpandedKept
<1>3. spills = <<>> /\ newInsns = <<>>
  BY <1>1 DEF AInv, CInv
<1>4. Len(Allocated) \in Nat
  BY <1>1, Numbers DEF AInv, CInv
<1>5. phase' # NoTmp
  BY <1>1, PhaseNames
<1>6. phase' = "adjust" => Len(Allocated) <= LevelC
  BY <1>1, PhaseNames
<1>7. /\ FitSeq(newInsns)' = FitSeq(newInsns) /\ OneEach(spills)' = OneEach(spills)
  BY <1>1 DEF FitSeq, OneEach
<1>8. /\ \A S : <<>> \in Seq(S)
      /\ OneEach(<<>>)
  BY DEF OneEach
<1>9. phase' # "generate"
  BY <1>1, PhaseNames
<1>10. Len(code') \in Nat
  <2>1. CInv' /\ phase' # "generate" => Len(code)' \in Nat
    <3>1. generated' /\ code' = ExpandedCode'
      BY <1>9 DEF CInv
    <3>2. ExpandedCode' = ExpandedCode
      BY <1>1, ExpandedKept
    <3>3. PICK S : Expanded \in Seq(S)
      BY ExpandedNamed DEF NamedBy, AInv, CInv
    <3>4. DOMAIN Expanded = 1 .. Len(Expanded) /\ Len(Expanded) \in Nat
      BY <3>3
    <3>5. ExpandedCode = [k \in 1 .. Len(Expanded) |-> Numbered(Expanded[k])]
      BY <3>4 DEF ExpandedCode
    <3>6. Len(ExpandedCode) = Len(Expanded)
      BY <3>4, <3>5
    <3> QED
      BY <3>1, <3>2, <3>4, <3>6
  <2> QED
    BY <1>9, <2>1
<1>11. 1 \in 1 .. Len(code') + 1
  BY <1>10
<1>12. NoTmp' = NoTmp
  BY Zenon DEF NoTmp
<1>13. FitSeq(newInsns)
  BY DEF AInv
<1> QED
  BY <1>1, <1>2, <1>3, <1>4, <1>5, <1>6, <1>7, <1>8, <1>11, <1>12, <1>13 DEF AInv

(* An instruction that stays as it is.                                     *)
LEMMA KeepKeeps ==
  ASSUME AInv, CInv', Keep
  PROVE  AInv'
<1>1. /\ UNCHANGED poolVars /\ UNCHANGED <<phase, code, vRegsId, spills>>
      /\ Adjusting /\ Current.op \notin {"range", "keys"}
      /\ NumOfInvalid(Current, MinFormat(Current)) = 0
      /\ newInsns' = newInsns \o <<>> \o <<Current>> \o <<>>
      /\ index' = index + 1
  BY DEF Keep, Push
<1>2. Fits(Current)
  BY <1>1, CurrentShape, KeptFits
<1>3. FitSeq(newInsns')
  <2>1. FitSeq(newInsns) /\ FitSeq(<<>>) /\ FitSeq(<<Current>>)
    BY <1>2, FitOne DEF AInv
  <2>2. FitSeq(newInsns \o <<>>)
    BY <2>1, FitConcat
  <2>3. FitSeq(newInsns \o <<>> \o <<Current>>)
    BY <2>1, <2>2, FitConcat
  <2> QED
    BY <1>1, <2>1, <2>3, FitConcat
<1>4. index' \in 1 .. Len(code) + 1
  BY <1>1, CurrentShape
<1> QED
  BY <1>1, <1>3, <1>4, AllocationKept DEF AInv

(* A range that stays as it is.                                            *)
LEMMA KeepRangeKeeps ==
  ASSUME AInv, CInv', KeepRange
  PROVE  AInv'
<1>1. /\ UNCHANGED poolVars /\ UNCHANGED <<code, vRegsId, spills>>
      /\ Adjusting /\ Current.op \in {"range", "keys"}
      /\ Current.regs[1] < Level(Current)
      /\ \/ /\ newInsns' = newInsns \o <<>> \o <<Current>> \o <<>>
            /\ index' = index + 1 /\ UNCHANGED phase
         \/ phase' = NotContinuous /\ UNCHANGED newInsns
  BY DEF KeepRange, Push
<1>2. CASE phase' = NotContinuous /\ UNCHANGED newInsns
  <2>1. phase' # NoTmp /\ phase' # "adjust"
    BY <1>2, PhaseNames
  <2>2. FitSeq(newInsns')
    BY <1>2 DEF AInv
  <2> QED
    BY <1>1, <2>1, <2>2, AllocationKept
<1>3. CASE /\ newInsns' = newInsns \o <<>> \o <<Current>> \o <<>>
           /\ index' = index + 1 /\ UNCHANGED phase
  <2> DEFINE x == Current
             M == Len(Allocated)
  <2>1. NumberedShape(x, M) /\ M \in Nat
    BY <1>1, CurrentShape
  <2> HIDE DEF x, M
  <2>2. /\ x.op \in {"range", "keys"} /\ x.regs[1] < Level(x)
    BY <1>1 DEF x
  <2>3. x.regs \in Seq(0 .. M - 1) /\ Len(x.regs) >= 1
    BY <2>1, <2>2 DEF NumberedShape
  <2>4. x.regs[1] \in 0 .. M - 1
    <3>1. \A j \in 1 .. Len(x.regs) : x.regs[j] \in 0 .. M - 1
      BY <2>3, ElementOfSeq
    <3>2. 1 \in 1 .. Len(x.regs)
      BY <2>3
    <3> QED
      BY <3>1, <3>2
  <2>5. KeysLevel \in Nat /\ RangeLevel \in Nat
    BY LevelAssumption
  <2>6. Fits(x)
    <3>1. CASE x.op = "range"
      BY <2>2, <3>1 DEF Fits, Start
    <3>2. CASE x.op = "keys"
      <4>1. x.regs[2] \in {x.regs[1] + 1, x.regs[1] + 2}
        BY <2>1, <3>2 DEF NumberedShape
      <4>2. Level(x) = KeysLevel /\ Start(x) = 2
        BY <3>2 DEF Level, Start
      <4>3. x.regs[2] < KeysLevel \/ x.regs[1] \in KeysLevel - 2 .. KeysLevel - 1
        BY <2>1, <2>2, <2>4, <2>5, <4>1, <4>2
      <4> QED
        BY <3>2, <4>2, <4>3 DEF Fits, AtTheEdge
    <3> QED
      BY <2>2, <3>1, <3>2
  <2>7. FitSeq(newInsns')
    <3>1. FitSeq(newInsns) /\ FitSeq(<<>>) /\ FitSeq(<<x>>)
      BY <2>6, FitOne DEF AInv
    <3>2. FitSeq(newInsns \o <<>>)
      BY <3>1, FitConcat
    <3>3. FitSeq(newInsns \o <<>> \o <<x>>)
      BY <3>1, <3>2, FitConcat
    <3> QED
      BY <1>3, <3>1, <3>3, FitConcat DEF x
  <2>8. index' \in 1 .. Len(code) + 1
    BY <1>1, <1>3, CurrentShape
  <2> QED
    BY <1>1, <1>3, <2>7, <2>8, AllocationKept DEF AInv
<1> QED
  BY <1>1, <1>2, <1>3

(* Each register that does not fit is lent a lower one of its own.         *)
LEMMA Lent ==
  ASSUME NEW len \in Nat, NEW invalid \in SUBSET (1 .. len),
         NEW n, n = Cardinality(invalid),
         NEW tmps \in SUBSET Nat, IsFiniteSet(tmps), n <= Cardinality(tmps)
  PROVE  /\ n \in Nat
         /\ \A i \in 1 .. n : /\ Smallest(invalid, i) \in invalid
                              /\ Smallest(tmps, i) \in tmps
                              /\ Cardinality(invalid \cap (1 .. Smallest(invalid, i))) = i
         /\ \A j \in invalid : /\ Cardinality(invalid \cap (1 .. j)) \in 1 .. n
                               /\ Smallest(invalid, Cardinality(invalid \cap (1 .. j))) = j
         /\ \A i, k \in 1 .. n : /\ Smallest(tmps, i) = Smallest(tmps, k) => i = k
                                 /\ Smallest(invalid, i) = Smallest(invalid, k) => i = k
<1>1. invalid \in SUBSET Nat /\ IsFiniteSet(invalid)
  <2>1. IsFiniteSet(1 .. len)
    BY FS_Interval
  <2>2. \A j \in 1 .. len : j \in Nat
    OBVIOUS
  <2> QED
    BY <2>1, <2>2, FS_Subset
<1>2. n \in Nat /\ Cardinality(tmps) \in Nat
  BY <1>1, FS_CardinalityType
<1>3. \A j \in invalid : invalid \cap (1 .. j) = Below(invalid, j)
  BY RankInList
<1>4. \A i \in 1 .. n : /\ Smallest(invalid, i) \in invalid
                        /\ Cardinality(Below(invalid, Smallest(invalid, i))) = i
  BY <1>1, SmallestRank
<1>5. \A j \in invalid : Smallest(invalid, Cardinality(Below(invalid, j))) = j
  BY <1>1, SmallestRank
<1>6. \A j \in invalid : Cardinality(Below(invalid, j)) \in 1 .. n
  BY <1>1, Ranks
<1>7. \A i \in 1 .. n : i \in 1 .. Cardinality(tmps)
  BY <1>2
<1>8. \A i \in 1 .. n : /\ Smallest(tmps, i) \in tmps
                        /\ Cardinality(Below(tmps, Smallest(tmps, i))) = i
  BY <1>7, SmallestRank
<1> QED
  BY <1>2, <1>3, <1>4, <1>5, <1>6, <1>8

(* What the step of an adjustment does; every name but the last ones is a  *)
(* name of the action.                                                     *)
AdjustedRegs(x, invalid, tmps) ==
  [j \in DOMAIN x.regs |->
     IF j \in invalid THEN Smallest(tmps, Cardinality(invalid \cap (1 .. j)))
     ELSE x.regs[j]]
Heads(x, invalid, tmps, n) ==
  [i \in 1 .. n |->
     HeadMoves(x, Smallest(invalid, i), Smallest(tmps, i), Spill(n)[i])]
Tails(x, invalid, tmps, n) ==
  [i \in 1 .. n |->
     TailMoves(x, Smallest(invalid, i), Smallest(tmps, i), Spill(n)[i])]
With(x, regs) == [op |-> x.op, regs |-> regs, count |-> x.count]

(* What adjusting an instruction does: it runs out of registers, or moves  *)
(* each register that does not fit into a spill register and back.         *)
LEMMA AdjustDoes ==
  ASSUME AInv, Adjust
  PROVE  \E x, invalid, n, tmps :
           /\ x = Current /\ x.op \notin {"range", "keys"}
           /\ invalid = Invalid(x, Formats(x)[MinFormat(x)])
           /\ n = Cardinality(invalid) /\ n > 0
           /\ tmps = TmpVregs(Marked(x))
           /\ \/ /\ VRegsAfter(n) > LevelC \/ ~(n <= Cardinality(tmps))
                 /\ phase' = IF /\ ~(n <= Cardinality(tmps))
                                /\ VRegsAfter(Cardinality(tmps) + 1) <= LevelC
                             THEN NoTmp ELSE RunningOut
                 /\ UNCHANGED newInsns
              \/ /\ ~(VRegsAfter(n) > LevelC)
                 /\ newInsns' =
                      newInsns \o FlattenSeq(Heads(x, invalid, tmps, n))
                        \o <<With(x, AdjustedRegs(x, invalid, tmps))>>
                        \o FlattenSeq(Tails(x, invalid, tmps, n))
                 /\ index' = index + 1
                 /\ vRegsId' = VRegsAfter(n)
                 /\ spills' = FreeSpills(n)
                 /\ UNCHANGED phase
<1> DEFINE x == Current
           invalid == Invalid(x, Formats(x)[MinFormat(x)])
           n == Cardinality(invalid)
           tmps == TmpVregs(Marked(x))
           adj == [x EXCEPT !.regs = AdjustedRegs(x, invalid, tmps)]
<1>1. adj = With(x, AdjustedRegs(x, invalid, tmps))
  <2>1. IsInsn(x)
    BY CurrentShape DEF NumberedShape, Adjust
  <2> HIDE DEF x, invalid, tmps
  <2> QED
    BY <2>1, Replaced DEF With
<1>2. /\ x.op \notin {"range", "keys"} /\ n > 0
      /\ \/ /\ VRegsAfter(n) > LevelC \/ ~(n <= Cardinality(tmps))
            /\ phase' = IF /\ ~(n <= Cardinality(tmps))
                           /\ VRegsAfter(Cardinality(tmps) + 1) <= LevelC
                        THEN NoTmp ELSE RunningOut
            /\ UNCHANGED newInsns
         \/ /\ ~(VRegsAfter(n) > LevelC)
            /\ newInsns' =
                 newInsns \o FlattenSeq(Heads(x, invalid, tmps, n))
                   \o <<adj>>
                   \o FlattenSeq(Tails(x, invalid, tmps, n))
            /\ index' = index + 1
            /\ vRegsId' = VRegsAfter(n)
            /\ spills' = FreeSpills(n)
            /\ UNCHANGED phase
  BY DEF Adjust, Push, Heads, Tails, AdjustedRegs
<1> HIDE DEF adj, n, tmps, invalid, x
<1>3. /\ invalid = Invalid(x, Formats(x)[MinFormat(x)])
      /\ n = Cardinality(invalid) /\ tmps = TmpVregs(Marked(x)) /\ x = Current
  BY DEF n, tmps, invalid, x
<1> QED
  BY <1>1, <1>2, <1>3, ZenonT(60)

(* Moves before and after an instruction.                                  *)
LEMMA HeadFits ==
  ASSUME NEW x, NEW j, NEW t \in Int, NEW s \in Int, x.regs[j] \in Int,
         x.regs[j] < LevelC, t < LevelC, s < LevelC
  PROVE  FitSeq(HeadMoves(x, j, t, s)) /\ FitSeq(TailMoves(x, j, t, s))
<1>1. /\ FitSeq(<<Move(s, t)>>) /\ FitSeq(<<Move(t, s)>>)
      /\ FitSeq(<<Move(t, x.regs[j])>>) /\ FitSeq(<<Move(x.regs[j], t)>>)
      /\ FitSeq(<<>>)
  BY MoveFits, FitOne
<1>2. FitSeq(HeadMoves(x, j, t, s))
  <2>1. CASE IsDst(x, j)
    <3>1. HeadMoves(x, j, t, s) = <<Move(s, t)>> \o <<>>
      BY <2>1, Zenon DEF HeadMoves
    <3> QED
      BY <1>1, <3>1, FitConcat
  <2>2. CASE ~IsDst(x, j)
    <3>1. HeadMoves(x, j, t, s) = <<Move(s, t)>> \o <<Move(t, x.regs[j])>>
      BY <2>2, Zenon DEF HeadMoves
    <3> QED
      BY <1>1, <3>1, FitConcat
  <2> QED
    BY <2>1, <2>2
<1>3. FitSeq(TailMoves(x, j, t, s))
  <2>1. CASE IsDst(x, j)
    <3>1. TailMoves(x, j, t, s) = <<Move(x.regs[j], t)>> \o <<Move(t, s)>>
      BY <2>1, Zenon DEF TailMoves
    <3> QED
      BY <1>1, <3>1, FitConcat
  <2>2. CASE ~IsDst(x, j)
    <3>1. TailMoves(x, j, t, s) = <<>> \o <<Move(t, s)>>
      BY <2>2, Zenon DEF TailMoves
    <3> QED
      BY <1>1, <3>1, FitConcat
  <2> QED
    BY <2>1, <2>2
<1> QED
  BY <1>2, <1>3

(* The instruction itself.                                                 *)
LEMMA AdjustedFits ==
  ASSUME NEW x, x.op \notin {"mov", "range", "keys"}, NEW regs,
         \A j \in DOMAIN regs : regs[j] < LevelB
  PROVE  Fits(With(x, regs))
<1> DEFINE y == With(x, regs)
           F == [j \in DOMAIN regs |-> LevelB]
<1>1. y.op = x.op /\ y.regs = regs
  BY DEF With
<1> HIDE DEF y
<1>2. Formats(y) = <<F>>
  BY <1>1 DEF Formats
<1> HIDE DEF F
<1>3. 1 \in DOMAIN Formats(y) /\ Formats(y)[1] = F
  BY <1>2
<1>4. \A j \in DOMAIN y.regs : y.regs[j] < Formats(y)[1][j]
  BY <1>1, <1>3 DEF F
<1>5. y.op \notin {"range", "keys"}
  BY <1>1
<1> QED
  BY <1>3, <1>4, <1>5 DEF Fits, y

(* An instruction is adjusted with moves that fit, and fits then.          *)
LEMMA AdjustKeeps ==
  ASSUME 4 <= LevelB, AInv, CInv', Adjust
  PROVE  AInv'
<1> DEFINE M == Len(Allocated)
<1>0. UNCHANGED poolVars /\ UNCHANGED code /\ Adjusting
  BY DEF Adjust
<1>1. PICK x, invalid, n, tmps :
           /\ x = Current /\ x.op \notin {"range", "keys"}
           /\ invalid = Invalid(x, Formats(x)[MinFormat(x)])
           /\ n = Cardinality(invalid) /\ n > 0
           /\ tmps = TmpVregs(Marked(x))
           /\ \/ /\ VRegsAfter(n) > LevelC \/ ~(n <= Cardinality(tmps))
                 /\ phase' = IF /\ ~(n <= Cardinality(tmps))
                                /\ VRegsAfter(Cardinality(tmps) + 1) <= LevelC
                             THEN NoTmp ELSE RunningOut
                 /\ UNCHANGED newInsns
              \/ /\ ~(VRegsAfter(n) > LevelC)
                 /\ newInsns' =
                      newInsns \o FlattenSeq(Heads(x, invalid, tmps, n))
                        \o <<With(x, AdjustedRegs(x, invalid, tmps))>>
                        \o FlattenSeq(Tails(x, invalid, tmps, n))
                 /\ index' = index + 1
                 /\ vRegsId' = VRegsAfter(n)
                 /\ spills' = FreeSpills(n)
                 /\ UNCHANGED phase
  BY AdjustDoes
<1>2. M \in Nat /\ M <= LevelC /\ NumberedShape(x, M) /\ index + 1 \in 1 .. Len(code) + 1
  BY <1>0, <1>1, CurrentShape
<1>3. /\ vRegsId \in Nat /\ M <= vRegsId /\ vRegsId <= LevelC
      /\ spills \in Seq(M .. vRegsId - 1) /\ OneEach(spills)
      /\ phase = "adjust"
  BY <1>0 DEF AInv, Adjusting
<1> HIDE DEF M
<1>4. /\ x.op # "mov" /\ LevelB < M /\ n \in 1 .. Len(x.regs)
      /\ invalid = {j \in 1 .. Len(x.regs) : x.regs[j] >= LevelB}
      /\ tmps \in SUBSET (0 .. LevelB - 1) /\ IsFiniteSet(tmps)
      /\ n <= Cardinality(tmps)
  BY <1>1, <1>2, <1>3, EnoughTmps
<1>5. /\ DOMAIN x.regs = 1 .. Len(x.regs) /\ Len(x.regs) \in Nat
      /\ \A j \in 1 .. Len(x.regs) : x.regs[j] \in 0 .. M - 1
  BY <1>2 DEF NumberedShape
<1>6. LevelB \in Nat /\ LevelC \in Nat /\ LevelB < LevelC
  BY LevelAssumption
<1>7. CASE phase' = RunningOut /\ UNCHANGED newInsns
  <2>1. phase' # NoTmp /\ phase' # "adjust"
    BY <1>7, PhaseNames
  <2>2. FitSeq(newInsns')
    BY <1>7 DEF AInv
  <2> QED
    BY <1>0, <2>1, <2>2, AllocationKept
<1>8. CASE /\ ~(VRegsAfter(n) > LevelC)
           /\ newInsns' =
                newInsns \o FlattenSeq(Heads(x, invalid, tmps, n))
                  \o <<With(x, AdjustedRegs(x, invalid, tmps))>>
                  \o FlattenSeq(Tails(x, invalid, tmps, n))
           /\ index' = index + 1
           /\ vRegsId' = VRegsAfter(n)
           /\ spills' = FreeSpills(n)
           /\ UNCHANGED phase
  <2>1. n \in Nat /\ \A r \in tmps : r \in Nat /\ r < LevelB
    BY <1>4, <1>5, <1>6
  <2>2. /\ VRegsAfter(n) \in Nat /\ vRegsId <= VRegsAfter(n)
        /\ Spill(n) \in Seq(M .. VRegsAfter(n) - 1) /\ Len(Spill(n)) = n
        /\ FreeSpills(n) \in Seq(M .. VRegsAfter(n) - 1) /\ OneEach(FreeSpills(n))
    BY <1>2, <1>3, <2>1, SpillsApart
  <2>3. /\ \A i \in 1 .. n : /\ Smallest(invalid, i) \in invalid
                             /\ Smallest(tmps, i) \in tmps
        /\ \A j \in invalid : Cardinality(invalid \cap (1 .. j)) \in 1 .. n
    <3>1. invalid \in SUBSET (1 .. Len(x.regs)) /\ tmps \in SUBSET Nat
      BY <1>4, <2>1
    <3> QED
      BY <1>1, <1>4, <1>5, <3>1, Lent
  <2>4. VRegsAfter(n) <= LevelC
    BY <1>6, <1>8, <2>2
  <2>5. ASSUME NEW i \in 1 .. n
        PROVE  /\ FitSeq(Heads(x, invalid, tmps, n)[i])
               /\ FitSeq(Tails(x, invalid, tmps, n)[i])
    <3> DEFINE j == Smallest(invalid, i)
               t == Smallest(tmps, i)
               s == Spill(n)[i]
    <3>1. /\ j \in 1 .. Len(x.regs) /\ t \in Nat /\ t < LevelB
          /\ s \in M .. VRegsAfter(n) - 1
      <4>1. j \in 1 .. Len(x.regs)
        BY <1>4, <2>3
      <4>2. t \in Nat /\ t < LevelB
        BY <2>1, <2>3
      <4>3. s \in M .. VRegsAfter(n) - 1
        BY <2>2, ElementOfSeq
      <4> QED
        BY <4>1, <4>2, <4>3
    <3> HIDE DEF j, t, s
    <3>2. /\ x.regs[j] \in Int /\ x.regs[j] < LevelC
          /\ t \in Int /\ t < LevelC /\ s \in Int /\ s < LevelC
      <4>1. x.regs[j] \in 0 .. M - 1
        BY <1>5, <3>1
      <4>2. \A q \in 0 .. M - 1 : q \in Int /\ q < LevelC
        BY <1>2, <1>6
      <4>3. \A q \in M .. VRegsAfter(n) - 1 : q \in Int /\ q < LevelC
        BY <1>2, <1>6, <2>2, <2>4
      <4>4. t \in Int /\ t < LevelC
        BY <1>6, <3>1
      <4> QED
        BY <3>1, <4>1, <4>2, <4>3, <4>4
    <3>3. FitSeq(HeadMoves(x, j, t, s)) /\ FitSeq(TailMoves(x, j, t, s))
      BY <3>2, HeadFits
    <3> QED
      BY <3>3 DEF Heads, Tails, j, t, s
  <2>6. /\ FitSeq(FlattenSeq(Heads(x, invalid, tmps, n)))
        /\ FitSeq(FlattenSeq(Tails(x, invalid, tmps, n)))
    <3> DEFINE H == Heads(x, invalid, tmps, n)
               T == Tails(x, invalid, tmps, n)
    <3>1. H = [i \in 1 .. n |-> H[i]] /\ T = [i \in 1 .. n |-> T[i]]
      BY DEF Heads, Tails
    <3> HIDE DEF H, T
    <3>2. \A i \in 1 .. n : FitSeq(H[i]) /\ FitSeq(T[i])
      BY <2>5 DEF H, T
    <3>3. FitSeq(FlattenSeq(H)) /\ FitSeq(FlattenSeq(T))
      BY <2>1, <3>1, <3>2, BlocksFit
    <3> QED
      BY <3>3 DEF H, T
  <2>7. Fits(With(x, AdjustedRegs(x, invalid, tmps)))
    <3> DEFINE R == AdjustedRegs(x, invalid, tmps)
    <3>1. DOMAIN R = 1 .. Len(x.regs)
      BY <1>5 DEF AdjustedRegs
    <3>2. ASSUME NEW j \in 1 .. Len(x.regs)
          PROVE  R[j] < LevelB
      <4>1. CASE j \in invalid
        <5>1. R[j] = Smallest(tmps, Cardinality(invalid \cap (1 .. j)))
          BY <1>5, <4>1 DEF AdjustedRegs
        <5> QED
          BY <2>1, <2>3, <4>1, <5>1
      <4>2. CASE j \notin invalid
        <5>1. R[j] = x.regs[j]
          BY <1>5, <4>2 DEF AdjustedRegs
        <5> QED
          BY <1>4, <1>5, <1>6, <4>2, <5>1
      <4> QED
        BY <4>1, <4>2
    <3> HIDE DEF R
    <3> QED
      BY <1>1, <1>4, <3>1, <3>2, AdjustedFits DEF R
  <2>8. FitSeq(newInsns')
    <3>1. FitSeq(newInsns) /\ FitSeq(<<With(x, AdjustedRegs(x, invalid, tmps))>>)
      BY <2>7, FitOne DEF AInv
    <3>2. FitSeq(newInsns \o FlattenSeq(Heads(x, invalid, tmps, n)))
      BY <2>6, <3>1, FitConcat
    <3>3. FitSeq(newInsns \o FlattenSeq(Heads(x, invalid, tmps, n))
                   \o <<With(x, AdjustedRegs(x, invalid, tmps))>>)
      BY <3>1, <3>2, FitConcat
    <3> QED
      BY <1>8, <2>6, <3>3, FitConcat
  <2>9. M <= vRegsId'
    BY <1>2, <1>3, <1>8, <2>2
  <2>10. phase' # NoTmp
    BY <1>8 DEF AInv
  <2> QED
    BY <1>0, <1>2, <1>8, <2>2, <2>4, <2>8, <2>9, <2>10, AllocationKept DEF M
<1> QED
  BY <1>1, <1>4, <1>7, <1>8

(* A range for which there is no room where its instruction can name it:   *)
(* there are more numbered registers than 8 bits can name, and the range   *)
(* is moved to the lowest ones.                                            *)
LEMMA RangeLow ==
  ASSUME 4 <= LevelB, NEW M \in Nat, M <= LevelC, vRegsId \in Nat, M <= vRegsId,
         NEW x, NumberedShape(x, M), x.op \in {"range", "keys"},
         x.regs[1] >= Level(x)
  PROVE  /\ LevelB < M /\ Level(x) = LevelB
         /\ Smallest(TmpVregs({}), 1) = 0
         /\ Start(x) \in 1 .. Len(x.regs)
<1>1. LevelB \in Nat /\ LevelC \in Nat /\ Level(x) \in {LevelB, LevelC}
  BY LevelAssumption DEF Level
<1>2. x.regs \in Seq(0 .. M - 1) /\ Len(x.regs) \in Nat /\ Start(x) \in 1 .. Len(x.regs)
  BY DEF NumberedShape, Start
<1>3. x.regs[1] \in 0 .. M - 1
  BY <1>2
<1>4. Level(x) = LevelB /\ LevelB < M
  BY <1>1, <1>3
<1>5. Smallest(TmpVregs({}), 1) = 0
  <2>1. TmpVregs({}) = 0 .. LevelB - 1
    BY <1>1, <1>4 DEF TmpVregs
  <2>2. IsFiniteSet(0 .. LevelB - 1)
    BY <1>1, FS_Interval
  <2>3. 0 \in 0 .. LevelB - 1 /\ 0 .. LevelB - 1 \in SUBSET Nat
    BY <1>1
  <2> QED
    BY <2>1, <2>2, <2>3, SmallestZero
<1> QED
  BY <1>2, <1>4, <1>5

(* What the step does, with the lowest register at 0.                      *)
RangeSize(x)  == Len(x.regs) - Start(x) + 1
RangeRegs(x)  == [j \in DOMAIN x.regs |-> IF j < Start(x) THEN x.regs[j] ELSE j - Start(x)]
RangeHeads(x) ==
  [i \in 1 .. RangeSize(x) |->
     <<Move(Spill(RangeSize(x))[i], i - 1), Move(i - 1, x.regs[Start(x) + i - 1])>>]
RangeTails(x) ==
  [i \in 1 .. RangeSize(x) |-> Move(i - 1, Spill(RangeSize(x))[i])]

(* What adjusting an instruction with a range of registers does: it runs   *)
(* out of registers, or moves the range to the first registers.            *)
LEMMA AdjustRangeDoes ==
  ASSUME 4 <= LevelB, AInv, AdjustRange
  PROVE  \E x :
           /\ x = Current /\ x.op \in {"range", "keys"} /\ x.regs[1] >= Level(x)
           /\ \/ VRegsAfter(RangeSize(x)) > LevelC /\ phase' = RunningOut /\ UNCHANGED newInsns
              \/ /\ ~(VRegsAfter(RangeSize(x)) > LevelC)
                 /\ newInsns' = newInsns \o FlattenSeq(RangeHeads(x))
                                  \o <<With(x, RangeRegs(x))>> \o RangeTails(x)
                 /\ index' = index + 1
                 /\ vRegsId' = VRegsAfter(RangeSize(x))
                 /\ spills' = FreeSpills(RangeSize(x))
                 /\ UNCHANGED phase
<1> DEFINE M == Len(Allocated)
           x == Current
           a == Smallest(TmpVregs({}), 1)
           first == Start(x)
           n == Len(x.regs) - first + 1
           tmp(i) == a + i - 1
           H == [i \in 1 .. n |-> <<Move(Spill(n)[i], tmp(i)), Move(tmp(i), x.regs[first + i - 1])>>]
           R == [j \in DOMAIN x.regs |-> IF j < first THEN x.regs[j] ELSE tmp(j - first + 1)]
           T == [i \in 1 .. n |-> Move(tmp(i), Spill(n)[i])]
           adj == [x EXCEPT !.regs = R]
<1>1. /\ x.op \in {"range", "keys"} /\ x.regs[1] >= Level(x) /\ Adjusting
      /\ \/ VRegsAfter(n) > LevelC /\ phase' = RunningOut /\ UNCHANGED newInsns
         \/ /\ ~(VRegsAfter(n) > LevelC)
            /\ newInsns' = newInsns \o FlattenSeq(H) \o <<adj>> \o T
            /\ index' = index + 1
            /\ vRegsId' = VRegsAfter(n)
            /\ spills' = FreeSpills(n)
            /\ UNCHANGED phase
  BY DEF AdjustRange, Push
<1>2. M \in Nat /\ M <= LevelC /\ NumberedShape(x, M)
  BY <1>1, CurrentShape
<1>3. vRegsId \in Nat /\ M <= vRegsId
  BY <1>1 DEF AInv, Adjusting
<1> HIDE DEF M, x, a
<1>4. a = 0 /\ first \in 1 .. Len(x.regs)
  BY <1>1, <1>2, <1>3, RangeLow DEF a
<1>5. n = RangeSize(x) /\ DOMAIN x.regs = 1 .. Len(x.regs) /\ Len(x.regs) \in Nat /\ n \in Nat
  BY <1>2, <1>4 DEF NumberedShape, RangeSize
<1> HIDE DEF n
<1>6. H = RangeHeads(x)
  <2>1. \A i \in 1 .. n : tmp(i) = i - 1
    BY <1>4
  <2>2. H = [i \in 1 .. n |-> <<Move(Spill(n)[i], i - 1), Move(i - 1, x.regs[first + i - 1])>>]
    BY <2>1, Zenon
  <2> HIDE DEF H
  <2> QED
    BY <1>5, <2>2 DEF RangeHeads
<1>7. T = RangeTails(x)
  <2>1. \A i \in 1 .. n : tmp(i) = i - 1
    BY <1>4
  <2>2. T = [i \in 1 .. n |-> Move(i - 1, Spill(n)[i])]
    BY <2>1, Zenon
  <2> HIDE DEF T
  <2> QED
    BY <1>5, <2>2 DEF RangeTails
<1>8. R = RangeRegs(x)
  <2>1. \A j \in DOMAIN x.regs : tmp(j - first + 1) = j - first
    BY <1>4, <1>5
  <2>2. R = [j \in DOMAIN x.regs |-> IF j < first THEN x.regs[j] ELSE j - first]
    BY <2>1, Zenon
  <2> HIDE DEF R
  <2> QED
    BY <2>2 DEF RangeRegs
<1> HIDE DEF H, T, R
<1>9. adj = With(x, RangeRegs(x))
  <2>1. IsInsn(x)
    BY <1>2 DEF NumberedShape
  <2> QED
    BY <1>8, <2>1, Replaced DEF With
<1> HIDE DEF adj, first
<1>10. x = Current
  BY DEF x
<1> QED
  BY <1>1, <1>5, <1>6, <1>7, <1>9, <1>10

(* There is room for as many spill registers as are handed out.            *)
LEMMA FewSpills ==
  ASSUME NEW n \in Nat, NEW M \in Nat, NEW V \in Nat, NEW s \in Seq(M .. V - 1),
         Len(s) = n, OneEach(s), M <= V
  PROVE  n <= V - M
<1>1. s \in Injection(1 .. n, M .. V - 1)
  <2>1. s \in [1 .. n -> M .. V - 1]
    OBVIOUS
  <2>2. \A i, j \in 1 .. n : s[i] = s[j] => i = j
    BY DEF OneEach
  <2> QED
    BY <2>1, <2>2 DEF Injection, IsInjective
<1>2. /\ IsFiniteSet(M .. V - 1)
      /\ Cardinality(M .. V - 1) = IF M > V - 1 THEN 0 ELSE V - 1 - M + 1
  BY FS_Interval
<1>3. Cardinality(1 .. n) = IF 1 > n THEN 0 ELSE n - 1 + 1
  BY FS_Interval
<1>4. Cardinality(1 .. n) <= Cardinality(M .. V - 1)
  BY <1>1, <1>2, FS_Injection
<1>5. Cardinality(M .. V - 1) = V - M
  BY <1>2
<1>6. Cardinality(1 .. n) = n
  BY <1>3
<1> QED
  BY <1>4, <1>5, <1>6

(* Two instructions.                                                       *)
LEMMA Two ==
  ASSUME NEW p, NEW q
  PROVE  <<p>> \o <<q>> = <<p, q>>
<1> DEFINE s == <<p>> \o <<q>>
           t == <<p, q>>
           S == {p, q}
<1>1. <<p>> \in Seq(S) /\ <<q>> \in Seq(S) /\ t \in Seq(S)
  OBVIOUS
<1>2. Len(<<p>>) = 1 /\ Len(<<q>>) = 1 /\ Len(t) = 2
  OBVIOUS
<1>3. /\ s \in Seq(S) /\ Len(s) = 1 + 1
      /\ \A i \in 1 .. 1 + 1 : s[i] = IF i <= 1 THEN <<p>>[i] ELSE <<q>>[i - 1]
  <2> HIDE DEF S, t
  <2> QED
    BY <1>1, <1>2, ConcatProperties
<1>4. s[1] = p /\ s[2] = q
  <2>1. 1 \in 1 .. 1 + 1 /\ 1 <= 1 /\ 2 \in 1 .. 1 + 1 /\ ~(2 <= 1) /\ 2 - 1 = 1
    OBVIOUS
  <2>2. <<p>>[1] = p /\ <<q>>[1] = q
    OBVIOUS
  <2> HIDE DEF s
  <2> QED
    BY <1>3, <2>1, <2>2
<1>5. \A i \in 1 .. 2 : s[i] = t[i]
  <2>1. t[1] = p /\ t[2] = q
    OBVIOUS
  <2>2. \A i \in 1 .. 2 : i = 1 \/ i = 2
    OBVIOUS
  <2> HIDE DEF s, t
  <2> QED
    BY <1>4, <2>1, <2>2
<1>6. Len(s) = 2
  BY <1>3
<1> HIDE DEF s, t, S
<1>7. s = t
  BY <1>1, <1>2, <1>3, <1>5, <1>6, SeqEqual
<1> QED
  BY <1>7 DEF s, t

(* A range is moved with moves that fit, and fits then.                    *)
LEMMA AdjustRangeKeeps ==
  ASSUME 4 <= LevelB, AInv, CInv', AdjustRange
  PROVE  AInv'
<1> DEFINE M == Len(Allocated)
<1>0. UNCHANGED poolVars /\ UNCHANGED code /\ Adjusting
  BY DEF AdjustRange
<1>1. PICK x :
           /\ x = Current /\ x.op \in {"range", "keys"} /\ x.regs[1] >= Level(x)
           /\ \/ VRegsAfter(RangeSize(x)) > LevelC /\ phase' = RunningOut /\ UNCHANGED newInsns
              \/ /\ ~(VRegsAfter(RangeSize(x)) > LevelC)
                 /\ newInsns' = newInsns \o FlattenSeq(RangeHeads(x))
                                  \o <<With(x, RangeRegs(x))>> \o RangeTails(x)
                 /\ index' = index + 1
                 /\ vRegsId' = VRegsAfter(RangeSize(x))
                 /\ spills' = FreeSpills(RangeSize(x))
                 /\ UNCHANGED phase
  BY AdjustRangeDoes
<1> DEFINE n == RangeSize(x)
<1>2. M \in Nat /\ M <= LevelC /\ NumberedShape(x, M) /\ index + 1 \in 1 .. Len(code) + 1
  BY <1>0, <1>1, CurrentShape
<1>3. /\ vRegsId \in Nat /\ M <= vRegsId /\ vRegsId <= LevelC
      /\ spills \in Seq(M .. vRegsId - 1) /\ OneEach(spills)
      /\ phase = "adjust"
  BY <1>0 DEF AInv, Adjusting
<1> HIDE DEF M
<1>4. LevelB < M /\ Level(x) = LevelB /\ Start(x) \in 1 .. Len(x.regs)
  BY <1>1, <1>2, <1>3, RangeLow
<1>5. /\ DOMAIN x.regs = 1 .. Len(x.regs) /\ Len(x.regs) \in Nat
      /\ \A j \in 1 .. Len(x.regs) : x.regs[j] \in 0 .. M - 1
  BY <1>2 DEF NumberedShape
<1>6. LevelB \in Nat /\ LevelC \in Nat /\ LevelB < LevelC
  BY LevelAssumption
<1>7. n \in Nat /\ n = Len(x.regs) - Start(x) + 1
  BY <1>4, <1>5 DEF RangeSize
<1>8. CASE phase' = RunningOut /\ UNCHANGED newInsns
  <2>1. phase' # NoTmp /\ phase' # "adjust"
    BY <1>8, PhaseNames
  <2>2. FitSeq(newInsns')
    BY <1>8 DEF AInv
  <2> QED
    BY <1>0, <2>1, <2>2, AllocationKept
<1>9. CASE /\ ~(VRegsAfter(n) > LevelC)
           /\ newInsns' = newInsns \o FlattenSeq(RangeHeads(x))
                            \o <<With(x, RangeRegs(x))>> \o RangeTails(x)
           /\ index' = index + 1
           /\ vRegsId' = VRegsAfter(n)
           /\ spills' = FreeSpills(n)
           /\ UNCHANGED phase
  <2> DEFINE V == VRegsAfter(n)
             H == RangeHeads(x)
             T == RangeTails(x)
             R == RangeRegs(x)
  <2>2. /\ V \in Nat /\ vRegsId <= V
        /\ Spill(n) \in Seq(M .. V - 1) /\ Len(Spill(n)) = n /\ OneEach(Spill(n))
        /\ FreeSpills(n) \in Seq(M .. V - 1) /\ OneEach(FreeSpills(n))
    BY <1>2, <1>3, <1>7, SpillsApart
  <2>3. V <= LevelC /\ M <= V
    BY <1>2, <1>3, <1>6, <1>9, <2>2
  <2>4. n <= V - M
    BY <1>2, <1>7, <2>2, <2>3, FewSpills
  <2>5. n <= LevelC
    BY <1>2, <1>6, <1>7, <2>2, <2>3, <2>4
  <2> HIDE DEF n, V
  <2>6. ASSUME NEW i \in 1 .. n
        PROVE  FitSeq(H[i]) /\ Fits(T[i])
    <3> DEFINE j == Start(x) + i - 1
               s == Spill(n)[i]
    <3>1. j \in 1 .. Len(x.regs) /\ s \in M .. V - 1
      <4>1. s \in M .. V - 1
        BY <2>2, ElementOfSeq
      <4>2. j \in 1 .. Len(x.regs)
        BY <1>4, <1>5, <1>7
      <4> QED
        BY <4>1, <4>2
    <3>2. /\ H[i] = <<Move(s, i - 1), Move(i - 1, x.regs[j])>>
          /\ T[i] = Move(i - 1, s)
      BY DEF RangeHeads, RangeTails, n
    <3> HIDE DEF H, T, j, s
    <3>3. /\ x.regs[j] \in Int /\ x.regs[j] < LevelC
          /\ i - 1 \in Int /\ i - 1 < LevelC /\ s \in Int /\ s < LevelC
      <4>1. x.regs[j] \in 0 .. M - 1
        BY <1>5, <3>1
      <4>2. \A q \in 0 .. M - 1 : q \in Int /\ q < LevelC
        BY <1>2, <1>6
      <4>3. \A q \in M .. V - 1 : q \in Int /\ q < LevelC
        BY <1>2, <1>6, <2>2, <2>3
      <4>4. i - 1 \in Int /\ i - 1 < LevelC
        BY <1>6, <1>7, <2>5
      <4> QED
        BY <3>1, <4>1, <4>2, <4>3, <4>4
    <3>4. Fits(Move(s, i - 1)) /\ Fits(Move(i - 1, x.regs[j])) /\ Fits(Move(i - 1, s))
      BY <3>3, MoveFits
    <3>5. FitSeq(<<Move(s, i - 1)>>) /\ FitSeq(<<Move(i - 1, x.regs[j])>>)
      BY <3>4, FitOne
    <3>6. FitSeq(<<Move(s, i - 1)>> \o <<Move(i - 1, x.regs[j])>>)
      BY <3>5, FitConcat
    <3>7. <<Move(s, i - 1)>> \o <<Move(i - 1, x.regs[j])>>
            = <<Move(s, i - 1), Move(i - 1, x.regs[j])>>
      BY Two
    <3> QED
      BY <3>2, <3>4, <3>6, <3>7
  <2>7. H = [i \in 1 .. n |-> H[i]] /\ T = [i \in 1 .. n |-> T[i]]
    BY DEF RangeHeads, RangeTails, n
  <2>8. Fits(With(x, R))
    <3> DEFINE y == With(x, R)
    <3>1. /\ y.op = x.op /\ y.regs = R
      BY DEF With
    <3>2. R[Start(x)] = 0
      <4>1. R[Start(x)] = Start(x) - Start(x)
        BY <1>4, <1>5 DEF RangeRegs
      <4> QED
        BY <1>4, <1>5, <4>1
    <3> HIDE DEF R, y
    <3>3. Start(y) = Start(x) /\ Level(y) = Level(x)
      BY <3>1 DEF Start, Level
    <3>4. y.op \in {"range", "keys"}
      BY <1>1, <3>1
    <3>5. y.regs[Start(y)] < Level(y)
      <4>1. y.regs[Start(y)] = 0 /\ Level(y) = LevelB
        BY <1>4, <3>1, <3>2, <3>3
      <4>2. 0 < LevelB
        BY <1>6
      <4> QED
        BY <4>1, <4>2
    <3>6. Fits(y)
      BY <3>4, <3>5 DEF Fits
    <3> QED
      BY <3>6 DEF y
  <2> HIDE DEF H, T, R
  <2>9. FitSeq(FlattenSeq(H))
    BY <1>7, <2>6, <2>7, BlocksFit DEF n
  <2>10. FitSeq(T)
    <3>1. T \in Seq(Range(T))
      BY <1>7, <2>7, ListSeq DEF n
    <3>2. \A y \in Range(T) : Fits(y)
      <4>1. DOMAIN T = 1 .. n
        BY <2>7
      <4> QED
        BY <2>6, <4>1 DEF Range
    <3> QED
      BY <3>1, <3>2 DEF FitSeq
  <2>11. FitSeq(newInsns')
    <3>1. FitSeq(newInsns) /\ FitSeq(<<With(x, R)>>)
      BY <2>8, FitOne DEF AInv
    <3>2. FitSeq(newInsns \o FlattenSeq(H))
      BY <2>9, <3>1, FitConcat
    <3>3. FitSeq(newInsns \o FlattenSeq(H) \o <<With(x, R)>>)
      BY <3>1, <3>2, FitConcat
    <3>4. newInsns' = newInsns \o FlattenSeq(H) \o <<With(x, R)>> \o T
      BY <1>9 DEF H, T, R
    <3> QED
      BY <2>10, <3>3, <3>4, FitConcat
  <2>12. phase' # NoTmp
    BY <1>9 DEF AInv
  <2>13. /\ vRegsId' = V /\ index' = index + 1 /\ spills' = FreeSpills(n)
    BY <1>9 DEF V, n
  <2> QED
    BY <1>0, <1>2, <2>2, <2>3, <2>11, <2>12, <2>13, AllocationKept DEF M
<1> QED
  BY <1>1, <1>8, <1>9

(* The moves of the parameters fit.                                        *)
LEMMA ParametersKeeps ==
  ASSUME AInv, CInv', Parameters
  PROVE  AInv'
<1> DEFINE b == [i \in 1 .. params |-> Move(i - 1, vRegsId + i - 1)]
<1>1. /\ UNCHANGED poolVars /\ UNCHANGED code /\ phase = "adjust"
      /\ \/ phase' = RunningOut /\ UNCHANGED newInsns
         \/ /\ ~(vRegsId + params > LevelC)
            /\ newInsns' = Reverse(b) \o newInsns
            /\ phase' = "done"
  BY DEF Parameters
<1>2. phase' # NoTmp /\ phase' # "adjust"
  BY <1>1, PhaseNames
<1>3. FitSeq(newInsns)
  BY DEF AInv
<1>4. CASE UNCHANGED newInsns
  <2>1. FitSeq(newInsns')
    BY <1>3, <1>4
  <2> QED
    BY <1>1, <1>2, <2>1, AllocationKept
<1>5. CASE ~(vRegsId + params > LevelC) /\ newInsns' = Reverse(b) \o newInsns
  <2>1. params \in Nat /\ vRegsId \in Nat /\ LevelC \in Nat
    BY <1>1, LevelAssumption DEF AInv, CInv, NInv
  <2>2. DOMAIN b = 1 .. params /\ Len(b) = params /\ b = [i \in 1 .. params |-> b[i]]
    BY <2>1
  <2>3. \A i \in 1 .. params : b[i] = Move(i - 1, vRegsId + i - 1)
    OBVIOUS
  <2> HIDE DEF b
  <2>4. \A i \in 1 .. params : Fits(b[i])
    <3> SUFFICES ASSUME NEW i \in 1 .. params PROVE Fits(b[i])
      OBVIOUS
    <3>1. /\ i - 1 \in Int /\ i - 1 < LevelC
          /\ vRegsId + i - 1 \in Int /\ vRegsId + i - 1 < LevelC
      BY <1>5, <2>1
    <3> QED
      BY <2>3, <3>1, MoveFits
  <2>5. FitSeq(Reverse(b))
    <3> DEFINE r == Reverse(b)
    <3>1. r = [i \in 1 .. params |-> b[(params - i) + 1]]
      BY <2>2 DEF Reverse
    <3>2. \A i \in 1 .. params : (params - i) + 1 \in 1 .. params
      BY <2>1
    <3>3. /\ DOMAIN r = 1 .. params /\ r = [i \in 1 .. params |-> r[i]]
          /\ \A i \in 1 .. params : Fits(r[i])
      BY <2>4, <3>1, <3>2
    <3> HIDE DEF r
    <3>4. r \in Seq(Range(r))
      BY <2>1, <3>3, ListSeq
    <3>5. \A y \in Range(r) : Fits(y)
      BY <3>3 DEF Range
    <3>6. FitSeq(r)
      BY <3>4, <3>5 DEF FitSeq
    <3> QED
      BY <3>6 DEF r
  <2>6. FitSeq(newInsns')
    BY <1>3, <1>5, <2>5, FitConcat
  <2> QED
    BY <1>1, <1>2, <2>6, AllocationKept
<1> QED
  BY <1>1, <1>4, <1>5

(* Every step keeps the invariant.                                         *)
LEMMA AllocationStep ==
  ASSUME RestTargets \subseteq {"binding"}, 4 <= LevelB, AInv, [Next]_vars
  PROVE  AInv'
<1>1. CInv'
  BY CodeStep DEF AInv
<1>2. CASE Generate /\ UNCHANGED allocVars
  <2>1. phase = "generate" /\ UNCHANGED <<phase, newInsns>>
    BY <1>2, GenerateOpen DEF AInv, CInv, allocVars
  <2>2. FitSeq(newInsns)' = FitSeq(newInsns)
    BY <2>1 DEF FitSeq
  <2>3. NoTmp' = NoTmp
    BY Zenon DEF NoTmp
  <2> QED
    BY <1>1, <2>1, <2>2, <2>3, PhaseNames DEF AInv
<1>3. CASE UNCHANGED vars
  <2>1. /\ UNCHANGED poolVars /\ UNCHANGED code /\ UNCHANGED <<newInsns, phase>>
        /\ UNCHANGED <<vRegsId, index, spills>>
    BY <1>3 DEF vars, allocVars
  <2>2. FitSeq(newInsns') /\ phase' # NoTmp
    BY <2>1 DEF AInv
  <2> QED
    BY <1>1, <2>1, <2>2, AllocationKept DEF AInv
<1> QED
  BY <1>1, <1>2, <1>3, AllocateKeeps, KeepKeeps, AdjustKeeps, KeepRangeKeeps,
     AdjustRangeKeeps, ParametersKeeps DEF Next

(* At every point of the allocation everything that has come out can be    *)
(* encoded, but for keys at the edge of their level, and the registers in  *)
(* use can be named by the moves.                                          *)
THEOREM AllocationInvariance ==
  ASSUME RestTargets \subseteq {"binding"}, 4 <= LevelB
  PROVE  Spec => []AInv
<1>1. Init => AInv
  <2> SUFFICES ASSUME Init PROVE AInv
    OBVIOUS
  <2>1. CInv /\ phase = "generate" /\ newInsns = <<>>
    BY InitNamed DEF Init, CInv
  <2> QED
    BY <2>1, FitOne, PhaseNames DEF AInv
<1>2. AInv /\ [Next]_vars => AInv'
  BY AllocationStep
<1> QED
  BY <1>1, <1>2, PTL DEF Spec

(* There is a register to adjust an instruction with whenever one of its   *)
(* registers does not fit: regAllocator.ts:180 says so without a reason.   *)
THEOREM TmpAlwaysFound ==
  ASSUME RestTargets \subseteq {"binding"}, 4 <= LevelB
  PROVE  Spec => []TmpVregFound
<1>1. AInv => TmpVregFound
  BY DEF AInv, TmpVregFound
<1> QED
  BY <1>1, AllocationInvariance, PTL

(* Every register that comes out can be named by its instruction, but for  *)
(* keys whose object is next to the last register that fits (AtTheEdge).   *)
THEOREM OutputFits ==
  ASSUME RestTargets \subseteq {"binding"}, 4 <= LevelB
  PROVE  Spec => []EmittedFits
<1>1. AInv => EmittedFits
  <2> SUFFICES ASSUME AInv, NEW k \in DOMAIN newInsns PROVE Fits(newInsns[k])
    BY DEF EmittedFits
  <2>1. PICK S : newInsns \in Seq(S) /\ \A x \in S : Fits(x)
    BY DEF AInv, FitSeq
  <2>2. newInsns[k] \in S
    BY <2>1
  <2> QED
    BY <2>1, <2>2
<1> QED
  BY <1>1, AllocationInvariance, PTL

-----------------------------------------------------------------------------
(* States of the virtual machine with registers D.                         *)

IsState(t, D) ==
  \E reg, trace : /\ t = [reg |-> reg, trace |-> trace]
                  /\ reg = [r \in D |-> reg[r]]

(* The registers of t2 are those of t, but a has the value v.              *)
Stored(t, t2, D, a, v) ==
  /\ IsState(t2, D)
  /\ t2.reg[a] = v
  /\ \A r \in D : r # a => t2.reg[r] = t.reg[r]

(* A state with another value in one of its registers.                     *)
LEMMA StoreState ==
  ASSUME NEW D, NEW t, IsState(t, D), NEW a \in D, NEW v, NEW trace
  PROVE  Stored(t, [reg |-> [t.reg EXCEPT ![a] = v], trace |-> trace], D, a, v)
<1>1. PICK reg, old : t = [reg |-> reg, trace |-> old] /\ reg = [r \in D |-> reg[r]]
  BY DEF IsState
<1>2. t.reg = reg
  BY <1>1
<1> DEFINE new == [reg EXCEPT ![a] = v]
<1>3. /\ new = [r \in D |-> new[r]]
      /\ new[a] = v
      /\ \A r \in D : r # a => new[r] = reg[r]
  BY <1>1
<1> HIDE DEF new
<1> DEFINE t2 == [reg |-> new, trace |-> trace]
<1>4. t2.reg = new
  OBVIOUS
<1>5. IsState(t2, D)
  BY <1>3 DEF IsState
<1> HIDE DEF t2
<1>6. Stored(t, t2, D, a, v)
  BY <1>2, <1>3, <1>4, <1>5 DEF Stored
<1> QED
  BY <1>2, <1>6 DEF new, t2

(* A state by its parts.                                                   *)
LEMMA StateParts ==
  ASSUME NEW D, NEW t, IsState(t, D)
  PROVE  /\ t = [reg |-> t.reg, trace |-> t.trace]
         /\ \A e : [t EXCEPT !.trace = e] = [reg |-> t.reg, trace |-> e]
         /\ \A a, v : [t EXCEPT !.reg[a] = v]
                        = [reg |-> [t.reg EXCEPT ![a] = v], trace |-> t.trace]
<1>1. PICK reg, old : t = [reg |-> reg, trace |-> old] /\ reg = [r \in D |-> reg[r]]
  BY DEF IsState
<1>2. t.reg = reg /\ t.trace = old
  BY <1>1
<1> QED
  BY <1>1, <1>2

(* What the three kinds of instructions do to a state: a move,             *)
LEMMA MoveStep ==
  ASSUME NEW D, NEW t, IsState(t, D), NEW x, x.op = "mov",
         NEW a \in D, a = x.regs[1], NEW b, b = x.regs[2], NEW values
  PROVE  /\ Stored(t, Executed(t, x, values), D, a, t.reg[b])
         /\ Executed(t, x, values).trace = t.trace
<1> DEFINE v == t.reg[b]
           new == [t.reg EXCEPT ![a] = v]
           t2 == [reg |-> new, trace |-> t.trace]
<1>1. Executed(t, x, values) = [t EXCEPT !.reg[a] = v]
  BY DEF Executed
<1>2. [t EXCEPT !.reg[a] = v] = t2
  <2> HIDE DEF v
  <2> QED
    BY StateParts
<1>3. Stored(t, t2, D, a, v)
  <2> HIDE DEF v
  <2> QED
    BY StoreState
<1>4. t2.trace = t.trace
  OBVIOUS
<1> HIDE DEF t2, v
<1>5. Executed(t, x, values) = t2
  BY <1>1, <1>2
<1> QED
  BY <1>3, <1>4, <1>5 DEF v

(* a store of the accumulator,                                             *)
LEMMA StaStep ==
  ASSUME NEW D, NEW t, IsState(t, D), NEW x, x.op = "sta",
         NEW a \in D, a = x.regs[1], NEW values
  PROVE  /\ Stored(t, Executed(t, x, values), D, a, <<"value", Len(t.trace)>>)
         /\ Executed(t, x, values).trace = Append(t.trace, <<>>)
<1> DEFINE v == <<"value", Len(t.trace)>>
           more == Append(t.trace, <<>>)
           new == [t.reg EXCEPT ![a] = v]
           t2 == [reg |-> new, trace |-> more]
<1>1. Executed(t, x, values) = t2
  <2>1. x.op # "mov"
    OBVIOUS
  <2> QED
    BY <2>1 DEF Executed
<1>3. Stored(t, t2, D, a, v)
  <2> HIDE DEF v, more
  <2> QED
    BY StoreState
<1>4. t2.trace = more
  OBVIOUS
<1> HIDE DEF t2, v, more
<1> QED
  BY <1>1, <1>3, <1>4 DEF v, more

(* and all others, which read.                                             *)
LEMMA ReadStep ==
  ASSUME NEW D, NEW t, IsState(t, D), NEW x, x.op \notin {"mov", "sta"}, NEW values
  PROVE  Executed(t, x, values) = [reg |-> t.reg, trace |-> Append(t.trace, values)]
<1> DEFINE more == Append(t.trace, values)
<1>1. Executed(t, x, values) = [t EXCEPT !.trace = more]
  <2>1. x.op # "mov" /\ x.op # "sta"
    OBVIOUS
  <2> QED
    BY <2>1 DEF Executed
<1> HIDE DEF more
<1>2. [t EXCEPT !.trace = more] = [reg |-> t.reg, trace |-> more]
  BY StateParts
<1> QED
  BY <1>1, <1>2 DEF more

(* Programs, whatever their instructions.                                  *)
IsCode(p) == \E S : p \in Seq(S)

(* Nothing and one instruction are programs.                               *)
LEMMA CodeOne ==
  ASSUME NEW x
  PROVE  IsCode(<<>>) /\ IsCode(<<x>>)
<1>1. <<>> \in Seq({x}) /\ <<x>> \in Seq({x})
  OBVIOUS
<1> QED
  BY <1>1 DEF IsCode

(* Two programs are of the same instructions,                              *)
LEMMA CodeSame ==
  ASSUME NEW p, NEW q, IsCode(p), IsCode(q)
  PROVE  \E S : p \in Seq(S) /\ q \in Seq(S)
<1>1. PICK S : p \in Seq(S)
  BY DEF IsCode
<1>2. PICK T : q \in Seq(T)
  BY DEF IsCode
<1>3. p \in Seq(S \cup T) /\ q \in Seq(S \cup T)
  BY <1>1, <1>2, SeqMonotonic
<1> QED
  BY <1>3

(* and together they are one.                                              *)
LEMMA CodeCat ==
  ASSUME NEW p, NEW q, IsCode(p), IsCode(q)
  PROVE  IsCode(p \o q)
<1>1. PICK S : p \in Seq(S) /\ q \in Seq(S)
  BY CodeSame
<1>2. p \o q \in Seq(S)
  BY <1>1, ConcatProperties
<1> QED
  BY <1>2 DEF IsCode

(* Three programs, one after the other.                                    *)
LEMMA CodeJoined ==
  ASSUME NEW p, NEW q, NEW r, IsCode(p), IsCode(q), IsCode(r)
  PROVE  Cat(Cat(p, q), r) = Cat(p, Cat(q, r))
<1>1. PICK S : p \in Seq(S) /\ q \in Seq(S)
  BY CodeSame
<1>2. PICK T : r \in Seq(T)
  BY DEF IsCode
<1>3. p \in Seq(S \cup T) /\ q \in Seq(S \cup T) /\ r \in Seq(S \cup T)
  BY <1>1, <1>2, SeqMonotonic
<1> QED
  BY <1>3, CatAssociative

(* Four.                                                                   *)
LEMMA CodeFour ==
  ASSUME NEW p, NEW f, NEW y, NEW z, IsCode(p), IsCode(f), IsCode(y), IsCode(z)
  PROVE  Cat(p, Cat(f, Cat(y, z))) = Cat(Cat(Cat(p, f), y), z)
<1>1. IsCode(Cat(y, z)) /\ IsCode(Cat(p, f))
  BY CodeCat DEF Cat
<1> QED
  BY <1>1, CodeJoined

(* An instruction more is executed at the end.                             *)
LEMMA RunOneMore ==
  ASSUME NEW p, IsCode(p), NEW x, NEW start
  PROVE  RunN(p \o <<x>>, start) = StepN(RunN(p, start), x)
<1>1. PICK S : p \in Seq(S)
  BY DEF IsCode
<1>2. p \in Seq(S \cup {x}) /\ x \in S \cup {x}
  BY <1>1, SeqMonotonic
<1>3. RunN(Append(p, x), start) = StepN(RunN(p, start), x)
  BY <1>2, RunNAppend
<1>4. Append(p, x) = p \o <<x>>
  BY <1>2, AppendIsConcat
<1> QED
  BY <1>3, <1>4, Zenon

(* A copy from register b to register a.                                   *)
Copied(t, t2, D, a, b) == Stored(t, t2, D, a, t.reg[b]) /\ t2.trace = t.trace

(* A move at the end of a program.                                         *)
LEMMA MoveLast ==
  ASSUME NEW p, IsCode(p), NEW start, NEW D, IsState(RunN(p, start), D),
         NEW a \in D, NEW b
  PROVE  /\ IsCode(p \o <<Move(a, b)>>)
         /\ IsState(RunN(p \o <<Move(a, b)>>, start), D)
         /\ Copied(RunN(p, start), RunN(p \o <<Move(a, b)>>, start), D, a, b)
<1> DEFINE t == RunN(p, start)
           x == Move(a, b)
           t2 == RunN(p \o <<x>>, start)
<1>1. t2 = Executed(t, x, ReadsNumbered(x, t.reg))
  BY RunOneMore DEF StepN
<1>2. IsCode(p \o <<x>>)
  BY CodeOne, CodeCat
<1>3. IsState(t, D)
  OBVIOUS
<1> HIDE DEF t, t2
<1>4. Copied(t, t2, D, a, b)
  <2>0. x.op = "mov" /\ x.regs[1] = a /\ x.regs[2] = b
    BY DEF Move
  <2> HIDE DEF x
  <2>1. /\ Stored(t, Executed(t, x, ReadsNumbered(x, t.reg)), D, a, t.reg[b])
        /\ Executed(t, x, ReadsNumbered(x, t.reg)).trace = t.trace
    BY <1>3, <2>0, MoveStep
  <2> QED
    BY <1>1, <2>1 DEF Copied
<1>5. IsState(t2, D)
  BY <1>4 DEF Copied, Stored
<1> QED
  BY <1>2, <1>4, <1>5 DEF t, t2

-----------------------------------------------------------------------------
(* Registers lent: tmp[i] is saved in sp[i] and gets the value of src[i].  *)

OnLoan(n, M, N, tmp, src, sp) ==
  /\ n \in Nat /\ M \in Nat /\ N \in Nat /\ M <= N
  /\ \A i \in 1 .. n : tmp[i] \in 0 .. M - 1 /\ src[i] \in 0 .. M - 1 /\ sp[i] \in M .. N - 1
  /\ \A i, k \in 1 .. n : (tmp[i] = tmp[k] \/ sp[i] = sp[k]) => i = k
  /\ \A i, k \in 1 .. n : k < i => src[i] # tmp[k]

Lending(n, tmp, src, sp) ==
  [i \in 1 .. n |-> <<Move(sp[i], tmp[i]), Move(tmp[i], src[i])>>]
Returning(n, tmp, sp) == [i \in 1 .. n |-> <<Move(tmp[i], sp[i])>>]

(* After the first m are lent: those hold what they are lent for, and      *)
(* their spill registers what they held; the others are as before.         *)
LentTo(t, t2, M, N, m, tmp, src, sp) ==
  /\ IsState(t2, 0 .. N - 1) /\ t2.trace = t.trace
  /\ \A i \in 1 .. m : t2.reg[tmp[i]] = t.reg[src[i]] /\ t2.reg[sp[i]] = t.reg[tmp[i]]
  /\ \A r \in 0 .. M - 1 : (\A i \in 1 .. m : r # tmp[i]) => t2.reg[r] = t.reg[r]

(* One more.                                                               *)
LEMMA LendOne ==
  ASSUME NEW n, NEW M, NEW N, NEW tmp, NEW src, NEW sp, OnLoan(n, M, N, tmp, src, sp),
         NEW m \in Nat, m + 1 <= n, NEW t, NEW t2, LentTo(t, t2, M, N, m, tmp, src, sp),
         NEW u, Copied(t2, u, 0 .. N - 1, sp[m + 1], tmp[m + 1]),
         NEW w, Copied(u, w, 0 .. N - 1, tmp[m + 1], src[m + 1])
  PROVE  LentTo(t, w, M, N, m + 1, tmp, src, sp)
<1> DEFINE D == 0 .. N - 1
           a == tmp[m + 1]
           b == src[m + 1]
           c == sp[m + 1]
<1>1. /\ n \in Nat /\ M \in Nat /\ N \in Nat /\ M <= N /\ m + 1 \in 1 .. n
      /\ a \in 0 .. M - 1 /\ b \in 0 .. M - 1 /\ c \in M .. N - 1
      /\ \A i \in 1 .. m : /\ tmp[i] # a /\ sp[i] # c /\ b # tmp[i]
                           /\ tmp[i] \in 0 .. M - 1 /\ sp[i] \in M .. N - 1
                           /\ src[i] \in 0 .. M - 1
  <2>1. n \in Nat /\ m + 1 \in 1 .. n
    BY DEF OnLoan
  <2>2. \A i \in 1 .. m : i \in 1 .. n /\ i # m + 1 /\ i < m + 1
    BY <2>1
  <2> QED
    BY <2>1, <2>2 DEF OnLoan
<1>2. /\ a # c /\ b # c /\ a \in D /\ b \in D /\ c \in D
      /\ \A i \in 1 .. m : tmp[i] # c /\ sp[i] # a /\ tmp[i] \in D /\ sp[i] \in D
      /\ \A r \in 0 .. M - 1 : r \in D /\ r # c
  BY <1>1, SMTT(60)
<1> HIDE DEF D, a, b, c
<1>3. /\ u.reg[c] = t2.reg[a] /\ u.trace = t2.trace
      /\ \A r \in D : r # c => u.reg[r] = t2.reg[r]
  BY DEF Copied, Stored, D, a, c
<1>4. /\ IsState(w, D) /\ w.reg[a] = u.reg[b] /\ w.trace = u.trace
      /\ \A r \in D : r # a => w.reg[r] = u.reg[r]
  BY DEF Copied, Stored, D, a, b
<1>5. /\ t2.trace = t.trace
      /\ \A i \in 1 .. m : t2.reg[tmp[i]] = t.reg[src[i]] /\ t2.reg[sp[i]] = t.reg[tmp[i]]
      /\ \A r \in 0 .. M - 1 : (\A i \in 1 .. m : r # tmp[i]) => t2.reg[r] = t.reg[r]
  BY DEF LentTo
<1>6. \A i \in 1 .. m + 1 : i \in 1 .. m \/ i = m + 1
  OBVIOUS
<1>7. ASSUME NEW i \in 1 .. m + 1
      PROVE  w.reg[tmp[i]] = t.reg[src[i]] /\ w.reg[sp[i]] = t.reg[tmp[i]]
  <2>1. CASE i \in 1 .. m
    <3>1. w.reg[tmp[i]] = u.reg[tmp[i]] /\ w.reg[sp[i]] = u.reg[sp[i]]
      BY <1>1, <1>2, <1>4, <2>1
    <3>2. u.reg[tmp[i]] = t2.reg[tmp[i]] /\ u.reg[sp[i]] = t2.reg[sp[i]]
      BY <1>1, <1>2, <1>3, <2>1
    <3> QED
      BY <1>5, <2>1, <3>1, <3>2
  <2>2. CASE i = m + 1
    <3>1. w.reg[a] = u.reg[b] /\ w.reg[c] = u.reg[c]
      BY <1>2, <1>4
    <3>2. u.reg[b] = t2.reg[b] /\ u.reg[c] = t2.reg[a]
      BY <1>2, <1>3
    <3>3. t2.reg[b] = t.reg[b] /\ t2.reg[a] = t.reg[a]
      BY <1>1, <1>5
    <3>4. w.reg[a] = t.reg[b] /\ w.reg[c] = t.reg[a]
      BY <3>1, <3>2, <3>3
    <3> QED
      BY <2>2, <3>4 DEF a, b, c
  <2> QED
    BY <1>6, <2>1, <2>2
<1>8. ASSUME NEW r \in 0 .. M - 1, \A i \in 1 .. m + 1 : r # tmp[i]
      PROVE  w.reg[r] = t.reg[r]
  <2>1. r # a /\ \A i \in 1 .. m : r # tmp[i]
    <3>1. m + 1 \in 1 .. m + 1 /\ \A i \in 1 .. m : i \in 1 .. m + 1
      OBVIOUS
    <3> QED
      BY <1>8, <3>1 DEF a
  <2>2. r \in D /\ r # c
    BY <1>2
  <2> QED
    BY <1>3, <1>4, <1>5, <2>1, <2>2
<1> QED
  BY <1>3, <1>4, <1>5, <1>7, <1>8 DEF LentTo, D

(* Blocks of code, one more of them.                                       *)
LEMMA OneBlockMore ==
  ASSUME NEW n \in Nat, NEW b, b = [i \in 1 .. n |-> b[i]],
         \A i \in 1 .. n : IsCode(b[i])
  PROVE  \A m \in 0 .. n :
           /\ IsCode(FlattenSeq([i \in 1 .. m |-> b[i]]))
           /\ m = 0 => FlattenSeq([i \in 1 .. m |-> b[i]]) = <<>>
           /\ m < n => FlattenSeq([i \in 1 .. m + 1 |-> b[i]])
                         = FlattenSeq([i \in 1 .. m |-> b[i]]) \o b[m + 1]
<1> DEFINE T == UNION {Range(b[i]) : i \in 1 .. n}
<1>1. \A i \in 1 .. n : b[i] \in Seq(T)
  <2> SUFFICES ASSUME NEW i \in 1 .. n PROVE b[i] \in Seq(T)
    OBVIOUS
  <2>1. PICK S : b[i] \in Seq(S)
    BY DEF IsCode
  <2>2. \A k \in 1 .. Len(b[i]) : b[i][k] \in Range(b[i])
    BY <2>1 DEF Range
  <2>3. \A k \in 1 .. Len(b[i]) : b[i][k] \in T
    BY <2>2
  <2> HIDE DEF T
  <2> QED
    BY <2>1, <2>3
<1> HIDE DEF T
<1> SUFFICES ASSUME NEW m \in 0 .. n
             PROVE  /\ IsCode(FlattenSeq([i \in 1 .. m |-> b[i]]))
                    /\ m = 0 => FlattenSeq([i \in 1 .. m |-> b[i]]) = <<>>
                    /\ m < n => FlattenSeq([i \in 1 .. m + 1 |-> b[i]])
                                  = FlattenSeq([i \in 1 .. m |-> b[i]]) \o b[m + 1]
  OBVIOUS
<1> DEFINE c == [i \in 1 .. m |-> b[i]]
           d == [i \in 1 .. m + 1 |-> b[i]]
<1>2. /\ c \in Seq(Seq(T)) /\ Len(c) = m
      /\ \A i \in 1 .. m : c[i] = b[i]
  <2>1. m \in Nat /\ \A i \in 1 .. m : i \in 1 .. n
    OBVIOUS
  <2>2. \A i \in 1 .. m : b[i] \in Seq(T)
    BY <1>1, <2>1
  <2>3. c = [i \in 1 .. m |-> c[i]] /\ \A i \in 1 .. m : c[i] = b[i]
    OBVIOUS
  <2> HIDE DEF c
  <2>4. \A i \in 1 .. m : c[i] \in Seq(T)
    BY <2>2, <2>3
  <2>5. c \in Seq(Seq(T)) /\ Len(c) = m
    BY <2>1, <2>3, <2>4
  <2> QED
    BY <2>3, <2>5
<1>3. m = 0 => c = <<>>
  OBVIOUS
<1>4. m < n => /\ d \in Seq(Seq(T)) /\ Len(d) = m + 1
               /\ \A i \in 1 .. m + 1 : d[i] = b[i]
  <2>1. m < n => \A i \in 1 .. m + 1 : i \in 1 .. n
    OBVIOUS
  <2>2. m + 1 \in Nat
    OBVIOUS
  <2>3. d = [i \in 1 .. m + 1 |-> d[i]] /\ \A i \in 1 .. m + 1 : d[i] = b[i]
    OBVIOUS
  <2> HIDE DEF d
  <2>4. m < n => \A i \in 1 .. m + 1 : d[i] \in Seq(T)
    BY <1>1, <2>1, <2>3
  <2>5. m < n => d \in Seq(Seq(T)) /\ Len(d) = m + 1
    BY <2>2, <2>3, <2>4, SMTT(60)
  <2> QED
    BY <2>3, <2>5
<1> HIDE DEF c, d
<1>5. IsCode(FlattenSeq(c))
  <2>1. <<>> \in Seq(T)
    OBVIOUS
  <2>2. FlattenSeq(c) \in Seq(T)
    BY <1>2, <2>1, FlattenAppend
  <2> QED
    BY <2>2 DEF IsCode
<1>6. m < n => FlattenSeq(d) = FlattenSeq(c) \o b[m + 1]
  <2> SUFFICES ASSUME m < n
               PROVE  FlattenSeq(d) = FlattenSeq(c) \o b[m + 1]
    OBVIOUS
  <2>1. b[m + 1] \in Seq(T)
    BY <1>1
  <2>2. /\ Append(c, b[m + 1]) \in Seq(Seq(T)) /\ Len(Append(c, b[m + 1])) = m + 1
        /\ \A i \in 1 .. m : Append(c, b[m + 1])[i] = c[i]
        /\ Append(c, b[m + 1])[m + 1] = b[m + 1]
    BY <1>2, <2>1, AppendProperties
  <2>3. \A i \in 1 .. m + 1 : Append(c, b[m + 1])[i] = d[i]
    <3>1. \A i \in 1 .. m + 1 : i \in 1 .. m \/ i = m + 1
      OBVIOUS
    <3> QED
      BY <1>2, <1>4, <2>2, <3>1
  <2>4. Append(c, b[m + 1]) = d
    <3> DEFINE e == Append(c, b[m + 1])
    <3>1. e \in Seq(Seq(T)) /\ Len(e) = Len(d) /\ \A i \in 1 .. Len(e) : e[i] = d[i]
      BY <1>4, <2>2, <2>3
    <3> HIDE DEF e
    <3>2. e = d
      BY <1>4, <3>1, SeqEqual
    <3> QED
      BY <3>2 DEF e
  <2> QED
    BY <1>2, <2>1, <2>4, FlattenAppend
<1>7. m = 0 => FlattenSeq(c) = <<>>
  BY <1>3, FlattenEmpty
<1> QED
  BY <1>5, <1>6, <1>7 DEF c, d

(* All of them.                                                            *)
LEMMA LendAll ==
  ASSUME NEW n, NEW M, NEW N, NEW tmp, NEW src, NEW sp, OnLoan(n, M, N, tmp, src, sp),
         NEW p, IsCode(p), NEW start, IsState(RunN(p, start), 0 .. N - 1),
         NEW q, q = p \o FlattenSeq(Lending(n, tmp, src, sp))
  PROVE  IsCode(q) /\ LentTo(RunN(p, start), RunN(q, start), M, N, n, tmp, src, sp)
<1> DEFINE b == Lending(n, tmp, src, sp)
           F(m) == FlattenSeq([i \in 1 .. m |-> b[i]])
           t == RunN(p, start)
           A == {m \in Nat : m <= n => LentTo(t, RunN(p \o F(m), start), M, N, m, tmp, src, sp)}
<1>0. n \in Nat
  BY DEF OnLoan
<1>1. \A i \in 1 .. n : b[i] = <<Move(sp[i], tmp[i]), Move(tmp[i], src[i])>>
  BY DEF Lending
<1>2. b = [i \in 1 .. n |-> b[i]]
  BY DEF Lending
<1>3. \A i \in 1 .. n : b[i] = <<Move(sp[i], tmp[i])>> \o <<Move(tmp[i], src[i])>>
  BY <1>1, Two
<1> HIDE DEF b
<1>4. \A i \in 1 .. n : IsCode(b[i])
  BY <1>3, CodeOne, CodeCat, Zenon
<1>5. \A m \in 0 .. n : /\ IsCode(F(m))
                        /\ m = 0 => F(m) = <<>>
                        /\ m < n => F(m + 1) = F(m) \o b[m + 1]
  BY <1>0, <1>2, <1>4, OneBlockMore
<1>6. FlattenSeq(b) = F(n)
  BY <1>2
<1> HIDE DEF F
<1>7. 0 \in A
  <2>1. F(0) = <<>>
    BY <1>0, <1>5
  <2>2. p \o <<>> = p
    BY ConcatEmptySeq DEF IsCode
  <2>3. LentTo(t, t, M, N, 0, tmp, src, sp)
    BY DEF LentTo
  <2> QED
    BY <2>1, <2>2, <2>3
<1>8. ASSUME NEW m \in Nat, m \in A
      PROVE  m + 1 \in A
  <2> SUFFICES ASSUME m + 1 <= n
               PROVE  LentTo(t, RunN(p \o F(m + 1), start), M, N, m + 1, tmp, src, sp)
    OBVIOUS
  <2> DEFINE q1 == p \o F(m)
             q2 == q1 \o <<Move(sp[m + 1], tmp[m + 1])>>
             q3 == q2 \o <<Move(tmp[m + 1], src[m + 1])>>
             D == 0 .. N - 1
  <2>0. m \in 0 .. n /\ m < n /\ m <= n /\ m + 1 \in 1 .. n
    BY <1>0
  <2>1. LentTo(t, RunN(q1, start), M, N, m, tmp, src, sp)
    BY <1>8, <2>0
  <2>2. IsCode(q1)
    BY <1>5, <2>0, CodeOne, CodeCat
  <2>3. sp[m + 1] \in D /\ tmp[m + 1] \in D
    BY <2>0 DEF OnLoan
  <2>4. p \o F(m + 1) = q3
    <3> DEFINE y == <<Move(sp[m + 1], tmp[m + 1])>>
               z == <<Move(tmp[m + 1], src[m + 1])>>
    <3>1. F(m + 1) = F(m) \o (y \o z)
      BY <1>3, <1>5, <2>0
    <3>2. IsCode(y) /\ IsCode(z) /\ IsCode(F(m))
      BY <1>5, <2>0, CodeOne, CodeCat
    <3> HIDE DEF y, z
    <3>3. Cat(p, Cat(F(m), Cat(y, z))) = Cat(Cat(Cat(p, F(m)), y), z)
      BY <3>2, CodeFour
    <3>7. p \o F(m + 1) = ((p \o F(m)) \o y) \o z
      BY <3>1, <3>3, Zenon DEF Cat
    <3> QED
      BY <3>7 DEF y, z
  <2> HIDE DEF q1, q2, q3, A, D
  <2>5. IsState(RunN(q1, start), D)
    BY <2>1 DEF LentTo, D
  <2>6. /\ IsCode(q2) /\ IsState(RunN(q2, start), D)
        /\ Copied(RunN(q1, start), RunN(q2, start), D, sp[m + 1], tmp[m + 1])
    BY <2>2, <2>3, <2>5, MoveLast DEF q2
  <2>7. Copied(RunN(q2, start), RunN(q3, start), D, tmp[m + 1], src[m + 1])
    BY <2>3, <2>6, MoveLast DEF q3
  <2>8. LentTo(t, RunN(q3, start), M, N, m + 1, tmp, src, sp)
    BY <2>1, <2>6, <2>7, LendOne DEF D
  <2> QED
    BY <2>4, <2>8
<1>9. A = Nat
  <2>1. A \in SUBSET Nat
    OBVIOUS
  <2> HIDE DEF A
  <2> QED
    BY <1>7, <1>8, <2>1, SetInduction
<1>10. LentTo(t, RunN(p \o F(n), start), M, N, n, tmp, src, sp)
  <2>1. n \in A /\ n <= n
    BY <1>0, <1>9
  <2> QED
    BY <2>1
<1>11. n \in 0 .. n
  BY <1>0
<1>12. IsCode(p \o F(n))
  BY <1>5, <1>11, CodeOne, CodeCat
<1> QED
  BY <1>6, <1>10, <1>12 DEF b

(* The first m are given back what they held.                              *)
GivenBack(t, t2, N, m, tmp, sp) ==
  /\ IsState(t2, 0 .. N - 1) /\ t2.trace = t.trace
  /\ \A i \in 1 .. m : t2.reg[tmp[i]] = t.reg[sp[i]]
  /\ \A r \in 0 .. N - 1 : (\A i \in 1 .. m : r # tmp[i]) => t2.reg[r] = t.reg[r]

(* One more.                                                               *)
LEMMA GiveOne ==
  ASSUME NEW n, NEW M, NEW N, NEW tmp, NEW src, NEW sp, OnLoan(n, M, N, tmp, src, sp),
         NEW m \in Nat, m + 1 <= n, NEW t, NEW t2, GivenBack(t, t2, N, m, tmp, sp),
         NEW w, Copied(t2, w, 0 .. N - 1, tmp[m + 1], sp[m + 1])
  PROVE  GivenBack(t, w, N, m + 1, tmp, sp)
<1> DEFINE D == 0 .. N - 1
           a == tmp[m + 1]
           c == sp[m + 1]
<1>1. /\ n \in Nat /\ M \in Nat /\ N \in Nat /\ M <= N /\ m + 1 \in 1 .. n
      /\ a \in 0 .. M - 1 /\ c \in M .. N - 1
      /\ \A i \in 1 .. m : tmp[i] # a /\ tmp[i] \in 0 .. M - 1
  <2>1. n \in Nat /\ m + 1 \in 1 .. n
    BY DEF OnLoan
  <2>2. \A i \in 1 .. m : i \in 1 .. n /\ i # m + 1
    BY <2>1
  <2> QED
    BY <2>1, <2>2 DEF OnLoan
<1>2. /\ a \in D /\ c \in D
      /\ \A i \in 1 .. m : c # tmp[i] /\ tmp[i] \in D
  BY <1>1
<1> HIDE DEF D, a, c
<1>3. /\ IsState(w, D) /\ w.reg[a] = t2.reg[c] /\ w.trace = t2.trace
      /\ \A r \in D : r # a => w.reg[r] = t2.reg[r]
  BY DEF Copied, Stored, D, a, c
<1>4. /\ t2.trace = t.trace
      /\ \A i \in 1 .. m : t2.reg[tmp[i]] = t.reg[sp[i]]
      /\ \A r \in D : (\A i \in 1 .. m : r # tmp[i]) => t2.reg[r] = t.reg[r]
  BY DEF GivenBack, D
<1>5. \A i \in 1 .. m + 1 : i \in 1 .. m \/ i = m + 1
  OBVIOUS
<1>6. ASSUME NEW i \in 1 .. m + 1
      PROVE  w.reg[tmp[i]] = t.reg[sp[i]]
  <2>1. CASE i \in 1 .. m
    BY <1>1, <1>2, <1>3, <1>4, <2>1
  <2>2. CASE i = m + 1
    <3>1. w.reg[a] = t.reg[c]
      BY <1>2, <1>3, <1>4
    <3> QED
      BY <2>2, <3>1 DEF a, c
  <2> QED
    BY <1>5, <2>1, <2>2
<1>7. ASSUME NEW r \in D, \A i \in 1 .. m + 1 : r # tmp[i]
      PROVE  w.reg[r] = t.reg[r]
  <2>1. r # a /\ \A i \in 1 .. m : r # tmp[i]
    <3>1. m + 1 \in 1 .. m + 1 /\ \A i \in 1 .. m : i \in 1 .. m + 1
      OBVIOUS
    <3> QED
      BY <1>7, <3>1 DEF a
  <2> QED
    BY <1>3, <1>4, <2>1
<1> QED
  BY <1>3, <1>4, <1>6, <1>7 DEF GivenBack, D

(* All of them.                                                            *)
LEMMA GiveAll ==
  ASSUME NEW n, NEW M, NEW N, NEW tmp, NEW src, NEW sp, OnLoan(n, M, N, tmp, src, sp),
         NEW p, IsCode(p), NEW start, IsState(RunN(p, start), 0 .. N - 1),
         NEW q, q = p \o FlattenSeq(Returning(n, tmp, sp))
  PROVE  IsCode(q) /\ GivenBack(RunN(p, start), RunN(q, start), N, n, tmp, sp)
<1> DEFINE b == Returning(n, tmp, sp)
           F(m) == FlattenSeq([i \in 1 .. m |-> b[i]])
           t == RunN(p, start)
           A == {m \in Nat : m <= n => GivenBack(t, RunN(p \o F(m), start), N, m, tmp, sp)}
<1>0. n \in Nat
  BY DEF OnLoan
<1>1. \A i \in 1 .. n : b[i] = <<Move(tmp[i], sp[i])>>
  BY DEF Returning
<1>2. b = [i \in 1 .. n |-> b[i]]
  BY DEF Returning
<1> HIDE DEF b
<1>4. \A i \in 1 .. n : IsCode(b[i])
  BY <1>1, CodeOne, Zenon
<1>5. \A m \in 0 .. n : /\ IsCode(F(m))
                        /\ m = 0 => F(m) = <<>>
                        /\ m < n => F(m + 1) = F(m) \o b[m + 1]
  BY <1>0, <1>2, <1>4, OneBlockMore
<1>6. FlattenSeq(b) = F(n)
  BY <1>2
<1> HIDE DEF F
<1>7. 0 \in A
  <2>1. F(0) = <<>>
    BY <1>0, <1>5
  <2>2. p \o <<>> = p
    BY ConcatEmptySeq DEF IsCode
  <2>3. GivenBack(t, t, N, 0, tmp, sp)
    BY DEF GivenBack
  <2> QED
    BY <2>1, <2>2, <2>3
<1>8. ASSUME NEW m \in Nat, m \in A
      PROVE  m + 1 \in A
  <2> SUFFICES ASSUME m + 1 <= n
               PROVE  GivenBack(t, RunN(p \o F(m + 1), start), N, m + 1, tmp, sp)
    OBVIOUS
  <2> DEFINE q1 == p \o F(m)
             q2 == q1 \o <<Move(tmp[m + 1], sp[m + 1])>>
             D == 0 .. N - 1
  <2>0. m \in 0 .. n /\ m < n /\ m <= n /\ m + 1 \in 1 .. n
    BY <1>0
  <2>1. GivenBack(t, RunN(q1, start), N, m, tmp, sp)
    BY <1>8, <2>0
  <2>2. IsCode(q1)
    BY <1>5, <2>0, CodeOne, CodeCat
  <2>3. tmp[m + 1] \in D
    BY <2>0 DEF OnLoan
  <2>4. p \o F(m + 1) = q2
    <3> DEFINE y == <<Move(tmp[m + 1], sp[m + 1])>>
    <3>1. F(m + 1) = F(m) \o y
      BY <1>1, <1>5, <2>0
    <3>2. IsCode(y) /\ IsCode(F(m))
      BY <1>5, <2>0, CodeOne, CodeCat
    <3> HIDE DEF y
    <3>4. Cat(Cat(p, F(m)), y) = Cat(p, Cat(F(m), y))
      BY <3>2, CodeJoined
    <3>7. p \o F(m + 1) = (p \o F(m)) \o y
      BY <3>1, <3>4, Zenon DEF Cat
    <3> QED
      BY <3>7 DEF y
  <2> HIDE DEF q1, q2, A, D
  <2>5. IsState(RunN(q1, start), D)
    BY <2>1 DEF GivenBack, D
  <2>6. Copied(RunN(q1, start), RunN(q2, start), D, tmp[m + 1], sp[m + 1])
    BY <2>2, <2>3, <2>5, MoveLast DEF q2
  <2>8. GivenBack(t, RunN(q2, start), N, m + 1, tmp, sp)
    BY <2>1, <2>6, GiveOne DEF D
  <2> QED
    BY <2>4, <2>8
<1>9. A = Nat
  <2>1. A \in SUBSET Nat
    OBVIOUS
  <2> HIDE DEF A
  <2> QED
    BY <1>7, <1>8, <2>1, SetInduction
<1>10. GivenBack(t, RunN(p \o F(n), start), N, n, tmp, sp)
  <2>1. n \in A /\ n <= n
    BY <1>0, <1>9
  <2> QED
    BY <2>1
<1>11. n \in 0 .. n
  BY <1>0
<1>12. IsCode(p \o F(n))
  BY <1>5, <1>11, CodeOne, CodeCat
<1> QED
  BY <1>6, <1>10, <1>12 DEF b

(* t2 is a state like t, as far as the first M registers go.               *)
Alike(t, t2, M, N) ==
  /\ IsState(t2, 0 .. N - 1) /\ t2.trace = t.trace
  /\ \A r \in 0 .. M - 1 : t2.reg[r] = t.reg[r]

(* An instruction that reads, at the end of a program.                     *)
LEMMA ReadLast ==
  ASSUME NEW p, IsCode(p), NEW start, NEW D, IsState(RunN(p, start), D),
         NEW y, y.op \notin {"mov", "sta"}
  PROVE  /\ IsCode(p \o <<y>>)
         /\ IsState(RunN(p \o <<y>>, start), D)
         /\ RunN(p \o <<y>>, start).reg = RunN(p, start).reg
         /\ RunN(p \o <<y>>, start).trace
              = Append(RunN(p, start).trace, ReadsNumbered(y, RunN(p, start).reg))
<1> DEFINE t == RunN(p, start)
           t2 == RunN(p \o <<y>>, start)
           more == Append(t.trace, ReadsNumbered(y, t.reg))
<1>1. t2 = StepN(t, y) /\ IsCode(p \o <<y>>)
  BY RunOneMore, CodeOne, CodeCat
<1>2. StepN(t, y) = [reg |-> t.reg, trace |-> more]
  <2>1. IsState(t, D)
    OBVIOUS
  <2> HIDE DEF t
  <2> QED
    BY <2>1, ReadStep DEF StepN
<1>3. [reg |-> t.reg, trace |-> more].reg = t.reg /\ [reg |-> t.reg, trace |-> more].trace = more
  OBVIOUS
<1>4. IsState([reg |-> t.reg, trace |-> more], D)
  <2>1. PICK reg, old : t = [reg |-> reg, trace |-> old] /\ reg = [r \in D |-> reg[r]]
    BY DEF IsState
  <2>2. t.reg = reg
    BY <2>1
  <2> HIDE DEF t, more
  <2> QED
    BY <2>1, <2>2 DEF IsState
<1> HIDE DEF t, t2, more
<1>5. IsState(t2, D) /\ t2.reg = t.reg /\ t2.trace = more
  BY <1>1, <1>2, <1>3, <1>4
<1> QED
  BY <1>1, <1>5 DEF t, t2, more

(* An instruction that reads, between the moves around it, if it reads     *)
(* what it would have read without them.                                   *)
LEMMA ReadLent ==
  ASSUME NEW n, NEW M, NEW N, NEW tmp, NEW src, NEW sp, OnLoan(n, M, N, tmp, src, sp),
         NEW p, IsCode(p), NEW start, IsState(RunN(p, start), 0 .. N - 1),
         NEW x, x.op \notin {"mov", "sta"}, NEW y, y.op \notin {"mov", "sta"},
         \A u : LentTo(RunN(p, start), u, M, N, n, tmp, src, sp) =>
                  ReadsNumbered(y, u.reg) = ReadsNumbered(x, RunN(p, start).reg),
         NEW q, q = p \o FlattenSeq(Lending(n, tmp, src, sp)) \o <<y>>
                      \o FlattenSeq(Returning(n, tmp, sp))
  PROVE  IsCode(q) /\ Alike(StepN(RunN(p, start), x), RunN(q, start), M, N)
<1> DEFINE t == RunN(p, start)
           D == 0 .. N - 1
           q1 == p \o FlattenSeq(Lending(n, tmp, src, sp))
           t1 == RunN(q1, start)
           q2 == q1 \o <<y>>
           t2 == RunN(q2, start)
           q3 == q2 \o FlattenSeq(Returning(n, tmp, sp))
           t3 == RunN(q3, start)
           s == StepN(t, x)
<1>1. IsCode(q1) /\ LentTo(t, t1, M, N, n, tmp, src, sp)
  BY LendAll
<1>2. q3 = q
  OBVIOUS
<1>3. IsState(t, D)
  OBVIOUS
<1>4. ReadsNumbered(y, t1.reg) = ReadsNumbered(x, t.reg)
  <2> HIDE DEF t1
  <2> QED
    BY <1>1
<1> HIDE DEF q1
<1>5. /\ IsCode(q2) /\ IsState(t2, D) /\ t2.reg = t1.reg
      /\ t2.trace = Append(t1.trace, ReadsNumbered(y, t1.reg))
  <2>1. IsState(t1, D)
    BY <1>1 DEF LentTo
  <2> QED
    BY <1>1, <2>1, ReadLast
<1> HIDE DEF q2
<1>6. IsCode(q3) /\ GivenBack(t2, t3, N, n, tmp, sp)
  BY <1>5, GiveAll
<1> HIDE DEF t, t1, t2, t3
<1>7. s.reg = t.reg /\ s.trace = Append(t.trace, ReadsNumbered(x, t.reg))
  <2>1. s = [reg |-> t.reg, trace |-> Append(t.trace, ReadsNumbered(x, t.reg))]
    BY <1>3, ReadStep DEF StepN
  <2> QED
    BY <2>1
<1> HIDE DEF s
<1>8. t3.trace = s.trace
  BY <1>1, <1>4, <1>5, <1>6, <1>7 DEF LentTo, GivenBack
<1>9. ASSUME NEW r \in 0 .. M - 1
      PROVE  t3.reg[r] = s.reg[r]
  <2>1. r \in D /\ n \in Nat
    BY DEF OnLoan
  <2>2. CASE \E i \in 1 .. n : r = tmp[i]
    <3>1. PICK i \in 1 .. n : r = tmp[i]
      BY <2>2
    <3>2. t3.reg[r] = t2.reg[sp[i]]
      BY <1>6, <3>1 DEF GivenBack
    <3>3. t1.reg[sp[i]] = t.reg[r]
      BY <1>1, <3>1 DEF LentTo
    <3> QED
      BY <1>5, <1>7, <3>2, <3>3
  <2>3. CASE ~\E i \in 1 .. n : r = tmp[i]
    <3>1. t3.reg[r] = t2.reg[r]
      BY <1>6, <2>1, <2>3 DEF GivenBack
    <3>2. t1.reg[r] = t.reg[r]
      BY <1>1, <2>3 DEF LentTo
    <3> QED
      BY <1>5, <1>7, <3>1, <3>2
  <2> QED
    BY <2>2, <2>3
<1>10. IsState(t3, D)
  BY <1>6 DEF GivenBack
<1>11. Alike(s, t3, M, N)
  BY <1>8, <1>9, <1>10 DEF Alike
<1> QED
  BY <1>2, <1>6, <1>11 DEF s, t, t3

(* An instruction that stores, at the end of a program.                    *)
LEMMA StaLast ==
  ASSUME NEW p, IsCode(p), NEW start, NEW D, IsState(RunN(p, start), D),
         NEW y, y.op = "sta", NEW a \in D, a = y.regs[1]
  PROVE  /\ IsCode(p \o <<y>>)
         /\ Stored(RunN(p, start), RunN(p \o <<y>>, start), D, a,
                   <<"value", Len(RunN(p, start).trace)>>)
         /\ RunN(p \o <<y>>, start).trace = Append(RunN(p, start).trace, <<>>)
<1> DEFINE t == RunN(p, start)
           t2 == RunN(p \o <<y>>, start)
           values == ReadsNumbered(y, t.reg)
<1>1. t2 = Executed(t, y, values) /\ IsCode(p \o <<y>>)
  BY RunOneMore, CodeOne, CodeCat DEF StepN
<1>2. IsState(t, D)
  OBVIOUS
<1> HIDE DEF t, t2, values
<1>3. /\ Stored(t, Executed(t, y, values), D, a, <<"value", Len(t.trace)>>)
      /\ Executed(t, y, values).trace = Append(t.trace, <<>>)
  BY <1>2, StaStep
<1> QED
  BY <1>1, <1>3 DEF t, t2

(* An instruction that stores, between the moves around it.                *)
LEMMA StaLent ==
  ASSUME NEW M \in Nat, NEW N \in Nat, M <= N,
         NEW a \in 0 .. M - 1, NEW b \in 0 .. M - 1, NEW c \in M .. N - 1, a # b,
         NEW p, IsCode(p), NEW start, IsState(RunN(p, start), 0 .. N - 1),
         NEW x, x.op = "sta", x.regs[1] = b, NEW y, y.op = "sta", y.regs[1] = a,
         NEW q, q = p \o <<Move(c, a)>> \o <<y>> \o (<<Move(b, a)>> \o <<Move(a, c)>>)
  PROVE  IsCode(q) /\ Alike(StepN(RunN(p, start), x), RunN(q, start), M, N)
<1> DEFINE D == 0 .. N - 1
           t == RunN(p, start)
           q1 == p \o <<Move(c, a)>>
           t1 == RunN(q1, start)
           q2 == q1 \o <<y>>
           t2 == RunN(q2, start)
           q3 == q2 \o <<Move(b, a)>>
           t3 == RunN(q3, start)
           q4 == q3 \o <<Move(a, c)>>
           t4 == RunN(q4, start)
           s == StepN(t, x)
           v == <<"value", Len(t.trace)>>
<1>0. a \in D /\ b \in D /\ c \in D /\ a # c /\ b # c /\ \A r \in 0 .. M - 1 : r \in D /\ r # c
  OBVIOUS
<1>1. IsCode(q1) /\ IsState(t1, D) /\ Copied(t, t1, D, c, a)
  BY <1>0, MoveLast
<1> HIDE DEF q1
<1>2. IsCode(q2)
  BY <1>1, CodeOne, CodeCat
<1> HIDE DEF q2
<1>3. q = q4
  <2> DEFINE e == <<Move(b, a)>>
             f == <<Move(a, c)>>
  <2>1. IsCode(e) /\ IsCode(f)
    BY CodeOne
  <2>2. q = q2 \o (e \o f) /\ q4 = (q2 \o e) \o f
    BY DEF q1, q2
  <2> HIDE DEF e, f, q4
  <2>3. Cat(Cat(q2, e), f) = Cat(q2, Cat(e, f))
    BY <1>2, <2>1, CodeJoined
  <2> QED
    BY <2>2, <2>3, Zenon DEF Cat
<1>5. IsState(t, D)
  OBVIOUS
<1>6. t1.trace = t.trace
  BY <1>1 DEF Copied
<1>7. Stored(t, s, D, b, v) /\ s.trace = Append(t.trace, <<>>)
  <2>1. b \in D /\ b = x.regs[1]
    BY <1>0
  <2>2. s = RunN(p \o <<x>>, start)
    BY RunOneMore
  <2> HIDE DEF D, s
  <2> QED
    BY <1>5, <2>1, <2>2, StaLast
<1>8. Stored(t1, t2, D, a, v) /\ t2.trace = Append(t.trace, <<>>)
  <2>1. a \in D /\ a = y.regs[1] /\ IsCode(q1)
    BY <1>0, <1>1
  <2> HIDE DEF D
  <2>2. /\ Stored(t1, t2, D, a, <<"value", Len(t1.trace)>>)
        /\ t2.trace = Append(t1.trace, <<>>)
    BY <1>1, <2>1, StaLast DEF q2
  <2> HIDE DEF t1, t2, t
  <2> QED
    BY <1>6, <2>2
<1> HIDE DEF t, t1, t2, s
<1> HIDE DEF v
<1>9. IsCode(q3) /\ IsState(t3, D) /\ Copied(t2, t3, D, b, a)
  <2>1. IsState(RunN(q2, start), D)
    BY <1>8 DEF Stored, t2
  <2> QED
    BY <1>0, <1>2, <2>1, MoveLast DEF t2
<1> HIDE DEF q3
<1>10. IsCode(q4) /\ IsState(t4, D) /\ Copied(t3, t4, D, a, c)
  BY <1>0, <1>9, MoveLast
<1> HIDE DEF t3, t4, q4, D
<1>11. t4.trace = s.trace
  BY <1>7, <1>8, <1>9, <1>10 DEF Copied
<1>12. /\ t1.reg[c] = t.reg[a] /\ \A r \in D : r # c => t1.reg[r] = t.reg[r]
       /\ t2.reg[a] = v /\ \A r \in D : r # a => t2.reg[r] = t1.reg[r]
       /\ t3.reg[b] = t2.reg[a] /\ \A r \in D : r # b => t3.reg[r] = t2.reg[r]
       /\ t4.reg[a] = t3.reg[c] /\ \A r \in D : r # a => t4.reg[r] = t3.reg[r]
       /\ s.reg[b] = v /\ \A r \in D : r # b => s.reg[r] = t.reg[r]
  BY <1>1, <1>7, <1>8, <1>9, <1>10 DEF Copied, Stored
<1>13. ASSUME NEW r \in 0 .. M - 1
       PROVE  t4.reg[r] = s.reg[r]
  <2>1. CASE r = a
    <3>1. t4.reg[a] = t.reg[a]
      BY <1>0, <1>12
    <3>2. s.reg[a] = t.reg[a]
      BY <1>0, <1>12
    <3> QED
      BY <2>1, <3>1, <3>2
  <2>2. CASE r = b
    <3>1. t4.reg[b] = v
      BY <1>0, <1>12
    <3> QED
      BY <1>12, <2>2, <3>1
  <2>3. CASE r # a /\ r # b
    <3>1. r \in D /\ r # c
      BY <1>0
    <3>2. t4.reg[r] = t3.reg[r] /\ t3.reg[r] = t2.reg[r]
      BY <1>12, <2>3, <3>1
    <3>3. t2.reg[r] = t1.reg[r] /\ t1.reg[r] = t.reg[r] /\ s.reg[r] = t.reg[r]
      BY <1>12, <2>3, <3>1
    <3> QED
      BY <3>2, <3>3
  <2> QED
    BY <2>1, <2>2, <2>3
<1>14. Alike(s, t4, M, N)
  BY <1>10, <1>11, <1>13 DEF Alike, D
<1> QED
  BY <1>3, <1>10, <1>14 DEF s, t, t4

-----------------------------------------------------------------------------
(* Each step of the allocator, executed: what it puts out does what its    *)
(* instruction does to the numbered registers.                             *)
Does(p, p2, x, M, V) ==
  \A N \in Nat : \A start :
    V <= N /\ IsState(RunN(p, start), 0 .. N - 1) =>
      IsCode(p2) /\ Alike(StepN(RunN(p, start), x), RunN(p2, start), M, N)

(* An instruction makes a state of a state.                                *)
LEMMA StepState ==
  ASSUME NEW M \in Nat, NEW N \in Nat, M <= N, NEW t, IsState(t, 0 .. N - 1),
         NEW x, NumberedShape(x, M)
  PROVE  IsState(StepN(t, x), 0 .. N - 1)
<1> DEFINE D == 0 .. N - 1
           values == ReadsNumbered(x, t.reg)
           a == x.regs[1]
           b == x.regs[2]
<1>1. x.op \in {"sta", "mov"} => a \in D
  <2>1. x.op \in {"sta", "mov"} => Len(x.regs) \in {1, 2}
    BY Zenon DEF NumberedShape, OneReg
  <2>2. x.regs \in Seq(0 .. M - 1)
    BY DEF NumberedShape
  <2> QED
    BY <2>1, <2>2
<1>2. StepN(t, x) = Executed(t, x, values)
  BY DEF StepN
<1>3. IsState(t, D) /\ a = x.regs[1] /\ b = x.regs[2]
  OBVIOUS
<1> HIDE DEF D, values, a, b
<1>4. CASE x.op = "mov"
  <2>1. Stored(t, Executed(t, x, values), D, a, t.reg[b])
    BY <1>1, <1>3, <1>4, MoveStep
  <2> QED
    BY <1>2, <2>1 DEF Stored, D
<1>5. CASE x.op = "sta"
  <2>1. Stored(t, Executed(t, x, values), D, a, <<"value", Len(t.trace)>>)
    BY <1>1, <1>3, <1>5, StaStep
  <2> QED
    BY <1>2, <2>1 DEF Stored, D
<1>6. CASE x.op \notin {"mov", "sta"}
  <2>1. StepN(t, x) = [reg |-> t.reg, trace |-> Append(t.trace, values)]
    BY <1>2, <1>3, <1>6, ReadStep
  <2>2. PICK reg, old : t = [reg |-> reg, trace |-> old] /\ reg = [r \in D |-> reg[r]]
    BY <1>3 DEF IsState
  <2>3. t.reg = reg
    BY <2>2
  <2> DEFINE more == Append(t.trace, values)
  <2> HIDE DEF more
  <2>4. IsState([reg |-> t.reg, trace |-> more], D)
    BY <2>2, <2>3 DEF IsState
  <2> QED
    BY <2>1, <2>4 DEF D, more
<1> QED
  BY <1>4, <1>5, <1>6

(* An instruction that is kept.                                            *)
LEMMA KeptDoes ==
  ASSUME NEW M \in Nat, NEW V \in Nat, M <= V, NEW x, NumberedShape(x, M),
         NEW p, IsCode(p), NEW p2, p2 = p \o <<>> \o <<x>> \o <<>>
  PROVE  Does(p, p2, x, M, V)
<1>1. p2 = p \o <<x>>
  <2>1. IsCode(p) /\ IsCode(p \o <<x>>)
    BY CodeOne, CodeCat
  <2>2. \A q : IsCode(q) => q \o <<>> = q
    BY ConcatEmptySeq DEF IsCode
  <2>3. p \o <<>> = p /\ (p \o <<x>>) \o <<>> = p \o <<x>>
    BY <2>1, <2>2
  <2> QED
    BY <2>3, Zenon
<1>2. IsCode(p2)
  BY <1>1, CodeOne, CodeCat
<1> SUFFICES ASSUME NEW N \in Nat, NEW start, V <= N, IsState(RunN(p, start), 0 .. N - 1)
             PROVE  Alike(StepN(RunN(p, start), x), RunN(p2, start), M, N)
  BY <1>2 DEF Does
<1>3. RunN(p2, start) = StepN(RunN(p, start), x)
  BY <1>1, RunOneMore
<1>4. M <= N
  OBVIOUS
<1>5. IsState(RunN(p2, start), 0 .. N - 1)
  BY <1>3, <1>4, StepState
<1> QED
  BY <1>3, <1>5 DEF Alike

(* Numbers that follow one another.                                        *)
LEMMA Follow ==
  ASSUME NEW a \in Nat, NEW l \in Nat, NEW f,
         \A j \in a .. l : f[j] \in Nat,
         \A j \in a + 1 .. l : f[j] = f[j - 1] + 1
  PROVE  \A j \in a .. l : f[j] = f[a] + (j - a)
<1> DEFINE A == {m \in Nat : a + m <= l => f[a + m] = f[a] + m}
<1>1. 0 \in A
  OBVIOUS
<1>2. ASSUME NEW m \in Nat, m \in A
      PROVE  m + 1 \in A
  <2> SUFFICES ASSUME a + (m + 1) <= l PROVE f[a + (m + 1)] = f[a] + (m + 1)
    OBVIOUS
  <2> DEFINE j == a + (m + 1)
             i == a + m
  <2>1. j \in a + 1 .. l /\ j - 1 = i /\ a + m <= l /\ a \in a .. l
    OBVIOUS
  <2>2. f[i] = f[a] + m /\ f[a] \in Nat
    BY <1>2, <2>1
  <2> HIDE DEF j, i
  <2>3. f[j] = f[i] + 1
    BY <2>1
  <2>4. f[j] = f[a] + (m + 1)
    BY <2>2, <2>3
  <2> QED
    BY <2>4 DEF j
<1>3. A = Nat
  <2>1. A \in SUBSET Nat
    OBVIOUS
  <2> HIDE DEF A
  <2> QED
    BY <1>1, <1>2, <2>1, SetInduction
<1> SUFFICES ASSUME NEW j \in a .. l PROVE f[j] = f[a] + (j - a)
  OBVIOUS
<1>4. j - a \in A /\ a + (j - a) = j /\ a + (j - a) <= l
  <2>1. j - a \in Nat /\ a + (j - a) = j /\ j <= l
    OBVIOUS
  <2> QED
    BY <1>3, <2>1
<1> DEFINE m == j - a
<1> HIDE DEF m
<1>5. m \in A /\ a + m = j /\ a + m <= l
  BY <1>4 DEF m
<1>6. f[j] = f[a] + m
  BY <1>5
<1> QED
  BY <1>6 DEF m

(* A range that is adjusted: the lowest registers are lent for it.         *)
RangeTmp(x) == [i \in 1 .. RangeSize(x) |-> i - 1]
RangeSrc(x) == [i \in 1 .. RangeSize(x) |-> x.regs[Start(x) + i - 1]]

(* The registers of a range are below M, one after the other.              *)
LEMMA RangeParts ==
  ASSUME 4 <= LevelB, NEW M \in Nat, M <= LevelC, vRegsId \in Nat, M <= vRegsId,
         NEW x, NumberedShape(x, M), x.op \in {"range", "keys"}, x.regs[1] >= Level(x),
         Continuous(x), ~Overlooked(x)
  PROVE  /\ RangeSize(x) \in Nat /\ Start(x) \in {1, 2}
         /\ RangeSize(x) = Len(x.regs) - Start(x) + 1
         /\ DOMAIN x.regs = 1 .. Len(x.regs) /\ Len(x.regs) \in Nat
         /\ \A j \in 1 .. Len(x.regs) : x.regs[j] \in 0 .. M - 1
         /\ \A j \in Start(x) .. Len(x.regs) : x.regs[j] = x.regs[Start(x)] + (j - Start(x))
         /\ Start(x) = 2 => x.regs[1] > Len(x.regs) - 2
<1>1. /\ LevelB < M /\ Level(x) = LevelB /\ Start(x) \in 1 .. Len(x.regs)
  BY RangeLow
<1>2. /\ DOMAIN x.regs = 1 .. Len(x.regs) /\ Len(x.regs) \in Nat
      /\ \A j \in 1 .. Len(x.regs) : x.regs[j] \in 0 .. M - 1
  BY DEF NumberedShape
<1>3. Start(x) = (IF x.op = "keys" THEN 2 ELSE 1)
  BY DEF Start
<1>4. RangeSize(x) \in Nat /\ RangeSize(x) = Len(x.regs) - Start(x) + 1
  BY <1>1, <1>2 DEF RangeSize
<1>5. \A j \in Start(x) .. Len(x.regs) : x.regs[j] = x.regs[Start(x)] + (j - Start(x))
  <2> DEFINE a == Start(x)
             l == Len(x.regs)
             f == x.regs
  <2>1. \A j \in a .. l : f[j] \in Nat
    BY <1>1, <1>2
  <2>2. \A j \in a + 1 .. l : f[j] = f[j - 1] + 1
    BY DEF Continuous
  <2>3. a \in Nat /\ l \in Nat
    BY <1>1, <1>2
  <2> HIDE DEF a, l, f
  <2>4. \A j \in a .. l : f[j] = f[a] + (j - a)
    BY <2>1, <2>2, <2>3, Follow
  <2> QED
    BY <2>4 DEF a, l, f
<1>6. Start(x) = 2 => x.regs[1] > Len(x.regs) - 2
  <2> SUFFICES ASSUME Start(x) = 2 PROVE x.regs[1] > Len(x.regs) - 2
    OBVIOUS
  <2>1. x.op = "keys" /\ Level(x) = KeysLevel
    BY <1>3 DEF Level
  <2>2. x.regs[1] \notin KeysLevel .. Len(x.regs) - 2
    BY <2>1 DEF Overlooked
  <2>3. x.regs[1] \in Nat /\ KeysLevel \in Nat
    BY <1>1, <1>2, LevelAssumption
  <2> QED
    BY <1>2, <2>1, <2>2, <2>3
<1> QED
  BY <1>1, <1>2, <1>3, <1>4, <1>5, <1>6

(* They are lent their registers.                                          *)
LEMMA RangeLoan ==
  ASSUME 4 <= LevelB, NEW M \in Nat, M <= LevelC, vRegsId \in Nat, M <= vRegsId,
         spills \in Seq(M .. vRegsId - 1), OneEach(spills),
         NEW x, NumberedShape(x, M), x.op \in {"range", "keys"}, x.regs[1] >= Level(x),
         Continuous(x), ~Overlooked(x),
         NEW N \in Nat, VRegsAfter(RangeSize(x)) <= N
  PROVE  OnLoan(RangeSize(x), M, N, RangeTmp(x), RangeSrc(x), Spill(RangeSize(x)))
<1> DEFINE n == RangeSize(x)
           sp == Spill(n)
           f == x.regs
           a == Start(x)
           l == Len(x.regs)
<1>1. /\ n \in Nat /\ a \in {1, 2} /\ n = l - a + 1 /\ l \in Nat
      /\ \A j \in 1 .. l : f[j] \in 0 .. M - 1
      /\ \A j \in a .. l : f[j] = f[a] + (j - a)
  BY RangeParts
<1>2. /\ \A i \in 1 .. n : sp[i] \in M .. N - 1
      /\ \A i, k \in 1 .. n : sp[i] = sp[k] => i = k
      /\ M <= N
  <2>1. /\ VRegsAfter(n) \in Nat /\ vRegsId <= VRegsAfter(n)
        /\ sp \in Seq(M .. VRegsAfter(n) - 1)
        /\ Len(sp) = n /\ OneEach(sp)
    BY <1>1, SpillsApart
  <2> HIDE DEF sp, n
  <2>2. \A i \in 1 .. n : sp[i] \in M .. VRegsAfter(n) - 1
    BY <2>1, ElementOfSeq
  <2>3. VRegsAfter(n) <= N
    BY DEF n
  <2> QED
    BY <2>1, <2>2, <2>3 DEF OneEach
<1>3. \A i \in 1 .. n : RangeTmp(x)[i] = i - 1 /\ RangeSrc(x)[i] = f[a + i - 1]
  BY DEF RangeTmp, RangeSrc
<1> HIDE DEF n, sp, f, a, l
<1>4. \A i \in 1 .. n : a + i - 1 \in a .. l /\ a + i - 1 \in 1 .. l /\ a \in 1 .. l
  BY <1>1
<1>5. \A i \in 1 .. n : f[a + i - 1] \in 0 .. M - 1 /\ f[a + i - 1] >= i - 1
  <2> SUFFICES ASSUME NEW i \in 1 .. n
               PROVE  f[a + i - 1] \in 0 .. M - 1 /\ f[a + i - 1] >= i - 1
    OBVIOUS
  <2> DEFINE j == a + i - 1
  <2>1. j \in a .. l /\ j \in 1 .. l /\ j - a = i - 1 /\ a \in 1 .. l
    BY <1>1, <1>4
  <2> HIDE DEF j
  <2>2. f[j] = f[a] + (i - 1) /\ f[a] \in 0 .. M - 1 /\ f[j] \in 0 .. M - 1
    BY <1>1, <2>1
  <2>3. f[j] >= i - 1 /\ f[j] \in 0 .. M - 1
    BY <2>2
  <2> QED
    BY <2>3 DEF j
<1> DEFINE tmp == RangeTmp(x)
           src == RangeSrc(x)
<1>6. \A i \in 1 .. n : tmp[i] = i - 1 /\ src[i] \in 0 .. M - 1 /\ src[i] >= i - 1
  BY <1>3, <1>5
<1> HIDE DEF tmp, src
<1>7. \A i \in 1 .. n : tmp[i] \in 0 .. M - 1
  <2> SUFFICES ASSUME NEW i \in 1 .. n PROVE tmp[i] \in 0 .. M - 1
    OBVIOUS
  <2>1. tmp[i] = i - 1 /\ src[i] \in 0 .. M - 1 /\ src[i] >= i - 1
    BY <1>6
  <2> QED
    BY <1>1, <2>1, SMTT(60)
<1>8. \A i, k \in 1 .. n : tmp[i] = tmp[k] => i = k
  BY <1>1, <1>6
<1>9. \A i, k \in 1 .. n : k < i => src[i] # tmp[k]
  <2> SUFFICES ASSUME NEW i \in 1 .. n, NEW k \in 1 .. n, k < i PROVE src[i] # tmp[k]
    OBVIOUS
  <2>1. tmp[k] = k - 1 /\ src[i] \in 0 .. M - 1 /\ src[i] >= i - 1
    BY <1>6
  <2> QED
    BY <1>1, <2>1
<1>10. OnLoan(n, M, N, tmp, src, sp)
  BY <1>1, <1>2, <1>6, <1>7, <1>8, <1>9 DEF OnLoan
<1> QED
  BY <1>10 DEF n, sp, tmp, src

(* A range that is adjusted reads what it would have read.                 *)
LEMMA RangeReads ==
  ASSUME 4 <= LevelB, NEW M \in Nat, M <= LevelC, vRegsId \in Nat, M <= vRegsId,
         NEW x, NumberedShape(x, M), x.op \in {"range", "keys"}, x.regs[1] >= Level(x),
         x.count = Len(x.regs), Continuous(x), ~Overlooked(x),
         NEW N, NEW t, NEW u,
         LentTo(t, u, M, N, RangeSize(x), RangeTmp(x), RangeSrc(x), Spill(RangeSize(x)))
  PROVE  ReadsNumbered(With(x, RangeRegs(x)), u.reg) = ReadsNumbered(x, t.reg)
<1> DEFINE y == With(x, RangeRegs(x))
           n == RangeSize(x)
           a == Start(x)
           l == Len(x.regs)
           f == x.regs
           g == RangeRegs(x)
<1>1. /\ n \in Nat /\ a \in {1, 2} /\ n = l - a + 1 /\ l \in Nat /\ DOMAIN f = 1 .. l
      /\ \A j \in 1 .. l : f[j] \in 0 .. M - 1
      /\ a = 2 => f[1] > l - 2
  BY RangeParts
<1>2. y.op = x.op /\ y.regs = g /\ y.count = l /\ x.count = l /\ x.op # "super"
  BY DEF With
<1>3. /\ \A i \in 1 .. n : u.reg[i - 1] = t.reg[f[a + i - 1]]
      /\ \A r \in 0 .. M - 1 : (\A i \in 1 .. n : r # i - 1) => u.reg[r] = t.reg[r]
  <2>1. \A i \in 1 .. n : RangeTmp(x)[i] = i - 1 /\ RangeSrc(x)[i] = f[a + i - 1]
    BY DEF RangeTmp, RangeSrc
  <2> QED
    BY <2>1 DEF LentTo
<1>4. \A j \in 1 .. l : g[j] = IF j < a THEN f[j] ELSE j - a
  BY <1>1 DEF RangeRegs
<1> HIDE DEF y, n, a, l, f, g
<1>5. ASSUME NEW j \in 1 .. l
      PROVE  u.reg[g[j]] = t.reg[f[j]]
  <2>1. CASE j < a
    <3>1. j = 1 /\ a = 2
      BY <1>1, <2>1
    <3>2. g[1] = f[1] /\ f[1] \in 0 .. M - 1 /\ f[1] > l - 2
      BY <1>1, <1>4, <2>1, <3>1
    <3>3. \A i \in 1 .. n : f[1] # i - 1
      BY <1>1, <3>1, <3>2
    <3> QED
      BY <1>3, <3>1, <3>2, <3>3
  <2>2. CASE ~(j < a)
    <3> DEFINE i == j - a + 1
    <3>1. i \in 1 .. n /\ i - 1 = j - a /\ a + i - 1 = j /\ g[j] = j - a
      BY <1>1, <1>4, <2>2
    <3> HIDE DEF i
    <3> QED
      BY <1>3, <3>1
  <2> QED
    BY <2>1, <2>2
<1>6. ReadsNumbered(y, u.reg) = [j \in 1 .. l |-> u.reg[g[j]]]
  BY <1>2, Zenon DEF ReadsNumbered
<1>7. ReadsNumbered(x, t.reg) = [j \in 1 .. l |-> t.reg[f[j]]]
  BY <1>2, Zenon DEF ReadsNumbered, f
<1> QED
  BY <1>5, <1>6, <1>7 DEF y

(* A block for each instruction of a list is the list.                     *)
LEMMA BlockEach ==
  ASSUME NEW n \in Nat, NEW s, s = [i \in 1 .. n |-> s[i]]
  PROVE  FlattenSeq([i \in 1 .. n |-> <<s[i]>>]) = s
<1>1. s \in Seq(Range(s)) /\ Len(s) = n
  BY ListSeq
<1>2. FlattenSeq([i \in 1 .. Len(s) |-> <<s[i]>>]) = s
  BY <1>1, FlattenSingles
<1> QED
  BY <1>1, <1>2

(* A range that is adjusted.                                               *)
LEMMA RangeDoes ==
  ASSUME 4 <= LevelB, NEW M \in Nat, M <= LevelC, vRegsId \in Nat, M <= vRegsId,
         spills \in Seq(M .. vRegsId - 1), OneEach(spills),
         NEW x, NumberedShape(x, M), x.op \in {"range", "keys"}, x.regs[1] >= Level(x),
         x.count = Len(x.regs), Continuous(x), ~Overlooked(x),
         NEW p, IsCode(p),
         NEW p2, p2 = p \o FlattenSeq(RangeHeads(x)) \o <<With(x, RangeRegs(x))>>
                        \o RangeTails(x)
  PROVE  Does(p, p2, x, M, VRegsAfter(RangeSize(x)))
<1> DEFINE n == RangeSize(x)
           V == VRegsAfter(n)
           y == With(x, RangeRegs(x))
           sp == Spill(n)
           tmp == RangeTmp(x)
           src == RangeSrc(x)
<1>1. n \in Nat
  BY RangeParts
<1>2. FlattenSeq(Returning(n, tmp, sp)) = RangeTails(x)
  <2> DEFINE s == RangeTails(x)
  <2>1. s = [i \in 1 .. n |-> s[i]] /\ \A i \in 1 .. n : s[i] = Move(tmp[i], sp[i])
    BY DEF RangeTails, RangeTmp
  <2>2. Returning(n, tmp, sp) = [i \in 1 .. n |-> <<Move(tmp[i], sp[i])>>]
    BY DEF Returning
  <2> HIDE DEF s, n, tmp, sp
  <2>3. Returning(n, tmp, sp) = [i \in 1 .. n |-> <<s[i]>>]
    BY <2>1, <2>2
  <2>4. FlattenSeq([i \in 1 .. n |-> <<s[i]>>]) = s
    BY <1>1, <2>1, BlockEach
  <2> QED
    BY <2>3, <2>4 DEF s
<1>3. Lending(n, tmp, src, sp) = RangeHeads(x)
  <2>1. \A i \in 1 .. n : tmp[i] = i - 1 /\ src[i] = x.regs[Start(x) + i - 1]
    BY DEF RangeTmp, RangeSrc
  <2>2. RangeHeads(x) = [i \in 1 .. n |->
                           <<Move(sp[i], i - 1), Move(i - 1, x.regs[Start(x) + i - 1])>>]
    BY DEF RangeHeads
  <2> HIDE DEF n, tmp, src, sp
  <2>3. Lending(n, tmp, src, sp)
          = [i \in 1 .. n |->
               <<Move(sp[i], i - 1), Move(i - 1, x.regs[Start(x) + i - 1])>>]
    BY <2>1 DEF Lending
  <2> QED
    BY <2>2, <2>3
<1>4. /\ x.op \notin {"mov", "sta"} /\ y.op \notin {"mov", "sta"}
  BY DEF With
<1>5. p2 = p \o FlattenSeq(Lending(n, tmp, src, sp)) \o <<y>> \o FlattenSeq(Returning(n, tmp, sp))
  BY <1>2, <1>3, Zenon
<1>6. ASSUME NEW N \in Nat, NEW start, V <= N, IsState(RunN(p, start), 0 .. N - 1)
      PROVE  IsCode(p2) /\ Alike(StepN(RunN(p, start), x), RunN(p2, start), M, N)
  <2>1. OnLoan(n, M, N, tmp, src, sp)
    BY <1>6, RangeLoan
  <2>2. \A u : LentTo(RunN(p, start), u, M, N, n, tmp, src, sp) =>
                  ReadsNumbered(y, u.reg) = ReadsNumbered(x, RunN(p, start).reg)
    BY RangeReads
  <2> HIDE DEF n, V, y, sp, tmp, src
  <2> QED
    BY <1>4, <1>5, <1>6, <2>1, <2>2, ReadLent
<1> HIDE DEF V
<1>7. Does(p, p2, x, M, V)
  BY <1>6 DEF Does
<1> QED
  BY <1>7 DEF V

(* An instruction that is adjusted: the registers that do not fit.         *)
AdjustTmp(tmps, n) == [i \in 1 .. n |-> Smallest(tmps, i)]
AdjustSrc(x, invalid, n) == [i \in 1 .. n |-> x.regs[Smallest(invalid, i)]]

(* Registers of tmps are lent for the n of an instruction with len that do *)
(* not fit: one for each.                                                  *)
CanLend(len, invalid, n, tmps) ==
  /\ len \in Nat /\ invalid \in SUBSET (1 .. len) /\ n = Cardinality(invalid)
  /\ tmps \in SUBSET Nat /\ IsFiniteSet(tmps) /\ n <= Cardinality(tmps)

AreLent(invalid, n, tmps) ==
  /\ n \in Nat
  /\ \A i \in 1 .. n : /\ Smallest(invalid, i) \in invalid
                       /\ Smallest(tmps, i) \in tmps
                       /\ Cardinality(invalid \cap (1 .. Smallest(invalid, i))) = i
  /\ \A i, k \in 1 .. n : /\ Smallest(tmps, i) = Smallest(tmps, k) => i = k
                          /\ Smallest(invalid, i) = Smallest(invalid, k) => i = k

(* Each register that does not fit gets one of its own.                    *)
LEMMA LentEach ==
  ASSUME NEW len, NEW invalid, NEW n, NEW tmps, CanLend(len, invalid, n, tmps)
  PROVE  AreLent(invalid, n, tmps)
<1>1. /\ len \in Nat /\ invalid \in SUBSET (1 .. len) /\ n = Cardinality(invalid)
      /\ tmps \in SUBSET Nat /\ IsFiniteSet(tmps) /\ n <= Cardinality(tmps)
  BY DEF CanLend
<1> QED
  BY <1>1, Lent, SMTT(60) DEF AreLent

(* They are lent lower ones that the instruction does not name.            *)
LEMMA AdjustLoan ==
  ASSUME 4 <= LevelB, NEW M \in Nat, M <= LevelC, vRegsId \in Nat, M <= vRegsId,
         spills \in Seq(M .. vRegsId - 1), OneEach(spills),
         NEW x, NumberedShape(x, M), x.op \notin {"range", "keys"},
         NEW invalid, invalid = Invalid(x, Formats(x)[MinFormat(x)]),
         NEW n, n = Cardinality(invalid), n > 0,
         NEW tmps, tmps = TmpVregs(Marked(x)),
         NEW N \in Nat, VRegsAfter(n) <= N
  PROVE  OnLoan(n, M, N, AdjustTmp(tmps, n), AdjustSrc(x, invalid, n), Spill(n))
<1> DEFINE tmp == AdjustTmp(tmps, n)
           src == AdjustSrc(x, invalid, n)
           sp == Spill(n)
           l == Len(x.regs)
<1>1. /\ LevelB < M /\ LevelB \in Nat
      /\ invalid \in SUBSET (1 .. l)
      /\ tmps \in SUBSET (0 .. LevelB - 1) /\ IsFiniteSet(tmps)
      /\ \A j \in 1 .. l : x.regs[j] \notin tmps
      /\ n <= Cardinality(tmps)
  <2>1. /\ LevelB < M
        /\ invalid = {j \in 1 .. Len(x.regs) : x.regs[j] >= LevelB}
        /\ tmps \in SUBSET (0 .. LevelB - 1) /\ IsFiniteSet(tmps)
        /\ \A j \in 1 .. Len(x.regs) : x.regs[j] \notin tmps
        /\ n <= Cardinality(tmps)
    BY EnoughTmps
  <2> QED
    BY <2>1, LevelAssumption
<1>2. l \in Nat /\ \A j \in 1 .. l : x.regs[j] \in 0 .. M - 1
  <2>1. x.regs \in Seq(0 .. M - 1)
    BY DEF NumberedShape
  <2> QED
    BY <2>1, SMTT(60)
<1>3. /\ n \in Nat
      /\ \A i \in 1 .. n : Smallest(invalid, i) \in invalid /\ Smallest(tmps, i) \in tmps
      /\ \A i, k \in 1 .. n : Smallest(tmps, i) = Smallest(tmps, k) => i = k
  <2>1. /\ tmps \in SUBSET Nat /\ invalid \in SUBSET (1 .. l) /\ l \in Nat
        /\ n = Cardinality(invalid) /\ IsFiniteSet(tmps) /\ n <= Cardinality(tmps)
    BY <1>1, <1>2
  <2>2. CanLend(l, invalid, n, tmps)
    BY <2>1, Zenon DEF CanLend
  <2> HIDE DEF l, tmp, src, sp
  <2>3. AreLent(invalid, n, tmps)
    BY <2>2, LentEach
  <2> QED
    BY <2>3, ZenonT(60) DEF AreLent
<1>4. /\ \A i \in 1 .. n : sp[i] \in M .. N - 1
      /\ \A i, k \in 1 .. n : sp[i] = sp[k] => i = k
      /\ M <= N
  <2>1. /\ VRegsAfter(n) \in Nat /\ vRegsId <= VRegsAfter(n)
        /\ sp \in Seq(M .. VRegsAfter(n) - 1)
        /\ Len(sp) = n /\ OneEach(sp)
    BY <1>3, SpillsApart
  <2> HIDE DEF sp
  <2>2. \A i \in 1 .. n : sp[i] \in M .. VRegsAfter(n) - 1
    BY <2>1, ElementOfSeq
  <2> QED
    BY <2>1, <2>2, SMTT(60) DEF OneEach
<1>5. \A i \in 1 .. n : tmp[i] = Smallest(tmps, i) /\ src[i] = x.regs[Smallest(invalid, i)]
  BY DEF AdjustTmp, AdjustSrc
<1> HIDE DEF tmp, src, sp, l
<1>6. \A i \in 1 .. n : tmp[i] \in tmps /\ tmp[i] \in 0 .. M - 1
  <2>1. \A r \in tmps : r \in 0 .. M - 1
    BY <1>1
  <2> QED
    BY <1>3, <1>5, <2>1
<1>7. \A i \in 1 .. n : src[i] \notin tmps /\ src[i] \in 0 .. M - 1
  <2> SUFFICES ASSUME NEW i \in 1 .. n PROVE src[i] \notin tmps /\ src[i] \in 0 .. M - 1
    OBVIOUS
  <2> DEFINE j == Smallest(invalid, i)
  <2>1. j \in 1 .. l /\ src[i] = x.regs[j]
    BY <1>1, <1>3, <1>5
  <2> HIDE DEF j
  <2> QED
    BY <1>1, <1>2, <2>1
<1>8. \A i, k \in 1 .. n : tmp[i] = tmp[k] => i = k
  BY <1>3, <1>5
<1>9. \A i, k \in 1 .. n : k < i => src[i] # tmp[k]
  BY <1>6, <1>7
<1>10. OnLoan(n, M, N, tmp, src, sp)
  BY <1>3, <1>4, <1>6, <1>7, <1>8, <1>9 DEF OnLoan
<1> QED
  BY <1>10 DEF tmp, src, sp

(* The arguments of a super call that is adjusted: it has one at most.     *)
LEMMA SuperReads ==
  ASSUME NEW x, x.op = "super", NEW y, y.op = "super", y.count = x.count,
         x.count \in Nat, x.count <= 1, NEW reg, NEW new, x.regs[1] \in Int, y.regs[1] \in Int,
         new[y.regs[1]] = reg[x.regs[1]]
  PROVE  ReadsNumbered(y, new) = ReadsNumbered(x, reg)
<1>1. ReadsNumbered(y, new) = [j \in 1 .. x.count |-> new[y.regs[1] + j - 1]]
  BY Zenon DEF ReadsNumbered
<1>2. ReadsNumbered(x, reg) = [j \in 1 .. x.count |-> reg[x.regs[1] + j - 1]]
  BY Zenon DEF ReadsNumbered
<1>3. \A j \in 1 .. x.count : new[y.regs[1] + j - 1] = reg[x.regs[1] + j - 1]
  <2>1. \A j \in 1 .. x.count : j = 1
    OBVIOUS
  <2>2. y.regs[1] + 1 - 1 = y.regs[1] /\ x.regs[1] + 1 - 1 = x.regs[1]
    OBVIOUS
  <2> QED
    BY <2>1, <2>2
<1> QED
  BY <1>1, <1>2, <1>3

(* What is known of an instruction that is adjusted and does not store.    *)
ToAdjust(M, x, invalid, n, tmps) ==
  /\ M \in Nat /\ M <= LevelC /\ vRegsId \in Nat /\ M <= vRegsId
  /\ NumberedShape(x, M) /\ x.op \notin {"range", "keys", "sta"}
  /\ x.count \in Nat /\ (x.op # "super" => x.count = Len(x.regs)) /\ ~Overlooked(x)
  /\ invalid = Invalid(x, Formats(x)[MinFormat(x)])
  /\ n = Cardinality(invalid) /\ n > 0
  /\ tmps = TmpVregs(Marked(x))

(* It reads what it would have read.                                       *)
LEMMA AdjustReads ==
  ASSUME 4 <= LevelB, NEW M, NEW x, NEW invalid, NEW n, NEW tmps,
         ToAdjust(M, x, invalid, n, tmps), NEW N, NEW t, NEW u,
         LentTo(t, u, M, N, n, AdjustTmp(tmps, n), AdjustSrc(x, invalid, n), Spill(n))
  PROVE  ReadsNumbered(With(x, AdjustedRegs(x, invalid, tmps)), u.reg)
           = ReadsNumbered(x, t.reg)
<1> DEFINE y == With(x, AdjustedRegs(x, invalid, tmps))
           l == Len(x.regs)
           f == x.regs
           g == AdjustedRegs(x, invalid, tmps)
           rank(j) == Cardinality(invalid \cap (1 .. j))
<1>0. /\ M \in Nat /\ M <= LevelC /\ vRegsId \in Nat /\ M <= vRegsId
      /\ NumberedShape(x, M) /\ x.op \notin {"range", "keys", "sta"}
      /\ x.count \in Nat /\ (x.op # "super" => x.count = Len(x.regs)) /\ ~Overlooked(x)
      /\ invalid = Invalid(x, Formats(x)[MinFormat(x)])
      /\ n = Cardinality(invalid) /\ n > 0
      /\ tmps = TmpVregs(Marked(x))
  BY DEF ToAdjust
<1>1. /\ LevelB \in Nat /\ x.op # "mov"
      /\ invalid = {j \in 1 .. l : f[j] >= LevelB}
      /\ tmps \in SUBSET (0 .. LevelB - 1) /\ IsFiniteSet(tmps)
      /\ \A j \in 1 .. l : f[j] \notin tmps
      /\ n <= Cardinality(tmps)
  <2>1. /\ x.op # "mov"
        /\ invalid = {j \in 1 .. Len(x.regs) : x.regs[j] >= LevelB}
        /\ tmps \in SUBSET (0 .. LevelB - 1) /\ IsFiniteSet(tmps)
        /\ \A j \in 1 .. Len(x.regs) : x.regs[j] \notin tmps
        /\ n <= Cardinality(tmps)
    BY <1>0, EnoughTmps
  <2> QED
    BY <2>1, LevelAssumption
<1>2. /\ DOMAIN f = 1 .. l /\ l \in Nat /\ \A j \in 1 .. l : f[j] \in 0 .. M - 1
      /\ x.op = "super" => l = 1
  <2>1. x.op = "super" => l = 1
    BY <1>0, Zenon DEF NumberedShape
  <2>2. f \in Seq(0 .. M - 1)
    BY <1>0 DEF NumberedShape
  <2> QED
    BY <1>0, <2>1, <2>2
<1>3. y.op = x.op /\ y.regs = g /\ y.count = x.count
  BY DEF With
<1>4. /\ n \in Nat
      /\ \A i \in 1 .. n : Smallest(tmps, i) \in tmps
      /\ \A j \in invalid : rank(j) \in 1 .. n /\ Smallest(invalid, rank(j)) = j
  <2>1. /\ tmps \in SUBSET Nat /\ invalid \in SUBSET (1 .. l) /\ l \in Nat
        /\ n = Cardinality(invalid) /\ IsFiniteSet(tmps) /\ n <= Cardinality(tmps)
    BY <1>0, <1>1, <1>2
  <2> HIDE DEF l
  <2>2. /\ n \in Nat
        /\ \A i \in 1 .. n : Smallest(invalid, i) \in invalid /\ Smallest(tmps, i) \in tmps
    BY <2>1, Lent
  <2>3. \A j \in invalid : /\ Cardinality(invalid \cap (1 .. j)) \in 1 .. n
                            /\ Smallest(invalid, Cardinality(invalid \cap (1 .. j))) = j
    BY <2>1, Lent
  <2> QED
    BY <2>2, <2>3
<1>5. /\ \A i \in 1 .. n : u.reg[Smallest(tmps, i)] = t.reg[f[Smallest(invalid, i)]]
      /\ \A r \in 0 .. M - 1 : (\A i \in 1 .. n : r # Smallest(tmps, i)) => u.reg[r] = t.reg[r]
  <2>1. \A i \in 1 .. n : /\ AdjustTmp(tmps, n)[i] = Smallest(tmps, i)
                          /\ AdjustSrc(x, invalid, n)[i] = f[Smallest(invalid, i)]
    BY DEF AdjustTmp, AdjustSrc
  <2> QED
    BY <1>0, <2>1 DEF LentTo
<1>6. \A j \in 1 .. l : g[j] = IF j \in invalid THEN Smallest(tmps, rank(j)) ELSE f[j]
  BY <1>2 DEF AdjustedRegs
<1> HIDE DEF y, l, f, g, rank
<1>7. ASSUME NEW j \in 1 .. l
      PROVE  u.reg[g[j]] = t.reg[f[j]] /\ g[j] \in Int
  <2>1. CASE j \in invalid
    <3> DEFINE i == rank(j)
    <3>1. i \in 1 .. n /\ Smallest(invalid, i) = j /\ g[j] = Smallest(tmps, i)
      BY <1>4, <1>6, <2>1
    <3> HIDE DEF i
    <3>2. g[j] \in tmps
      BY <1>4, <3>1
    <3> QED
      BY <1>0, <1>1, <1>5, <3>1, <3>2
  <2>2. CASE j \notin invalid
    <3>1. g[j] = f[j] /\ f[j] \in 0 .. M - 1 /\ f[j] \notin tmps
      BY <1>1, <1>2, <1>6, <2>2
    <3>2. \A i \in 1 .. n : f[j] # Smallest(tmps, i)
      BY <1>4, <3>1
    <3> QED
      BY <1>0, <1>5, <3>1, <3>2
  <2> QED
    BY <2>1, <2>2
<1>8. CASE x.op # "super"
  <2>1. ReadsNumbered(y, u.reg) = [j \in 1 .. l |-> u.reg[g[j]]]
    BY <1>0, <1>3, <1>8, Zenon DEF ReadsNumbered, l
  <2>2. ReadsNumbered(x, t.reg) = [j \in 1 .. l |-> t.reg[f[j]]]
    BY <1>0, <1>8, Zenon DEF ReadsNumbered, f, l
  <2>3. ReadsNumbered(y, u.reg) = ReadsNumbered(x, t.reg)
    BY <1>7, <2>1, <2>2
  <2> QED
    BY <2>3 DEF y
<1>9. CASE x.op = "super"
  <2>1. 1 \in 1 .. l /\ invalid # {}
    <3>1. Cardinality({}) = 0
      BY FS_EmptySet
    <3> QED
      BY <1>0, <1>2, <1>9, <3>1
  <2>2. f[1] >= LevelB
    <3>1. PICK j \in 1 .. l : f[j] >= LevelB
      BY <1>1, <2>1
    <3> QED
      BY <1>2, <1>9, <3>1
  <2>3. ~(x.count > 1)
    BY <1>0, <1>9, <2>2 DEF Overlooked, f
  <2>4. g[1] \in Int /\ f[1] \in Int /\ u.reg[g[1]] = t.reg[f[1]]
    BY <1>2, <1>7, <2>1
  <2>5. x.count <= 1 /\ x.count \in Nat
    BY <1>0, <2>3
  <2>6. /\ y.op = "super" /\ y.count = x.count /\ x.regs[1] \in Int /\ y.regs[1] \in Int
        /\ u.reg[y.regs[1]] = t.reg[x.regs[1]]
    BY <1>3, <1>9, <2>4 DEF f
  <2>7. ReadsNumbered(y, u.reg) = ReadsNumbered(x, t.reg)
    BY <1>9, <2>5, <2>6, SuperReads
  <2> QED
    BY <2>7 DEF y
<1> QED
  BY <1>8, <1>9

(* The moves around an instruction that reads.                             *)
LEMMA AdjustMoves ==
  ASSUME NEW x, x.op \notin {"mov", "sta"}, NEW invalid, NEW tmps, NEW n
  PROVE  /\ Heads(x, invalid, tmps, n)
              = Lending(n, AdjustTmp(tmps, n), AdjustSrc(x, invalid, n), Spill(n))
         /\ Tails(x, invalid, tmps, n) = Returning(n, AdjustTmp(tmps, n), Spill(n))
<1> DEFINE tmp == AdjustTmp(tmps, n)
           src == AdjustSrc(x, invalid, n)
           sp == Spill(n)
<1>1. \A i \in 1 .. n : tmp[i] = Smallest(tmps, i) /\ src[i] = x.regs[Smallest(invalid, i)]
  BY DEF AdjustTmp, AdjustSrc
<1>2. \A j : ~IsDst(x, j)
  BY DEF IsDst
<1>3. \A q : <<>> \o <<q>> = <<q>>
  OBVIOUS
<1>4. ASSUME NEW i \in 1 .. n
      PROVE  /\ HeadMoves(x, Smallest(invalid, i), Smallest(tmps, i), sp[i])
                  = <<Move(sp[i], tmp[i]), Move(tmp[i], src[i])>>
             /\ TailMoves(x, Smallest(invalid, i), Smallest(tmps, i), sp[i])
                  = <<Move(tmp[i], sp[i])>>
  <2> DEFINE j == Smallest(invalid, i)
             t == Smallest(tmps, i)
  <2>1. tmp[i] = t /\ src[i] = x.regs[j]
    BY <1>1
  <2> HIDE DEF tmp, src, sp, j, t
  <2>2. HeadMoves(x, j, t, sp[i]) = <<Move(sp[i], t)>> \o <<Move(t, x.regs[j])>>
    BY <1>2, Zenon DEF HeadMoves
  <2>3. HeadMoves(x, j, t, sp[i]) = <<Move(sp[i], t), Move(t, x.regs[j])>>
    BY <2>2, Two, Zenon
  <2>4. TailMoves(x, j, t, sp[i]) = <<Move(t, sp[i])>>
    BY <1>2, <1>3, Zenon DEF TailMoves
  <2>5. /\ HeadMoves(x, j, t, sp[i]) = <<Move(sp[i], tmp[i]), Move(tmp[i], src[i])>>
        /\ TailMoves(x, j, t, sp[i]) = <<Move(tmp[i], sp[i])>>
    BY <2>1, <2>3, <2>4, Zenon
  <2> QED
    BY <2>5 DEF j, t
<1> HIDE DEF tmp, src
<1>5. Heads(x, invalid, tmps, n)
        = [i \in 1 .. n |-> <<Move(sp[i], tmp[i]), Move(tmp[i], src[i])>>]
  BY <1>4 DEF Heads
<1>6. Tails(x, invalid, tmps, n) = [i \in 1 .. n |-> <<Move(tmp[i], sp[i])>>]
  BY <1>4 DEF Tails
<1>7. /\ Lending(n, tmp, src, sp) = [i \in 1 .. n |-> <<Move(sp[i], tmp[i]), Move(tmp[i], src[i])>>]
      /\ Returning(n, tmp, sp) = [i \in 1 .. n |-> <<Move(tmp[i], sp[i])>>]
  BY Zenon DEF Lending, Returning
<1>8. /\ Heads(x, invalid, tmps, n) = Lending(n, tmp, src, sp)
      /\ Tails(x, invalid, tmps, n) = Returning(n, tmp, sp)
  BY <1>5, <1>6, <1>7, Zenon
<1> QED
  BY <1>8 DEF tmp, src

(* An instruction that reads is adjusted.                                  *)
LEMMA AdjustedDoes ==
  ASSUME 4 <= LevelB, NEW M \in Nat, M <= LevelC, vRegsId \in Nat, M <= vRegsId,
         spills \in Seq(M .. vRegsId - 1), OneEach(spills),
         NEW x, NumberedShape(x, M), x.op \notin {"range", "keys", "sta"},
         x.count \in Nat, x.op # "super" => x.count = Len(x.regs), ~Overlooked(x),
         NEW invalid, invalid = Invalid(x, Formats(x)[MinFormat(x)]),
         NEW n, n = Cardinality(invalid), n > 0,
         NEW tmps, tmps = TmpVregs(Marked(x)),
         NEW p, IsCode(p),
         NEW p2, p2 = Cat(Cat(Cat(p, FlattenSeq(Heads(x, invalid, tmps, n))),
                       <<With(x, AdjustedRegs(x, invalid, tmps))>>),
                   FlattenSeq(Tails(x, invalid, tmps, n)))
  PROVE  Does(p, p2, x, M, VRegsAfter(n))
<1> DEFINE V == VRegsAfter(n)
           y == With(x, AdjustedRegs(x, invalid, tmps))
           sp == Spill(n)
           tmp == AdjustTmp(tmps, n)
           src == AdjustSrc(x, invalid, n)
<1>0. ToAdjust(M, x, invalid, n, tmps)
  BY DEF ToAdjust
<1>1. x.op # "mov"
  BY EnoughTmps
<1>2. x.op \notin {"mov", "sta"} /\ y.op \notin {"mov", "sta"}
  BY <1>1 DEF With
<1>3. /\ Heads(x, invalid, tmps, n) = Lending(n, tmp, src, sp)
      /\ Tails(x, invalid, tmps, n) = Returning(n, tmp, sp)
  BY <1>2, AdjustMoves
<1>4. p2 = p \o FlattenSeq(Lending(n, tmp, src, sp)) \o <<y>> \o FlattenSeq(Returning(n, tmp, sp))
  BY <1>3, Zenon DEF Cat
<1>5. ASSUME NEW N \in Nat, NEW start, V <= N, IsState(RunN(p, start), 0 .. N - 1)
      PROVE  IsCode(p2) /\ Alike(StepN(RunN(p, start), x), RunN(p2, start), M, N)
  <2>1. OnLoan(n, M, N, tmp, src, sp)
    BY <1>5, AdjustLoan
  <2>2. \A u : LentTo(RunN(p, start), u, M, N, n, tmp, src, sp) =>
                  ReadsNumbered(y, u.reg) = ReadsNumbered(x, RunN(p, start).reg)
    <3> DEFINE t == RunN(p, start)
    <3> HIDE DEF t
    <3>1. ASSUME NEW u, LentTo(t, u, M, N, n, tmp, src, sp)
          PROVE  ReadsNumbered(y, u.reg) = ReadsNumbered(x, t.reg)
      <4>1. LentTo(t, u, M, N, n, AdjustTmp(tmps, n), AdjustSrc(x, invalid, n), Spill(n))
        BY <3>1
      <4> HIDE DEF tmp, src, sp
      <4>2. ReadsNumbered(With(x, AdjustedRegs(x, invalid, tmps)), u.reg) = ReadsNumbered(x, t.reg)
        BY <4>1, <1>0, AdjustReads
      <4> QED
        BY <4>2
    <3> QED
      BY <3>1 DEF t
  <2> HIDE DEF V, y, sp, tmp, src
  <2> QED
    BY <1>2, <1>4, <1>5, <2>1, <2>2, ReadLent
<1> HIDE DEF V
<1>6. Does(p, p2, x, M, V)
  BY <1>5 DEF Does
<1> QED
  BY <1>6 DEF V

(* One block.                                                              *)
LEMMA OneBlock ==
  ASSUME NEW b, IsCode(b)
  PROVE  FlattenSeq([i \in 1 .. 1 |-> b]) = b
<1> DEFINE s == [i \in 1 .. 1 |-> b]
<1>1. s = [i \in 1 .. 1 |-> s[i]] /\ \A i \in 1 .. 1 : s[i] = b
  OBVIOUS
<1>2. s = [i \in 1 .. 0 + 1 |-> s[i]]
  OBVIOUS
<1> HIDE DEF s
<1>3. 0 \in 0 .. 1 /\ 0 < 1 /\ 1 \in Nat /\ \A i \in 1 .. 1 : IsCode(s[i])
  BY <1>1
<1>4. /\ FlattenSeq([i \in 1 .. 0 |-> s[i]]) = <<>>
      /\ FlattenSeq([i \in 1 .. 0 + 1 |-> s[i]]) = FlattenSeq([i \in 1 .. 0 |-> s[i]]) \o s[0 + 1]
  BY <1>1, <1>3, OneBlockMore
<1>5. FlattenSeq(s) = <<>> \o s[0 + 1]
  BY <1>2, <1>4, Zenon
<1>6. s[0 + 1] = b
  BY <1>1
<1>7. <<>> \o b = b
  BY ConcatEmptySeq DEF IsCode
<1>8. FlattenSeq(s) = b
  BY <1>5, <1>6, <1>7, Zenon
<1> QED
  BY <1>8 DEF s

(* And one that stores.                                                    *)
LEMMA StoredDoes ==
  ASSUME 4 <= LevelB, NEW M \in Nat, M <= LevelC, vRegsId \in Nat, M <= vRegsId,
         spills \in Seq(M .. vRegsId - 1), OneEach(spills),
         NEW x, NumberedShape(x, M), x.op = "sta",
         NEW invalid, invalid = Invalid(x, Formats(x)[MinFormat(x)]),
         NEW n, n = Cardinality(invalid), n > 0,
         NEW tmps, tmps = TmpVregs(Marked(x)),
         NEW p, IsCode(p),
         NEW p2, p2 = Cat(Cat(Cat(p, FlattenSeq(Heads(x, invalid, tmps, n))),
                       <<With(x, AdjustedRegs(x, invalid, tmps))>>),
                   FlattenSeq(Tails(x, invalid, tmps, n)))
  PROVE  Does(p, p2, x, M, VRegsAfter(n))
<1> DEFINE V == VRegsAfter(n)
           y == With(x, AdjustedRegs(x, invalid, tmps))
           a == Smallest(tmps, 1)
           b == x.regs[1]
           c == Spill(n)[1]
<1>1. x.op \notin {"range", "keys"}
  OBVIOUS
<1>2. /\ n \in 1 .. Len(x.regs) /\ LevelB < M
      /\ invalid = {j \in 1 .. Len(x.regs) : x.regs[j] >= LevelB}
      /\ tmps \in SUBSET (0 .. LevelB - 1) /\ IsFiniteSet(tmps)
      /\ \A j \in 1 .. Len(x.regs) : x.regs[j] \notin tmps
      /\ n <= Cardinality(tmps)
  BY <1>1, EnoughTmps
<1>3. Len(x.regs) = 1
  BY Zenon DEF NumberedShape, OneReg
<1>4. DOMAIN x.regs = 1 .. 1 /\ b \in 0 .. M - 1
  <2>1. x.regs \in Seq(0 .. M - 1)
    BY DEF NumberedShape
  <2> QED
    BY <1>3, <2>1
<1>5. n = 1 /\ invalid \in SUBSET (1 .. 1) /\ LevelB \in Nat
  BY <1>2, <1>3, LevelAssumption
<1>6. invalid = {1} /\ 1 \in 1 .. n
  <2>1. Cardinality({}) = 0 /\ n # 0
    BY <1>5, FS_EmptySet
  <2>2. invalid # {}
    <3>1. invalid = {} => n = 0
      BY <2>1, Zenon
    <3> QED
      BY <2>1, <3>1, Zenon
  <2> QED
    BY <1>5, <2>2
<1>7. /\ Smallest(invalid, 1) = 1 /\ a \in tmps
      /\ Cardinality(invalid \cap (1 .. 1)) = 1
  <2>1. /\ tmps \in SUBSET Nat /\ 1 \in Nat /\ invalid \in SUBSET (1 .. 1)
        /\ n = Cardinality(invalid) /\ IsFiniteSet(tmps) /\ n <= Cardinality(tmps)
    BY <1>2, <1>5
  <2>2. CanLend(1, invalid, n, tmps)
    BY <2>1, Zenon DEF CanLend
  <2>3. AreLent(invalid, n, tmps)
    BY <2>2, LentEach
  <2>4. \A i \in 1 .. n : /\ Smallest(invalid, i) \in invalid
                          /\ Smallest(tmps, i) \in tmps
                          /\ Cardinality(invalid \cap (1 .. Smallest(invalid, i))) = i
    BY <2>3, Zenon DEF AreLent
  <2> QED
    BY <1>6, <2>4
<1>8. a \in 0 .. M - 1 /\ a # b
  <2>1. b \notin tmps
    BY <1>2, <1>3
  <2>2. \A r \in tmps : r \in 0 .. M - 1
    BY <1>2, <1>5
  <2> QED
    BY <1>7, <2>1, <2>2
<1>9. V \in Nat /\ M <= V /\ c \in M .. V - 1
  <2>1. /\ V \in Nat /\ vRegsId <= V /\ Spill(n) \in Seq(M .. V - 1) /\ Len(Spill(n)) = n
    BY <1>5, SpillsApart
  <2> DEFINE sp == Spill(n)
  <2> HIDE DEF sp
  <2>2. \A i \in 1 .. n : sp[i] \in M .. V - 1
    BY <2>1, ElementOfSeq DEF sp
  <2> QED
    BY <1>6, <2>1, <2>2 DEF sp
<1>10. y.op = "sta" /\ y.regs[1] = a
  <2>1. y.op = "sta" /\ y.regs = AdjustedRegs(x, invalid, tmps)
    BY DEF With
  <2>2. AdjustedRegs(x, invalid, tmps)[1] = a
    BY <1>4, <1>6, <1>7 DEF AdjustedRegs
  <2> QED
    BY <2>1, <2>2
<1>11. /\ HeadMoves(x, 1, a, c) = <<Move(c, a)>>
       /\ TailMoves(x, 1, a, c) = <<Move(b, a)>> \o <<Move(a, c)>>
  <2>1. IsDst(x, 1)
    BY DEF IsDst
  <2>2. \A q : <<q>> \o <<>> = <<q>>
    OBVIOUS
  <2> QED
    BY <2>1, <2>2, Zenon DEF HeadMoves, TailMoves
<1>12. /\ FlattenSeq(Heads(x, invalid, tmps, n)) = <<Move(c, a)>>
       /\ FlattenSeq(Tails(x, invalid, tmps, n)) = <<Move(b, a)>> \o <<Move(a, c)>>
  <2>1. IsCode(<<Move(c, a)>>) /\ IsCode(<<Move(b, a)>> \o <<Move(a, c)>>)
    BY CodeOne, CodeCat
  <2>2. \A i \in 1 .. 1 : i = 1
    OBVIOUS
  <2>3. Heads(x, invalid, tmps, n) = [i \in 1 .. 1 |-> HeadMoves(x, 1, a, c)]
    BY <1>5, <1>7, <2>2 DEF Heads
  <2>4. Tails(x, invalid, tmps, n) = [i \in 1 .. 1 |-> TailMoves(x, 1, a, c)]
    BY <1>5, <1>7, <2>2 DEF Tails
  <2> QED
    BY <1>11, <2>1, <2>3, <2>4, OneBlock, Zenon
<1>13. p2 = p \o <<Move(c, a)>> \o <<y>> \o (<<Move(b, a)>> \o <<Move(a, c)>>)
  BY <1>12, Zenon DEF Cat
<1> HIDE DEF V, y, a, c
<1>14. ASSUME NEW N \in Nat, NEW start, V <= N, IsState(RunN(p, start), 0 .. N - 1)
       PROVE  IsCode(p2) /\ Alike(StepN(RunN(p, start), x), RunN(p2, start), M, N)
  <2>1. M <= N /\ c \in M .. N - 1
    BY <1>9, <1>14
  <2>2. b = x.regs[1]
    OBVIOUS
  <2> HIDE DEF b
  <2> QED
    BY <1>4, <1>8, <1>10, <1>13, <1>14, <2>1, <2>2, StaLent
<1>15. Does(p, p2, x, M, V)
  BY <1>14 DEF Does
<1> QED
  BY <1>15 DEF V

-----------------------------------------------------------------------------
(* The code with virtual registers and with their numbers.                 *)

(* What is known of a generated instruction: arguments that must be        *)
(* consecutive have numbers that are.                                      *)
IsVirtual(e) ==
  /\ Named(e, KnownRegs)
  /\ e.op \in {"range", "keys", "super"} =>
       \E b \in Int : \A j \in Start(e) .. Len(e.args) : Num(e.args[j]) = b + j

(* They all are so, those before them that load the constants among them.  *)
LEMMA ExpandedVirtual ==
  ASSUME NInv, generated
  PROVE  /\ Len(Expanded) \in Nat /\ DOMAIN Expanded = 1 .. Len(Expanded)
         /\ Expanded \in Seq(Range(Expanded))
         /\ \A k \in 1 .. Len(Expanded) : IsVirtual(Expanded[k])
<1> DEFINE c == [i \in DOMAIN NeededCaches |-> Sta(Cache(NeededCaches[i]))]
           m == pool.made
<1>1. PICK S : Expanded \in Seq(S) /\ \A x \in S : Named(x, KnownRegs)
  BY ExpandedNamed DEF NamedBy
<1>2. /\ Len(Expanded) \in Nat /\ DOMAIN Expanded = 1 .. Len(Expanded)
      /\ \A k \in 1 .. Len(Expanded) : Named(Expanded[k], KnownRegs)
  BY <1>1
<1>3. InsnsOK(Reverse(c), m)
  <2> DEFINE U == {Sta(Cache(x)) : x \in needed}
             l == Len(c)
  <2>1. NeededCaches \in Seq(needed)
    BY CachesOnce DEF NInv, IInv
  <2>2. c \in Seq(U)
    BY <2>1
  <2> HIDE DEF c
  <2>3. Reverse(c) = [i \in 1 .. l |-> c[(l - i) + 1]]
    BY DEF Reverse
  <2>4. l \in Nat /\ \A i \in 1 .. l : c[i] \in U
    BY <2>2
  <2>5. \A x \in U : ArgsOK(x, m)
    BY DEF ArgsOK, Sta, Insn
  <2> HIDE DEF U, l
  <2>6. \A i \in 1 .. l : c[(l - i) + 1] \in U
    <3>1. \A i \in 1 .. l : (l - i) + 1 \in 1 .. l
      BY <2>4
    <3> QED
      BY <2>4, <3>1
  <2>7. Reverse(c) \in Seq(U)
    BY <2>3, <2>4, <2>6
  <2> QED
    BY <2>5, <2>7 DEF InsnsOK
<1>4. InsnsOK(insns, m) /\ m \in Nat
  BY MadeNat DEF NInv, IInv
<1>5. InsnsOK(Expanded, m)
  <2>1. Expanded = Reverse(c) \o insns
    BY DEF Expanded
  <2> HIDE DEF c, m
  <2> QED
    BY <1>3, <1>4, <2>1, MoreInsns
<1>6. ASSUME NEW k \in 1 .. Len(Expanded)
      PROVE  IsVirtual(Expanded[k])
  <2>1. ArgsOK(Expanded[k], pool.made)
    <3>1. PICK U : Expanded \in Seq(U) /\ \A x \in U : ArgsOK(x, m)
      BY <1>5 DEF InsnsOK
    <3>2. Expanded[k] \in U
      BY <1>2, <3>1
    <3> QED
      BY <3>1, <3>2
  <2> DEFINE e == Expanded[k]
  <2>2. Named(e, KnownRegs) /\ ArgsOK(e, pool.made) /\ IInv
    BY <1>2, <2>1 DEF NInv
  <2> HIDE DEF e
  <2>3. IsVirtual(e)
    BY <2>2, ArgsNumbered DEF IsVirtual
  <2> QED
    BY <2>3 DEF e
<1>7. Expanded \in Seq(Range(Expanded))
  <2>1. Expanded = [k \in 1 .. Len(Expanded) |-> Expanded[k]]
    BY <1>1
  <2> QED
    BY <1>2, <2>1, ListSeq
<1> QED
  BY <1>2, <1>6, <1>7

(* Such an instruction with numbers: what the lemmas about the allocator's *)
(* steps need to know of it.                                               *)
LEMMA NumberedVirtual ==
  ASSUME NInv, generated, NEW e, IsVirtual(e), NEW x, x = Numbered(e)
  PROVE  /\ NumberedShape(x, Len(Allocated))
         /\ x.count \in Nat /\ (x.op # "super" => x.count = Len(x.regs))
         /\ (x.op \in {"range", "keys"} => Continuous(x))
<1> DEFINE l == Len(e.regs)
<1>1. NumberedShape(x, Len(Allocated))
  BY NumberedNamed DEF IsVirtual
<1>2. /\ x.op = e.op /\ x.regs = [j \in DOMAIN e.regs |-> Num(e.regs[j])]
      /\ x.count = Len(e.args)
  BY DEF Numbered
<1>3. e.regs \in Seq(KnownRegs) /\ e.args \in Seq(KnownRegs) /\ Shape(e)
  BY DEF IsVirtual, Named
<1>4. /\ l \in Nat /\ DOMAIN e.regs = 1 .. l /\ Len(e.args) \in Nat
  BY <1>3
<1>5. e.op # "super" => e.args = e.regs
  BY <1>3 DEF Shape
<1>6. Len(x.regs) = l
  BY <1>2, <1>4
<1>7. ASSUME x.op \in {"range", "keys"}
      PROVE  Continuous(x)
  <2>1. e.op \in {"range", "keys", "super"} /\ e.args = e.regs
    BY <1>2, <1>5, <1>7
  <2>2. PICK b \in Int : \A j \in Start(e) .. l : Num(e.regs[j]) = b + j
    BY <2>1 DEF IsVirtual
  <2>3. Start(x) = Start(e) /\ Start(e) \in {1, 2}
    BY <1>2 DEF Start
  <2>4. \A j \in Start(e) .. l : x.regs[j] = b + j
    BY <1>2, <1>4, <2>2, <2>3
  <2>5. \A j \in Start(x) + 1 .. Len(x.regs) : x.regs[j] = x.regs[j - 1] + 1
    <3> SUFFICES ASSUME NEW j \in Start(e) + 1 .. l PROVE x.regs[j] = x.regs[j - 1] + 1
      BY <1>6, <2>3
    <3>1. j \in Int /\ j \in Start(e) .. l /\ j - 1 \in Start(e) .. l
      BY <1>4, <2>3
    <3>2. x.regs[j] = b + j /\ x.regs[j - 1] = b + (j - 1)
      BY <2>4, <3>1
    <3> QED
      BY <3>1, <3>2
  <2> QED
    BY <2>5 DEF Continuous
<1>8. x.count \in Nat /\ (x.op # "super" => x.count = Len(x.regs))
  BY <1>2, <1>4, <1>5, <1>6
<1> QED
  BY <1>1, <1>7, <1>8

(* A state of the numbered registers holds what a state of the virtual     *)
(* ones does: A is the list of those that have numbers.                    *)
Agree(A, s, t, N) ==
  /\ IsState(s, Range(A)) /\ IsState(t, 0 .. N - 1)
  /\ s.trace = t.trace
  /\ \A v \in Range(A) : s.reg[v] = t.reg[Position(A, v) - 1]

(* In terms of the allocator's names.                                      *)
LEMMA AgreeNames ==
  ASSUME NEW s, NEW t, NEW N
  PROVE  Agree(Allocated, s, t, N) <=>
           /\ IsState(s, VRegs) /\ IsState(t, 0 .. N - 1)
           /\ s.trace = t.trace
           /\ \A v \in VRegs : s.reg[v] = t.reg[Num(v)]
BY Zenon DEF Agree, VRegs, Num

(* An instruction reads the same values then.                              *)
LEMMA ReadsAgree ==
  ASSUME NInv, generated, NEW e, IsVirtual(e), NEW x, x = Numbered(e),
         NEW s, NEW t, NEW N, Agree(Allocated, s, t, N)
  PROVE  ReadsNumbered(x, t.reg) = ReadsVirtual(e, s.reg)
<1> DEFINE l == Len(e.args)
<1>1. \A v \in KnownRegs : s.reg[v] = t.reg[Num(v)]
  <2>1. \A v \in VRegs : s.reg[v] = t.reg[Num(v)]
    BY AgreeNames
  <2>2. KnownRegs \subseteq VRegs
    BY Numbers
  <2> QED
    BY <2>1, <2>2
<1>2. /\ x.op = e.op /\ x.regs = [j \in DOMAIN e.regs |-> Num(e.regs[j])]
      /\ x.count = l
  BY DEF Numbered
<1>3. e.regs \in Seq(KnownRegs) /\ e.args \in Seq(KnownRegs) /\ Shape(e)
  BY DEF IsVirtual, Named
<1>4. /\ l \in Nat /\ DOMAIN e.args = 1 .. l
      /\ \A j \in 1 .. l : e.args[j] \in KnownRegs
  BY <1>3
<1> HIDE DEF l
<1>5. ReadsVirtual(e, s.reg) = [j \in 1 .. l |-> s.reg[e.args[j]]]
  BY <1>4, Zenon DEF ReadsVirtual
<1>6. CASE x.op # "super"
  <2>1. e.args = e.regs
    BY <1>2, <1>3, <1>6 DEF Shape
  <2>2. \A j \in 1 .. l : t.reg[x.regs[j]] = s.reg[e.args[j]]
    BY <1>1, <1>2, <1>4, <2>1
  <2>3. ReadsNumbered(x, t.reg) = [j \in 1 .. l |-> t.reg[x.regs[j]]]
    BY <1>2, <1>6, Zenon DEF ReadsNumbered
  <2> QED
    BY <1>5, <2>2, <2>3
<1>7. CASE x.op = "super"
  <2>1. ReadsNumbered(x, t.reg) = [j \in 1 .. l |-> t.reg[x.regs[1] + j - 1]]
    BY <1>2, <1>7, Zenon DEF ReadsNumbered
  <2>2. \A j \in 1 .. l : t.reg[x.regs[1] + j - 1] = s.reg[e.args[j]]
    <3> SUFFICES ASSUME NEW j \in 1 .. l PROVE t.reg[x.regs[1] + j - 1] = s.reg[e.args[j]]
      OBVIOUS
    <3>1. l >= 1 /\ j \in Int /\ 1 \in 1 .. l
      BY <1>4
    <3>2. e.regs[1] = e.args[1] /\ Len(e.regs) = 1
      BY <1>2, <1>3, <1>7, <3>1 DEF Shape, l
    <3>3. Start(e) = 1
      BY <1>2, <1>7 DEF Start
    <3>4. PICK b \in Int : \A i \in 1 .. l : Num(e.args[i]) = b + i
      BY <1>2, <1>7, <3>3 DEF IsVirtual, l
    <3>5. x.regs[1] = Num(e.args[1])
      BY <1>2, <1>3, <3>2
    <3>6. x.regs[1] = b + 1 /\ Num(e.args[j]) = b + j
      BY <3>1, <3>4, <3>5
    <3>7. x.regs[1] + j - 1 = Num(e.args[j])
      BY <3>1, <3>6
    <3> QED
      BY <1>1, <1>4, <3>7
  <2> QED
    BY <1>5, <2>1, <2>2
<1> QED
  BY <1>6, <1>7

(* A value is stored in a virtual register and in its number.              *)
LEMMA StoreAgrees ==
  ASSUME NInv, generated, NEW s, NEW t, NEW N, Agree(Allocated, s, t, N),
         NEW s2, NEW t2, s2.trace = t2.trace, NEW a \in VRegs, NEW v,
         Stored(s, s2, VRegs, a, v), Stored(t, t2, 0 .. N - 1, Num(a), v),
         NEW M, M = Len(Allocated), N \in Nat, M <= N
  PROVE  Agree(Allocated, s2, t2, N)
<1>1. /\ M \in Nat
      /\ \A w \in VRegs : Num(w) \in 0 .. M - 1
      /\ \A w \in VRegs : Num(w) = Num(a) => w = a
  BY Numbers
<1>2. \A w \in VRegs : s.reg[w] = t.reg[Num(w)]
  BY AgreeNames
<1>3. /\ IsState(s2, VRegs) /\ s2.reg[a] = v
      /\ \A w \in VRegs : w # a => s2.reg[w] = s.reg[w]
  BY DEF Stored
<1>4. /\ IsState(t2, 0 .. N - 1) /\ t2.reg[Num(a)] = v
      /\ \A r \in 0 .. N - 1 : r # Num(a) => t2.reg[r] = t.reg[r]
  BY DEF Stored
<1>5. \A w \in VRegs : s2.reg[w] = t2.reg[Num(w)]
  <2> SUFFICES ASSUME NEW w \in VRegs PROVE s2.reg[w] = t2.reg[Num(w)]
    OBVIOUS
  <2>1. CASE w = a
    BY <1>3, <1>4, <2>1
  <2>2. CASE w # a
    <3>1. Num(w) # Num(a) /\ Num(w) \in 0 .. N - 1
      BY <1>1, <2>2
    <3> QED
      BY <1>2, <1>3, <1>4, <2>2, <3>1
  <2> QED
    BY <2>1, <2>2
<1> QED
  BY <1>3, <1>4, <1>5, AgreeNames

(* They still hold the same when an instruction has been executed.         *)
LEMMA StepAgrees ==
  ASSUME NInv, generated, NEW e, IsVirtual(e), NEW x, x = Numbered(e),
         NEW s, NEW t, NEW N \in Nat, Len(Allocated) <= N, Agree(Allocated, s, t, N)
  PROVE  Agree(Allocated, StepV(s, e), StepN(t, x), N)
<1> DEFINE V == VRegs
           D == 0 .. N - 1
           M == Len(Allocated)
           sv == ReadsVirtual(e, s.reg)
           tv == ReadsNumbered(x, t.reg)
           s2 == StepV(s, e)
           t2 == StepN(t, x)
<1>1. sv = tv
  BY ReadsAgree
<1>2. /\ IsState(s, V) /\ IsState(t, D) /\ s.trace = t.trace
      /\ \A v \in V : s.reg[v] = t.reg[Num(v)]
  BY AgreeNames
<1>3. /\ x.op = e.op /\ x.regs = [j \in DOMAIN e.regs |-> Num(e.regs[j])]
  BY DEF Numbered
<1>4. e.regs \in Seq(KnownRegs) /\ Shape(e)
  BY DEF IsVirtual, Named
<1>5. /\ M \in Nat /\ KnownRegs \subseteq V
      /\ \A v \in V : Num(v) \in 0 .. M - 1
  BY Numbers
<1>6. s2 = Executed(s, e, sv) /\ t2 = Executed(t, x, tv)
  BY DEF StepV, StepN
<1>7. \A v \in V : Num(v) \in D
  BY <1>5
<1> HIDE DEF V, D, M, sv, tv, s2, t2
<1>8. \A j \in 1 .. Len(e.regs) : e.regs[j] \in V /\ x.regs[j] = Num(e.regs[j])
  BY <1>3, <1>4, <1>5
<1>9. CASE e.op = "mov"
  <2> DEFINE a == e.regs[1]
             b == e.regs[2]
  <2>1. a \in V /\ b \in V /\ x.regs[1] = Num(a) /\ x.regs[2] = Num(b)
    <3>1. Len(e.regs) = 2
      BY <1>4, <1>9 DEF Shape
    <3> QED
      BY <1>8, <3>1
  <2>2. s.reg[b] = t.reg[Num(b)] /\ Num(a) \in D
    BY <1>2, <1>7, <2>1
  <2>3. a = e.regs[1] /\ b = e.regs[2]
    OBVIOUS
  <2> HIDE DEF a, b
  <2>4. Stored(s, s2, V, a, s.reg[b]) /\ s2.trace = s.trace
    BY <1>2, <1>6, <1>9, <2>1, <2>3, MoveStep
  <2> DEFINE ra == Num(a)
             rb == Num(b)
  <2>5. x.op = "mov" /\ ra \in D /\ ra = x.regs[1] /\ rb = x.regs[2]
    BY <1>3, <1>9, <2>1, <2>2
  <2> HIDE DEF ra, rb
  <2>6. Stored(t, t2, D, ra, t.reg[rb]) /\ t2.trace = t.trace
    BY <1>2, <1>6, <2>5, MoveStep
  <2>7. Stored(t, t2, D, Num(a), s.reg[b]) /\ t2.trace = s2.trace
    BY <1>2, <2>2, <2>4, <2>6 DEF ra, rb
  <2> QED
    BY <1>5, <2>1, <2>4, <2>7, StoreAgrees DEF V, D, M, s2, t2
<1>10. CASE e.op = "sta"
  <2> DEFINE a == e.regs[1]
             ra == Num(a)
  <2>1. a \in V /\ x.regs[1] = Num(a)
    <3>1. Len(e.regs) = 1
      BY <1>4, <1>10 DEF Shape, OneReg
    <3> QED
      BY <1>8, <3>1
  <2>2. /\ a = e.regs[1] /\ ra = x.regs[1] /\ ra \in D
        /\ x.op = "sta"
    BY <1>3, <1>7, <1>10, <2>1
  <2> HIDE DEF a, ra
  <2>3. /\ Stored(s, s2, V, a, <<"value", Len(s.trace)>>)
        /\ s2.trace = Append(s.trace, <<>>)
    BY <1>2, <1>6, <1>10, <2>1, <2>2, StaStep
  <2>4. /\ Stored(t, t2, D, ra, <<"value", Len(t.trace)>>)
        /\ t2.trace = Append(t.trace, <<>>)
    BY <1>2, <1>6, <2>2, StaStep
  <2>5. Stored(t, t2, D, Num(a), <<"value", Len(s.trace)>>) /\ s2.trace = t2.trace
    BY <1>2, <2>3, <2>4 DEF ra
  <2> DEFINE v == <<"value", Len(s.trace)>>
  <2>6. Stored(t, t2, D, Num(a), v) /\ Stored(s, s2, V, a, v)
    BY <2>3, <2>5
  <2> HIDE DEF v
  <2> QED
    BY <1>5, <2>1, <2>5, <2>6, StoreAgrees DEF V, D, M, s2, t2
<1>11. CASE e.op \notin {"mov", "sta"}
  <2>1. x.op \notin {"mov", "sta"}
    BY <1>3, <1>11
  <2>2. /\ s2 = [reg |-> s.reg, trace |-> Append(s.trace, sv)]
        /\ t2 = [reg |-> t.reg, trace |-> Append(t.trace, tv)]
    BY <1>2, <1>6, <1>11, <2>1, ReadStep
  <2>3. ASSUME NEW u, NEW U, IsState(u, U), NEW tr
        PROVE  IsState([reg |-> u.reg, trace |-> tr], U)
    <3>1. PICK reg, old : u = [reg |-> reg, trace |-> old] /\ reg = [r \in U |-> reg[r]]
      BY <2>3 DEF IsState
    <3>2. u.reg = reg
      BY <3>1
    <3> QED
      BY <3>1, <3>2 DEF IsState
  <2>4. IsState(s2, V) /\ IsState(t2, D)
    <3> DEFINE st == Append(s.trace, sv)
               tt == Append(t.trace, tv)
    <3>1. s2 = [reg |-> s.reg, trace |-> st] /\ t2 = [reg |-> t.reg, trace |-> tt]
      BY <2>2
    <3> HIDE DEF st, tt
    <3> QED
      BY <1>2, <2>3, <3>1
  <2>5. s2.reg = s.reg /\ t2.reg = t.reg /\ s2.trace = t2.trace
    BY <1>1, <1>2, <2>2
  <2>6. \A v \in V : s2.reg[v] = t2.reg[Num(v)]
    BY <1>2, <2>5
  <2> QED
    BY <2>4, <2>5, <2>6, AgreeNames DEF V, D, s2, t2
<1> QED
  BY <1>9, <1>10, <1>11 DEF s2, t2

(* Nor is there a difference to a state that is like it.                   *)
LEMMA AlikeAgrees ==
  ASSUME NInv, generated, NEW s, NEW t, NEW u, NEW N \in Nat,
         Agree(Allocated, s, t, N), Alike(t, u, Len(Allocated), N)
  PROVE  Agree(Allocated, s, u, N)
<1> DEFINE M == Len(Allocated)
<1>1. \A v \in VRegs : Num(v) \in 0 .. M - 1
  BY Numbers
<1>2. /\ IsState(s, VRegs) /\ s.trace = t.trace
      /\ \A v \in VRegs : s.reg[v] = t.reg[Num(v)]
  BY AgreeNames
<1>3. /\ IsState(u, 0 .. N - 1) /\ u.trace = t.trace
      /\ \A r \in 0 .. M - 1 : u.reg[r] = t.reg[r]
  BY DEF Alike
<1> HIDE DEF M
<1>4. \A v \in VRegs : s.reg[v] = u.reg[Num(v)]
  BY <1>1, <1>2, <1>3
<1> QED
  BY <1>2, <1>3, <1>4, AgreeNames

-----------------------------------------------------------------------------
(* The simulation.                                                         *)

(* From wherever the numbered registers begin, the code out that has come  *)
(* out so far does what the first k of the instructions do.                *)
SimulatedBy(program, A, k, out, V) ==
  /\ IsCode(out)
  /\ \A N \in Nat : \A start :
       V <= N /\ start = [r \in 0 .. N - 1 |-> start[r]] =>
         Agree(A, RunV(SubSeq(program, 1, k),
                       [v \in Range(A) |-> start[Position(A, v) - 1]]),
               RunN(out, start), N)
Simulated ==
  (\A k \in 1 .. index - 1 : ~Overlooked(code[k])) =>
    SimulatedBy(Expanded, Allocated, index - 1, newInsns, vRegsId)

(* The code that is adjusted.                                              *)
LEMMA CodeVirtual ==
  ASSUME CInv, phase # "generate"
  PROVE  /\ generated /\ Len(code) = Len(Expanded) /\ Len(code) \in Nat
         /\ \A k \in 1 .. Len(code) : code[k] = Numbered(Expanded[k]) /\ IsVirtual(Expanded[k])
<1>1. generated /\ NInv /\ code = [k \in DOMAIN Expanded |-> Numbered(Expanded[k])]
  BY DEF CInv, ExpandedCode
<1>2. /\ Len(Expanded) \in Nat /\ DOMAIN Expanded = 1 .. Len(Expanded)
      /\ \A k \in 1 .. Len(Expanded) : IsVirtual(Expanded[k])
  BY <1>1, ExpandedVirtual
<1>3. code = [k \in 1 .. Len(Expanded) |-> Numbered(Expanded[k])]
  BY <1>1, <1>2
<1>4. Len(code) = Len(Expanded) /\ \A k \in 1 .. Len(Expanded) : code[k] = Numbered(Expanded[k])
  BY <1>2, <1>3
<1> QED
  BY <1>1, <1>2, <1>4

(* Nothing has come out yet.                                               *)
LEMMA SimulatedNothing ==
  ASSUME NInv, generated
  PROVE  SimulatedBy(Expanded, Allocated, 0, <<>>, Len(Allocated))
<1>1. IsCode(<<>>)
  BY CodeOne
<1>2. SubSeq(Expanded, 1, 0) = <<>>
  BY ExpandedVirtual, Beginnings
<1>3. ASSUME NEW N \in Nat, NEW start, Len(Allocated) <= N,
             start = [r \in 0 .. N - 1 |-> start[r]]
      PROVE  Agree(Allocated,
                   RunV(<<>>, [v \in Range(Allocated) |-> start[Position(Allocated, v) - 1]]),
                   RunN(<<>>, start), N)
  <2> DEFINE first == [v \in Range(Allocated) |-> start[Position(Allocated, v) - 1]]
  <2>1. first = [v \in VRegs |-> start[Num(v)]]
    BY Zenon DEF VRegs, Num
  <2> HIDE DEF first
  <2>2. RunV(<<>>, first) = Begun(first) /\ RunN(<<>>, start) = Begun(start)
    BY RunVEmpty, RunNEmpty
  <2>3. first = [v \in VRegs |-> first[v]] /\ \A v \in VRegs : first[v] = start[Num(v)]
    BY <2>1
  <2>4. /\ IsState(Begun(first), VRegs) /\ IsState(Begun(start), 0 .. N - 1)
        /\ Begun(first).trace = Begun(start).trace
        /\ Begun(first).reg = first /\ Begun(start).reg = start
    BY <1>3, <2>3 DEF IsState, Begun
  <2>5. Agree(Allocated, Begun(first), Begun(start), N)
    BY <2>3, <2>4, AgreeNames
  <2> QED
    BY <2>2, <2>5 DEF first
<1> QED
  BY <1>1, <1>2, <1>3 DEF SimulatedBy

(* An instruction more.                                                    *)
LEMMA SimulatedMore ==
  ASSUME AInv, Adjusting,
         SimulatedBy(Expanded, Allocated, index - 1, newInsns, vRegsId),
         NEW out, NEW V \in Nat, vRegsId <= V,
         Does(newInsns, out, Current, Len(Allocated), V)
  PROVE  SimulatedBy(Expanded, Allocated, index, out, V)
<1> DEFINE e == Expanded[index]
           x == Current
           M == Len(Allocated)
           F(start) == [v \in Range(Allocated) |-> start[Position(Allocated, v) - 1]]
<1>1. /\ phase = "adjust" /\ index \in 1 .. Len(code) /\ CInv /\ NInv
      /\ vRegsId \in Nat /\ M <= vRegsId
  BY DEF AInv, Adjusting, CInv
<1>2. /\ generated /\ Len(code) = Len(Expanded) /\ Len(code) \in Nat
      /\ x = Numbered(e) /\ IsVirtual(e)
  BY <1>1, CodeVirtual DEF Current
<1>3. M \in Nat
  BY <1>1, <1>2, Numbers
<1>4. \A s : RunV(SubSeq(Expanded, 1, index), s) = StepV(RunV(SubSeq(Expanded, 1, index - 1), s), e)
  <2> DEFINE m == index - 1
             S == Range(Expanded)
  <2>1. m \in 0 .. Len(Expanded) - 1 /\ m + 1 = index
    BY <1>1, <1>2
  <2>2. Expanded \in Seq(S)
    BY <1>1, <1>2, ExpandedVirtual
  <2> HIDE DEF m, S
  <2>3. /\ SubSeq(Expanded, 1, m) \in Seq(S) /\ Expanded[m + 1] \in S
        /\ SubSeq(Expanded, 1, m + 1) = Append(SubSeq(Expanded, 1, m), Expanded[m + 1])
    BY <2>1, <2>2, Beginnings
  <2>4. \A s : RunV(SubSeq(Expanded, 1, m + 1), s)
                 = StepV(RunV(SubSeq(Expanded, 1, m), s), Expanded[m + 1])
    BY <2>3, RunVAppend
  <2> QED
    BY <2>1, <2>4 DEF m
<1> HIDE DEF e, x, M, F
<1>5. ASSUME NEW N \in Nat, NEW start, V <= N, start = [r \in 0 .. N - 1 |-> start[r]]
      PROVE  /\ IsCode(out)
             /\ Agree(Allocated, RunV(SubSeq(Expanded, 1, index), F(start)), RunN(out, start), N)
  <2> DEFINE s == RunV(SubSeq(Expanded, 1, index - 1), F(start))
             t == RunN(newInsns, start)
  <2>1. vRegsId <= N /\ M <= N
    BY <1>1, <1>3, <1>5
  <2>2. Agree(Allocated, s, t, N)
    BY <1>5, <2>1, Zenon DEF SimulatedBy, F
  <2>3. IsState(t, 0 .. N - 1)
    BY <2>2, Zenon DEF Agree
  <2>4. IsCode(out) /\ Alike(StepN(t, x), RunN(out, start), M, N)
    BY <1>5, <2>3, Zenon DEF Does, M, x
  <2> HIDE DEF s, t
  <2>5. Agree(Allocated, StepV(s, e), StepN(t, x), N)
    BY <1>1, <1>2, <2>1, <2>2, StepAgrees DEF M
  <2>6. Agree(Allocated, StepV(s, e), RunN(out, start), N)
    <3> DEFINE s2 == StepV(s, e)
               t2 == StepN(t, x)
               u2 == RunN(out, start)
    <3>1. Agree(Allocated, s2, t2, N) /\ Alike(t2, u2, Len(Allocated), N)
      BY <2>4, <2>5 DEF M
    <3> HIDE DEF s2, t2, u2
    <3>2. Agree(Allocated, s2, u2, N)
      BY <1>1, <1>2, <3>1, AlikeAgrees
    <3> QED
      BY <3>2 DEF s2, u2
  <2>7. RunV(SubSeq(Expanded, 1, index), F(start)) = StepV(s, e)
    BY <1>4 DEF s
  <2> QED
    BY <2>4, <2>6, <2>7
<1>6. IsCode(out)
  <2> DEFINE start == [r \in 0 .. V - 1 |-> 0]
  <2>1. V <= V /\ start = [r \in 0 .. V - 1 |-> start[r]]
    OBVIOUS
  <2> HIDE DEF start
  <2> QED
    BY <1>5, <2>1
<1> QED
  BY <1>5, <1>6, Zenon DEF SimulatedBy, F

(* A step of the allocator that takes the next instruction.                *)
LEMMA SimulatedStep ==
  ASSUME AInv, Adjusting, Simulated, UNCHANGED poolVars, UNCHANGED code,
         index' = index + 1, vRegsId' \in Nat, vRegsId <= vRegsId',
         ~Overlooked(Current) /\ IsCode(newInsns) =>
           Does(newInsns, newInsns', Current, Len(Allocated), vRegsId')
  PROVE  Simulated'
<1>1. Allocated' = Allocated /\ Expanded' = Expanded
  <2>1. /\ UNCHANGED <<locals, params, callOpt, pool, needed, open, insns, generated>>
    BY DEF poolVars
  <2> QED
    BY <2>1, ExpandedKept, Zenon DEF Expanded, NeededCaches
<1>2. index \in Int /\ index \in 1 .. index
  BY DEF AInv, Adjusting
<1>3. ASSUME \A k \in 1 .. index : ~Overlooked(code[k])
      PROVE  SimulatedBy(Expanded, Allocated, index, newInsns', vRegsId')
  <2>1. \A k \in 1 .. index - 1 : ~Overlooked(code[k])
    BY <1>2, <1>3
  <2>2. SimulatedBy(Expanded, Allocated, index - 1, newInsns, vRegsId)
    BY <2>1 DEF Simulated
  <2>3. IsCode(newInsns)
    BY <2>2, Zenon DEF SimulatedBy
  <2>4. ~Overlooked(Current)
    BY <1>2, <1>3 DEF Current
  <2>5. Does(newInsns, newInsns', Current, Len(Allocated), vRegsId')
    BY <2>3, <2>4
  <2> QED
    BY <2>2, <2>5, SimulatedMore
<1>4. index' - 1 = index
  BY <1>2
<1>5. Simulated' <=> ((\A k \in 1 .. index' - 1 : ~Overlooked(code'[k])) =>
                       SimulatedBy(Expanded', Allocated', index' - 1, newInsns', vRegsId'))
  BY DEF Simulated
<1> QED
  BY <1>1, <1>3, <1>4, <1>5

(* The actions: an instruction or a range that is kept,                    *)
LEMMA KeepSimulates ==
  ASSUME AInv, Simulated, Keep \/ KeepRange, phase' = "adjust"
  PROVE  Simulated'
<1>1. /\ UNCHANGED poolVars /\ UNCHANGED <<code, vRegsId>> /\ Adjusting
      /\ newInsns' = newInsns \o <<>> \o <<Current>> \o <<>> /\ index' = index + 1
  <2>1. CASE Keep
    BY <2>1 DEF Keep, Push
  <2>2. CASE KeepRange
    <3>1. phase' # NotContinuous
      BY PhaseNames
    <3> QED
      BY <2>2, <3>1 DEF KeepRange, Push
  <2> QED
    BY <2>1, <2>2
<1>2. /\ vRegsId \in Nat /\ Len(Allocated) <= vRegsId /\ Len(Allocated) \in Nat
      /\ NumberedShape(Current, Len(Allocated))
  BY <1>1, CurrentShape DEF AInv, Adjusting
<1>3. IsCode(newInsns) => Does(newInsns, newInsns', Current, Len(Allocated), vRegsId')
  BY <1>1, <1>2, KeptDoes
<1>4. vRegsId' \in Nat /\ vRegsId <= vRegsId'
  BY <1>1, <1>2
<1> QED
  BY <1>1, <1>3, <1>4, SimulatedStep

(* one that is adjusted,                                                   *)
LEMMA AdjustSimulates ==
  ASSUME 4 <= LevelB, AInv, Simulated, Adjust, phase' = "adjust"
  PROVE  Simulated'
<1> DEFINE M == Len(Allocated)
<1>1. UNCHANGED poolVars /\ UNCHANGED code /\ Adjusting
  BY DEF Adjust
<1>2. /\ vRegsId \in Nat /\ M <= vRegsId /\ M \in Nat /\ M <= LevelC
      /\ spills \in Seq(M .. vRegsId - 1) /\ OneEach(spills)
      /\ NumberedShape(Current, M)
  BY <1>1, CurrentShape DEF AInv, Adjusting
<1>3. PICK x, invalid, n, tmps :
        /\ x = Current /\ x.op \notin {"range", "keys"}
        /\ invalid = Invalid(x, Formats(x)[MinFormat(x)])
        /\ n = Cardinality(invalid) /\ n > 0
        /\ tmps = TmpVregs(Marked(x))
        /\ phase' \in {NoTmp, RunningOut} \/
           /\ newInsns' =
                Cat(Cat(Cat(newInsns, FlattenSeq(Heads(x, invalid, tmps, n))),
                        <<With(x, AdjustedRegs(x, invalid, tmps))>>),
                    FlattenSeq(Tails(x, invalid, tmps, n)))
           /\ index' = index + 1
           /\ vRegsId' = VRegsAfter(n)
  <2>1. PICK x, invalid, n, tmps :
          /\ x = Current /\ x.op \notin {"range", "keys"}
          /\ invalid = Invalid(x, Formats(x)[MinFormat(x)])
          /\ n = Cardinality(invalid) /\ n > 0
          /\ tmps = TmpVregs(Marked(x))
          /\ \/ /\ VRegsAfter(n) > LevelC \/ ~(n <= Cardinality(tmps))
                /\ phase' = IF /\ ~(n <= Cardinality(tmps))
                               /\ VRegsAfter(Cardinality(tmps) + 1) <= LevelC
                            THEN NoTmp ELSE RunningOut
                /\ UNCHANGED newInsns
             \/ /\ ~(VRegsAfter(n) > LevelC)
                /\ newInsns' =
                     newInsns \o FlattenSeq(Heads(x, invalid, tmps, n))
                       \o <<With(x, AdjustedRegs(x, invalid, tmps))>>
                       \o FlattenSeq(Tails(x, invalid, tmps, n))
                /\ index' = index + 1
                /\ vRegsId' = VRegsAfter(n)
                /\ spills' = FreeSpills(n)
                /\ UNCHANGED phase
    BY AdjustDoes
  <2>2. CASE phase' = IF /\ ~(n <= Cardinality(tmps))
                         /\ VRegsAfter(Cardinality(tmps) + 1) <= LevelC
                      THEN NoTmp ELSE RunningOut
    <3>1. phase' \in {NoTmp, RunningOut}
      BY <2>2, Zenon
    <3> QED
      BY <2>1, <3>1, Zenon
  <2>3. CASE /\ newInsns' =
                  newInsns \o FlattenSeq(Heads(x, invalid, tmps, n))
                    \o <<With(x, AdjustedRegs(x, invalid, tmps))>>
                    \o FlattenSeq(Tails(x, invalid, tmps, n))
             /\ index' = index + 1 /\ vRegsId' = VRegsAfter(n)
    <3>1. newInsns' =
            Cat(Cat(Cat(newInsns, FlattenSeq(Heads(x, invalid, tmps, n))),
                    <<With(x, AdjustedRegs(x, invalid, tmps))>>),
                FlattenSeq(Tails(x, invalid, tmps, n)))
      BY <2>3, Zenon DEF Cat
    <3> QED
      BY <2>1, <2>3, <3>1, ZenonT(60)
  <2> QED
    BY <2>1, <2>2, <2>3, Zenon
<1>4. phase' \notin {NoTmp, RunningOut}
  BY PhaseNames
<1>5. /\ newInsns' =
           Cat(Cat(Cat(newInsns, FlattenSeq(Heads(x, invalid, tmps, n))),
                   <<With(x, AdjustedRegs(x, invalid, tmps))>>),
               FlattenSeq(Tails(x, invalid, tmps, n)))
      /\ index' = index + 1
      /\ vRegsId' = VRegsAfter(n)
  BY <1>3, <1>4, Zenon
<1>6. /\ phase # "generate" /\ CInv /\ NInv /\ index \in 1 .. Len(code)
  BY <1>1 DEF AInv, CInv, Adjusting
<1>7. x.count \in Nat /\ (x.op # "super" => x.count = Len(x.regs))
  <2> DEFINE e == Expanded[index]
  <2>1. generated /\ x = Numbered(e) /\ IsVirtual(e)
    BY <1>3, <1>6, CodeVirtual DEF Current
  <2> HIDE DEF e
  <2> QED
    BY <1>6, <2>1, NumberedVirtual
<1>8. VRegsAfter(n) \in Nat /\ vRegsId <= VRegsAfter(n)
  <2>1. n \in Nat
    <3>1. x.op \notin {"range", "keys"} /\ NumberedShape(x, M) /\ n > 0
          /\ invalid = Invalid(x, Formats(x)[MinFormat(x)])
          /\ n = Cardinality(invalid) /\ tmps = TmpVregs(Marked(x))
      BY <1>2, <1>3, Zenon
    <3> HIDE DEF M
    <3>2. n \in 1 .. Len(x.regs)
      BY <1>2, <3>1, EnoughTmps
    <3>3. Len(x.regs) \in Nat
      BY <3>1 DEF NumberedShape
    <3> QED
      BY <3>2, <3>3
  <2> QED
    BY <1>2, <2>1, SpillsApart
<1>9. NumberedShape(x, M) /\ x = Current
  BY <1>2, <1>3
<1> HIDE DEF M
<1>10. ASSUME ~Overlooked(Current), IsCode(newInsns)
       PROVE  Does(newInsns, newInsns', Current, M, vRegsId')
  <2>1. ~Overlooked(x)
    BY <1>9, <1>10
  <2>2. CASE x.op = "sta"
    <3>1. Does(newInsns, newInsns', x, M, VRegsAfter(n))
      BY <1>2, <1>3, <1>5, <1>9, <1>10, <2>2, StoredDoes
    <3> QED
      BY <1>5, <1>9, <3>1
  <2>3. CASE x.op # "sta"
    <3>1. x.op \notin {"range", "keys", "sta"}
      BY <1>3, <2>3
    <3>2. Does(newInsns, newInsns', x, M, VRegsAfter(n))
      BY <1>2, <1>3, <1>5, <1>7, <1>9, <1>10, <2>1, <3>1, AdjustedDoes
    <3> QED
      BY <1>5, <1>9, <3>2
  <2> QED
    BY <2>2, <2>3
<1>11. vRegsId' \in Nat /\ vRegsId <= vRegsId'
  BY <1>5, <1>8
<1> QED
  BY <1>1, <1>5, <1>10, <1>11, SimulatedStep DEF M

(* and a range that is adjusted.                                           *)
LEMMA AdjustRangeSimulates ==
  ASSUME 4 <= LevelB, AInv, Simulated, AdjustRange, phase' = "adjust"
  PROVE  Simulated'
<1> DEFINE M == Len(Allocated)
<1>1. UNCHANGED poolVars /\ UNCHANGED code /\ Adjusting
  BY DEF AdjustRange
<1>2. /\ vRegsId \in Nat /\ M <= vRegsId /\ M \in Nat /\ M <= LevelC
      /\ spills \in Seq(M .. vRegsId - 1) /\ OneEach(spills)
      /\ NumberedShape(Current, M)
  BY <1>1, CurrentShape DEF AInv, Adjusting
<1>3. phase' # RunningOut
  BY PhaseNames
<1>4. PICK x :
        /\ x = Current /\ x.op \in {"range", "keys"} /\ x.regs[1] >= Level(x)
        /\ newInsns' = newInsns \o FlattenSeq(RangeHeads(x))
                         \o <<With(x, RangeRegs(x))>> \o RangeTails(x)
        /\ index' = index + 1
        /\ vRegsId' = VRegsAfter(RangeSize(x))
  BY <1>3, AdjustRangeDoes, Zenon
<1>5. /\ phase # "generate" /\ CInv /\ NInv /\ index \in 1 .. Len(code)
  BY <1>1 DEF AInv, CInv, Adjusting
<1>6. x.count = Len(x.regs) /\ Continuous(x)
  <2> DEFINE e == Expanded[index]
  <2>1. generated /\ x = Numbered(e) /\ IsVirtual(e)
    BY <1>4, <1>5, CodeVirtual DEF Current
  <2> HIDE DEF e
  <2>2. /\ x.op # "super" => x.count = Len(x.regs)
        /\ x.op \in {"range", "keys"} => Continuous(x)
    BY <1>5, <2>1, NumberedVirtual
  <2> QED
    BY <1>4, <2>2
<1>7. NumberedShape(x, M) /\ x = Current
  BY <1>2, <1>4
<1>8. VRegsAfter(RangeSize(x)) \in Nat /\ vRegsId <= VRegsAfter(RangeSize(x))
  <2>1. RangeSize(x) \in Nat
    <3>1. x.regs \in Seq(0 .. M - 1)
      BY <1>7 DEF NumberedShape
    <3>2. Len(x.regs) \in Nat
      BY <3>1
    <3>3. CASE x.op = "range"
      <4>1. Len(x.regs) >= 1 /\ Start(x) = 1
        BY <1>7, <3>3, Zenon DEF NumberedShape, Start
      <4> QED
        BY <3>2, <4>1 DEF RangeSize
    <3>4. CASE x.op = "keys"
      <4>1. Len(x.regs) >= 2 /\ Start(x) = 2
        BY <1>7, <3>4 DEF NumberedShape, Start
      <4> QED
        BY <3>2, <4>1 DEF RangeSize
    <3> QED
      BY <1>4, <3>3, <3>4
  <2> DEFINE n == RangeSize(x)
  <2> HIDE DEF n
  <2>2. n \in Nat
    BY <2>1 DEF n
  <2>3. VRegsAfter(n) \in Nat /\ vRegsId <= VRegsAfter(n)
    BY <1>2, <2>2, SpillsApart
  <2> QED
    BY <2>3 DEF n
<1> HIDE DEF M
<1>9. ASSUME ~Overlooked(Current), IsCode(newInsns)
      PROVE  Does(newInsns, newInsns', Current, M, vRegsId')
  <2>1. ~Overlooked(x)
    BY <1>7, <1>9
  <2>2. Does(newInsns, newInsns', x, M, VRegsAfter(RangeSize(x)))
    BY <1>2, <1>4, <1>6, <1>7, <1>9, <2>1, RangeDoes
  <2> QED
    BY <1>4, <1>7, <2>2
<1>10. vRegsId' \in Nat /\ vRegsId <= vRegsId'
  BY <1>4, <1>8
<1> QED
  BY <1>1, <1>4, <1>9, <1>10, SimulatedStep DEF M

-----------------------------------------------------------------------------
(* The parameters.                                                         *)

(* The moves before the code that has come out.                            *)
ParamMoves(p, V) == Reverse([i \in 1 .. p |-> Move(i - 1, V + i - 1)])

(* What the function is called with: the arguments in the first locals of  *)
(* the generated code, and in the last registers of the code that comes    *)
(* out, from V on.                                                         *)
CalledVirtual(A, p) ==
  [v \in Range(A) |-> IF Position(A, v) - 1 < p THEN <<"argument", (Position(A, v) - 1) + 1>>
                      ELSE <<"unset", 0>>]
CalledNumbered(p, V) ==
  [r \in 0 .. V + p - 1 |-> IF r >= V THEN <<"argument", r - V + 1>> ELSE <<"unset", 0>>]

(* The moves leave them in the first registers.                            *)
LEMMA ParametersMoved ==
  ASSUME NEW p \in Nat, NEW V \in Nat, p <= V
  PROVE  \E reg : /\ IsCode(ParamMoves(p, V))
                  /\ RunN(ParamMoves(p, V), CalledNumbered(p, V)) = Begun(reg)
                  /\ reg = [r \in 0 .. V + p - 1 |-> reg[r]]
                  /\ \A r \in 0 .. V - 1 :
                       reg[r] = IF r < p THEN <<"argument", r + 1>> ELSE <<"unset", 0>>
<1> DEFINE N == V + p
           q == ParamMoves(p, V)
           b == [i \in 1 .. p |-> Move(i - 1, V + i - 1)]
           start == CalledNumbered(p, V)
           tmp == [i \in 1 .. p |-> p - i]
           sp == [i \in 1 .. p |-> V + p - i]
           t == Begun(start)
<1>1. /\ \A i \in 1 .. p : tmp[i] = p - i /\ sp[i] = V + p - i
      /\ N \in Nat /\ V <= N
  OBVIOUS
<1>2. q = [i \in 1 .. p |-> Move(tmp[i], sp[i])]
  <2>1. b = [i \in 1 .. p |-> b[i]] /\ Len(b) = p
    OBVIOUS
  <2>2. q = [i \in 1 .. p |-> b[(p - i) + 1]]
    BY <2>1 DEF Reverse, ParamMoves
  <2>3. \A i \in 1 .. p : b[(p - i) + 1] = Move(tmp[i], sp[i])
    <3> SUFFICES ASSUME NEW i \in 1 .. p PROVE b[(p - i) + 1] = Move(tmp[i], sp[i])
      OBVIOUS
    <3>1. (p - i) + 1 \in 1 .. p
      OBVIOUS
    <3>2. b[(p - i) + 1] = Move(((p - i) + 1) - 1, V + ((p - i) + 1) - 1)
      BY <3>1
    <3>3. ((p - i) + 1) - 1 = p - i /\ V + ((p - i) + 1) - 1 = V + p - i
      OBVIOUS
    <3> QED
      BY <1>1, <3>2, <3>3
  <2> HIDE DEF b, q, tmp, sp
  <2> QED
    BY <2>2, <2>3
<1>3. /\ start = [r \in 0 .. N - 1 |-> start[r]]
      /\ \A r \in 0 .. N - 1 :
           start[r] = IF r >= V THEN <<"argument", r - V + 1>> ELSE <<"unset", 0>>
  BY DEF CalledNumbered
<1> HIDE DEF N, q, b, start, tmp, sp
<1>4. OnLoan(p, V, N, tmp, tmp, sp)
  <2>1. \A i \in 1 .. p : tmp[i] \in 0 .. V - 1 /\ sp[i] \in V .. N - 1
    BY <1>1 DEF N
  <2>2. \A i, k \in 1 .. p : (tmp[i] = tmp[k] \/ sp[i] = sp[k]) => i = k
    BY <1>1
  <2>3. \A i, k \in 1 .. p : k < i => tmp[i] # tmp[k]
    BY <1>1
  <2> QED
    BY <1>1, <2>1, <2>2, <2>3 DEF OnLoan
<1>5. q = <<>> \o FlattenSeq(Returning(p, tmp, sp)) /\ IsCode(q)
  <2>1. q = [i \in 1 .. p |-> q[i]] /\ \A i \in 1 .. p : q[i] = Move(tmp[i], sp[i])
    BY <1>2
  <2>2. FlattenSeq([i \in 1 .. p |-> <<q[i]>>]) = q
    BY <2>1, BlockEach
  <2>3. [i \in 1 .. p |-> <<q[i]>>] = Returning(p, tmp, sp)
    BY <2>1 DEF Returning
  <2>4. q \in Seq(Range(q))
    BY <2>1, ListSeq
  <2> DEFINE T == Range(q)
  <2> HIDE DEF T
  <2>5. <<>> \o q = q
    <3>1. q \in Seq(T)
      BY <2>4 DEF T
    <3> QED
      BY <3>1, ConcatEmptySeq
  <2> QED
    BY <2>2, <2>3, <2>4, <2>5 DEF IsCode
<1>6. RunN(<<>>, start) = t /\ IsState(t, 0 .. N - 1) /\ IsCode(<<>>)
      /\ t.reg = start /\ t.trace = <<>>
  <2>1. RunN(<<>>, start) = t /\ IsCode(<<>>)
    BY RunNEmpty, CodeOne
  <2>2. IsState(t, 0 .. N - 1) /\ t.reg = start /\ t.trace = <<>>
    BY <1>3 DEF IsState, Begun
  <2> QED
    BY <2>1, <2>2
<1> DEFINE w == RunN(q, start)
<1>7. GivenBack(t, w, N, p, tmp, sp)
  <2>1. GivenBack(RunN(<<>>, start), RunN(q, start), N, p, tmp, sp)
    <3>1. IsState(RunN(<<>>, start), 0 .. N - 1) /\ IsCode(<<>>)
      BY <1>6
    <3> QED
      BY <1>4, <1>5, <3>1, GiveAll
  <2> QED
    BY <1>6, <2>1
<1> HIDE DEF w, t
<1>8. /\ IsState(w, 0 .. N - 1) /\ w.trace = <<>>
      /\ \A i \in 1 .. p : w.reg[tmp[i]] = start[sp[i]]
      /\ \A r \in 0 .. N - 1 : (\A i \in 1 .. p : r # tmp[i]) => w.reg[r] = start[r]
  BY <1>6, <1>7 DEF GivenBack
<1>9. PICK reg, old : w = [reg |-> reg, trace |-> old] /\ reg = [r \in 0 .. N - 1 |-> reg[r]]
  BY <1>8 DEF IsState
<1>10. w = Begun(reg) /\ w.reg = reg
  BY <1>8, <1>9 DEF Begun
<1>11. ASSUME NEW r \in 0 .. V - 1
       PROVE  reg[r] = IF r < p THEN <<"argument", r + 1>> ELSE <<"unset", 0>>
  <2>1. CASE r < p
    <3>1. p - r \in 1 .. p /\ p - (p - r) = r /\ V + p - (p - r) = V + r
      BY <2>1
    <3>2. reg[r] = start[V + r]
      BY <1>1, <1>8, <1>10, <3>1, SMTT(60)
    <3>3. V + r \in 0 .. N - 1 /\ V + r >= V /\ V + r - V + 1 = r + 1
      BY <2>1 DEF N
    <3>4. start[V + r] = <<"argument", r + 1>>
      BY <1>3, <3>3
    <3> QED
      BY <2>1, <3>2, <3>4
  <2>2. CASE ~(r < p)
    <3>1. \A i \in 1 .. p : r # tmp[i]
      BY <1>1, <2>2
    <3>2. r \in 0 .. N - 1 /\ ~(r >= V)
      BY DEF N
    <3>3. reg[r] = start[r] /\ start[r] = <<"unset", 0>>
      BY <1>3, <1>8, <1>10, <3>1, <3>2
    <3> QED
      BY <2>2, <3>3
  <2> QED
    BY <2>1, <2>2
<1>12. /\ IsCode(q) /\ RunN(q, start) = Begun(reg)
       /\ reg = [r \in 0 .. V + p - 1 |-> reg[r]]
  BY <1>5, <1>9, <1>10 DEF w, N
<1> QED
  BY <1>11, <1>12, Zenon DEF q, start

(* What the code that comes out does, called with V registers before the   *)
(* arguments, is what the generated code does.                             *)
Outcome(program, A, p, out, V) ==
  \E N : Agree(A, RunV(program, CalledVirtual(A, p)), RunN(out, CalledNumbered(p, V)), N)

(* After the moves of the parameters the simulation begins with them.      *)
LEMMA ParametersOutcome ==
  ASSUME NInv, generated, NEW V \in Nat, Len(Allocated) <= V,
         NEW out, SimulatedBy(Expanded, Allocated, Len(Expanded), out, V)
  PROVE  Outcome(Expanded, Allocated, params, ParamMoves(params, V) \o out, V)
<1> DEFINE M == Len(Allocated)
           N == V + params
           more == ParamMoves(params, V)
           start == CalledNumbered(params, V)
           F(reg) == [v \in Range(Allocated) |-> reg[Position(Allocated, v) - 1]]
<1>1. /\ params \in Nat /\ params <= M /\ M \in Nat
      /\ \A v \in VRegs : Num(v) \in 0 .. M - 1
  BY AllocatedOnce, Numbers
<1>2. N \in Nat /\ V <= N /\ params <= V
  BY <1>1
<1>3. PICK reg : /\ IsCode(more) /\ RunN(more, start) = Begun(reg)
                 /\ reg = [r \in 0 .. N - 1 |-> reg[r]]
                 /\ \A r \in 0 .. V - 1 :
                      reg[r] = IF r < params THEN <<"argument", r + 1>> ELSE <<"unset", 0>>
  BY <1>1, <1>2, ParametersMoved, SMTT(60)
<1>4. F(reg) = CalledVirtual(Allocated, params)
  <2>1. \A v \in VRegs :
          reg[Num(v)] = IF Num(v) < params THEN <<"argument", Num(v) + 1>> ELSE <<"unset", 0>>
    <3>1. \A v \in VRegs : Num(v) \in 0 .. V - 1
      BY <1>1
    <3> QED
      BY <1>3, <3>1
  <2>2. F(reg) = [v \in VRegs |-> reg[Num(v)]]
    BY Zenon DEF VRegs, Num
  <2>3. CalledVirtual(Allocated, params)
          = [v \in VRegs |-> IF Num(v) < params THEN <<"argument", Num(v) + 1>>
                             ELSE <<"unset", 0>>]
    BY Zenon DEF CalledVirtual, VRegs, Num
  <2> HIDE DEF F
  <2> QED
    BY <2>1, <2>2, <2>3
<1>5. SubSeq(Expanded, 1, Len(Expanded)) = Expanded
  BY ExpandedVirtual, Beginnings
<1> HIDE DEF M, N, more, start, F
<1>6. Agree(Allocated, RunV(Expanded, F(reg)), RunN(out, reg), N)
  <2>1. /\ N \in Nat /\ V <= N /\ reg = [r \in 0 .. N - 1 |-> reg[r]]
    BY <1>2, <1>3, Zenon
  <2> HIDE DEF N
  <2>2. Agree(Allocated, RunV(SubSeq(Expanded, 1, Len(Expanded)), F(reg)), RunN(out, reg), N)
    BY <2>1, Zenon DEF SimulatedBy, F
  <2> QED
    BY <1>5, <2>2
<1>7. RunN(more \o out, start) = RunN(out, reg)
  <2>1. IsCode(out)
    BY Zenon DEF SimulatedBy
  <2>2. PICK S : more \in Seq(S) /\ out \in Seq(S)
    BY <1>3, <2>1, CodeSame
  <2> QED
    BY <1>3, <2>2, RunNConcat
<1>8. Agree(Allocated, RunV(Expanded, CalledVirtual(Allocated, params)),
            RunN(more \o out, start), N)
  BY <1>4, <1>6, <1>7
<1> QED
  BY <1>8, Zenon DEF Outcome, more, start

(* While instructions are adjusted what has come out simulates them; when  *)
(* the moves of the parameters are added, it does so for the function.     *)
SInv ==
  /\ AInv
  /\ phase = "adjust" => Simulated
  /\ phase = "done" /\ (\A k \in DOMAIN code : ~Overlooked(code[k])) =>
       \E V \in Nat : /\ vRegsId = V + params
                      /\ Outcome(Expanded, Allocated, params, newInsns, V)

(* The last step.                                                          *)
LEMMA ParametersSimulates ==
  ASSUME AInv, Simulated, Parameters, phase' = "done",
         \A k \in DOMAIN code : ~Overlooked(code[k])
  PROVE  \E V \in Nat : /\ vRegsId' = V + params
                        /\ Outcome(Expanded, Allocated, params, newInsns', V)
<1>1. /\ phase = "adjust" /\ index > Len(code)
      /\ newInsns' = ParamMoves(params, vRegsId) \o newInsns
      /\ vRegsId' = vRegsId + params
  <2>1. phase' # RunningOut
    BY PhaseNames
  <2> QED
    BY <2>1, Zenon DEF Parameters, ParamMoves
<1>2. /\ CInv /\ NInv /\ phase # "generate"
      /\ vRegsId \in Nat /\ Len(Allocated) <= vRegsId /\ index \in 1 .. Len(code) + 1
  BY <1>1 DEF AInv, CInv
<1>3. generated /\ Len(code) = Len(Expanded) /\ Len(code) \in Nat
  BY <1>2, CodeVirtual
<1>4. index - 1 = Len(Expanded)
  BY <1>1, <1>2, <1>3
<1>5. DOMAIN code = 1 .. Len(code)
  BY <1>2, CodeShapes
<1>6. SimulatedBy(Expanded, Allocated, Len(Expanded), newInsns, vRegsId)
  BY <1>3, <1>4, <1>5 DEF Simulated
<1>7. Outcome(Expanded, Allocated, params, ParamMoves(params, vRegsId) \o newInsns, vRegsId)
  BY <1>2, <1>3, <1>6, ParametersOutcome
<1> QED
  BY <1>1, <1>2, <1>7, Zenon

(* Every step keeps the simulation.                                        *)
LEMMA SimulationStep ==
  ASSUME RestTargets \subseteq {"binding"}, 4 <= LevelB, SInv, [Next]_vars
  PROVE  SInv'
<1>1. AInv /\ AInv'
  BY AllocationStep DEF SInv
<1>2. ASSUME phase' = "adjust"
      PROVE  Simulated'
  <2>1. CASE Allocate
    <3>1. /\ index' = 1 /\ vRegsId' = Len(Allocated) /\ UNCHANGED poolVars
          /\ UNCHANGED newInsns /\ generated /\ phase = "generate"
      BY <2>1 DEF Allocate
    <3>2. newInsns = <<>> /\ NInv
      BY <1>1, <3>1 DEF AInv, CInv
    <3>3. SimulatedBy(Expanded, Allocated, 0, <<>>, Len(Allocated))
      BY <3>1, <3>2, SimulatedNothing
    <3>4. Allocated' = Allocated /\ Expanded' = Expanded
      <4>1. UNCHANGED <<locals, params, callOpt, pool, needed, open, insns, generated>>
        BY <3>1 DEF poolVars
      <4>2. Allocated' = Allocated
        BY <3>1, ExpandedKept
      <4>3. Expanded' = Expanded
        BY <4>1, Zenon DEF Expanded, NeededCaches
      <4> QED
        BY <4>2, <4>3
    <3>5. index' - 1 = 0
      BY <3>1
    <3>6. SimulatedBy(Expanded', Allocated', index' - 1, newInsns', vRegsId')
      BY <3>1, <3>2, <3>3, <3>4, <3>5
    <3> QED
      BY <3>6 DEF Simulated
  <2>2. CASE Keep \/ KeepRange \/ Adjust \/ AdjustRange
    <3>1. phase = "adjust"
      BY <2>2 DEF Keep, KeepRange, Adjust, AdjustRange, Adjusting
    <3>2. Simulated
      BY <3>1 DEF SInv
    <3> QED
      BY <1>1, <1>2, <2>2, <3>2, KeepSimulates, AdjustSimulates, AdjustRangeSimulates
  <2>3. CASE Parameters
    BY <1>2, <2>3, PhaseNames DEF Parameters
  <2>4. CASE (Generate /\ UNCHANGED allocVars) \/ UNCHANGED vars
    <3>1. UNCHANGED allocVars /\ phase = "adjust"
      BY <1>2, <2>4 DEF allocVars, vars
    <3>2. ~Generate
      BY <1>1, <3>1, GenerateOpen DEF AInv, CInv
    <3>3. UNCHANGED poolVars /\ UNCHANGED <<code, index, newInsns, vRegsId>>
      BY <2>4, <3>1, <3>2 DEF vars, allocVars
    <3>4. Allocated' = Allocated /\ Expanded' = Expanded
      <4>1. UNCHANGED <<locals, params, callOpt, pool, needed, open, insns, generated>>
        BY <3>3 DEF poolVars
      <4>2. Allocated' = Allocated
        BY <3>3, ExpandedKept
      <4>3. Expanded' = Expanded
        BY <4>1, Zenon DEF Expanded, NeededCaches
      <4> QED
        BY <4>2, <4>3
    <3>5. Simulated
      BY <3>1 DEF SInv
    <3> QED
      BY <3>3, <3>4, <3>5 DEF Simulated
  <2> QED
    BY <2>1, <2>2, <2>3, <2>4 DEF Next, vars
<1>3. ASSUME phase' = "done", \A k \in DOMAIN code' : ~Overlooked(code'[k])
      PROVE  \E V \in Nat :
               /\ vRegsId' = V + params'
               /\ Outcome(Expanded', Allocated', params', newInsns', V)
  <2>1. CASE Parameters
    <3>1. UNCHANGED poolVars /\ UNCHANGED code /\ phase = "adjust"
      BY <2>1 DEF Parameters
    <3>2. Simulated
      BY <3>1 DEF SInv
    <3>3. /\ Allocated' = Allocated /\ Expanded' = Expanded /\ params' = params
      <4>1. UNCHANGED <<locals, params, callOpt, pool, needed, open, insns, generated>>
        BY <3>1 DEF poolVars
      <4>2. Allocated' = Allocated
        BY <3>1, ExpandedKept
      <4>3. Expanded' = Expanded
        BY <4>1, Zenon DEF Expanded, NeededCaches
      <4> QED
        BY <4>1, <4>2, <4>3
    <3>4. \A k \in DOMAIN code : ~Overlooked(code[k])
      BY <1>3, <3>1
    <3>5. \E V \in Nat : /\ vRegsId' = V + params
                         /\ Outcome(Expanded, Allocated, params, newInsns', V)
      BY <1>1, <1>3, <2>1, <3>2, <3>4, ParametersSimulates
    <3> QED
      BY <3>3, <3>5, Zenon
  <2>2. CASE UNCHANGED vars
    <3>1. /\ UNCHANGED <<locals, params, callOpt, pool, needed, open, insns, generated>>
          /\ UNCHANGED poolVars /\ UNCHANGED <<code, newInsns, vRegsId, phase>>
      BY <2>2 DEF vars, poolVars, allocVars
    <3>2. Allocated' = Allocated
      BY <3>1, ExpandedKept
    <3>3. Expanded' = Expanded
      BY <3>1, Zenon DEF Expanded, NeededCaches
    <3>4. phase = "done" /\ \A k \in DOMAIN code : ~Overlooked(code[k])
      BY <1>3, <3>1
    <3>5. \E V \in Nat : /\ vRegsId = V + params
                         /\ Outcome(Expanded, Allocated, params, newInsns, V)
      BY <3>4 DEF SInv
    <3> QED
      BY <3>1, <3>2, <3>3, <3>5, Zenon
  <2>3. CASE Generate /\ UNCHANGED allocVars
    <3>1. phase = "done"
      BY <1>3, <2>3 DEF allocVars
    <3> QED
      BY <1>1, <2>3, <3>1, GenerateOpen DEF AInv, CInv
  <2>4. CASE Allocate
    <3>1. phase' \in {"adjust", RunningOut}
      BY <2>4 DEF Allocate
    <3> QED
      BY <1>3, <3>1, PhaseNames
  <2>5. CASE Keep \/ KeepRange
    <3>1. phase' \in {"adjust", NotContinuous}
      BY <2>5 DEF Keep, KeepRange, Adjusting
    <3> QED
      BY <1>3, <3>1, PhaseNames
  <2>6. CASE Adjust
    <3>1. phase' \in {"adjust", NoTmp, RunningOut}
      <4>1. phase = "adjust"
        BY <2>6 DEF Adjust, Adjusting
      <4> QED
        BY <2>6, <4>1, Zenon DEF Adjust
    <3> QED
      BY <1>3, <3>1, PhaseNames
  <2>7. CASE AdjustRange
    <3>1. phase' \in {"adjust", RunningOut}
      <4>1. phase = "adjust"
        BY <2>7 DEF AdjustRange, Adjusting
      <4> QED
        BY <2>7, <4>1, Zenon DEF AdjustRange
    <3> QED
      BY <1>3, <3>1, PhaseNames
  <2> QED
    BY <2>1, <2>2, <2>3, <2>4, <2>5, <2>6, <2>7 DEF Next, vars
<1> QED
  BY <1>1, <1>2, <1>3 DEF SInv

(* The code that comes out of the allocator does what the generated code   *)
(* does: every instruction reads the values it was meant to read, and no   *)
(* register is left with a wrong value, whatever the numbers of registers  *)
(* that the formats can name; unless an instruction is one of those that   *)
(* the allocator overlooks.                                                *)
THEOREM FunctionKept ==
  ASSUME RestTargets \subseteq {"binding"}, 4 <= LevelB
  PROVE  Spec => []FunctionUnchanged
<1>1. Init => SInv
  <2> SUFFICES ASSUME Init PROVE SInv
    OBVIOUS
  <2>1. CInv /\ phase = "generate" /\ newInsns = <<>>
    BY InitNamed DEF Init, CInv
  <2> QED
    BY <2>1, FitOne, PhaseNames DEF SInv, AInv
<1>2. SInv /\ [Next]_vars => SInv'
  BY SimulationStep
<1>3. SInv => FunctionUnchanged
  <2> SUFFICES ASSUME SInv, phase = "done", \A k \in DOMAIN code : ~Overlooked(code[k])
               PROVE  FunctionUnchanged
    BY DEF FunctionUnchanged
  <2>1. PICK V \in Nat : /\ vRegsId = V + params
                         /\ Outcome(Expanded, Allocated, params, newInsns, V)
    BY DEF SInv
  <2>2. params \in Nat
    BY DEF SInv, AInv, CInv, NInv
  <2> DEFINE sv == [v \in VRegs |-> IF Num(v) < params THEN <<"argument", Num(v) + 1>>
                                    ELSE <<"unset", 0>>]
             first == vRegsId - params
             sn == [n \in 0 .. vRegsId - 1 |->
                      IF n >= first THEN <<"argument", n - first + 1>> ELSE <<"unset", 0>>]
             virtual == RunV(Expanded, sv)
             numbered == RunN(newInsns, sn)
  <2>3. CalledVirtual(Allocated, params) = sv
    BY Zenon DEF CalledVirtual, VRegs, Num
  <2>4. CalledNumbered(params, V) = sn
    <3> DEFINE C(last, f) ==
                 [n \in 0 .. last |-> IF n >= f THEN <<"argument", n - f + 1>> ELSE <<"unset", 0>>]
    <3>1. first = V /\ vRegsId - 1 = V + params - 1
      BY <2>1, <2>2
    <3>2. sn = C(vRegsId - 1, first) /\ CalledNumbered(params, V) = C(V + params - 1, V)
      BY Zenon DEF CalledNumbered
    <3> HIDE DEF first, sn, C
    <3> QED
      BY <3>1, <3>2
  <2> HIDE DEF sv, sn, first
  <2>5. PICK N : Agree(Allocated, virtual, numbered, N)
    BY <2>1, <2>3, <2>4, Zenon DEF Outcome
  <2> HIDE DEF virtual, numbered
  <2>6. /\ virtual.trace = numbered.trace
        /\ \A v \in VRegs : virtual.reg[v] = numbered.reg[Num(v)]
    BY <2>5, AgreeNames
  <2> QED
    BY <2>6, Zenon DEF FunctionUnchanged, virtual, numbered, sv, sn, first, RunV, RunN
<1> QED
  BY <1>1, <1>2, <1>3, PTL DEF Spec

=============================================================================
