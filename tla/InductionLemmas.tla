--------------------------- MODULE InductionLemmas ---------------------------
(***************************************************************************)
(* Induction over natural numbers, stated with sets so that it can be      *)
(* cited with any predicate, and what it gives about sequences that are    *)
(* put together one element, or one block, at a time.                      *)
(***************************************************************************)
EXTENDS Integers, SequencesExt, SequenceTheorems, WellFoundedInduction,
        NaturalsInduction, TLAPS

(* A set of natural numbers that is not empty has a least element.         *)
LEMMA LeastNatural ==
  ASSUME NEW S \in SUBSET Nat, S # {}
  PROVE  \E n \in S : \A m \in S : n <= m
<1>1. IsWellFoundedOn(OpToRel(<, Nat), Nat)
  BY NatLessThanWellFounded
<1>2. PICK x \in S : \A y \in S : ~ (<<y, x>> \in OpToRel(<, Nat))
  BY <1>1, WFMin
<1>3. \A y \in S : ~ (y < x)
  BY <1>2 DEF OpToRel
<1> QED
  BY <1>3

(* A set that has 0 and with each number the next one has all of them.     *)
LEMMA SetInduction ==
  ASSUME NEW S \in SUBSET Nat, 0 \in S, \A n \in Nat : n \in S => n + 1 \in S
  PROVE  S = Nat
<1>1. SUFFICES ASSUME Nat \ S # {} PROVE FALSE
  OBVIOUS
<1>2. PICK n \in Nat \ S : \A m \in Nat \ S : n <= m
  BY <1>1, LeastNatural
<1>3. n # 0 /\ n - 1 \in Nat /\ n - 1 \in S
  BY <1>2
<1> QED
  BY <1>3

-----------------------------------------------------------------------------
(* Sequences.                                                              *)

(* Beginnings of a sequence: none, one element more, all of it.            *)
LEMMA Beginnings ==
  ASSUME NEW S, NEW q \in Seq(S)
  PROVE  /\ SubSeq(q, 1, 0) = <<>>
         /\ \A m \in 0 .. Len(q) - 1 :
              /\ SubSeq(q, 1, m) \in Seq(S)
              /\ q[m + 1] \in S
              /\ SubSeq(q, 1, m + 1) = Append(SubSeq(q, 1, m), q[m + 1])
         /\ SubSeq(q, 1, Len(q)) = q
<1>1. Len(q) \in Nat /\ \A i \in 1 .. Len(q) : q[i] \in S
  BY LenProperties, ElementOfSeq
<1>2. SubSeq(q, 1, 0) = <<>>
  BY SubSeqEmpty
<1>3. SubSeq(q, 1, Len(q)) = q
  BY SubSeqFull
<1>4. ASSUME NEW m \in 0 .. Len(q) - 1
      PROVE  /\ SubSeq(q, 1, m) \in Seq(S)
             /\ q[m + 1] \in S
             /\ SubSeq(q, 1, m + 1) = Append(SubSeq(q, 1, m), q[m + 1])
  <2> DEFINE a == SubSeq(q, 1, m)
             b == SubSeq(q, 1, m + 1)
  <2>1. /\ a \in Seq(S) /\ Len(a) = m
        /\ \A i \in 1 .. m : a[i] = q[i]
    <3>1. \A i \in 1 .. m : q[i] \in S
      BY <1>1
    <3>2. /\ a \in Seq(S) /\ Len(a) = IF 1 <= m THEN m - 1 + 1 ELSE 0
          /\ \A i \in 1 .. m - 1 + 1 : a[i] = q[1 + i - 1]
      BY <3>1, SubSeqProperties
    <3>3. \A i \in 1 .. m : i \in 1 .. m - 1 + 1 /\ 1 + i - 1 = i
      OBVIOUS
    <3> QED
      BY <3>2, <3>3
  <2>2. /\ b \in Seq(S) /\ Len(b) = m + 1
        /\ \A i \in 1 .. m + 1 : b[i] = q[i]
    <3>1. \A i \in 1 .. m + 1 : q[i] \in S
      BY <1>1
    <3>2. /\ b \in Seq(S) /\ Len(b) = IF 1 <= m + 1 THEN m + 1 - 1 + 1 ELSE 0
          /\ \A i \in 1 .. m + 1 - 1 + 1 : b[i] = q[1 + i - 1]
      BY <3>1, SubSeqProperties
    <3>3. \A i \in 1 .. m + 1 : i \in 1 .. m + 1 - 1 + 1 /\ 1 + i - 1 = i
      OBVIOUS
    <3> QED
      BY <3>2, <3>3
  <2>3. q[m + 1] \in S
    BY <1>1
  <2> HIDE DEF a, b
  <2>4. /\ Append(a, q[m + 1]) \in Seq(S) /\ Len(Append(a, q[m + 1])) = m + 1
        /\ \A i \in 1 .. m : Append(a, q[m + 1])[i] = a[i]
        /\ Append(a, q[m + 1])[m + 1] = q[m + 1]
    BY <2>1, <2>3, AppendProperties
  <2>5. b = Append(a, q[m + 1])
    BY <2>1, <2>2, <2>4, SeqEqual
  <2> QED
    BY <2>1, <2>3, <2>5 DEF a, b
<1> QED
  BY <1>2, <1>3, <1>4

(* Appending to the second of two sequences that are put together.         *)
LEMMA ConcatAppend ==
  ASSUME NEW S, NEW p \in Seq(S), NEW q \in Seq(S), NEW x \in S
  PROVE  p \o Append(q, x) = Append(p \o q, x)
<1>1. Append(q, x) = q \o <<x>> /\ <<x>> \in Seq(S)
  BY AppendIsConcat
<1>2. p \o q \in Seq(S)
  BY ConcatProperties
<1>3. Append(p \o q, x) = (p \o q) \o <<x>>
  BY <1>2, AppendIsConcat
<1> QED
  BY <1>1, <1>3

-----------------------------------------------------------------------------
(* FlattenSeq: the blocks of a sequence, one after the other.              *)

(* What has been put together after each of n blocks.                      *)
Part(f, seqs, i) == IF i = 1 THEN seqs[i] ELSE f[i - 1] \o seqs[i]
Flat(f, seqs, n) == f = [i \in 1 .. n |-> Part(f, seqs, i)]

(* The equation for one block.                                             *)
LEMMA FlatStep ==
  ASSUME NEW f, NEW seqs, NEW n, Flat(f, seqs, n)
  PROVE  \A i \in 1 .. n : f[i] = Part(f, seqs, i)
BY Zenon DEF Flat

(* It can be computed.                                                     *)
LEMMA FlatExists ==
  ASSUME NEW seqs
  PROVE  \A n \in Nat : \E f : Flat(f, seqs, n)
<1> DEFINE S == {n \in Nat : \E f : Flat(f, seqs, n)}
<1>1. 0 \in S
  <2>1. PICK f : f = [i \in 1 .. 0 |-> seqs[i]]
    OBVIOUS
  <2>2. Flat(f, seqs, 0)
    BY <2>1 DEF Flat
  <2> QED
    BY <2>2
<1>2. ASSUME NEW n \in Nat, n \in S
      PROVE  n + 1 \in S
  <2>1. PICK f : Flat(f, seqs, n)
    BY <1>2
  <2>2. PICK g : g = [i \in 1 .. n + 1 |->
                        IF i <= n THEN f[i]
                        ELSE Part(f, seqs, i)]
    OBVIOUS
  <2>3. \A i \in 1 .. n : g[i] = f[i]
    BY <2>2
  <2>4. ASSUME NEW i \in 1 .. n + 1
        PROVE  g[i] = Part(g, seqs, i)
    <3>1. CASE i <= n
      <4>1. g[i] = f[i] /\ (i # 1 => g[i - 1] = f[i - 1])
        BY <2>3, <3>1
      <4>2. f[i] = Part(f, seqs, i)
        BY <2>1, <3>1, FlatStep
      <4> QED
        BY <4>1, <4>2 DEF Part
    <3>2. CASE i = n + 1
      <4>1. g[i] = Part(f, seqs, i)
        BY <2>2, <3>2
      <4>2. i # 1 => g[i - 1] = f[i - 1]
        BY <2>3, <3>2
      <4> QED
        BY <4>1, <4>2 DEF Part
    <3> QED
      BY <3>1, <3>2
  <2>5. Flat(g, seqs, n + 1)
    <3>1. g = [i \in 1 .. n + 1 |-> g[i]]
      BY <2>2
    <3>2. PICK h : h = [i \in 1 .. n + 1 |-> Part(g, seqs, i)]
      OBVIOUS
    <3>3. \A i \in 1 .. n + 1 : h[i] = g[i]
      BY <2>4, <3>2
    <3>4. h = [i \in 1 .. n + 1 |-> h[i]]
      BY <3>2
    <3>5. g = h
      BY <3>1, <3>3, <3>4
    <3> QED
      BY <3>2, <3>5 DEF Flat
  <2> QED
    BY <2>5
<1> HIDE DEF S
<1>3. S = Nat
  <2>1. S \in SUBSET Nat
    BY DEF S
  <2> QED
    BY <1>1, <1>2, <2>1, SetInduction
<1> QED
  BY <1>3 DEF S

(* and is what FlattenSeq computes.                                        *)
LEMMA FlattenIsFlat ==
  ASSUME NEW seqs, Len(seqs) \in Nat \ {0}
  PROVE  \E f : Flat(f, seqs, Len(seqs)) /\ FlattenSeq(seqs) = f[Len(seqs)]
<1> DEFINE P(f) == f = [i \in 1 .. Len(seqs) |->
                         IF i = 1 THEN seqs[i] ELSE f[i - 1] \o seqs[i]]
<1>1. \E f : P(f)
  BY FlatExists DEF Flat, Part
<1>2. P(CHOOSE f : P(f))
  BY <1>1, Zenon
<1>3. FlattenSeq(seqs) = (CHOOSE f : P(f))[Len(seqs)]
  <2>1. Len(seqs) # 0
    OBVIOUS
  <2> QED
    BY <2>1, Zenon DEF FlattenSeq
<1> DEFINE f == CHOOSE f : P(f)
<1>4. P(f)
  BY <1>2
<1>5. FlattenSeq(seqs) = f[Len(seqs)]
  BY <1>3
<1> HIDE DEF f
<1>6. Flat(f, seqs, Len(seqs))
  BY <1>4, Zenon DEF Flat, Part
<1> QED
  BY <1>5, <1>6, Zenon

(* Nothing is put together from no blocks.                                 *)
LEMMA FlattenEmpty ==
  FlattenSeq(<<>>) = <<>>
BY DEF FlattenSeq

(* What has been put together before the last block.                       *)
LEMMA FlatAgree ==
  ASSUME NEW T, NEW seqs \in Seq(Seq(T)), NEW more, NEW n \in Nat, NEW m \in Nat,
         NEW f, NEW g, Flat(f, seqs, n), Flat(g, more, m), n <= m,
         n <= Len(seqs), \A i \in 1 .. n : more[i] = seqs[i]
  PROVE  \A i \in 1 .. n : f[i] = g[i] /\ f[i] \in Seq(T)
<1> DEFINE S == {i \in Nat : i \in 1 .. n => f[i] = g[i] /\ f[i] \in Seq(T)}
<1>1. 0 \in S
  OBVIOUS
<1>2. ASSUME NEW i \in Nat, i \in S
      PROVE  i + 1 \in S
  <2> SUFFICES ASSUME i + 1 \in 1 .. n
               PROVE  f[i + 1] = g[i + 1] /\ f[i + 1] \in Seq(T)
    OBVIOUS
  <2>1. seqs[i + 1] \in Seq(T) /\ more[i + 1] = seqs[i + 1]
    OBVIOUS
  <2>2. /\ f[i + 1] = IF i + 1 = 1 THEN seqs[i + 1] ELSE f[i] \o seqs[i + 1]
        /\ g[i + 1] = IF i + 1 = 1 THEN more[i + 1] ELSE g[i] \o more[i + 1]
    <3>1. i + 1 \in 1 .. n /\ i + 1 \in 1 .. m /\ i + 1 - 1 = i
      OBVIOUS
    <3>2. f[i + 1] = Part(f, seqs, i + 1) /\ g[i + 1] = Part(g, more, i + 1)
      BY <3>1, FlatStep
    <3> QED
      BY <3>1, <3>2 DEF Part
  <2>3. CASE i = 0
    BY <2>1, <2>2, <2>3
  <2>4. CASE i # 0
    <3>1. f[i] = g[i] /\ f[i] \in Seq(T)
      BY <1>2, <2>4
    <3>2. f[i] \o seqs[i + 1] \in Seq(T)
      BY <2>1, <3>1, ConcatProperties
    <3> QED
      BY <2>1, <2>2, <2>4, <3>1, <3>2
  <2> QED
    BY <2>3, <2>4
<1> HIDE DEF S
<1>3. S = Nat
  <2>1. S \in SUBSET Nat
    BY DEF S
  <2> QED
    BY <1>1, <1>2, <2>1, SetInduction
<1>4. \A i \in 1 .. n : i \in Nat
  OBVIOUS
<1> QED
  BY <1>3, <1>4 DEF S

(* One block more.                                                         *)
LEMMA FlattenAppend ==
  ASSUME NEW T, NEW seqs \in Seq(Seq(T)), NEW b \in Seq(T)
  PROVE  /\ FlattenSeq(seqs) \in Seq(T)
         /\ FlattenSeq(Append(seqs, b)) = FlattenSeq(seqs) \o b
<1> DEFINE n == Len(seqs)
           more == Append(seqs, b)
<1>1. /\ n \in Nat /\ Len(more) = n + 1
      /\ \A i \in 1 .. n : more[i] = seqs[i]
      /\ more[n + 1] = b
  BY LenProperties, AppendProperties
<1>2. PICK g : Flat(g, more, n + 1) /\ FlattenSeq(more) = g[n + 1]
  <2> HIDE DEF more, n
  <2>1. Len(more) \in Nat \ {0}
    BY <1>1
  <2> QED
    BY <1>1, <2>1, FlattenIsFlat
<1>3. g[n + 1] = IF n + 1 = 1 THEN more[n + 1] ELSE g[n] \o more[n + 1]
  <2> HIDE DEF more, n
  <2>1. n + 1 \in 1 .. n + 1 /\ n + 1 - 1 = n
    BY <1>1
  <2>2. g[n + 1] = Part(g, more, n + 1)
    BY <1>2, <2>1, FlatStep
  <2> QED
    BY <1>1, <2>1, <2>2 DEF Part
<1>4. CASE n = 0
  <2>1. seqs = <<>>
    BY <1>4, EmptySeq
  <2>2. FlattenSeq(seqs) = <<>>
    BY <2>1, FlattenEmpty
  <2>3. g[n + 1] = b
    <3> HIDE DEF more, n
    <3> QED
      BY <1>1, <1>3, <1>4
  <2>4. <<>> \o b = b /\ <<>> \in Seq(T)
    BY ConcatEmptySeq
  <2> QED
    BY <1>2, <2>2, <2>3, <2>4
<1>5. CASE n # 0
  <2>1. PICK f : Flat(f, seqs, n) /\ FlattenSeq(seqs) = f[n]
    <3>1. Len(seqs) \in Nat \ {0}
      BY <1>1, <1>5
    <3> QED
      BY <3>1, FlattenIsFlat
  <2> HIDE DEF more, n
  <2>2. n <= n + 1 /\ n <= Len(seqs) /\ n \in 1 .. n /\ n + 1 \in Nat
    BY <1>1, <1>5 DEF n
  <2>3. \A i \in 1 .. n : f[i] = g[i] /\ f[i] \in Seq(T)
    <3>1. n \in Nat /\ \A i \in 1 .. n : more[i] = seqs[i]
      BY <1>1
    <3>2. ASSUME NEW m \in Nat, m = n + 1, NEW k \in Nat, k = n
          PROVE  \A i \in 1 .. k : f[i] = g[i] /\ f[i] \in Seq(T)
      <4>1. Flat(f, seqs, k) /\ Flat(g, more, m) /\ k <= m /\ k <= Len(seqs)
            /\ \A i \in 1 .. k : more[i] = seqs[i]
        BY <1>2, <2>1, <2>2, <3>1, <3>2
      <4> QED
        BY <4>1, FlatAgree
    <3> QED
      BY <2>2, <3>1, <3>2
  <2>4. g[n + 1] = g[n] \o b
    BY <1>1, <1>3, <1>5
  <2> QED
    BY <1>2, <2>1, <2>2, <2>3, <2>4 DEF more
<1> QED
  BY <1>4, <1>5

-----------------------------------------------------------------------------
(* A set that has the empty sequence and with each sequence those that are *)
(* one element longer has all of them.                                     *)
LEMMA SeqInduction ==
  ASSUME NEW S, NEW A \in SUBSET Seq(S), <<>> \in A,
         \A s \in Seq(S), e \in S : s \in A => Append(s, e) \in A
  PROVE  A = Seq(S)
<1> SUFFICES ASSUME NEW q \in Seq(S)
             PROVE  q \in A
  OBVIOUS
<1> DEFINE N == {m \in Nat : m <= Len(q) => SubSeq(q, 1, m) \in A}
<1>0. Len(q) \in Nat
  BY LenProperties
<1>1. 0 \in N
  <2>1. SubSeq(q, 1, 0) = <<>>
    BY Beginnings
  <2> QED
    BY <2>1
<1>2. ASSUME NEW m \in Nat, m \in N, m + 1 <= Len(q)
      PROVE  SubSeq(q, 1, m + 1) \in A
  <2>1. m \in 0 .. Len(q) - 1 /\ m <= Len(q)
    BY <1>0, <1>2
  <2>2. SubSeq(q, 1, m) \in A
    BY <1>2, <2>1
  <2>3. /\ SubSeq(q, 1, m) \in Seq(S) /\ q[m + 1] \in S
        /\ SubSeq(q, 1, m + 1) = Append(SubSeq(q, 1, m), q[m + 1])
    BY <2>1, Beginnings
  <2> QED
    BY <2>2, <2>3
<1>3. N = Nat
  <2>1. N \in SUBSET Nat
    OBVIOUS
  <2>2. \A m \in Nat : m \in N <=> (m <= Len(q) => SubSeq(q, 1, m) \in A)
    OBVIOUS
  <2>3. \A m \in Nat : m \in N /\ m + 1 <= Len(q) => SubSeq(q, 1, m + 1) \in A
    BY <1>2
  <2> HIDE DEF N
  <2>4. \A m \in Nat : m \in N => m + 1 \in N
    <3> SUFFICES ASSUME NEW m \in Nat, m \in N
                 PROVE  m + 1 \in N
      OBVIOUS
    <3>1. m + 1 \in Nat
      OBVIOUS
    <3>2. m + 1 <= Len(q) => SubSeq(q, 1, m + 1) \in A
      BY <2>3
    <3> QED
      BY <2>2, <3>1, <3>2
  <2> QED
    BY <1>1, <2>1, <2>4, SetInduction
<1>4. Len(q) <= Len(q)
  BY <1>0
<1>5. SubSeq(q, 1, Len(q)) \in A
  BY <1>0, <1>3, <1>4
<1> QED
  BY <1>5, Beginnings

(* Concatenation by name: the provers take an equation of sequences apart. *)
Cat(p, q) == p \o q

(* It does not matter which of three sequences are put together first.     *)
LEMMA CatAssociative ==
  ASSUME NEW T, NEW p \in Seq(T), NEW q \in Seq(T), NEW r \in Seq(T)
  PROVE  Cat(Cat(p, q), r) = Cat(p, Cat(q, r))
BY ConcatAssociative, SMTT(60) DEF Cat

(* The blocks of two sequences.                                            *)
LEMMA FlattenConcat ==
  ASSUME NEW T, NEW a \in Seq(Seq(T)), NEW b \in Seq(Seq(T))
  PROVE  /\ FlattenSeq(a) \in Seq(T) /\ FlattenSeq(b) \in Seq(T)
         /\ FlattenSeq(a \o b) = FlattenSeq(a) \o FlattenSeq(b)
<1> DEFINE A == {s \in Seq(Seq(T)) : FlattenSeq(a \o s) = FlattenSeq(a) \o FlattenSeq(s)}
<1>0. \A s \in Seq(Seq(T)) : FlattenSeq(s) \in Seq(T)
  <2>1. <<>> \in Seq(T)
    OBVIOUS
  <2> QED
    BY <2>1, FlattenAppend
<1>1. <<>> \in A
  <2>1. <<>> \in Seq(Seq(T)) /\ a \o <<>> = a
    BY ConcatEmptySeq, EmptySeq
  <2>2. FlattenSeq(a) \o <<>> = FlattenSeq(a)
    BY <1>0, ConcatEmptySeq
  <2> QED
    BY <2>1, <2>2, FlattenEmpty
<1>2. ASSUME NEW s \in Seq(Seq(T)), NEW e \in Seq(T), s \in A
      PROVE  Append(s, e) \in A
  <2>1. Append(s, e) \in Seq(Seq(T))
    BY AppendProperties
  <2>2. a \o Append(s, e) = Append(a \o s, e) /\ a \o s \in Seq(Seq(T))
    BY ConcatAppend, ConcatProperties, SMTT(60)
  <2>3. /\ FlattenSeq(Append(a \o s, e)) = FlattenSeq(a \o s) \o e
        /\ FlattenSeq(Append(s, e)) = FlattenSeq(s) \o e
    BY <2>2, FlattenAppend
  <2>4. FlattenSeq(a \o s) = FlattenSeq(a) \o FlattenSeq(s)
    BY <1>2
  <2>5. (FlattenSeq(a) \o FlattenSeq(s)) \o e = FlattenSeq(a) \o (FlattenSeq(s) \o e)
    <3>1. FlattenSeq(a) \in Seq(T) /\ FlattenSeq(s) \in Seq(T)
      BY <1>0
    <3>2. Cat(Cat(FlattenSeq(a), FlattenSeq(s)), e) = Cat(FlattenSeq(a), Cat(FlattenSeq(s), e))
      BY <3>1, CatAssociative
    <3> QED
      BY <3>2, Zenon DEF Cat
  <2> QED
    BY <2>1, <2>2, <2>3, <2>4, <2>5
<1>3. A = Seq(Seq(T))
  <2>1. A \in SUBSET Seq(Seq(T))
    OBVIOUS
  <2> HIDE DEF A
  <2> QED
    BY <1>1, <1>2, <2>1, SeqInduction
<1> QED
  BY <1>0, <1>3

(* One block.                                                              *)
LEMMA FlattenOne ==
  ASSUME NEW T, NEW b \in Seq(T)
  PROVE  FlattenSeq(<<b>>) = b
<1>1. <<>> \in Seq(Seq(T)) /\ Append(<<>>, b) = <<b>>
  BY EmptySeq
<1>2. FlattenSeq(<<b>>) = <<>> \o b
  BY <1>1, FlattenAppend, FlattenEmpty
<1> QED
  BY <1>2, ConcatEmptySeq

(* Blocks of one element.                                                  *)
LEMMA FlattenSingles ==
  ASSUME NEW T, NEW s \in Seq(T)
  PROVE  FlattenSeq([i \in 1 .. Len(s) |-> <<s[i]>>]) = s
<1> DEFINE B(q) == [i \in 1 .. Len(q) |-> <<q[i]>>]
           A == {q \in Seq(T) : FlattenSeq(B(q)) = q}
<1>1. <<>> \in A
  <2>1. B(<<>>) = <<>>
    OBVIOUS
  <2> QED
    BY <2>1, FlattenEmpty, EmptySeq
<1>2. ASSUME NEW q \in Seq(T), NEW e \in T, q \in A
      PROVE  Append(q, e) \in A
  <2> DEFINE p == Append(q, e)
  <2>1. /\ p \in Seq(T) /\ Len(p) = Len(q) + 1 /\ Len(q) \in Nat
        /\ \A i \in 1 .. Len(q) : p[i] = q[i]
        /\ p[Len(q) + 1] = e
    BY AppendProperties, LenProperties
  <2> HIDE DEF p
  <2>2. B(q) \in Seq(Seq(T)) /\ Len(B(q)) = Len(q)
    <3>1. \A i \in 1 .. Len(q) : <<q[i]>> \in Seq(T)
      BY ElementOfSeq
    <3> QED
      BY <2>1, <3>1
  <2>3. <<e>> \in Seq(T)
    OBVIOUS
  <2>4. B(p) = Append(B(q), <<e>>)
    <3>1. B(p) \in Seq(Seq(T)) /\ Len(B(p)) = Len(q) + 1
      <4>1. \A i \in 1 .. Len(p) : <<p[i]>> \in Seq(T)
        BY <2>1, ElementOfSeq
      <4> QED
        BY <2>1, <4>1
    <3>2. /\ Append(B(q), <<e>>) \in Seq(Seq(T)) /\ Len(Append(B(q), <<e>>)) = Len(q) + 1
          /\ \A i \in 1 .. Len(q) : Append(B(q), <<e>>)[i] = B(q)[i]
          /\ Append(B(q), <<e>>)[Len(q) + 1] = <<e>>
      <4> DEFINE bq == B(q)
                 l == Len(q)
      <4> HIDE DEF bq, l
      <4>1. bq \in Seq(Seq(T)) /\ Len(bq) = l
        BY <2>2 DEF bq, l
      <4>2. /\ Append(bq, <<e>>) \in Seq(Seq(T)) /\ Len(Append(bq, <<e>>)) = l + 1
            /\ \A i \in 1 .. l : Append(bq, <<e>>)[i] = bq[i]
            /\ Append(bq, <<e>>)[l + 1] = <<e>>
        BY <2>3, <4>1, AppendProperties
      <4> QED
        BY <4>2 DEF bq, l
    <3>3. \A i \in 1 .. Len(q) + 1 : B(p)[i] = Append(B(q), <<e>>)[i]
      <4> SUFFICES ASSUME NEW i \in 1 .. Len(q) + 1
                   PROVE  B(p)[i] = Append(B(q), <<e>>)[i]
        OBVIOUS
      <4>1. B(p)[i] = <<p[i]>>
        BY <2>1
      <4>2. CASE i \in 1 .. Len(q)
        <5>1. B(q)[i] = <<q[i]>>
          BY <4>2
        <5> QED
          BY <2>1, <3>2, <4>1, <4>2, <5>1
      <4>3. CASE i = Len(q) + 1
        BY <2>1, <3>2, <4>1, <4>3
      <4> QED
        BY <2>1, <4>2, <4>3
    <3> HIDE DEF B
    <3> QED
      BY <3>1, <3>2, <3>3, SeqEqual
  <2>5. FlattenSeq(B(p)) = FlattenSeq(B(q)) \o <<e>>
    <3> HIDE DEF B
    <3> QED
      BY <2>2, <2>3, <2>4, FlattenAppend
  <2>6. FlattenSeq(B(q)) = q
    BY <1>2
  <2>7. p = q \o <<e>>
    BY AppendIsConcat DEF p
  <2>8. FlattenSeq(B(p)) = p
    BY <2>5, <2>6, <2>7
  <2> QED
    BY <2>1, <2>8 DEF p
<1>3. A = Seq(T)
  <2>1. A \in SUBSET Seq(T)
    OBVIOUS
  <2> HIDE DEF A
  <2> QED
    BY <1>1, <1>2, <2>1, SeqInduction
<1> QED
  BY <1>3

-----------------------------------------------------------------------------
(* Every element of s replaced by the block that G has for it.             *)
Mapped(G, s) == FlattenSeq([i \in 1 .. Len(s) |-> G[s[i]]])

(* The blocks of a sequence, as a sequence of sequences.                   *)
LEMMA MappedBlocks ==
  ASSUME NEW S, NEW T, NEW G \in [S -> Seq(T)], NEW s \in Seq(S)
  PROVE  /\ [i \in 1 .. Len(s) |-> G[s[i]]] \in Seq(Seq(T))
         /\ Len([i \in 1 .. Len(s) |-> G[s[i]]]) = Len(s)
         /\ \A i \in 1 .. Len(s) : [j \in 1 .. Len(s) |-> G[s[j]]][i] = G[s[i]]
<1>1. \A i \in 1 .. Len(s) : G[s[i]] \in Seq(T)
  BY ElementOfSeq
<1>2. Len(s) \in Nat
  BY LenProperties
<1> QED
  BY <1>1, <1>2

(* The blocks of two sequences, of none, and of one element.               *)
LEMMA MappedConcat ==
  ASSUME NEW S, NEW T, NEW G \in [S -> Seq(T)]
  PROVE  /\ Mapped(G, <<>>) = <<>>
         /\ \A e \in S : Mapped(G, <<e>>) = G[e]
         /\ \A s \in Seq(S) : Mapped(G, s) \in Seq(T)
         /\ \A s, t \in Seq(S) : Mapped(G, s \o t) = Mapped(G, s) \o Mapped(G, t)
<1> DEFINE B(s) == [i \in 1 .. Len(s) |-> G[s[i]]]
<1>1. \A s \in Seq(S) : /\ B(s) \in Seq(Seq(T)) /\ Len(B(s)) = Len(s) /\ Len(s) \in Nat
                        /\ \A i \in 1 .. Len(s) : B(s)[i] = G[s[i]]
  BY MappedBlocks, LenProperties
<1>2. \A s : Mapped(G, s) = FlattenSeq(B(s))
  BY DEF Mapped
<1>3. B(<<>>) = <<>>
  OBVIOUS
<1>4. \A e \in S : B(<<e>>) = <<G[e]>>
  <2> SUFFICES ASSUME NEW e \in S
               PROVE  B(<<e>>) = <<G[e]>>
    OBVIOUS
  <2>1. <<e>> \in Seq(S) /\ Len(<<e>>) = 1 /\ <<e>>[1] = e
    OBVIOUS
  <2>2. <<G[e]>> \in Seq(Seq(T)) /\ Len(<<G[e]>>) = 1 /\ <<G[e]>>[1] = G[e]
    OBVIOUS
  <2>3. B(<<e>>) \in Seq(Seq(T)) /\ Len(B(<<e>>)) = 1 /\ B(<<e>>)[1] = G[e]
    BY <1>1, <2>1
  <2> HIDE DEF B
  <2> QED
    BY <2>2, <2>3, SeqEqual
<1> HIDE DEF B
<1>5. \A e \in S : Mapped(G, <<e>>) = G[e]
  <2> SUFFICES ASSUME NEW e \in S
               PROVE  Mapped(G, <<e>>) = G[e]
    OBVIOUS
  <2>1. G[e] \in Seq(T)
    OBVIOUS
  <2> QED
    BY <1>2, <1>4, <2>1, FlattenOne
<1>6. ASSUME NEW s \in Seq(S), NEW t \in Seq(S)
      PROVE  B(s \o t) = B(s) \o B(t)
  <2>1. /\ s \o t \in Seq(S) /\ Len(s \o t) = Len(s) + Len(t)
        /\ \A i \in 1 .. Len(s) + Len(t) :
             (s \o t)[i] = IF i <= Len(s) THEN s[i] ELSE t[i - Len(s)]
    BY ConcatProperties
  <2>2. /\ B(s) \o B(t) \in Seq(Seq(T)) /\ Len(B(s) \o B(t)) = Len(s) + Len(t)
        /\ \A i \in 1 .. Len(s) + Len(t) :
             (B(s) \o B(t))[i] = IF i <= Len(s) THEN B(s)[i] ELSE B(t)[i - Len(s)]
    <3>1. B(s) \in Seq(Seq(T)) /\ B(t) \in Seq(Seq(T)) /\ Len(B(s)) = Len(s) /\ Len(B(t)) = Len(t)
      BY <1>1
    <3> DEFINE p == B(s)
               q == B(t)
    <3> HIDE DEF p, q
    <3>2. p \in Seq(Seq(T)) /\ q \in Seq(Seq(T)) /\ Len(p) = Len(s) /\ Len(q) = Len(t)
      BY <3>1 DEF p, q
    <3>3. /\ p \o q \in Seq(Seq(T)) /\ Len(p \o q) = Len(p) + Len(q)
          /\ \A i \in 1 .. Len(p) + Len(q) : (p \o q)[i] = IF i <= Len(p) THEN p[i] ELSE q[i - Len(p)]
      BY <3>2, ConcatProperties
    <3> QED
      BY <3>2, <3>3 DEF p, q
  <2>3. \A i \in 1 .. Len(s) + Len(t) : B(s \o t)[i] = (B(s) \o B(t))[i]
    <3> SUFFICES ASSUME NEW i \in 1 .. Len(s) + Len(t)
                 PROVE  B(s \o t)[i] = (B(s) \o B(t))[i]
      OBVIOUS
    <3>1. Len(s) \in Nat /\ Len(t) \in Nat
      BY <1>1
    <3>2. B(s \o t)[i] = G[(s \o t)[i]]
      BY <1>1, <2>1
    <3>3. CASE i <= Len(s)
      <4>1. i \in 1 .. Len(s)
        BY <3>1, <3>3
      <4>2. B(s)[i] = G[s[i]] /\ (s \o t)[i] = s[i]
        BY <1>1, <2>1, <3>3, <4>1
      <4> QED
        BY <2>2, <3>2, <3>3, <4>2
    <3>4. CASE ~(i <= Len(s))
      <4>1. i - Len(s) \in 1 .. Len(t)
        BY <3>1, <3>4
      <4>2. B(t)[i - Len(s)] = G[t[i - Len(s)]] /\ (s \o t)[i] = t[i - Len(s)]
        BY <1>1, <2>1, <3>4, <4>1
      <4> QED
        BY <2>2, <3>2, <3>4, <4>2
    <3> QED
      BY <3>3, <3>4
  <2>4. B(s \o t) \in Seq(Seq(T)) /\ Len(B(s \o t)) = Len(s) + Len(t)
    BY <1>1, <2>1
  <2> DEFINE p == B(s \o t)
             q == B(s) \o B(t)
  <2>5. /\ p \in Seq(Seq(T)) /\ q \in Seq(Seq(T)) /\ Len(p) = Len(q)
        /\ \A i \in 1 .. Len(p) : p[i] = q[i]
    BY <2>2, <2>3, <2>4
  <2> HIDE DEF p, q
  <2>6. p = q
    BY <2>5, SeqEqual
  <2> QED
    BY <2>6 DEF p, q
<1>7. ASSUME NEW s \in Seq(S), NEW t \in Seq(S)
      PROVE  Mapped(G, s) \in Seq(T) /\ Mapped(G, s \o t) = Mapped(G, s) \o Mapped(G, t)
  <2> DEFINE p == B(s)
             q == B(t)
             r == B(s \o t)
  <2>1. p \in Seq(Seq(T)) /\ q \in Seq(Seq(T)) /\ r = p \o q
    BY <1>1, <1>6
  <2>2. Mapped(G, s) = FlattenSeq(p) /\ Mapped(G, t) = FlattenSeq(q)
        /\ Mapped(G, s \o t) = FlattenSeq(r)
    BY <1>2
  <2> HIDE DEF p, q, r
  <2>3. FlattenSeq(p) \in Seq(T) /\ FlattenSeq(r) = FlattenSeq(p) \o FlattenSeq(q)
    BY <2>1, FlattenConcat
  <2> QED
    BY <2>2, <2>3
<1>8. Mapped(G, <<>>) = <<>>
  BY <1>2, <1>3, FlattenEmpty
<1> QED
  BY <1>5, <1>7, <1>8

(* The same for a G that is known by name.                                 *)
BlocksOf(G, S, T) == G \in [S -> Seq(T)]

(* The blocks of two sequences one after the other.                        *)
LEMMA MappedTwo ==
  ASSUME NEW S, NEW T, NEW G, BlocksOf(G, S, T), NEW s \in Seq(S), NEW t \in Seq(S)
  PROVE  Mapped(G, s \o t) = Mapped(G, s) \o Mapped(G, t)
<1>1. G \in [S -> Seq(T)]
  BY DEF BlocksOf
<1> QED
  BY <1>1, MappedConcat

=============================================================================
