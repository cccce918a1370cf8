------------------------- MODULE RegisterPoolProofs -------------------------
(***************************************************************************)
(* Proofs about RegisterPool and RegAllocator, for any number of           *)
(* registers, any nesting and any order of the expressions: registers are  *)
(* given back in the reverse of the order in which they were taken, so     *)
(* that the arguments of a call always are consecutive registers - as long *)
(* as no rest property is stored to a property of an object.               *)
(***************************************************************************)
EXTENDS RegAllocator, FiniteSetTheorems, SequenceTheorems, TLAPS

(* n registers from the (a + 1)st on.                                      *)
Run(a, n) == [i \in 1 .. n |-> a + i]

(* The registers of the open expressions are the first t, in order.        *)
StackedBy(o, b, t) ==
  /\ b \in [1 .. Len(o) + 1 -> Nat]
  /\ b[1] = 0 /\ b[Len(o) + 1] = t
  /\ \A k \in 1 .. Len(o) :
       /\ b[k] <= b[k + 1]
       /\ o[k].regs = Run(b[k], b[k + 1] - b[k])
Stacked(o, t) == \E b : StackedBy(o, b, t)

(* The free registers are the others, in order.                            *)
PoolAt(p, t) ==
  \E d \in Nat : p = [free |-> Run(t, d), made |-> t + d]

-----------------------------------------------------------------------------
(* Runs of registers.                                                      *)

(* A run is a sequence of numbers.                                         *)
LEMMA RunSeq ==
  ASSUME NEW a \in Nat, NEW n \in Nat
  PROVE  /\ Run(a, n) \in Seq(Nat)
         /\ Len(Run(a, n)) = n
         /\ DOMAIN Run(a, n) = 1 .. n
         /\ \A i \in 1 .. n : Run(a, n)[i] = a + i
BY DEF Run

(* A run goes on where another one ends.                                   *)
LEMMA RunConcat ==
  ASSUME NEW a \in Nat, NEW n \in Nat, NEW m \in Nat
  PROVE  Run(a, n) \o Run(a + n, m) = Run(a, n + m)
<1>0. a + n \in Nat /\ n + m \in Nat
  OBVIOUS
<1>1. /\ Run(a, n) \in Seq(Nat) /\ Len(Run(a, n)) = n
      /\ \A i \in 1 .. n : Run(a, n)[i] = a + i
  BY RunSeq
<1>2. /\ Run(a + n, m) \in Seq(Nat) /\ Len(Run(a + n, m)) = m
      /\ \A i \in 1 .. m : Run(a + n, m)[i] = a + n + i
  BY <1>0, RunSeq
<1>3. /\ Run(a, n + m) \in Seq(Nat) /\ Len(Run(a, n + m)) = n + m
      /\ \A i \in 1 .. n + m : Run(a, n + m)[i] = a + i
  BY <1>0, RunSeq
<1>4. /\ Run(a, n) \o Run(a + n, m) \in Seq(Nat)
      /\ Len(Run(a, n) \o Run(a + n, m)) = n + m
  <2>1. Len(Run(a, n) \o Run(a + n, m)) = n + m
    <3>1. Len(Run(a, n) \o Run(a + n, m)) = Len(Run(a, n)) + Len(Run(a + n, m))
      BY <1>1, <1>2, ConcatProperties
    <3> QED
      BY <1>1, <1>2, <3>1
  <2>2. Run(a, n) \o Run(a + n, m) \in Seq(Nat)
    BY <1>1, <1>2
  <2> QED
    BY <2>1, <2>2
<1>5. ASSUME NEW i \in 1 .. n + m
      PROVE  (Run(a, n) \o Run(a + n, m))[i] = a + i
  <2>1. CASE i <= n
    <3>1. (Run(a, n) \o Run(a + n, m))[i] = Run(a, n)[i]
      BY <2>1, <1>1, <1>2, <1>5
    <3> QED
      BY <2>1, <3>1, <1>1
  <2>2. CASE ~(i <= n)
    <3>1. (Run(a, n) \o Run(a + n, m))[i] = Run(a + n, m)[i - n]
      BY <2>2, <1>1, <1>2, <1>5, SMTT(60)
    <3>2. i - n \in 1 .. m /\ a + n + (i - n) = a + i
      BY <2>2
    <3>3. Run(a + n, m)[i - n] = a + n + (i - n)
      BY <3>2, <1>2
    <3> QED
      BY <3>1, <3>2, <3>3
  <2> QED
    BY <2>1, <2>2
<1> QED
  BY <1>3, <1>4, <1>5, SeqEqual

(* A part of a run is a run.                                               *)
LEMMA RunPart ==
  ASSUME NEW a \in Nat, NEW n \in Nat, NEW i \in 1 .. n + 1, NEW j \in 0 .. n,
         i <= j + 1
  PROVE  SubSeq(Run(a, n), i, j) = Run(a + i - 1, j - i + 1)
<1>0. a + i - 1 \in Nat /\ j - i + 1 \in Nat
  OBVIOUS
<1>1. /\ Run(a, n) \in Seq(Nat) /\ Len(Run(a, n)) = n
      /\ \A k \in 1 .. n : Run(a, n)[k] = a + k
  BY RunSeq
<1>2. /\ Run(a + i - 1, j - i + 1) \in Seq(Nat)
      /\ Len(Run(a + i - 1, j - i + 1)) = j - i + 1
      /\ \A k \in 1 .. j - i + 1 :
           Run(a + i - 1, j - i + 1)[k] = a + i - 1 + k
  BY <1>0, RunSeq
<1>3. /\ SubSeq(Run(a, n), i, j) \in Seq(Nat)
      /\ Len(SubSeq(Run(a, n), i, j)) = j - i + 1
      /\ \A k \in 1 .. j - i + 1 : SubSeq(Run(a, n), i, j)[k] = Run(a, n)[i + k - 1]
  <2>1. \A k \in i .. j : Run(a, n)[k] \in Nat
    BY <1>1
  <2> QED
    BY <2>1, SubSeqProperties
<1>4. ASSUME NEW k \in 1 .. j - i + 1
      PROVE  SubSeq(Run(a, n), i, j)[k] = Run(a + i - 1, j - i + 1)[k]
  BY <1>1, <1>2, <1>3, <1>4
<1> QED
  BY <1>2, <1>3, <1>4, SeqEqual

-----------------------------------------------------------------------------
(* The pool.                                                               *)

(* getTemp returns the registers that come next.                           *)
LEMMA TakenNext ==
  ASSUME NEW p, NEW t \in Nat, NEW n \in Nat, PoolAt(p, t)
  PROVE  /\ Taken(p, n) = Run(t, n)
         /\ PoolAt(After(p, n), t + n)
         /\ p.made <= After(p, n).made
<1>1. PICK d \in Nat : p = [free |-> Run(t, d), made |-> t + d]
  BY DEF PoolAt
<1>2. /\ Run(t, d) \in Seq(Nat) /\ Len(Run(t, d)) = d
      /\ \A i \in 1 .. d : Run(t, d)[i] = t + i
  BY RunSeq
<1>3. /\ p.free = Run(t, d) /\ p.made = t + d
  BY <1>1
<1>4. After(p, n) =
        [free |-> SubSeq(Run(t, d), n + 1, d),
         made |-> IF n > d THEN (t + d) + n - d ELSE t + d]
  <2>1. Len(p.free) = d
    BY <1>2, <1>3
  <2> QED
    BY <1>3, <2>1 DEF After
<1>7. Taken(p, n) = Run(t, n)
  <2>1. ASSUME NEW i \in 1 .. n
        PROVE  (IF i <= d THEN Run(t, d)[i] ELSE (t + d) + i - d) = t + i
    BY <1>2, <2>1
  <2> QED
    BY <1>2, <1>3, <2>1 DEF Taken, Run
<1>5. CASE n <= d
  <2>1. /\ d - n \in Nat /\ n + 1 \in 1 .. d + 1
        /\ t + (n + 1) - 1 = t + n /\ d - (n + 1) + 1 = d - n
        /\ t + d = t + n + (d - n)
    BY <1>5
  <2>2. SubSeq(Run(t, d), n + 1, d) = Run(t + n, d - n)
    <3> DEFINE i == n + 1
    <3>1. i \in 1 .. d + 1 /\ d \in 0 .. d /\ i <= d + 1
      BY <2>1
    <3>2. t + i - 1 = t + n /\ d - i + 1 = d - n
      BY <2>1
    <3> HIDE DEF i
    <3>3. SubSeq(Run(t, d), i, d) = Run(t + i - 1, d - i + 1)
      BY <3>1, RunPart
    <3> QED
      BY <3>2, <3>3 DEF i
  <2>3. After(p, n) = [free |-> Run(t + n, d - n), made |-> t + n + (d - n)]
    <3>1. (IF n > d THEN (t + d) + n - d ELSE t + d) = t + n + (d - n)
      BY <1>5
    <3> QED
      BY <1>4, <2>2, <3>1
  <2> QED
    BY <1>3, <1>7, <2>1, <2>3 DEF PoolAt
<1>6. CASE n > d
  <2>1. SubSeq(Run(t, d), n + 1, d) = Run(t + n, 0)
    BY <1>6, SubSeqEmpty DEF Run
  <2>2. After(p, n) = [free |-> Run(t + n, 0), made |-> t + n + 0]
    <3>1. (IF n > d THEN (t + d) + n - d ELSE t + d) = t + n + 0
      BY <1>6
    <3> QED
      BY <1>4, <2>1, <3>1
  <2>3. t + d <= t + n + 0
    BY <1>6
  <2> QED
    BY <1>3, <1>7, <2>2, <2>3 DEF PoolAt
<1> QED
  BY <1>5, <1>6

(* Registers that are given back in this order are the next ones again.    *)
LEMMA FreedNext ==
  ASSUME NEW p, NEW t \in Nat, NEW n \in Nat, PoolAt(p, t + n)
  PROVE  /\ PoolAt(Freed(p, Run(t, n)), t)
         /\ Freed(p, Run(t, n)).made = p.made
<1>1. PICK d \in Nat : p = [free |-> Run(t + n, d), made |-> t + n + d]
  BY DEF PoolAt
<1>2. Run(t, n) \o Run(t + n, d) = Run(t, n + d)
  BY RunConcat
<1>3. n + d \in Nat /\ t + n + d = t + (n + d)
  OBVIOUS
<1>4. Freed(p, Run(t, n)) = [free |-> Run(t, n + d), made |-> t + (n + d)]
  BY <1>1, <1>2, <1>3 DEF Freed
<1> QED
  BY <1>1, <1>3, <1>4 DEF PoolAt

(* The same, told by where they end.                                       *)
LEMMA FreedBack ==
  ASSUME NEW p, NEW t \in Nat, NEW u \in Nat, t <= u, PoolAt(p, u)
  PROVE  /\ PoolAt(Freed(p, Run(t, u - t)), t)
         /\ Freed(p, Run(t, u - t)).made = p.made
<1>1. u - t \in Nat /\ t + (u - t) = u
  OBVIOUS
<1> QED
  BY <1>1, FreedNext

-----------------------------------------------------------------------------
(* The open expressions.                                                   *)

(* An expression opens with the registers that come next.                  *)
LEMMA StackPush ==
  ASSUME NEW S, NEW o \in Seq(S), NEW t \in Nat, Stacked(o, t),
         NEW f \in S, NEW n \in Nat, f.regs = Run(t, n)
  PROVE  Stacked(Append(o, f), t + n)
<1>1. PICK b : StackedBy(o, b, t)
  BY DEF Stacked
<1> DEFINE c == [k \in 1 .. Len(o) + 2 |-> IF k <= Len(o) + 1 THEN b[k] ELSE t + n]
<1>2. /\ Len(Append(o, f)) = Len(o) + 1
      /\ Append(o, f)[Len(o) + 1] = f
      /\ \A k \in 1 .. Len(o) : Append(o, f)[k] = o[k]
      /\ Len(o) \in Nat
  OBVIOUS
<1>3. c \in [1 .. Len(Append(o, f)) + 1 -> Nat]
  BY <1>1, <1>2 DEF StackedBy
<1>4. c[1] = 0 /\ c[Len(Append(o, f)) + 1] = t + n
  BY <1>1, <1>2 DEF StackedBy
<1>5. ASSUME NEW k \in 1 .. Len(Append(o, f))
      PROVE  /\ c[k] <= c[k + 1]
             /\ Append(o, f)[k].regs = Run(c[k], c[k + 1] - c[k])
  <2>1. CASE k <= Len(o)
    <3>1. /\ c[k] = b[k] /\ c[k + 1] = b[k + 1]
      BY <2>1, <1>2, <1>5
    <3> QED
      BY <2>1, <3>1, <1>1, <1>2, <1>5 DEF StackedBy
  <2>2. CASE k = Len(o) + 1
    <3>1. c[k] = t /\ c[k + 1] = t + n
      BY <2>2, <1>1, <1>2, <1>5 DEF StackedBy
    <3>2. c[k + 1] - c[k] = n
      BY <3>1
    <3> QED
      BY <2>2, <3>1, <3>2, <1>2
  <2> QED
    BY <2>1, <2>2, <1>2, <1>5
<1>6. StackedBy(Append(o, f), c, t + n)
  BY <1>3, <1>4, <1>5 DEF StackedBy
<1> QED
  BY <1>6 DEF Stacked

(* The innermost expression has the last registers.                        *)
LEMMA StackTop ==
  ASSUME NEW S, NEW o \in Seq(S), NEW t \in Nat, Stacked(o, t), o # <<>>
  PROVE  \E s \in Nat : /\ s <= t
                        /\ o[Len(o)].regs = Run(s, t - s)
                        /\ Stacked(Front(o), s)
<1>1. PICK b : StackedBy(o, b, t)
  BY DEF Stacked
<1>2. /\ Len(o) \in Nat \ {0}
      /\ Front(o) \in Seq(S)
      /\ Len(Front(o)) = Len(o) - 1
      /\ \A k \in 1 .. Len(o) - 1 : Front(o)[k] = o[k]
  <2>1. Len(o) \in Nat \ {0}
    BY EmptySeq
  <2>2. \A k \in 1 .. Len(o) - 1 : o[k] \in S
    BY <2>1, ElementOfSeq
  <2>3. /\ Front(o) \in Seq(S)
        /\ Len(Front(o)) = IF 1 <= Len(o) - 1 THEN Len(o) - 1 - 1 + 1 ELSE 0
        /\ \A k \in 1 .. Len(o) - 1 - 1 + 1 : Front(o)[k] = o[1 + k - 1]
    BY <2>1, <2>2, SubSeqProperties DEF Front
  <2>4. \A k \in 1 .. Len(o) - 1 : k \in 1 .. Len(o) - 1 - 1 + 1 /\ 1 + k - 1 = k
    BY <2>1
  <2>5. Len(Front(o)) = Len(o) - 1
    <3>1. ASSUME NEW n \in Nat \ {0}
          PROVE  (IF 1 <= n - 1 THEN n - 1 - 1 + 1 ELSE 0) = n - 1
      OBVIOUS
    <3> QED
      BY <2>1, <2>3, <3>1
  <2>6. \A k \in 1 .. Len(o) - 1 : Front(o)[k] = o[k]
    BY <2>3, <2>4
  <2> QED
    BY <2>1, <2>3, <2>5, <2>6
<1> DEFINE s == b[Len(o)]
           c == [k \in 1 .. Len(o) |-> b[k]]
<1>3. s \in Nat /\ s <= t /\ o[Len(o)].regs = Run(s, t - s)
  BY <1>1, <1>2 DEF StackedBy
<1>4. StackedBy(Front(o), c, s)
  <2>1. c \in [1 .. Len(Front(o)) + 1 -> Nat]
    BY <1>1, <1>2 DEF StackedBy
  <2>2. c[1] = 0 /\ c[Len(Front(o)) + 1] = s
    BY <1>1, <1>2 DEF StackedBy
  <2>3. ASSUME NEW k \in 1 .. Len(Front(o))
        PROVE  /\ c[k] <= c[k + 1]
               /\ Front(o)[k].regs = Run(c[k], c[k + 1] - c[k])
    <3>1. c[k] = b[k] /\ c[k + 1] = b[k + 1]
      BY <1>2, <2>3
    <3> QED
      BY <3>1, <1>1, <1>2, <2>3 DEF StackedBy
  <2> QED
    BY <2>1, <2>2, <2>3 DEF StackedBy
<1> QED
  BY <1>3, <1>4 DEF Stacked

-----------------------------------------------------------------------------
(* The order of registers.                                                 *)

Ordered(o, p) == \E t \in Nat : Stacked(o, t) /\ PoolAt(p, t)

(* The innermost expression has registers s + 1 to s + n.                  *)
TopAt(o, p, s, n) ==
  /\ o[Len(o)].regs = Run(s, n)
  /\ Stacked(Front(o), s)
  /\ PoolAt(p, s + n)

(* Where the registers of the innermost expression are.                    *)
LEMMA OrderTop ==
  ASSUME NEW S, NEW o \in Seq(S), NEW p, Ordered(o, p), o # <<>>
  PROVE  \E s \in Nat, n \in Nat : TopAt(o, p, s, n)
<1>1. PICK t \in Nat : Stacked(o, t) /\ PoolAt(p, t)
  BY DEF Ordered
<1>2. PICK s \in Nat : /\ s <= t
                       /\ o[Len(o)].regs = Run(s, t - s)
                       /\ Stacked(Front(o), s)
  BY <1>1, StackTop
<1>3. t - s \in Nat /\ s + (t - s) = t
  BY <1>2
<1>4. TopAt(o, p, s, t - s)
  BY <1>1, <1>2, <1>3 DEF TopAt
<1> QED
  BY <1>3, <1>4

(* The outer expressions are still there without the innermost one.        *)
LEMMA FrontSeq ==
  ASSUME NEW S, NEW o \in Seq(S), o # <<>>
  PROVE  Front(o) \in Seq(S) /\ o[Len(o)] \in S
<1>1. Len(o) \in Nat \ {0}
  BY EmptySeq
<1>2. \A k \in 1 .. Len(o) : o[k] \in S
  BY <1>1, ElementOfSeq
<1>3. Front(o) \in Seq(S)
  BY <1>1, <1>2, SubSeqProperties DEF Front
<1> QED
  BY <1>1, <1>2, <1>3

(* An expression begins.                                                   *)
LEMMA OrderPush ==
  ASSUME NEW S, NEW o \in Seq(S), NEW p, NEW f \in S, NEW n \in Nat,
         Ordered(o, p), f.regs = Taken(p, n)
  PROVE  /\ Ordered(Append(o, f), After(p, n))
         /\ p.made <= After(p, n).made
<1>1. PICK t \in Nat : Stacked(o, t) /\ PoolAt(p, t)
  BY DEF Ordered
<1>2. /\ Taken(p, n) = Run(t, n)
      /\ PoolAt(After(p, n), t + n)
      /\ p.made <= After(p, n).made
  BY <1>1, TakenNext
<1>3. Stacked(Append(o, f), t + n)
  BY <1>1, <1>2, StackPush
<1>4. t + n \in Nat
  OBVIOUS
<1> QED
  BY <1>2, <1>3, <1>4 DEF Ordered

(* The innermost expression changes, and its registers are the last again. *)
LEMMA OrderBecomes ==
  ASSUME NEW S, NEW o \in Seq(S), o # <<>>, NEW p, NEW q, NEW f \in S,
         NEW s \in Nat, NEW n \in Nat, NEW m \in Nat,
         TopAt(o, p, s, n), PoolAt(q, s + m), f.regs = Run(s, m)
  PROVE  Ordered(Append(Front(o), f), q)
<1>1. Front(o) \in Seq(S)
  BY FrontSeq
<1>2. Stacked(Front(o), s)
  BY DEF TopAt
<1>3. Stacked(Append(Front(o), f), s + m)
  BY <1>1, <1>2, StackPush
<1>4. s + m \in Nat
  OBVIOUS
<1> QED
  BY <1>3, <1>4 DEF Ordered

(* The innermost expression ends and gives back its registers.             *)
LEMMA OrderEnd ==
  ASSUME NEW o, NEW p, NEW s \in Nat, NEW n \in Nat, TopAt(o, p, s, n)
  PROVE  /\ Ordered(Front(o), Freed(p, o[Len(o)].regs))
         /\ Freed(p, o[Len(o)].regs).made = p.made
<1>1. PoolAt(Freed(p, Run(s, n)), s) /\ Freed(p, Run(s, n)).made = p.made
  BY FreedNext DEF TopAt
<1> QED
  BY <1>1 DEF TopAt, Ordered

(* One more register.                                                      *)
LEMMA GrowTop ==
  ASSUME NEW o, NEW p, NEW s \in Nat, NEW n \in Nat, TopAt(o, p, s, n)
  PROVE  /\ o[Len(o)].regs \o Taken(p, 1) = Run(s, n + 1)
         /\ PoolAt(After(p, 1), s + (n + 1))
         /\ p.made <= After(p, 1).made
<1>1. s + n \in Nat /\ PoolAt(p, s + n) /\ o[Len(o)].regs = Run(s, n)
  BY DEF TopAt
<1>2. /\ Taken(p, 1) = Run(s + n, 1)
      /\ PoolAt(After(p, 1), s + n + 1)
      /\ p.made <= After(p, 1).made
  BY <1>1, TakenNext
<1>3. Run(s, n) \o Run(s + n, 1) = Run(s, n + 1)
  BY RunConcat
<1>4. s + n + 1 = s + (n + 1)
  OBVIOUS
<1> QED
  BY <1>1, <1>2, <1>3, <1>4

(* One register less.                                                      *)
LEMMA ShrinkTop ==
  ASSUME NEW o, NEW p, NEW s \in Nat, NEW n \in Nat, TopAt(o, p, s, n + 1)
  PROVE  /\ Front(o[Len(o)].regs) = Run(s, n)
         /\ Last(o[Len(o)].regs) = s + n + 1
         /\ Len(o[Len(o)].regs) = n + 1
         /\ PoolAt(Freed(p, <<s + n + 1>>), s + n)
         /\ Freed(p, <<s + n + 1>>).made = p.made
<1>1. o[Len(o)].regs = Run(s, n + 1) /\ PoolAt(p, s + n + 1)
  <2>1. s + (n + 1) = s + n + 1
    OBVIOUS
  <2> QED
    BY <2>1 DEF TopAt
<1>2. n + 1 \in Nat /\ s + n \in Nat
  OBVIOUS
<1>3. /\ Len(Run(s, n + 1)) = n + 1
      /\ \A i \in 1 .. n + 1 : Run(s, n + 1)[i] = s + i
  BY <1>2, RunSeq
<1>4. Last(Run(s, n + 1)) = s + n + 1
  BY <1>3 DEF Last
<1>5. Front(Run(s, n + 1)) = Run(s, n)
  <2>1. SubSeq(Run(s, n + 1), 1, n) = Run(s + 1 - 1, n - 1 + 1)
    <3>1. ASSUME NEW k \in Nat, n <= k
          PROVE  SubSeq(Run(s, k), 1, n) = Run(s + 1 - 1, n - 1 + 1)
      <4>1. 1 \in 1 .. k + 1 /\ n \in 0 .. k /\ 1 <= n + 1
        BY <3>1
      <4> QED
        BY <3>1, <4>1, RunPart
    <3> QED
      BY <3>1, <1>2
  <2>2. s + 1 - 1 = s /\ n - 1 + 1 = n /\ n + 1 - 1 = n
    OBVIOUS
  <2> QED
    BY <1>3, <2>1, <2>2 DEF Front
<1>6. <<s + n + 1>> = Run(s + n, 1)
  BY DEF Run
<1>7. /\ PoolAt(Freed(p, Run(s + n, 1)), s + n)
      /\ Freed(p, Run(s + n, 1)).made = p.made
  BY <1>1, <1>2, FreedNext
<1> QED
  BY <1>1, <1>3, <1>4, <1>5, <1>6, <1>7

-----------------------------------------------------------------------------
(* Instructions.                                                           *)

(* Arguments that must be consecutive are so, of the first m registers.    *)
ArgsFrom(insn, m, a) ==
  \A j \in Start(insn) .. Len(insn.args) :
    insn.args[j] = Temp(a + j) /\ 1 <= a + j /\ a + j <= m
ArgsOK(insn, m) ==
  insn.op \in {"range", "keys", "super"} => \E a \in Int : ArgsFrom(insn, m, a)

InsnsOK(ins, m) == \E S : ins \in Seq(S) /\ \A x \in S : ArgsOK(x, m)

(* Instructions are added while registers may be added.                    *)
LEMMA MoreInsns ==
  ASSUME NEW ins, NEW more, NEW m \in Nat, NEW k \in Nat, m <= k,
         InsnsOK(ins, m), InsnsOK(more, k)
  PROVE  InsnsOK(ins \o more, k)
<1>1. PICK S : ins \in Seq(S) /\ \A x \in S : ArgsOK(x, m)
  BY DEF InsnsOK
<1>2. PICK U : more \in Seq(U) /\ \A x \in U : ArgsOK(x, k)
  BY DEF InsnsOK
<1>3. ASSUME NEW x \in S
      PROVE  ArgsOK(x, k)
  <2>1. ArgsOK(x, m)
    BY <1>1
  <2>2. CASE x.op \in {"range", "keys", "super"}
    <3>1. PICK a \in Int : ArgsFrom(x, m, a)
      BY <2>1, <2>2 DEF ArgsOK
    <3>2. ArgsFrom(x, k, a)
      <4>1. ASSUME NEW j \in Start(x) .. Len(x.args)
            PROVE  x.args[j] = Temp(a + j) /\ 1 <= a + j /\ a + j <= k
        <5>1. x.args[j] = Temp(a + j) /\ 1 <= a + j /\ a + j <= m
          BY <3>1, <4>1 DEF ArgsFrom
        <5>2. j \in Int
          BY <4>1
        <5> QED
          BY <5>1, <5>2
      <4> QED
        BY <4>1 DEF ArgsFrom
    <3> QED
      BY <3>2 DEF ArgsOK
  <2> QED
    BY <2>2 DEF ArgsOK
<1>4. ins \in Seq(S \cup U) /\ more \in Seq(S \cup U)
  BY <1>1, <1>2
<1>5. ins \o more \in Seq(S \cup U)
  BY <1>4, ConcatProperties
<1>6. \A x \in S \cup U : ArgsOK(x, k)
  BY <1>2, <1>3
<1> QED
  BY <1>5, <1>6 DEF InsnsOK

(* Instructions without such arguments.                                    *)
Plain(x) == x.op \notin {"range", "keys", "super"}

(* What only stores, loads, uses or moves is without such arguments.       *)
LEMMA PlainOps ==
  ASSUME NEW v, NEW w
  PROVE  Plain(Sta(v)) /\ Plain(Lda(v)) /\ Plain(Use(v)) /\ Plain(Mov(v, w))
BY DEF Plain, Sta, Lda, Use, Mov, Insn

(* Up to five such instructions.                                           *)
LEMMA PlainCode ==
  ASSUME NEW m
  PROVE  /\ InsnsOK(<<>>, m)
         /\ \A x : Plain(x) => InsnsOK(<<x>>, m)
         /\ \A x, y : Plain(x) /\ Plain(y) => InsnsOK(<<x, y>>, m)
         /\ \A x, y, z : Plain(x) /\ Plain(y) /\ Plain(z) =>
                           InsnsOK(<<x, y, z>>, m)
         /\ \A x, y, z, u, v :
              Plain(x) /\ Plain(y) /\ Plain(z) /\ Plain(u) /\ Plain(v) =>
                InsnsOK(<<x, y, z, u, v>>, m)
<1>1. ASSUME NEW U, NEW more, more \in Seq(U), \A x \in U : Plain(x)
      PROVE  InsnsOK(more, m)
  BY <1>1 DEF InsnsOK, ArgsOK, Plain
<1>2. InsnsOK(<<>>, m)
  <2>1. PICK U, more : U = {} /\ more = <<>>
    OBVIOUS
  <2>2. more \in Seq(U) /\ \A w \in U : Plain(w)
    BY <2>1
  <2> QED
    BY <1>1, <2>1, <2>2
<1>3. ASSUME NEW x,
             Plain(x)
      PROVE  InsnsOK(<<x>>, m)
  <2>1. PICK U, more : U = {x} /\ more = <<x>>
    OBVIOUS
  <2>2. more \in Seq(U) /\ \A w \in U : Plain(w)
    BY <1>3, <2>1
  <2> QED
    BY <1>1, <2>1, <2>2
<1>4. ASSUME NEW x, NEW y,
             Plain(x), Plain(y)
      PROVE  InsnsOK(<<x, y>>, m)
  <2>1. PICK U, more : U = {x, y} /\ more = <<x, y>>
    OBVIOUS
  <2>2. more \in Seq(U) /\ \A w \in U : Plain(w)
    BY <1>4, <2>1
  <2> QED
    BY <1>1, <2>1, <2>2
<1>5. ASSUME NEW x, NEW y, NEW z,
             Plain(x), Plain(y), Plain(z)
      PROVE  InsnsOK(<<x, y, z>>, m)
  <2>1. PICK U, more : U = {x, y, z} /\ more = <<x, y, z>>
    OBVIOUS
  <2>2. more \in Seq(U) /\ \A w \in U : Plain(w)
    BY <1>5, <2>1
  <2> QED
    BY <1>1, <2>1, <2>2
<1>6. ASSUME NEW x, NEW y, NEW z, NEW u, NEW v,
             Plain(x), Plain(y), Plain(z), Plain(u), Plain(v)
      PROVE  InsnsOK(<<x, y, z, u, v>>, m)
  <2>1. PICK U, more : U = {x, y, z, u, v} /\ more = <<x, y, z, u, v>>
    OBVIOUS
  <2>2. more \in Seq(U) /\ \A w \in U : Plain(w)
    BY <1>6, <2>1
  <2> QED
    BY <1>1, <2>1, <2>2
<1> QED
  BY <1>2, <1>3, <1>4, <1>5, <1>6, Zenon

(* The registers of an expression are arguments as they should be.         *)
LEMMA ArgsRun ==
  ASSUME NEW insn, NEW s \in Nat, NEW n \in Nat, NEW m \in Nat, s + n <= m,
         insn.args = Temps(Run(s, n)), insn.op # "keys"
  PROVE  ArgsOK(insn, m)
<1>1. /\ DOMAIN Run(s, n) = 1 .. n
      /\ \A i \in 1 .. n : Run(s, n)[i] = s + i
  BY RunSeq
<1>2. insn.args = [i \in 1 .. n |-> Temp(Run(s, n)[i])]
  BY <1>1 DEF Temps
<1>3. Len(insn.args) = n /\ \A i \in 1 .. n : insn.args[i] = Temp(s + i)
  BY <1>1, <1>2
<1>4. Start(insn) = 1
  BY DEF Start
<1>5. ArgsFrom(insn, m, s)
  BY <1>3, <1>4 DEF ArgsFrom
<1> QED
  BY <1>5 DEF ArgsOK

-----------------------------------------------------------------------------
(* The invariant.                                                          *)

(* Expressions: those that give back part of their registers have them.    *)
ShapeOK(kind, step, len) ==
  /\ kind = "method" /\ step \in {0, 1} => len = 3
  /\ kind = "compound" => len = IF step = 2 THEN 3 ELSE 4
  /\ kind = "pattern" /\ step \in {1, 2} => len >= 1

Kinds ==
  {"binary", "call", "method", "new", "super", "compound", "pattern"}

Frames ==
  {f \in [kind : Kinds, regs : Seq(Nat), step : Nat, keys : Nat] :
     ShapeOK(f.kind, f.step, Len(f.regs))}

IInv ==
  /\ open \in Seq(Frames)
  /\ Ordered(open, pool)
  /\ InsnsOK(insns, pool.made)
  /\ generated => open = <<>>
  /\ IsFiniteSet(needed)
  /\ locals \in Seq(Range(locals))

(* What a step of the generation does to the registers, to the             *)
(* instructions and to the rest.                                           *)
Moved ==
  open' \in Seq(Frames) /\ Ordered(open', pool') /\ pool.made <= pool'.made
Written ==
  \E more : Emit(more) /\ InsnsOK(more, pool'.made)
Kept ==
  /\ generated' = generated
  /\ IsFiniteSet(needed')
  /\ locals' \in Seq(Range(locals'))

(* Registers that were made have numbers.                                  *)
LEMMA MadeNat ==
  ASSUME NEW o, NEW p, Ordered(o, p)
  PROVE  p.made \in Nat
<1>1. PICK t \in Nat : PoolAt(p, t)
  BY DEF Ordered
<1>2. PICK d \in Nat : p = [free |-> Run(t, d), made |-> t + d]
  BY <1>1 DEF PoolAt
<1>3. p.made = t + d
  BY <1>2
<1> QED
  BY <1>3

(* No register of an open expression or of the pool has not been made.     *)
LEMMA MadeAll ==
  ASSUME NEW p, NEW t \in Nat, PoolAt(p, t)
  PROVE  p.made \in Nat /\ t <= p.made
<1>1. PICK d \in Nat : p = [free |-> Run(t, d), made |-> t + d]
  BY DEF PoolAt
<1>2. p.made = t + d
  BY <1>1
<1> QED
  BY <1>2

(* Steps that move registers, write code and keep the rest as above.       *)
LEMMA StepKeeps ==
  ASSUME IInv, Moved, Written, Kept
  PROVE  IInv'
<1>1. PICK more : Emit(more) /\ InsnsOK(more, pool'.made)
  BY DEF Written
<1>2. insns' = insns \o more /\ ~generated
  BY <1>1 DEF Emit
<1>3. pool.made \in Nat
  BY MadeNat DEF IInv
<1>4. pool'.made \in Nat
  BY MadeNat DEF Moved
<1>5. InsnsOK(insns', pool'.made)
  BY <1>1, <1>2, <1>3, <1>4, MoreInsns DEF IInv, Moved
<1> QED
  BY <1>2, <1>5 DEF IInv, Moved, Kept

-----------------------------------------------------------------------------
(* Steps of an expression.                                                 *)

(* Expressions as they come to be, and what is known of one.              *)
LEMMA NewFrame ==
  ASSUME NEW kind \in Kinds, NEW regs \in Seq(Nat), NEW step \in Nat,
         NEW keys \in Nat, ShapeOK(kind, step, Len(regs))
  PROVE  [kind |-> kind, regs |-> regs, step |-> step, keys |-> keys] \in Frames
BY DEF Frames

(* It begins with n registers.                                             *)
LEMMA Begins ==
  ASSUME IInv, NEW kind \in Kinds, NEW n \in Nat,
         Begin(kind, Taken(pool, n)), pool' = After(pool, n),
         kind = "method" => n = 3, kind = "compound" => n = 4
  PROVE  Moved
<1> DEFINE f == [kind |-> kind, regs |-> Taken(pool, n), step |-> 0, keys |-> 0]
<1>1. PICK t \in Nat : PoolAt(pool, t)
  BY DEF IInv, Ordered
<1>2. Taken(pool, n) = Run(t, n)
  BY <1>1, TakenNext
<1>3. Taken(pool, n) \in Seq(Nat) /\ Len(Taken(pool, n)) = n
  BY <1>2, RunSeq
<1>4. f \in Frames
  <2>1. ShapeOK(kind, 0, Len(Taken(pool, n)))
    BY <1>3 DEF ShapeOK
  <2> QED
    BY <1>3, <2>1, NewFrame
<1>5. f.regs = Taken(pool, n)
  OBVIOUS
<1>6. open' = Append(open, f)
  BY DEF Begin
<1> HIDE DEF f
<1>7. open \in Seq(Frames) /\ Ordered(open, pool)
  BY DEF IInv
<1>8. Ordered(open', pool') /\ pool.made <= pool'.made
  BY <1>4, <1>5, <1>6, <1>7, OrderPush
<1>9. open' \in Seq(Frames)
  BY <1>4, <1>6, <1>7
<1> QED
  BY <1>8, <1>9 DEF Moved

(* The registers of the innermost expression, and the expression.          *)
LEMMA TopRegs ==
  ASSUME IInv, open # <<>>
  PROVE  /\ Top \in Frames /\ open[Len(open)] = Top
         /\ \E s \in Nat, n \in Nat :
              /\ TopAt(open, pool, s, n)
              /\ Top.regs = Run(s, n) /\ Len(Top.regs) = n
              /\ \A i \in 1 .. n : Top.regs[i] = s + i
              /\ PoolAt(pool, s + n)
              /\ pool.made \in Nat /\ s + n <= pool.made
<1>1. open \in Seq(Frames) /\ Ordered(open, pool)
  BY DEF IInv
<1>2. PICK s \in Nat, n \in Nat : TopAt(open, pool, s, n)
  BY <1>1, OrderTop
<1>3. Top \in Frames
  BY <1>1, FrontSeq DEF Top
<1>4. Top.regs = Run(s, n) /\ PoolAt(pool, s + n)
  BY <1>2 DEF TopAt, Top
<1>5. Len(Run(s, n)) = n /\ \A i \in 1 .. n : Run(s, n)[i] = s + i
  BY RunSeq
<1>6. pool.made \in Nat /\ s + n <= pool.made
  <2>1. s + n \in Nat
    OBVIOUS
  <2> QED
    BY <2>1, <1>4, MadeAll
<1>7. open[Len(open)] = Top
  BY DEF Top
<1> QED
  BY <1>2, <1>3, <1>4, <1>5, <1>6, <1>7

(* It goes on with the first m of its registers and the next ones.         *)
LEMMA GoesOn ==
  ASSUME IInv, open # <<>>, NEW step \in Nat, NEW regs, NEW keys \in Nat,
         Becomes(step, regs, keys),
         NEW s \in Nat, NEW n \in Nat, NEW m \in Nat,
         TopAt(open, pool, s, n), PoolAt(pool', s + m), regs = Run(s, m),
         ShapeOK(Top.kind, step, m), pool.made <= pool'.made
  PROVE  Moved
<1> DEFINE f == [kind |-> Top.kind, regs |-> regs, step |-> step, keys |-> keys]
<1>1. open \in Seq(Frames) /\ Top \in Frames
  BY TopRegs DEF IInv
<1>2. Front(open) \in Seq(Frames)
  BY <1>1, FrontSeq
<1>3. f \in Frames
  <2>1. regs \in Seq(Nat) /\ Len(regs) = m
    BY RunSeq
  <2>2. Top.kind \in Kinds
    BY <1>1 DEF Frames
  <2> QED
    BY <2>1, <2>2, NewFrame
<1>4. open' = Append(Front(open), f) /\ f.regs = Run(s, m)
  BY DEF Becomes
<1> HIDE DEF f
<1>5. open' \in Seq(Frames)
  BY <1>2, <1>3, <1>4
<1>6. Ordered(open', pool')
  BY <1>1, <1>3, <1>4, OrderBecomes
<1> QED
  BY <1>5, <1>6 DEF Moved

(* Its registers stay as they are.                                         *)
LEMMA StepMoves ==
  ASSUME IInv, open # <<>>, NEW st \in Nat, Step(st), pool' = pool,
         Top.kind = "method" => Top.step = 0 /\ st = 1,
         Top.kind = "compound" => Top.step = 0 /\ st = 1,
         Top.kind = "pattern" => Top.step = 1 /\ st = 2
  PROVE  Moved
<1>1. PICK s \in Nat, n \in Nat :
        /\ TopAt(open, pool, s, n)
        /\ Top.regs = Run(s, n) /\ Len(Top.regs) = n
        /\ PoolAt(pool, s + n)
        /\ pool.made \in Nat
  BY TopRegs
<1>2. Top \in Frames
  BY TopRegs
<1>3. Becomes(st, Top.regs, Top.keys) /\ Top.keys \in Nat
  BY <1>2 DEF Step, Frames
<1>4. ShapeOK(Top.kind, st, n)
  <2>1. ShapeOK(Top.kind, Top.step, n)
    BY <1>1, <1>2 DEF Frames
  <2> QED
    BY <2>1 DEF ShapeOK
<1>5. PoolAt(pool', s + n) /\ pool.made <= pool'.made
  BY <1>1
<1> QED
  BY <1>1, <1>3, <1>4, <1>5, GoesOn

(* It ends; what it borrowed for that moment came back first.              *)
LEMMA EndMoves ==
  ASSUME IInv, open # <<>>, End, NEW p, NEW s \in Nat, NEW n \in Nat,
         TopAt(open, p, s, n), pool.made <= p.made, pool' = Freed(p, Top.regs)
  PROVE  Moved
<1>1. open \in Seq(Frames)
  BY DEF IInv
<1>2. open' = Front(open) /\ Top = open[Len(open)]
  BY DEF End, Top
<1>3. open' \in Seq(Frames)
  BY <1>1, <1>2, FrontSeq
<1>4. Ordered(Front(open), Freed(p, open[Len(open)].regs))
      /\ Freed(p, open[Len(open)].regs).made = p.made
  BY OrderEnd
<1> QED
  BY <1>2, <1>3, <1>4 DEF Moved

(* A register that is taken and given back at once.                        *)
LEMMA Borrowed ==
  ASSUME NEW p, NEW t \in Nat, PoolAt(p, t)
  PROVE  /\ Taken(p, 1) = Run(t, 1)
         /\ PoolAt(Freed(After(p, 1), Taken(p, 1)), t)
         /\ Freed(After(p, 1), Taken(p, 1)).made = After(p, 1).made
         /\ p.made <= After(p, 1).made
         /\ After(p, 1).made \in Nat
         /\ t + 1 <= After(p, 1).made
<1>1. /\ Taken(p, 1) = Run(t, 1)
      /\ PoolAt(After(p, 1), t + 1)
      /\ p.made <= After(p, 1).made
  BY TakenNext
<1>2. /\ PoolAt(Freed(After(p, 1), Run(t, 1)), t)
      /\ Freed(After(p, 1), Run(t, 1)).made = After(p, 1).made
  BY <1>1, FreedNext
<1>3. t + 1 \in Nat
  OBVIOUS
<1>4. After(p, 1).made \in Nat /\ t + 1 <= After(p, 1).made
  BY <1>1, <1>3, MadeAll
<1> QED
  BY <1>1, <1>2, <1>4

(* The plain instructions of a step.                                       *)
LEMMA PlainWritten ==
  /\ Emit(<<>>) => Written
  /\ \A x : Plain(x) /\ Emit(<<x>>) => Written
  /\ \A x, y : Plain(x) /\ Plain(y) /\ Emit(<<x, y>>) => Written
  /\ \A x, y, z : Plain(x) /\ Plain(y) /\ Plain(z) /\ Emit(<<x, y, z>>) => Written
<1>1. ASSUME NEW more, Emit(more), InsnsOK(more, pool'.made)
      PROVE  Written
  BY <1>1 DEF Written
<1>2. ASSUME Emit(<<>>) PROVE Written
  <2>1. PICK more : more = <<>>
    OBVIOUS
  <2> QED
    BY <1>1, <1>2, <2>1, PlainCode
<1>3. ASSUME NEW x, Plain(x), Emit(<<x>>)
      PROVE  Written
  <2>1. PICK more : more = <<x>>
    OBVIOUS
  <2> QED
    BY <1>1, <1>3, <2>1, PlainCode
<1>4. ASSUME NEW x, NEW y, Plain(x), Plain(y), Emit(<<x, y>>)
      PROVE  Written
  <2>1. PICK more : more = <<x, y>>
    OBVIOUS
  <2> QED
    BY <1>1, <1>4, <2>1, PlainCode
<1>5. ASSUME NEW x, NEW y, NEW z, Plain(x), Plain(y), Plain(z), Emit(<<x, y, z>>)
      PROVE  Written
  <2>1. PICK more : more = <<x, y, z>>
    OBVIOUS
  <2> QED
    BY <1>1, <1>5, <2>1, PlainCode
<1> QED
  BY <1>2, <1>3, <1>4, <1>5

(* Instructions of a step that are put together.                           *)
LEMMA BothWritten ==
  ASSUME Moved, NEW a, NEW b, Emit(a \o b),
         InsnsOK(a, pool'.made), InsnsOK(b, pool'.made)
  PROVE  Written
<1>1. pool'.made \in Nat
  BY MadeNat DEF Moved
<1>2. InsnsOK(a \o b, pool'.made)
  BY <1>1, MoreInsns
<1> QED
  BY <1>2 DEF Written

(* A step that changes neither the caches nor the locals.                  *)
LEMMA SameKept ==
  ASSUME IInv, UNCHANGED <<locals, needed, generated>>
  PROVE  Kept
BY DEF IInv, Kept

(* A step that changes neither the pool nor the open expressions.          *)
LEMMA SameMoved ==
  ASSUME IInv, UNCHANGED <<open, pool>>
  PROVE  Moved
<1>1. pool.made \in Nat
  BY MadeNat DEF IInv
<1> QED
  BY <1>1 DEF IInv, Moved

(* A call of a range, or a super call, of the innermost expression.        *)
LEMMA RangeWritten ==
  ASSUME NEW insn, NEW s \in Nat, NEW n \in Nat, NEW m \in Nat, s + n <= m,
         insn.args = Temps(Run(s, n)), insn.op # "keys"
  PROVE  InsnsOK(<<insn>>, m)
<1>1. ArgsOK(insn, m)
  BY ArgsRun
<1>2. PICK U, more : U = {insn} /\ more = <<insn>>
  OBVIOUS
<1>3. more \in Seq(U) /\ \A x \in U : ArgsOK(x, m)
  BY <1>1, <1>2
<1> QED
  BY <1>2, <1>3 DEF InsnsOK

-----------------------------------------------------------------------------
(* The steps of the generation.                                            *)

(* The locals and the constants take no register.                          *)
LEMMA VariableStep ==
  ASSUME IInv, Variable
  PROVE  Moved /\ Written /\ Kept
<1>1. Moved
  BY SameMoved DEF Variable
<1>2. Kept
  BY SameKept DEF Variable
<1>3. Written
  <2>1. PICK i \in DOMAIN locals : Emit(<<Lda(Local(i))>>) \/ Emit(<<Sta(Local(i))>>)
    BY DEF Variable
  <2>2. Plain(Lda(Local(i))) /\ Plain(Sta(Local(i)))
    BY PlainOps
  <2> QED
    BY <2>1, <2>2, PlainWritten
<1> QED
  BY <1>1, <1>2, <1>3

(* A new local is appended to a sequence.                                  *)
LEMMA DeclareStep ==
  ASSUME IInv, Declare
  PROVE  Moved /\ Written /\ Kept
<1>1. Moved
  BY SameMoved DEF Declare
<1>2. Kept
  <2>1. locals \in Seq(Range(locals)) /\ locals' = Append(locals, Len(locals) + 1)
    BY DEF IInv, Declare
  <2>2. locals' \in Seq(Range(locals'))
    BY <2>1 DEF Range
  <2> QED
    BY <2>2 DEF IInv, Kept, Declare
<1>3. Written
  <2>1. Emit(<<Sta(Local(Len(locals) + 1))>>)
    BY DEF Declare
  <2>2. Plain(Sta(Local(Len(locals) + 1)))
    BY PlainOps
  <2> QED
    BY <2>1, <2>2, PlainWritten
<1> QED
  BY <1>1, <1>2, <1>3

(* Finitely many constants are cached.                                     *)
LEMMA ConstantStep ==
  ASSUME IInv, NEW c, Constant(c)
  PROVE  Moved /\ Written /\ Kept
<1>1. Moved
  BY SameMoved DEF Constant
<1>2. Kept
  <2>1. IsFiniteSet(needed \cup {c})
    BY FS_AddElement DEF IInv
  <2> QED
    BY <2>1 DEF IInv, Kept, Constant
<1>3. Written
  <2>1. Emit(<<Lda(Cache(c))>>)
    BY DEF Constant
  <2>2. Plain(Lda(Cache(c)))
    BY PlainOps
  <2> QED
    BY <2>1, <2>2, PlainWritten
<1> QED
  BY <1>1, <1>2, <1>3

(* left op right takes one register,                                       *)
LEMMA StartBinaryStep ==
  ASSUME IInv, StartBinary
  PROVE  Moved /\ Written /\ Kept
<1>1. Moved
  <2>1. Begin("binary", Taken(pool, 1)) /\ pool' = After(pool, 1)
    BY DEF StartBinary, Pool
  <2>2. 1 \in Nat /\ "binary" \in Kinds
        /\ "binary" # "method" /\ "binary" # "compound"
    BY DEF Kinds
  <2> QED
    BY <2>1, <2>2, Begins
<1>2. Kept
  BY SameKept DEF StartBinary
<1>3. Written
  BY PlainWritten DEF StartBinary
<1> QED
  BY <1>1, <1>2, <1>3

(* stores to it,                                                           *)
LEMMA BinaryLeftStep ==
  ASSUME IInv, BinaryLeft
  PROVE  Moved /\ Written /\ Kept
<1>1. Moved
  <2>1. open # <<>> /\ Top.kind = "binary" /\ Step(1) /\ pool' = pool
    BY DEF BinaryLeft, InTop
  <2> QED
    BY <2>1, StepMoves
<1>2. Kept
  BY SameKept DEF BinaryLeft
<1>3. Written
  BY PlainOps, PlainWritten DEF BinaryLeft
<1> QED
  BY <1>1, <1>2, <1>3

(* and gives it back.                                                      *)
LEMMA EndBinaryStep ==
  ASSUME IInv, EndBinary
  PROVE  Moved /\ Written /\ Kept
<1>1. Moved
  <2>1. open # <<>> /\ End /\ pool' = Freed(pool, Top.regs)
    BY DEF EndBinary, InTop, Pool
  <2>2. PICK s \in Nat, n \in Nat : TopAt(open, pool, s, n) /\ pool.made \in Nat
    BY <2>1, TopRegs
  <2> QED
    BY <2>1, <2>2, EndMoves
<1>2. Kept
  BY SameKept DEF EndBinary
<1>3. Written
  BY PlainOps, PlainWritten DEF EndBinary
<1> QED
  BY <1>1, <1>2, <1>3

(* A call takes registers for its callee, or for method, object and        *)
(* property;                                                               *)
LEMMA StartCallStep ==
  ASSUME IInv, NEW passThis \in BOOLEAN, StartCall(passThis)
  PROVE  Moved /\ Written /\ Kept
<1>1. Moved
  <2>1. CASE passThis
    <3>1. Begin("method", Taken(pool, 3)) /\ pool' = After(pool, 3)
      BY <2>1 DEF StartCall, Pool
    <3>2. 3 \in Nat /\ "method" \in Kinds /\ "method" # "compound"
      BY DEF Kinds
    <3> QED
      BY <3>1, <3>2, Begins
  <2>2. CASE ~passThis
    <3>1. Begin("call", Taken(pool, 1)) /\ pool' = After(pool, 1)
      BY <2>2 DEF StartCall, Pool
    <3>2. 1 \in Nat /\ "call" \in Kinds /\ "call" # "method" /\ "call" # "compound"
      BY DEF Kinds
    <3> QED
      BY <3>1, <3>2, Begins
  <2> QED
    BY <2>1, <2>2
<1>2. Kept
  BY SameKept DEF StartCall
<1>3. Written
  BY PlainWritten DEF StartCall
<1> QED
  BY <1>1, <1>2, <1>3

(* new for its constructor, twice;                                         *)
LEMMA StartNewStep ==
  ASSUME IInv, StartNew
  PROVE  Moved /\ Written /\ Kept
<1>1. Moved
  <2>1. Begin("new", Taken(pool, 2)) /\ pool' = After(pool, 2)
    BY DEF StartNew, Pool
  <2>2. 2 \in Nat /\ "new" \in Kinds
        /\ ("new" = "method" => 2 = 3) /\ ("new" = "compound" => 2 = 4)
    BY DEF Kinds
  <2> QED
    BY <2>1, <2>2, Begins
<1>2. Kept
  BY SameKept DEF StartNew
<1>3. Written
  BY PlainWritten DEF StartNew
<1> QED
  BY <1>1, <1>2, <1>3

(* an assignment for its reference, with two to compute it in.             *)
LEMMA StartCompoundStep ==
  ASSUME IInv, StartCompound
  PROVE  Moved /\ Written /\ Kept
<1>1. Moved
  <2>1. Begin("compound", Taken(pool, 4)) /\ pool' = After(pool, 4)
    BY DEF StartCompound, Pool
  <2>2. 4 \in Nat /\ "compound" \in Kinds
        /\ ("compound" = "method" => 4 = 3) /\ ("compound" = "compound" => 4 = 4)
    BY DEF Kinds
  <2> QED
    BY <2>1, <2>2, Begins
<1>2. Kept
  BY SameKept DEF StartCompound
<1>3. Written
  BY PlainWritten DEF StartCompound
<1> QED
  BY <1>1, <1>2, <1>3

(* A super call begins without a register.                                 *)
LEMMA StartSuperStep ==
  ASSUME IInv, StartSuper
  PROVE  Moved /\ Written /\ Kept
<1>1. Moved
  <2>1. After(pool, 0) = pool /\ Taken(pool, 0) = <<>>
    <3>1. PICK t \in Nat : PoolAt(pool, t)
      BY DEF IInv, Ordered
    <3>2. PICK d \in Nat : pool = [free |-> Run(t, d), made |-> t + d]
      BY <3>1 DEF PoolAt
    <3>3. Run(t, d) \in Seq(Nat) /\ Len(Run(t, d)) = d
      BY RunSeq
    <3>4. SubSeq(Run(t, d), 1, d) = Run(t, d)
      BY <3>3
    <3>5. After(pool, 0) = [free |-> Run(t, d), made |-> t + d]
      BY <3>2, <3>3, <3>4, SMTT(60) DEF After
    <3>6. Taken(pool, 0) = <<>>
      BY DEF Taken
    <3> QED
      BY <3>2, <3>5, <3>6
  <2> DEFINE f == [kind |-> "super", regs |-> <<>>, step |-> 2, keys |-> 0]
  <2>2. f \in Frames /\ f.regs = Taken(pool, 0)
    <3>1. ShapeOK("super", 2, Len(<<>>))
      BY DEF ShapeOK
    <3>2. <<>> \in Seq(Nat) /\ 2 \in Nat /\ 0 \in Nat /\ "super" \in Kinds
      BY DEF Kinds
    <3>3. f \in Frames
      BY <3>1, <3>2, NewFrame
    <3> QED
      BY <2>1, <3>3
  <2>3. open' = Append(open, f) /\ pool' = pool
    BY DEF StartSuper
  <2> HIDE DEF f
  <2>4. open \in Seq(Frames) /\ Ordered(open, pool)
    BY DEF IInv
  <2>5. Ordered(open', pool') /\ pool.made <= pool'.made
    BY <2>1, <2>2, <2>3, <2>4, OrderPush
  <2>6. open' \in Seq(Frames)
    BY <2>2, <2>3, <2>4
  <2> QED
    BY <2>5, <2>6 DEF Moved
<1>2. Kept
  BY SameKept DEF StartSuper
<1>3. Written
  BY PlainWritten DEF StartSuper
<1> QED
  BY <1>1, <1>2, <1>3

(* The object of a method is stored.                                       *)
LEMMA ReceiverStep ==
  ASSUME IInv, Receiver
  PROVE  Moved /\ Written /\ Kept
<1>1. Moved
  <2>1. open # <<>> /\ Top.kind = "method" /\ Top.step = 0 /\ Step(1) /\ pool' = pool
    BY DEF Receiver, InTop
  <2> QED
    BY <2>1, StepMoves
<1>2. Kept
  BY SameKept DEF Receiver
<1>3. Written
  BY PlainOps, PlainWritten DEF Receiver
<1> QED
  BY <1>1, <1>2, <1>3

(* What a step gives back is the last register of the innermost expression.*)
LEMMA GivesBack ==
  ASSUME IInv, open # <<>>, NEW n \in Nat, Len(Top.regs) = n + 1,
         NEW step \in Nat, Becomes(step, Front(Top.regs), Top.keys),
         pool' = Freed(pool, <<Last(Top.regs)>>), ShapeOK(Top.kind, step, n)
  PROVE  Moved
<1>1. PICK s \in Nat, k \in Nat :
        /\ TopAt(open, pool, s, k) /\ Len(Top.regs) = k
        /\ pool.made \in Nat
  BY TopRegs
<1>2. k = n + 1 /\ open[Len(open)] = Top /\ Top \in Frames
  BY <1>1, TopRegs
<1>3. /\ Front(Top.regs) = Run(s, n)
      /\ Last(Top.regs) = s + n + 1
      /\ PoolAt(Freed(pool, <<s + n + 1>>), s + n)
      /\ Freed(pool, <<s + n + 1>>).made = pool.made
  <2>1. TopAt(open, pool, s, n + 1)
    BY <1>1, <1>2
  <2> QED
    BY <2>1, <1>2, ShrinkTop
<1>4. PoolAt(pool', s + n) /\ pool.made <= pool'.made
  BY <1>1, <1>3
<1>5. Top.keys \in Nat
  BY <1>2 DEF Frames
<1> QED
  BY <1>1, <1>3, <1>4, <1>5, GoesOn

(* What a step takes is one more register for the innermost expression.    *)
LEMMA TakesOne ==
  ASSUME IInv, open # <<>>, NEW step \in Nat, NEW keys \in Nat,
         Becomes(step, Top.regs \o Taken(pool, 1), keys),
         pool' = After(pool, 1), ShapeOK(Top.kind, step, Len(Top.regs) + 1)
  PROVE  Moved
<1>1. PICK s \in Nat, n \in Nat :
        TopAt(open, pool, s, n) /\ Len(Top.regs) = n
  BY TopRegs
<1>2. open[Len(open)] = Top
  BY TopRegs
<1>3. /\ Top.regs \o Taken(pool, 1) = Run(s, n + 1)
      /\ PoolAt(pool', s + (n + 1))
      /\ pool.made <= pool'.made
  BY <1>1, <1>2, GrowTop
<1>4. n + 1 \in Nat /\ ShapeOK(Top.kind, step, n + 1)
  BY <1>1
<1> QED
  BY <1>1, <1>3, <1>4, GoesOn

(* The register of the property was taken last.                            *)
LEMMA MethodStep ==
  ASSUME IInv, NEW computed \in BOOLEAN, Method(computed)
  PROVE  Moved /\ Written /\ Kept
<1>0. /\ open # <<>> /\ Top.kind = "method" /\ Top.step = 1
      /\ pool' = Freed(pool, <<Top.regs[3]>>)
      /\ Becomes(2, Front(Top.regs), Top.keys)
  BY DEF Method, InTop, Pool
<1>1. Moved
  <2>1. Top \in Frames
    BY <1>0, TopRegs
  <2>2. Len(Top.regs) = 2 + 1
    BY <1>0, <2>1 DEF Frames, ShapeOK
  <2>3. <<Last(Top.regs)>> = <<Top.regs[3]>>
    BY <2>2 DEF Last
  <2>4. ShapeOK(Top.kind, 2, 2)
    BY <1>0 DEF ShapeOK
  <2> QED
    BY <1>0, <2>2, <2>3, <2>4, GivesBack
<1>2. Kept
  BY SameKept DEF Method
<1>3. Written
  <2> DEFINE r == Temps(Top.regs)
  <2>1. CASE computed
    <3>1. Emit(<<Sta(r[3]), Use(<<r[2], r[3]>>)>> \o <<Sta(r[1])>>)
      BY <2>1 DEF Method
    <3> HIDE DEF r
    <3>2. Plain(Sta(r[3])) /\ Plain(Use(<<r[2], r[3]>>)) /\ Plain(Sta(r[1]))
      BY PlainOps
    <3>3. PICK c, d : /\ c = <<Sta(r[3]), Use(<<r[2], r[3]>>)>>
                      /\ d = <<Sta(r[1])>>
      OBVIOUS
    <3>4. InsnsOK(c, pool'.made) /\ InsnsOK(d, pool'.made)
      BY <3>2, <3>3, PlainCode
    <3>5. Emit(c \o d)
      BY <3>1, <3>3
    <3> QED
      BY <1>1, <3>4, <3>5, BothWritten
  <2>2. CASE ~computed
    <3>1. Emit(<<Use(<<r[2]>>)>> \o <<Sta(r[1])>>)
      BY <2>2 DEF Method
    <3> HIDE DEF r
    <3>2. Plain(Use(<<r[2]>>)) /\ Plain(Sta(r[1]))
      BY PlainOps
    <3>3. PICK c, d : c = <<Use(<<r[2]>>)>> /\ d = <<Sta(r[1])>>
      OBVIOUS
    <3>4. InsnsOK(c, pool'.made) /\ InsnsOK(d, pool'.made)
      BY <3>2, <3>3, PlainCode
    <3>5. Emit(c \o d)
      BY <3>1, <3>3
    <3> QED
      BY <1>1, <3>4, <3>5, BothWritten
  <2> QED
    BY <2>1, <2>2
<1> QED
  BY <1>1, <1>2, <1>3

(* The callee is stored.                                                   *)
LEMMA CalleeStep ==
  ASSUME IInv, Callee
  PROVE  Moved /\ Written /\ Kept
<1>1. Moved
  <2>1. open # <<>> /\ Top.kind \in {"call", "new"} /\ Step(2) /\ pool' = pool
    BY DEF Callee, InTop
  <2> QED
    BY <2>1, StepMoves
<1>2. Kept
  BY SameKept DEF Callee
<1>3. Written
  <2> DEFINE r == Temps(Top.regs)
  <2>1. \/ Emit(<<Sta(r[1])>>)
        \/ Emit(<<Sta(r[1]), Mov(r[2], r[1])>>)
    BY DEF Callee
  <2>2. Plain(Sta(r[1])) /\ Plain(Mov(r[2], r[1]))
    BY PlainOps
  <2> HIDE DEF r
  <2> QED
    BY <2>1, <2>2, PlainWritten
<1> QED
  BY <1>1, <1>2, <1>3

(* An argument takes the register after those of the call.                 *)
LEMMA ArgumentStep ==
  ASSUME IInv, Argument
  PROVE  Moved /\ Written /\ Kept
<1>1. Moved
  <2>1. /\ open # <<>> /\ Top.kind \in {"call", "method", "new", "super"}
        /\ Becomes(3, Top.regs \o Taken(pool, 1), Top.keys)
        /\ pool' = After(pool, 1)
    BY DEF Argument, InTop, Pool
  <2>2. ShapeOK(Top.kind, 3, Len(Top.regs) + 1)
    BY <2>1 DEF ShapeOK
  <2>3. 3 \in Nat /\ Top.keys \in Nat
    BY <2>1, TopRegs DEF Frames
  <2> QED
    BY <2>1, <2>2, <2>3, TakesOne
<1>2. Kept
  BY SameKept DEF Argument
<1>3. Written
  BY PlainOps, PlainWritten DEF Argument
<1> QED
  BY <1>1, <1>2, <1>3

(* It is stored there.                                                     *)
LEMMA ArgumentValueStep ==
  ASSUME IInv, ArgumentValue
  PROVE  Moved /\ Written /\ Kept
<1>0. /\ open # <<>> /\ Top.kind \in {"call", "method", "new", "super"}
      /\ Step(2) /\ pool' = pool
  BY DEF ArgumentValue, InTop
<1>1. Moved
  <2>1. PICK s \in Nat, n \in Nat :
          /\ TopAt(open, pool, s, n)
          /\ Top.regs = Run(s, n)
          /\ PoolAt(pool, s + n)
          /\ pool.made \in Nat
    BY <1>0, TopRegs
  <2>2. Becomes(2, Top.regs, Top.keys) /\ 2 \in Nat /\ Top.keys \in Nat
    BY <1>0, TopRegs DEF Step, Frames
  <2>3. ShapeOK(Top.kind, 2, n)
    BY <1>0 DEF ShapeOK
  <2>4. PoolAt(pool', s + n) /\ pool.made <= pool'.made
    BY <1>0, <2>1
  <2> QED
    BY <1>0, <2>1, <2>2, <2>3, <2>4, GoesOn
<1>2. Kept
  BY SameKept DEF ArgumentValue
<1>3. Written
  BY PlainOps, PlainWritten DEF ArgumentValue
<1> QED
  BY <1>1, <1>2, <1>3

(* The registers of a call, all of them together, are its range.           *)
LEMMA EndCallStep ==
  ASSUME IInv, EndCall
  PROVE  Moved /\ Written /\ Kept
<1>0. open # <<>> /\ End /\ pool' = Freed(pool, Top.regs)
  BY DEF EndCall, InTop, Pool
<1>4. PICK s \in Nat, n \in Nat :
        /\ TopAt(open, pool, s, n)
        /\ Top.regs = Run(s, n)
        /\ pool.made \in Nat /\ s + n <= pool.made
  BY <1>0, TopRegs
<1>1. Moved
  BY <1>0, <1>4, EndMoves
<1>2. Kept
  BY SameKept DEF EndCall
<1>3. Written
  <2> DEFINE insn == IF Top.kind = "new" THEN Insn("range", Temps(Top.regs))
                     ELSE Call(Temps(Top.regs), Top.kind = "method")
  <2>1. insn.args = Temps(Run(s, n)) /\ insn.op # "keys"
    BY <1>4 DEF Insn, Call
  <2>2. Emit(<<insn>>) /\ pool'.made = pool.made
    BY <1>0 DEF EndCall, Freed
  <2> HIDE DEF insn
  <2>3. InsnsOK(<<insn>>, pool'.made)
    BY <1>4, <2>1, <2>2, RangeWritten
  <2>4. PICK more : more = <<insn>>
    OBVIOUS
  <2> QED
    BY <2>2, <2>3, <2>4 DEF Written
<1> QED
  BY <1>1, <1>2, <1>3

(* The object of a reference is computed.                                  *)
LEMMA CompoundObjectStep ==
  ASSUME IInv, CompoundObject
  PROVE  Moved /\ Written /\ Kept
<1>1. Moved
  <2>1. open # <<>> /\ Top.kind = "compound" /\ Top.step = 0 /\ Step(1) /\ pool' = pool
    BY DEF CompoundObject, InTop
  <2> QED
    BY <2>1, StepMoves
<1>2. Kept
  BY SameKept DEF CompoundObject
<1>3. Written
  BY PlainOps, PlainWritten DEF CompoundObject
<1> QED
  BY <1>1, <1>2, <1>3

(* A property is loaded.                                                   *)
LEMMA PatternLoadStep ==
  ASSUME IInv, PatternLoad
  PROVE  Moved /\ Written /\ Kept
<1>1. Moved
  <2>1. open # <<>> /\ Top.kind = "pattern" /\ Top.step = 1 /\ Step(2) /\ pool' = pool
    BY DEF PatternLoad, InTop
  <2> QED
    BY <2>1, StepMoves
<1>2. Kept
  BY SameKept DEF PatternLoad
<1>3. Written
  <2> DEFINE r    == Temps(Top.regs)
             prop == r[2 + Top.keys]
  <2>1. Emit(<<Sta(prop), Use(<<r[2], prop>>), Sta(Last(r))>>)
    BY DEF PatternLoad
  <2>2. Plain(Sta(prop)) /\ Plain(Use(<<r[2], prop>>)) /\ Plain(Sta(Last(r)))
    BY PlainOps
  <2> HIDE DEF r, prop
  <2> QED
    BY <2>1, <2>2, PlainWritten
<1> QED
  BY <1>1, <1>2, <1>3

(* What is loaded takes the register after those of the pattern.           *)
LEMMA PatternKeyStep ==
  ASSUME IInv, PatternKey
  PROVE  Moved /\ Written /\ Kept
<1>1. Moved
  <2>1. /\ open # <<>> /\ Top.kind = "pattern"
        /\ Becomes(1, Top.regs \o Taken(pool, 1), Top.keys + 1)
        /\ pool' = After(pool, 1)
    BY DEF PatternKey, InTop, Pool
  <2>2. Top.keys \in Nat /\ Top.regs \in Seq(Nat)
    BY <2>1, TopRegs DEF Frames
  <2>3. ShapeOK(Top.kind, 1, Len(Top.regs) + 1)
    BY <2>1, <2>2 DEF ShapeOK
  <2>4. 1 \in Nat /\ Top.keys + 1 \in Nat
    BY <2>2
  <2> QED
    BY <2>1, <2>3, <2>4, TakesOne
<1>2. Kept
  BY SameKept DEF PatternKey
<1>3. Written
  BY PlainOps, PlainWritten DEF PatternKey
<1> QED
  BY <1>1, <1>2, <1>3

(* It is given back when the property has been stored.                     *)
LEMMA PatternStoreStep ==
  ASSUME IInv, PatternStore
  PROVE  Moved /\ Written /\ Kept
<1>1. Moved
  <2>1. /\ open # <<>> /\ Top.kind = "pattern" /\ Top.step = 2
        /\ Becomes(0, Front(Top.regs), Top.keys)
        /\ pool' = Freed(pool, <<Last(Top.regs)>>)
    BY DEF PatternStore, InTop, Pool
  <2>2. Top \in Frames
    BY <2>1, TopRegs
  <2>3. Len(Top.regs) \in Nat /\ Len(Top.regs) >= 1
    BY <2>1, <2>2 DEF Frames, ShapeOK
  <2>4. PICK n \in Nat : Len(Top.regs) = n + 1
    <3>1. Len(Top.regs) - 1 \in Nat /\ Len(Top.regs) = (Len(Top.regs) - 1) + 1
      BY <2>3
    <3> QED
      BY <3>1
  <2>5. ShapeOK(Top.kind, 0, n)
    BY <2>1 DEF ShapeOK
  <2> QED
    BY <2>1, <2>4, <2>5, GivesBack
<1>2. Kept
  BY SameKept DEF PatternStore
<1>3. Written
  BY PlainOps, PlainWritten DEF PatternStore
<1> QED
  BY <1>1, <1>2, <1>3

(* A pattern gives back all it took.                                       *)
LEMMA EndPatternStep ==
  ASSUME IInv, EndPattern
  PROVE  Moved /\ Written /\ Kept
<1>1. Moved
  <2>1. open # <<>> /\ End /\ pool' = Freed(pool, Top.regs)
    BY DEF EndPattern, InTop, Pool
  <2>2. PICK s \in Nat, n \in Nat : TopAt(open, pool, s, n) /\ pool.made \in Nat
    BY <2>1, TopRegs
  <2> QED
    BY <2>1, <2>2, EndMoves
<1>2. Kept
  BY SameKept DEF EndPattern
<1>3. Written
  BY PlainOps, PlainWritten DEF EndPattern
<1> QED
  BY <1>1, <1>2, <1>3

(* A pattern takes a register for each of its properties and two more.     *)
LEMMA StartPatternStep ==
  ASSUME IInv, NEW n \in Nat, StartPattern(n)
  PROVE  Moved /\ Written /\ Kept
<1>1. Moved
  <2>1. Begin("pattern", Taken(pool, 2 + n)) /\ pool' = After(pool, 2 + n)
    BY DEF StartPattern, Pool
  <2>2. 2 + n \in Nat /\ "pattern" \in Kinds
        /\ "pattern" # "method" /\ "pattern" # "compound"
    BY DEF Kinds
  <2> QED
    BY <2>1, <2>2, Begins
<1>2. Kept
  BY SameKept DEF StartPattern
<1>3. Written
  <2> DEFINE r == Temps(Taken(pool, 2 + n))
  <2>1. Emit(<<Sta(r[1]), Sta(r[2])>>)
    BY DEF StartPattern
  <2>2. Plain(Sta(r[1])) /\ Plain(Sta(r[2]))
    BY PlainOps
  <2> HIDE DEF r
  <2> QED
    BY <2>1, <2>2, PlainWritten
<1> QED
  BY <1>1, <1>2, <1>3

(* Two of four registers are given back, and one of them taken again.      *)
LEMMA CompoundPropertyStep ==
  ASSUME IInv, CompoundProperty
  PROVE  Moved /\ Written /\ Kept
<1> DEFINE freed == Freed(pool, SubSeq(Top.regs, 3, 4))
           lhs   == Taken(freed, 1)
           r     == Temps(Top.regs)
<1>0. /\ open # <<>> /\ Top.kind = "compound" /\ Top.step = 1
      /\ pool' = After(freed, 1)
      /\ Becomes(2, SubSeq(Top.regs, 1, 2) \o lhs, Top.keys)
      /\ Emit(<<Sta(r[4]), Mov(r[1], r[3]), Mov(r[2], r[4]),
                Use(<<r[1], r[2]>>), Sta(Temp(lhs[1]))>>)
  BY DEF CompoundProperty, InTop, Pool
<1>1. Moved
  <2>1. Top \in Frames
    BY <1>0, TopRegs
  <2>2. Len(Top.regs) = 4 /\ Top.keys \in Nat
    BY <1>0, <2>1 DEF Frames, ShapeOK
  <2>3. PICK s \in Nat, n \in Nat :
          /\ TopAt(open, pool, s, n)
          /\ Top.regs = Run(s, n) /\ Len(Top.regs) = n
          /\ PoolAt(pool, s + n)
    BY <1>0, TopRegs
  <2>4. n = 4
    BY <2>2, <2>3
  <2>5. SubSeq(Top.regs, 3, 4) = Run(s + 2, 2) /\ SubSeq(Top.regs, 1, 2) = Run(s, 2)
    <3>1. SubSeq(Run(s, 4), 3, 4) = Run(s + 2, 2)
      BY DEF Run
    <3>2. SubSeq(Run(s, 4), 1, 2) = Run(s, 2)
      BY DEF Run
    <3> QED
      BY <2>3, <2>4, <3>1, <3>2
  <2>6. s + 2 \in Nat /\ s + 4 \in Nat /\ s + 2 <= s + 4 /\ s + 4 - (s + 2) = 2
    OBVIOUS
  <2>7. PoolAt(freed, s + 2) /\ freed.made = pool.made
    <3>1. PoolAt(Freed(pool, Run(s + 2, s + 4 - (s + 2))), s + 2)
          /\ Freed(pool, Run(s + 2, s + 4 - (s + 2))).made = pool.made
      BY <2>3, <2>4, <2>6, FreedBack
    <3> QED
      BY <2>5, <2>6, <3>1
  <2>8. /\ lhs = Run(s + 2, 1)
        /\ PoolAt(After(freed, 1), s + 2 + 1)
        /\ freed.made <= After(freed, 1).made
    BY <2>6, <2>7, TakenNext
  <2>9. Run(s, 2) \o Run(s + 2, 1) = Run(s, 2 + 1)
    BY RunConcat, ZenonT(60)
  <2>10. s + 2 + 1 = s + 3 /\ 2 + 1 = 3
    OBVIOUS
  <2>11. SubSeq(Top.regs, 1, 2) \o lhs = Run(s, 3)
    BY <2>5, <2>8, <2>9, <2>10
  <2>12. PoolAt(pool', s + 3) /\ pool.made <= pool'.made
    BY <1>0, <2>7, <2>8, <2>10
  <2>13. ShapeOK(Top.kind, 2, 3)
    BY <1>0 DEF ShapeOK
  <2> HIDE DEF lhs, freed
  <2> QED
    BY <1>0, <2>2, <2>3, <2>11, <2>12, <2>13, GoesOn
<1>2. Kept
  BY SameKept DEF CompoundProperty
<1>3. Written
  <2>1. PICK more : more = <<Sta(r[4]), Mov(r[1], r[3]), Mov(r[2], r[4]),
                             Use(<<r[1], r[2]>>), Sta(Temp(lhs[1]))>>
    OBVIOUS
  <2>2. Emit(more)
    BY <1>0, <2>1
  <2> HIDE DEF r, lhs, freed
  <2>3. /\ Plain(Sta(r[4])) /\ Plain(Mov(r[1], r[3])) /\ Plain(Mov(r[2], r[4]))
        /\ Plain(Use(<<r[1], r[2]>>)) /\ Plain(Sta(Temp(lhs[1])))
    BY PlainOps
  <2>4. InsnsOK(more, pool'.made)
    BY <2>1, <2>3, PlainCode
  <2> QED
    BY <2>2, <2>4 DEF Written
<1> QED
  BY <1>1, <1>2, <1>3

(* First the last, then the two that were taken before it.                 *)
LEMMA EndCompoundStep ==
  ASSUME IInv, EndCompound
  PROVE  Moved /\ Written /\ Kept
<1> DEFINE p == Freed(pool, <<Top.regs[3]>>)
<1>0. /\ open # <<>> /\ Top.kind = "compound" /\ Top.step = 2
      /\ pool' = Freed(p, SubSeq(Top.regs, 1, 2))
      /\ End
  BY DEF EndCompound, InTop, Pool
<1>1. Moved
  <2>1. Top \in Frames
    BY <1>0, TopRegs
  <2>2. Len(Top.regs) = 3
    BY <1>0, <2>1 DEF Frames, ShapeOK
  <2>3. PICK s \in Nat, n \in Nat :
          /\ TopAt(open, pool, s, n)
          /\ Top.regs = Run(s, n) /\ Len(Top.regs) = n
          /\ \A i \in 1 .. n : Top.regs[i] = s + i
          /\ PoolAt(pool, s + n) /\ pool.made \in Nat
    BY <1>0, TopRegs
  <2>4. n = 3
    BY <2>2, <2>3
  <2>5. SubSeq(Top.regs, 1, 2) = Run(s, 2)
    <3>1. SubSeq(Run(s, 3), 1, 2) = Run(s, 2)
      BY DEF Run
    <3> QED
      BY <2>3, <2>4, <3>1
  <2>6. <<Top.regs[3]>> = Run(s + 2, 1)
    <3>1. Top.regs[3] = s + 3
      BY <2>3, <2>4
    <3> QED
      BY <3>1 DEF Run
  <2>7. PoolAt(p, s + 2) /\ p.made = pool.made
    <3>1. s + 2 \in Nat /\ s + 3 \in Nat /\ s + 2 <= s + 3 /\ s + 3 - (s + 2) = 1
      OBVIOUS
    <3>2. PoolAt(Freed(pool, Run(s + 2, s + 3 - (s + 2))), s + 2)
          /\ Freed(pool, Run(s + 2, s + 3 - (s + 2))).made = pool.made
      BY <2>3, <2>4, <3>1, FreedBack
    <3> QED
      BY <2>6, <3>1, <3>2
  <2> HIDE DEF p
  <2>8. PoolAt(pool', s) /\ pool'.made = p.made
    <3>1. s + 2 \in Nat /\ s <= s + 2 /\ s + 2 - s = 2
      OBVIOUS
    <3>2. PoolAt(Freed(p, Run(s, s + 2 - s)), s)
          /\ Freed(p, Run(s, s + 2 - s)).made = p.made
      BY <2>7, <3>1, FreedBack
    <3> QED
      BY <1>0, <2>5, <3>1, <3>2
  <2>9. open \in Seq(Frames)
    BY DEF IInv
  <2>10. open' = Front(open) /\ Front(open) \in Seq(Frames)
    BY <1>0, <2>9, FrontSeq DEF End
  <2>11. Stacked(Front(open), s)
    BY <2>3 DEF TopAt
  <2>12. Ordered(open', pool')
    BY <2>8, <2>10, <2>11 DEF Ordered
  <2>13. pool.made <= pool'.made
    BY <2>3, <2>7, <2>8
  <2> QED
    BY <2>10, <2>12, <2>13 DEF Moved
<1>2. Kept
  BY SameKept DEF EndCompound
<1>3. Written
  <2> DEFINE r == Temps(Top.regs)
  <2>1. Emit(<<Use(<<r[3]>>), Use(<<r[1], r[2]>>)>>)
    BY DEF EndCompound
  <2>2. Plain(Use(<<r[3]>>)) /\ Plain(Use(<<r[1], r[2]>>))
    BY PlainOps
  <2> HIDE DEF r
  <2> QED
    BY <2>1, <2>2, PlainWritten
<1> QED
  BY <1>1, <1>2, <1>3

(* The result of a super call takes the register after its arguments.      *)
LEMMA EndSuperStep ==
  ASSUME IInv, EndSuper
  PROVE  Moved /\ Written /\ Kept
<1> DEFINE args == Temps(Top.regs)
           tmp  == Temp(Taken(pool, 1)[1])
           call == Super(IF args = <<>> THEN Cache("undefined") ELSE args[1], args)
           p    == Freed(After(pool, 1), Taken(pool, 1))
<1>0. /\ open # <<>> /\ End /\ pool' = Freed(p, Top.regs)
      /\ Emit(<<call, Sta(tmp), Lda(tmp)>>)
      /\ needed' = IF args = <<>> THEN needed \cup {"undefined"} ELSE needed
      /\ locals' = locals /\ generated' = generated
  BY DEF EndSuper, InTop, Pool
<1>4. PICK s \in Nat, n \in Nat :
        /\ TopAt(open, pool, s, n)
        /\ Top.regs = Run(s, n)
        /\ PoolAt(pool, s + n)
        /\ pool.made \in Nat /\ s + n <= pool.made
  BY <1>0, TopRegs
<1>5. /\ PoolAt(p, s + n) /\ p.made = After(pool, 1).made
      /\ pool.made <= p.made /\ p.made \in Nat
  <2>1. s + n \in Nat
    OBVIOUS
  <2> QED
    BY <1>4, <2>1, Borrowed
<1>6. call.args = Temps(Run(s, n)) /\ call.op = "super"
  BY <1>4 DEF Super
<1> HIDE DEF p, args, tmp, call
<1>1. Moved
  <2>1. TopAt(open, p, s, n)
    BY <1>4, <1>5 DEF TopAt
  <2> QED
    BY <1>0, <1>5, <2>1, EndMoves
<1>2. Kept
  <2>1. IsFiniteSet(needed \cup {"undefined"})
    BY FS_AddElement DEF IInv
  <2> QED
    BY <1>0, <2>1 DEF IInv, Kept
<1>3. Written
  <2>1. pool'.made \in Nat /\ s + n <= pool'.made
    <3>1. pool'.made = p.made
      BY <1>0 DEF Freed
    <3> QED
      BY <1>4, <1>5, <3>1
  <2>2. ArgsOK(call, pool'.made)
    BY <2>1, <1>6, ArgsRun
  <2>3. Plain(Sta(tmp)) /\ Plain(Lda(tmp))
    BY PlainOps
  <2>4. PICK U, more : U = {call, Sta(tmp), Lda(tmp)}
                       /\ more = <<call, Sta(tmp), Lda(tmp)>>
    OBVIOUS
  <2>5. more \in Seq(U)
    BY <2>4
  <2>6. \A x \in U : ArgsOK(x, pool'.made)
    BY <2>2, <2>3, <2>4 DEF ArgsOK, Plain
  <2> QED
    BY <1>0, <2>4, <2>5, <2>6 DEF Written, InsnsOK
<1> QED
  BY <1>1, <1>2, <1>3

(* Keys that follow one another behind the object.                         *)
LEMMA ArgsKeys ==
  ASSUME NEW x, NEW S, NEW q \in Seq(S), NEW a \in Int, NEW m \in Nat,
         x \in S,
         \A i \in 1 .. Len(q) : q[i] = Temp(a + i) /\ 1 <= a + i /\ a + i <= m
  PROVE  ArgsOK(Insn("keys", <<x>> \o q), m)
<1> DEFINE insn == Insn("keys", <<x>> \o q)
<1>1. insn.op = "keys" /\ insn.args = <<x>> \o q
  BY DEF Insn
<1>2. Len(q) \in Nat /\ Len(<<x>> \o q) = 1 + Len(q)
  OBVIOUS
<1>3. ASSUME NEW j \in 2 .. 1 + Len(q)
      PROVE  /\ (<<x>> \o q)[j] = Temp((a - 1) + j)
             /\ 1 <= (a - 1) + j /\ (a - 1) + j <= m
  <2>1. j - 1 \in 1 .. Len(q) /\ a + (j - 1) = (a - 1) + j
    BY <1>2, <1>3
  <2>2. (<<x>> \o q)[j] = q[j - 1]
    BY <1>2, <1>3
  <2> QED
    BY <2>1, <2>2
<1> HIDE DEF insn
<1>4. Start(insn) = 2
  BY <1>1 DEF Start
<1>5. ArgsFrom(insn, m, a - 1)
  BY <1>1, <1>2, <1>3, <1>4 DEF ArgsFrom
<1>6. a - 1 \in Int
  OBVIOUS
<1>7. ArgsOK(insn, m)
  BY <1>5, <1>6 DEF ArgsOK
<1> QED
  BY <1>7 DEF insn

(* The registers of the keys of a pattern.                                 *)
LEMMA KeyRegs ==
  ASSUME NEW T, NEW k \in Nat, NEW r \in Seq(T), Len(r) = 3 + k
  PROVE  /\ SubSeq(r, 3, 2 + k) \in Seq(T)
         /\ Len(SubSeq(r, 3, 2 + k)) = k
         /\ \A i \in 1 .. k : SubSeq(r, 3, 2 + k)[i] = r[i + 2] /\ r[i + 2] \in T
<1>1. ASSUME NEW i \in 1 .. 3 + k
      PROVE  r[i] \in T
  BY <1>1, ElementOfSeq
<1>2. PICK j \in Nat : j = 2 + k
  OBVIOUS
<1>3. Len(SubSeq(r, 3, j)) = k
  <2>1. SubSeq(r, 3, j) = [i \in 1 .. j - 3 + 1 |-> r[i + 3 - 1]]
    BY <1>2
  <2>2. j - 3 + 1 = k
    BY <1>2
  <2> QED
    BY <2>1, <2>2
<1>4. ASSUME NEW i \in 1 .. k
      PROVE  SubSeq(r, 3, j)[i] = r[i + 2] /\ r[i + 2] \in T
  <2>1. i + 2 \in 1 .. 3 + k /\ i + 2 = i + 3 - 1 /\ i \in 1 .. j - 3 + 1
    BY <1>2, <1>4
  <2>2. SubSeq(r, 3, j) = [l \in 1 .. j - 3 + 1 |-> r[l + 3 - 1]]
    BY <1>2
  <2> QED
    BY <1>1, <2>1, <2>2
<1>5. SubSeq(r, 3, j) = [i \in 1 .. k |-> SubSeq(r, 3, j)[i]]
  BY <1>2, <1>3
<1>6. SubSeq(r, 3, j) \in Seq(T)
  BY <1>4, <1>5
<1> QED
  BY <1>2, <1>3, <1>4, <1>6

(* The keys of a rest that is bound to a variable: those of the            *)
(* properties, or one.                                                     *)
LEMMA EndPatternRestStep ==
  ASSUME IInv, EndPatternRest("binding")
  PROVE  Moved /\ Written /\ Kept
<1> DEFINE r    == Temps(Top.regs)
           undef == Taken(pool, 1)
           keys == IF Top.keys = 0 THEN Temps(undef) ELSE SubSeq(r, 3, 2 + Top.keys)
           p    == Freed(After(pool, 1), undef)
           test == IF Top.keys = 0 THEN <<Sta(keys[1])>> ELSE <<>>
           make == Insn("keys", <<r[2]>> \o keys)
<1>0. /\ open # <<>> /\ End /\ pool' = Freed(p, Top.regs)
      /\ Len(Top.regs) = 2 + Top.keys + 1
      /\ Emit((((<<>> \o test) \o <<make>>) \o <<>>) \o <<Lda(r[1])>>)
      /\ needed' = IF Top.keys = 0 THEN needed \cup {"null", "undefined"} ELSE needed
      /\ locals' = locals /\ generated' = generated
  BY DEF EndPatternRest, InTop, Pool
<1>4. PICK s \in Nat, n \in Nat :
        /\ TopAt(open, pool, s, n)
        /\ Top.regs = Run(s, n) /\ Len(Top.regs) = n
        /\ PoolAt(pool, s + n)
        /\ pool.made \in Nat /\ s + n <= pool.made
  BY <1>0, TopRegs
<1>5. /\ undef = Run(s + n, 1)
      /\ PoolAt(p, s + n) /\ p.made = After(pool, 1).made
      /\ pool.made <= p.made /\ p.made \in Nat
      /\ s + n + 1 <= p.made
  <2>1. s + n \in Nat
    OBVIOUS
  <2> QED
    BY <1>4, <2>1, Borrowed
<1>6. Top.keys \in Nat /\ n = 3 + Top.keys
  <2>1. Top.keys \in Nat
    BY <1>0, TopRegs DEF Frames
  <2> QED
    BY <1>0, <1>4, <2>1
<1>7. pool'.made = p.made
  BY <1>0 DEF Freed
<1>8. ArgsOK(make, pool'.made)
  <2> DEFINE T == {Temp(i) : i \in Nat}
  <2>1. r = [i \in 1 .. n |-> Temp(s + i)]
    <3>1. DOMAIN Run(s, n) = 1 .. n /\ \A i \in 1 .. n : Run(s, n)[i] = s + i
      BY RunSeq
    <3> QED
      BY <1>4, <3>1 DEF Temps
  <2>2. r \in Seq(T) /\ Len(r) = n /\ \A i \in 1 .. n : r[i] = Temp(s + i)
    <3>1. \A i \in 1 .. n : Temp(s + i) \in T
      OBVIOUS
    <3> HIDE DEF T, r
    <3> QED
      BY <2>1, <3>1
  <2> HIDE DEF r
  <2>3. r[2] \in T
    <3>1. 2 \in 1 .. n
      BY <1>6
    <3> QED
      BY <2>2, <3>1
  <2>4. CASE Top.keys = 0
    <3>1. keys = [i \in 1 .. 1 |-> Temp(s + n + i)]
      <4>1. DOMAIN Run(s + n, 1) = 1 .. 1 /\ \A i \in 1 .. 1 : Run(s + n, 1)[i] = s + n + i
        BY DEF Run
      <4> QED
        BY <1>5, <2>4, <4>1 DEF Temps
    <3>2. keys \in Seq(T) /\ Len(keys) = 1
          /\ \A i \in 1 .. Len(keys) :
               /\ keys[i] = Temp((s + n) + i)
               /\ 1 <= (s + n) + i /\ (s + n) + i <= pool'.made
      <4>1. \A i \in 1 .. 1 : /\ Temp(s + n + i) \in T
                              /\ 1 <= (s + n) + i /\ (s + n) + i <= pool'.made
        BY <1>5, <1>7
      <4> HIDE DEF keys, T
      <4> QED
        BY <3>1, <4>1
    <3>3. s + n \in Int /\ pool'.made \in Nat
      BY <1>5, <1>7
    <3> HIDE DEF keys, T
    <3> QED
      BY <2>3, <3>2, <3>3, ArgsKeys
  <2>5. CASE Top.keys # 0
    <3>1. keys = SubSeq(r, 3, 2 + Top.keys)
      BY <2>5
    <3>2. PICK k \in Nat : k = Top.keys /\ n = 3 + k /\ k # 0
      BY <1>6, <2>5
    <3> HIDE DEF T
    <3>3. /\ keys \in Seq(T) /\ Len(keys) = k
          /\ \A i \in 1 .. k : keys[i] = r[i + 2] /\ r[i + 2] \in T
      <4>1. SubSeq(r, 3, 2 + k) = keys
        BY <3>1, <3>2
      <4> HIDE DEF keys
      <4> QED
        BY <2>2, <3>2, <4>1, KeyRegs, ZenonT(60)
    <3> HIDE DEF keys
    <3>6. ASSUME NEW i \in 1 .. k
          PROVE  /\ keys[i] = Temp((s + 2) + i)
                 /\ 1 <= (s + 2) + i /\ (s + 2) + i <= pool'.made
      <4>1. i + 2 \in 1 .. n /\ s + (i + 2) = (s + 2) + i
        BY <3>2, <3>6
      <4>2. keys[i] = Temp((s + 2) + i)
        BY <2>2, <3>3, <4>1
      <4> QED
        BY <1>4, <1>5, <1>7, <3>2, <3>6, <4>2, SMTT(60)
    <3>7. s + 2 \in Int /\ pool'.made \in Nat
      BY <1>5, <1>7
    <3> QED
      BY <2>3, <3>3, <3>6, <3>7, ArgsKeys
  <2> QED
    BY <2>4, <2>5
<1> HIDE DEF p, undef, keys, make, r
<1>1. Moved
  <2>1. TopAt(open, p, s, n)
    BY <1>4, <1>5 DEF TopAt
  <2> QED
    BY <1>0, <1>5, <2>1, EndMoves
<1>2. Kept
  <2>1. IsFiniteSet(needed \cup {"null", "undefined"})
    <3>1. IsFiniteSet((needed \cup {"null"}) \cup {"undefined"})
      BY FS_AddElement DEF IInv
    <3>2. (needed \cup {"null"}) \cup {"undefined"} = needed \cup {"null", "undefined"}
      OBVIOUS
    <3> QED
      BY <3>1, <3>2
  <2> QED
    BY <1>0, <2>1 DEF IInv, Kept
<1>3. Written
  <2> DEFINE m == pool'.made
  <2>1. m \in Nat
    BY <1>5, <1>7
  <2>2. ASSUME NEW a, NEW b, InsnsOK(a, m), InsnsOK(b, m)
        PROVE  InsnsOK(a \o b, m)
    <3> HIDE DEF m
    <3> QED
      BY <2>1, <2>2, MoreInsns
  <2>3. PICK none, c, d : none = <<>> /\ c = <<make>> /\ d = <<Lda(r[1])>>
    OBVIOUS
  <2>4. InsnsOK(none, m)
    BY <2>3, PlainCode
  <2>5. InsnsOK(test, m)
    <3>1. Plain(Sta(keys[1]))
      BY PlainOps
    <3>2. InsnsOK(<<>>, m) /\ InsnsOK(<<Sta(keys[1])>>, m)
      BY <3>1, PlainCode
    <3>3. test = <<>> \/ test = <<Sta(keys[1])>>
      OBVIOUS
    <3> HIDE DEF test, m
    <3> QED
      BY <3>2, <3>3
  <2>6. InsnsOK(c, m)
    <3>1. PICK U : U = {make}
      OBVIOUS
    <3>2. c \in Seq(U) /\ \A x \in U : ArgsOK(x, m)
      BY <1>8, <2>3, <3>1
    <3> QED
      BY <3>2 DEF InsnsOK
  <2>7. InsnsOK(d, m)
    <3>1. Plain(Lda(r[1]))
      BY PlainOps
    <3> QED
      BY <2>3, <3>1, PlainCode
  <2>8. Emit((((none \o test) \o c) \o none) \o d)
    BY <1>0, <2>3
  <2> HIDE DEF test, m
  <2>9. InsnsOK((((none \o test) \o c) \o none) \o d, m)
    BY <2>2, <2>4, <2>5, <2>6, <2>7
  <2> QED
    BY <2>8, <2>9 DEF Written, m
<1> QED
  BY <1>1, <1>2, <1>3

-----------------------------------------------------------------------------
(* The end of the generation, and the invariant.                           *)

(* The locals that are left are a sequence.                                *)
LEMMA SeqOfItself ==
  ASSUME NEW S, NEW s \in Seq(S)
  PROVE  s \in Seq(Range(s))
<1>1. \A i \in 1 .. Len(s) : s[i] \in Range(s)
  BY DEF Range
<1> QED
  BY <1>1

(* A sequence over a set is one over a larger set.                         *)
LEMMA WiderSeq ==
  ASSUME NEW S, NEW U, NEW s \in Seq(S)
  PROVE  s \in Seq(U \cup S) /\ s \in Seq(S \cup U)
OBVIOUS

(* A list of n entries is a sequence.                                      *)
LEMMA ListSeq ==
  ASSUME NEW n \in Nat, NEW f, f = [i \in 1 .. n |-> f[i]]
  PROVE  f \in Seq(Range(f))
<1>1. DOMAIN f = 1 .. n
  OBVIOUS
<1>2. \A i \in 1 .. n : f[i] \in Range(f)
  BY <1>1 DEF Range
<1> HIDE DEF Range
<1> QED
  BY <1>2

(* What follows the first h entries of a sequence, if any, is one.         *)
LEMMA LaterPart ==
  ASSUME NEW S, NEW s \in Seq(S), NEW h \in Nat
  PROVE  SubSeq(s, h + 1, Len(s)) \in Seq(S)
<1>1. CASE h <= Len(s)
  <2>1. \A i \in h + 1 .. Len(s) : s[i] \in S
    OBVIOUS
  <2>2. h + 1 \in Int /\ Len(s) \in Int /\ h + 1 <= Len(s) + 1
    BY <1>1
  <2> QED
    BY <1>1, <2>1, <2>2, SubSeqProperties
<1>2. CASE ~(h <= Len(s))
  <2>1. SubSeq(s, h + 1, Len(s)) = <<>>
    BY <1>2
  <2> QED
    BY <2>1
<1> QED
  BY <1>1, <1>2

(* The locals that are left are a sequence; nothing else changes.          *)
LEMMA CompiledStep ==
  ASSUME IInv, NEW debug \in BOOLEAN, Compiled(debug)
  PROVE  IInv'
<1> DEFINE used == {i \in 1 .. Hidden : debug \/ i \in callOpt}
           n    == Cardinality(used)
           kept == [i \in 1 .. n |-> locals[Smallest(used, i)]]
           part == SubSeq(locals, Hidden + 1, Len(locals))
<1>0. /\ open = <<>>
      /\ locals' = kept \o part
      /\ UNCHANGED <<pool, needed, open, insns>>
  BY DEF Compiled
<1>1. n \in Nat
  <2>1. IsFiniteSet(1 .. Hidden)
    BY FS_Interval, PoolAssumption
  <2>2. IsFiniteSet(used)
    BY <2>1, FS_Subset
  <2> QED
    BY <2>2, FS_CardinalityType
<1> DEFINE T == Range(kept) \cup Range(locals)
<1>2. kept \in Seq(T)
  <2>1. kept = [i \in 1 .. n |-> kept[i]]
    OBVIOUS
  <2> HIDE DEF kept, n
  <2>2. kept \in Seq(Range(kept))
    BY <1>1, <2>1, ListSeq
  <2> QED
    BY <2>2, WiderSeq
<1>3. part \in Seq(T)
  <2>1. locals \in Seq(T)
    <3> HIDE DEF kept
    <3> QED
      BY WiderSeq DEF IInv
  <2> HIDE DEF T
  <2> QED
    BY <2>1, LaterPart, PoolAssumption
<1>4. locals' \in Seq(T)
  <2> HIDE DEF T, kept, part
  <2> QED
    BY <1>0, <1>2, <1>3
<1>5. locals' \in Seq(Range(locals'))
  <2> HIDE DEF T
  <2> QED
    BY <1>4, SeqOfItself
<1>6. open' = open /\ pool' = pool /\ needed' = needed /\ insns' = insns
  BY <1>0
<1> HIDE DEF kept, part, T
<1> QED
  BY <1>0, <1>5, <1>6 DEF IInv, Ordered

(* When a function begins, no register has been made.                      *)
LEMMA InitOK ==
  ASSUME Init
  PROVE  IInv
<1>0. /\ params \in Nat
      /\ locals = [i \in 1 .. params |-> i]
      /\ pool = [free |-> <<>>, made |-> 0]
      /\ needed = {"lexEnv"}
      /\ open = <<>> /\ insns = <<>> /\ generated = FALSE
  BY PoolAssumption DEF Init, PoolInit
<1>1. open \in Seq(Frames)
  BY <1>0
<1>2. Ordered(open, pool)
  <2>1. PICK b : b = [k \in 1 .. 1 |-> 0]
    OBVIOUS
  <2>2. Len(open) = 0
    BY <1>0
  <2>3. StackedBy(open, b, 0)
    BY <2>1, <2>2 DEF StackedBy
  <2>4. PoolAt(pool, 0)
    <3>1. Run(0, 0) = <<>>
      BY DEF Run
    <3>2. pool = [free |-> Run(0, 0), made |-> 0 + 0]
      BY <1>0, <3>1
    <3> QED
      BY <3>2 DEF PoolAt
  <2> QED
    BY <2>3, <2>4 DEF Ordered, Stacked
<1>3. InsnsOK(insns, pool.made)
  BY <1>0, PlainCode
<1>4. IsFiniteSet(needed)
  BY <1>0, FS_Singleton
<1>5. locals \in Seq(Range(locals))
  <2>1. locals \in Seq(Nat)
    BY <1>0
  <2> QED
    BY <2>1, SeqOfItself
<1> QED
  BY <1>0, <1>1, <1>2, <1>3, <1>4, <1>5 DEF IInv

(* Every step keeps the invariant.                                         *)
LEMMA NextStep ==
  ASSUME RestTargets \subseteq {"binding"}, IInv, [Next]_vars
  PROVE  IInv'
<1>1. CASE Generate
  <2>1. CASE Variable
    BY <2>1, VariableStep, StepKeeps
  <2>2. CASE Declare
    BY <2>2, DeclareStep, StepKeeps
  <2>3. CASE \E c \in Caches : Constant(c)
    BY <2>3, ConstantStep, StepKeeps
  <2>4. CASE StartBinary
    BY <2>4, StartBinaryStep, StepKeeps
  <2>5. CASE BinaryLeft
    BY <2>5, BinaryLeftStep, StepKeeps
  <2>6. CASE EndBinary
    BY <2>6, EndBinaryStep, StepKeeps
  <2>7. CASE \E b \in BOOLEAN : StartCall(b) \/ Method(b)
    BY <2>7, StartCallStep, MethodStep, StepKeeps
  <2>8. CASE StartNew
    BY <2>8, StartNewStep, StepKeeps
  <2>9. CASE StartSuper
    BY <2>9, StartSuperStep, StepKeeps
  <2>10. CASE Receiver
    BY <2>10, ReceiverStep, StepKeeps
  <2>11. CASE Callee
    BY <2>11, CalleeStep, StepKeeps
  <2>12. CASE Argument
    BY <2>12, ArgumentStep, StepKeeps
  <2>13. CASE ArgumentValue
    BY <2>13, ArgumentValueStep, StepKeeps
  <2>14. CASE EndCall
    BY <2>14, EndCallStep, StepKeeps
  <2>15. CASE EndSuper
    BY <2>15, EndSuperStep, StepKeeps
  <2>16. CASE StartCompound
    BY <2>16, StartCompoundStep, StepKeeps
  <2>17. CASE CompoundObject
    BY <2>17, CompoundObjectStep, StepKeeps
  <2>18. CASE CompoundProperty
    BY <2>18, CompoundPropertyStep, StepKeeps
  <2>19. CASE EndCompound
    BY <2>19, EndCompoundStep, StepKeeps
  <2>20. CASE \E n \in 0 .. MaxTemps : StartPattern(n)
    <3>1. PICK n \in 0 .. MaxTemps : StartPattern(n)
      BY <2>20
    <3>2. n \in Nat
      BY PoolAssumption
    <3> QED
      BY <3>1, <3>2, StartPatternStep, StepKeeps
  <2>21. CASE PatternKey
    BY <2>21, PatternKeyStep, StepKeeps
  <2>22. CASE PatternLoad
    BY <2>22, PatternLoadStep, StepKeeps
  <2>23. CASE PatternStore
    BY <2>23, PatternStoreStep, StepKeeps
  <2>24. CASE EndPattern
    BY <2>24, EndPatternStep, StepKeeps
  <2>25. CASE \E target \in RestTargets : EndPatternRest(target)
    BY <2>25, EndPatternRestStep, StepKeeps
  <2>26. CASE \E debug \in BOOLEAN : Compiled(debug)
    BY <2>26, CompiledStep
  <2> QED
    BY <1>1, <2>1, <2>2, <2>3, <2>4, <2>5, <2>6, <2>7, <2>8, <2>9, <2>10,
       <2>11, <2>12, <2>13, <2>14, <2>15, <2>16, <2>17, <2>18, <2>19, <2>20,
       <2>21, <2>22, <2>23, <2>24, <2>25, <2>26 DEF Generate
<1>2. CASE UNCHANGED poolVars
  BY <1>2 DEF IInv, Ordered, poolVars
<1>3. Generate \/ UNCHANGED poolVars
  BY DEF Next, Allocate, Keep, Adjust, KeepRange, AdjustRange, Parameters, vars
<1> QED
  BY <1>1, <1>2, <1>3

(* The order of the registers holds wherever a function is compiled whose  *)
(* rest properties are bindings.                                           *)
THEOREM Invariance ==
  ASSUME RestTargets \subseteq {"binding"}
  PROVE  Spec => []IInv
<1>1. Init => IInv
  BY InitOK
<1>2. IInv /\ [Next]_vars => IInv'
  BY NextStep
<1> QED
  BY <1>1, <1>2, PTL DEF Spec

-----------------------------------------------------------------------------
(* The numbers of the registers.                                           *)

(* Where a register of the middle one of three lists is.                   *)
LEMMA PositionMiddle ==
  ASSUME NEW V, NEW a \in Seq(V), NEW b \in Seq(V), NEW c \in Seq(V),
         NEW i \in 1 .. Len(b),
         \A j \in 1 .. Len(a) : a[j] # b[i],
         \A j \in 1 .. Len(b) : b[j] = b[i] => j = i,
         \A j \in 1 .. Len(c) : c[j] # b[i]
  PROVE  Position((a \o b) \o c, b[i]) = Len(a) + i
<1> DEFINE s == (a \o b) \o c
           k == Len(a) + i
<1>1. /\ a \o b \in Seq(V) /\ Len(a \o b) = Len(a) + Len(b)
      /\ \A j \in 1 .. Len(a) + Len(b) :
           (a \o b)[j] = IF j <= Len(a) THEN a[j] ELSE b[j - Len(a)]
  BY ConcatProperties
<1>2. /\ s \in Seq(V) /\ Len(s) = Len(a) + Len(b) + Len(c)
      /\ \A j \in 1 .. Len(a) + Len(b) + Len(c) :
           s[j] = IF j <= Len(a) + Len(b) THEN (a \o b)[j]
                  ELSE c[j - (Len(a) + Len(b))]
  <2> DEFINE e == a \o b
  <2>1. e \in Seq(V) /\ Len(e) = Len(a) + Len(b)
    BY <1>1
  <2>2. /\ e \o c \in Seq(V) /\ Len(e \o c) = Len(e) + Len(c)
        /\ \A j \in 1 .. Len(e) + Len(c) :
             (e \o c)[j] = IF j <= Len(e) THEN e[j] ELSE c[j - Len(e)]
    <3> HIDE DEF e
    <3> QED
      BY <2>1, ConcatProperties, ZenonT(60)
  <2> QED
    BY <2>1, <2>2
<1>3. DOMAIN s = 1 .. Len(a) + Len(b) + Len(c)
  BY <1>2
<1> HIDE DEF s
<1>4. k \in DOMAIN s /\ s[k] = b[i]
  <2>1. k \in 1 .. Len(a) + Len(b) /\ ~(k <= Len(a)) /\ k - Len(a) = i
    OBVIOUS
  <2>2. k \in 1 .. Len(a) + Len(b) + Len(c) /\ k <= Len(a) + Len(b)
    BY <2>1
  <2> HIDE DEF k
  <2>3. s[k] = (a \o b)[k]
    BY <1>2, <2>2
  <2>4. (a \o b)[k] = b[k - Len(a)]
    BY <1>1, <2>1
  <2> QED
    BY <1>3, <2>1, <2>2, <2>3, <2>4
<1>5. ASSUME NEW j \in DOMAIN s, s[j] = b[i]
      PROVE  j = k
  <2>1. j \in 1 .. Len(a) + Len(b) + Len(c)
    BY <1>3
  <2>2. CASE j <= Len(a)
    <3>1. j \in 1 .. Len(a) /\ j \in 1 .. Len(a) + Len(b)
          /\ j <= Len(a) + Len(b)
      BY <2>1, <2>2
    <3>2. s[j] = a[j]
      BY <1>1, <1>2, <2>1, <2>2, <3>1
    <3> QED
      BY <1>5, <3>1, <3>2
  <2>3. CASE ~(j <= Len(a)) /\ j <= Len(a) + Len(b)
    <3>1. j - Len(a) \in 1 .. Len(b) /\ j \in 1 .. Len(a) + Len(b)
      BY <2>1, <2>3
    <3>2. s[j] = b[j - Len(a)]
      BY <1>1, <1>2, <2>1, <2>3, <3>1
    <3>3. j - Len(a) = i
      BY <1>5, <3>1, <3>2
    <3>4. Len(a) \in Int /\ i \in Int /\ j \in Int
      BY <2>1
    <3>5. \A x, y, z \in Int : x - y = z => x = y + z
      OBVIOUS
    <3>6. j = Len(a) + i
      BY <3>3, <3>4, <3>5, Zenon
    <3> QED
      BY <3>6
  <2>4. CASE ~(j <= Len(a) + Len(b))
    <3>1. j - (Len(a) + Len(b)) \in 1 .. Len(c)
      BY <2>1, <2>4
    <3>2. s[j] = c[j - (Len(a) + Len(b))]
      BY <1>2, <2>1, <2>4
    <3> QED
      BY <1>5, <3>1, <3>2
  <2> QED
    BY <2>1, <2>2, <2>3, <2>4
<1> HIDE DEF k
<1>6. Position(s, b[i]) = k
  <2>1. (CHOOSE j \in DOMAIN s : s[j] = b[i]) = k
    BY <1>4, <1>5
  <2> QED
    BY <1>4, <2>1 DEF Position
<1> QED
  BY <1>6 DEF s, k

(* The caches can be listed.                                               *)
LEMMA CachesListed ==
  ASSUME IsFiniteSet(needed)
  PROVE  NeededCaches \in Seq(needed)
<1> DEFINE n == Cardinality(needed)
<1>1. n \in Nat /\ ExistsBijection(1 .. n, needed)
  BY FS_CardinalityType
<1>2. \E f \in [1 .. n -> needed] : IsInjective(f)
  BY <1>1 DEF ExistsBijection, Bijection, Injection
<1>3. SetToSeq(needed) \in [1 .. n -> needed]
  BY <1>2 DEF SetToSeq
<1> HIDE DEF n
<1> QED
  BY <1>1, <1>3 DEF NeededCaches

(* When a function has been generated, the numbers of its temporary        *)
(* registers follow one another in the order in which they were made.      *)
LEMMA TempsNumbered ==
  ASSUME IInv, generated
  PROVE  \E l \in Nat : \A i \in 1 .. pool.made : Num(Temp(i)) = l + i - 1
<1>1. PICK t \in Nat : Stacked(open, t) /\ PoolAt(pool, t)
  BY DEF IInv, Ordered
<1>2. t = 0
  <2>1. open = <<>>
    BY DEF IInv
  <2>2. PICK b : StackedBy(open, b, t)
    BY <1>1 DEF Stacked
  <2>3. Len(open) + 1 = 1
    BY <2>1
  <2> QED
    BY <2>2, <2>3 DEF StackedBy
<1>3. PICK d \in Nat : pool = [free |-> Run(0, d), made |-> 0 + d]
  BY <1>1, <1>2 DEF PoolAt
<1>4. pool.free = Run(0, d) /\ pool.made = d
  BY <1>3
<1>5. /\ DOMAIN Run(0, d) = 1 .. d
      /\ \A i \in 1 .. d : Run(0, d)[i] = i
  BY DEF Run
<1> DEFINE a == [i \in DOMAIN locals |-> Local(locals[i])]
           b == [i \in 1 .. d |-> Temp(i)]
           c == [i \in DOMAIN NeededCaches |-> Cache(NeededCaches[i])]
           V == (Range(a) \cup Range(b)) \cup Range(c)
<1>6. Allocated = (a \o b) \o c
  <2>1. Temps(pool.free) = b
    BY <1>4, <1>5 DEF Temps
  <2> QED
    BY <2>1 DEF Allocated
<1>7. Len(locals) \in Nat /\ DOMAIN locals = 1 .. Len(locals)
  BY DEF IInv
<1>8. Len(NeededCaches) \in Nat /\ DOMAIN NeededCaches = 1 .. Len(NeededCaches)
  BY CachesListed DEF IInv
<1>9. /\ a = [i \in 1 .. Len(locals) |-> a[i]]
      /\ b = [i \in 1 .. d |-> b[i]]
      /\ c = [i \in 1 .. Len(NeededCaches) |-> c[i]]
  BY <1>7, <1>8
<1>10. ASSUME NEW i \in 1 .. Len(locals), NEW j \in 1 .. d
       PROVE  a[i] # b[j]
  BY <1>7 DEF Local, Temp
<1>11. ASSUME NEW i \in 1 .. d, NEW j \in 1 .. d, b[i] = b[j]
       PROVE  i = j
  BY <1>11 DEF Temp
<1>12. ASSUME NEW i \in 1 .. Len(NeededCaches), NEW j \in 1 .. d
       PROVE  c[i] # b[j]
  BY <1>8 DEF Cache, Temp
<1>13. \A i \in 1 .. d : b[i] = Temp(i)
  OBVIOUS
<1>14. /\ Len(a) = Len(locals) /\ Len(b) = d
       /\ Len(c) = Len(NeededCaches)
  <2>1. DOMAIN a = 1 .. Len(locals) /\ DOMAIN b = 1 .. d
        /\ DOMAIN c = 1 .. Len(NeededCaches)
    BY <1>7, <1>8
  <2> HIDE DEF a, b, c
  <2>2. a \in Seq(Range(a)) /\ b \in Seq(Range(b)) /\ c \in Seq(Range(c))
    BY <1>7, <1>8, <1>9, ListSeq
  <2> QED
    BY <1>7, <1>8, <2>1, <2>2
<1> HIDE DEF a, b, c
<1>15. a \in Seq(V) /\ b \in Seq(V) /\ c \in Seq(V)
  <2>1. a \in Seq(Range(a)) /\ b \in Seq(Range(b)) /\ c \in Seq(Range(c))
    BY <1>7, <1>8, <1>9, ListSeq
  <2> QED
    BY <2>1, WiderSeq
<1> HIDE DEF V
<1>16. ASSUME NEW i \in 1 .. d
       PROVE  Position(Allocated, Temp(i)) = Len(locals) + i
  <2>1. Position((a \o b) \o c, b[i]) = Len(a) + i
    <3>1. i \in 1 .. Len(b)
      BY <1>14
    <3>2. \A j \in 1 .. Len(a) : a[j] # b[i]
      BY <1>10, <1>14
    <3>3. \A j \in 1 .. Len(b) : b[j] = b[i] => j = i
      BY <1>11, <1>14
    <3>4. \A j \in 1 .. Len(c) : c[j] # b[i]
      BY <1>12, <1>14
    <3> QED
      BY <1>15, <3>1, <3>2, <3>3, <3>4, PositionMiddle
  <2> QED
    BY <1>6, <1>13, <1>14, <2>1
<1>17. \A i \in 1 .. d : Num(Temp(i)) = Len(locals) + i - 1
  BY <1>16 DEF Num
<1> QED
  BY <1>4, <1>7, <1>17

(* Arguments that follow one another have numbers that do.                 *)
LEMMA ArgsNumbered ==
  ASSUME IInv, generated, NEW insn, ArgsOK(insn, pool.made),
         insn.op \in {"range", "keys", "super"}
  PROVE  \E b \in Int : \A j \in Start(insn) .. Len(insn.args) : Num(insn.args[j]) = b + j
<1>1. PICK l \in Nat : \A i \in 1 .. pool.made : Num(Temp(i)) = l + i - 1
  BY TempsNumbered
<1>2. PICK a \in Int : ArgsFrom(insn, pool.made, a)
  BY DEF ArgsOK
<1>3. pool.made \in Nat
  BY MadeNat DEF IInv
<1> DEFINE b == l + a - 1
<1>4. ASSUME NEW j \in Start(insn) .. Len(insn.args)
      PROVE  Num(insn.args[j]) = b + j
  <2>1. j \in Int
    OBVIOUS
  <2>2. insn.args[j] = Temp(a + j) /\ 1 <= a + j /\ a + j <= pool.made
    BY <1>2, <1>4 DEF ArgsFrom
  <2>3. a + j \in 1 .. pool.made
    BY <1>3, <2>1, <2>2
  <2>4. Num(Temp(a + j)) = l + (a + j) - 1
    BY <1>1, <2>3
  <2> QED
    BY <2>1, <2>2, <2>4
<1>5. b \in Int
  OBVIOUS
<1> HIDE DEF b
<1> QED
  BY <1>4, <1>5

(* checkDynRangeInstruction never ends the compilation, and the arguments  *)
(* of a super call, which nobody checks, are where the interpreter looks   *)
(* for them.                                                               *)
THEOREM RangesContinuous ==
  ASSUME RestTargets \subseteq {"binding"}
  PROVE  Spec => []ArgumentsContinuous
<1>1. IInv => ArgumentsContinuous
  <2> SUFFICES ASSUME IInv, generated, NEW k \in DOMAIN insns,
                      insns[k].op \in {"range", "keys", "super"},
                      NEW j \in Start(insns[k]) + 1 .. Len(insns[k].args)
               PROVE  Num(insns[k].args[j]) = Num(insns[k].args[j - 1]) + 1
    BY DEF ArgumentsContinuous
  <2> DEFINE insn == insns[k]
  <2>1. ArgsOK(insn, pool.made)
    <3>1. PICK S : insns \in Seq(S) /\ \A x \in S : ArgsOK(x, pool.made)
      BY DEF IInv, InsnsOK
    <3>2. insns[k] \in S
      BY <3>1
    <3> QED
      BY <3>1, <3>2
  <2>2. PICK b \in Int :
          \A i \in Start(insn) .. Len(insn.args) : Num(insn.args[i]) = b + i
    BY <2>1, ArgsNumbered
  <2>3. Start(insn) \in Nat
    BY DEF Start
  <2>4. j \in Int /\ j \in Start(insn) .. Len(insn.args)
        /\ j - 1 \in Start(insn) .. Len(insn.args)
    <3> HIDE DEF insn
    <3>1. j \in Start(insn) + 1 .. Len(insn.args)
      BY DEF insn
    <3> QED
      BY <2>3, <3>1
  <2>5. Num(insn.args[j]) = b + j /\ Num(insn.args[j - 1]) = b + (j - 1)
    BY <2>2, <2>4
  <2> QED
    BY <2>4, <2>5
<1> QED
  BY <1>1, Invariance, PTL

=============================================================================
