-------------------------- MODULE ControlFlowProofs -------------------------
(***************************************************************************)
(* Proofs about ControlFlow, for any nesting, any kinds of loops and any   *)
(* labels: the levels of label targets and try statements are exact, jumps *)
(* lead where the source says and arrive aligned but for the situations    *)
(* that JumpsAligned names, what a jump finalizes is what it leaves, and   *)
(* the catch tables cover the code of their try blocks and nothing else.   *)
(***************************************************************************)
EXTENDS ControlFlow, FiniteSetTheorems, InductionLemmas, TLAPS

(* The statements around; only loops have environments.                    *)
OpenOK ==
  /\ open \in Seq([kind : Kinds, env : BOOLEAN, label : Labels \cup {None}])
  /\ \A i \in DOMAIN open : open[i].env => IsLoop(i)

(* c is the innermost loop of the first i statements, 0 if there is none.  *)
Innermost(c, i) ==
  /\ c \in 0 .. i
  /\ c # 0 => IsLoop(c)
  /\ \A j \in c + 1 .. i : ~IsLoop(j)

(* Every statement has its LabelTarget; one that is not pushed is never    *)
(* told of an environment.                                                 *)
Target == [kind : LoopKinds \cup {"switch", "block", None}, loopEnvLevel : Int,
           continueTarget : Nat, try : Nat]

TargetsOK ==
  /\ labelTarget \in Seq(Target)
  /\ Len(labelTarget) = Len(open)
  /\ \A i \in DOMAIN open :
       /\ IsBreakable(i) =>
            /\ labelTarget[i].kind = open[i].kind
            /\ Innermost(labelTarget[i].continueTarget, i)
       /\ open[i].kind = "block" => labelTarget[i].kind = "block"
       /\ ~IsBreakable(i) => labelTarget[i].loopEnvLevel = 0

(* The loops and switches are pushed in the order of their nesting.        *)
StackOK ==
  /\ labelTargetStack \in Seq(DOMAIN open)
  /\ \A i \in DOMAIN open : IsBreakable(i) =>
       \E k \in DOMAIN labelTargetStack : labelTargetStack[k] = i
  /\ \A k \in DOMAIN labelTargetStack :
       /\ IsBreakable(labelTargetStack[k])
       /\ \A m \in 1 .. k - 1 : labelTargetStack[m] < labelTargetStack[k]

(* A label is known exactly while its statement is open.                   *)
NamesOK ==
  /\ \A l \in DOMAIN name2LabelTarget :
       /\ name2LabelTarget[l] \in DOMAIN open
       /\ IsLabelled(name2LabelTarget[l], l)
  /\ \A i \in DOMAIN open : open[i].label # None =>
       /\ Known(open[i].label)
       /\ name2LabelTarget[open[i].label] = i
       /\ IsBreakable(i) \/ open[i].kind = "block"

(* The try statements and for-of loops whose blocks are open.              *)
Try == [builder : {"finally", "catch", "forof"}, stmt : Nat, loopEnvLevel : Int,
        table : Nat]

TriesOK ==
  /\ tries \in Seq(Try)
  /\ \A i \in DOMAIN open : open[i].kind \in {"finally", "catch", "forof"} =>
       \E k \in DOMAIN tries : tries[k].stmt = i
  /\ \A k \in DOMAIN tries :
       /\ tries[k].stmt \in DOMAIN open
       /\ open[tries[k].stmt].kind = tries[k].builder
       /\ \A m \in 1 .. k - 1 : tries[m].stmt < tries[k].stmt

IInv ==
  /\ OpenOK
  /\ TargetsOK
  /\ StackOK
  /\ NamesOK
  /\ TriesOK
  /\ Levels
  /\ JumpsToItsTarget
  /\ JumpsAligned
  /\ ThrowsAligned

-----------------------------------------------------------------------------
(* Counting environments.                                                  *)

LEMMA EnvsFinite ==
  ASSUME NEW a \in Int, NEW b \in Int
  PROVE  /\ IsFiniteSet(Envs(a, b))
         /\ Cardinality(Envs(a, b)) \in Nat
         /\ Cardinality(Envs(a, b)) = 0 <=> Envs(a, b) = {}
<1>1. IsFiniteSet(a .. b)
  BY FS_Interval
<1>2. Envs(a, b) \in SUBSET (a .. b)
  BY DEF Envs
<1>3. QED
  BY <1>1, <1>2, FS_Subset, FS_CardinalityType, FS_EmptySet

(* An interval is counted piecewise.                                       *)
LEMMA EnvsSplit ==
  ASSUME NEW a \in Int, NEW b \in Int, NEW c \in Int, a <= b + 1, b <= c
  PROVE  Cardinality(Envs(a, c)) =
           Cardinality(Envs(a, b)) + Cardinality(Envs(b + 1, c))
<1>1. Envs(a, c) = Envs(a, b) \cup Envs(b + 1, c)
  BY DEF Envs
<1>2. Envs(a, b) \cap Envs(b + 1, c) = {}
  BY DEF Envs
<1>3. /\ IsFiniteSet(Envs(a, b)) /\ IsFiniteSet(Envs(b + 1, c))
      /\ Cardinality(Envs(a, b)) \in Nat /\ Cardinality(Envs(b + 1, c)) \in Nat
  BY EnvsFinite, b + 1 \in Int
<1>4. Cardinality(Envs(a, b) \cup Envs(b + 1, c)) =
        Cardinality(Envs(a, b)) + Cardinality(Envs(b + 1, c)) - Cardinality({})
  BY <1>2, <1>3, FS_Union
<1>5. QED
  BY <1>1, <1>3, <1>4, FS_EmptySet

LEMMA EnvsOne ==
  ASSUME NEW a \in Int
  PROVE  Cardinality(Envs(a, a)) = IF open[a].env THEN 1 ELSE 0
<1>1. CASE open[a].env
  <2>1. Envs(a, a) = {a}
    BY <1>1 DEF Envs
  <2>2. QED
    BY <1>1, <2>1, FS_Singleton
<1>2. CASE ~open[a].env
  <2>1. Envs(a, a) = {}
    BY <1>2 DEF Envs
  <2>2. QED
    BY <1>2, <2>1, FS_EmptySet
<1>3. QED
  BY <1>1, <1>2

(* Statements that stay open count as before.                              *)
LEMMA EnvsSame ==
  ASSUME NEW a \in Int, NEW b \in Int, \A i \in a .. b : open'[i].env = open[i].env
  PROVE  Envs(a, b)' = Envs(a, b)
BY DEF Envs

(* Opening a statement adds its environment, if it has one, to all counts. *)
LEMMA EnvsOpen ==
  ASSUME OpenOK, NEW r, open' = Append(open, r), NEW a \in 1 .. Len(open) + 1
  PROVE  Cardinality(Envs(a, Len(open)))' =
           Cardinality(Envs(a, Len(open))) + IF r.env THEN 1 ELSE 0
<1>0. PICK n \in Nat : n = Len(open) /\ a \in Int
  BY DEF OpenOK
<1>5. IsFiniteSet(Envs(a, n)) /\ Cardinality(Envs(a, n)) \in Nat
  BY <1>0, EnvsFinite
<1>1. /\ Len(open)' = n + 1
      /\ \A j \in a .. n : open'[j] = open[j]
      /\ open'[n + 1] = r
  BY <1>0 DEF OpenOK
<1>2. CASE r.env
  <2>1. Envs(a, Len(open))' = Envs(a, n) \cup {n + 1}
    BY <1>0, <1>1, <1>2 DEF Envs
  <2>2. n + 1 \notin Envs(a, n)
    BY <1>0 DEF Envs
  <2>3. Cardinality(Envs(a, n) \cup {n + 1}) = Cardinality(Envs(a, n)) + 1
    BY <1>5, <2>2, FS_AddElement
  <2>4. QED
    BY <1>0, <1>2, <2>1, <2>3
<1>3. CASE ~r.env
  <2>1. Envs(a, Len(open))' = Envs(a, n)
    BY <1>0, <1>1, <1>3 DEF Envs
  <2>2. QED
    BY <1>0, <1>3, <1>5, <2>1
<1>4. QED
  BY <1>2, <1>3

(* Closing the innermost statement takes it from all counts again.         *)
LEMMA EnvsClose ==
  ASSUME OpenOK, open # <<>>, open' = Front(open), NEW a \in 1 .. Len(open)
  PROVE  Cardinality(Envs(a, Len(open)))' =
           Cardinality(Envs(a, Len(open))) - IF Top(open).env THEN 1 ELSE 0
<1>0. PICK n \in Nat : n = Len(open) /\ n > 0
  BY DEF OpenOK
<1>1. /\ Len(open)' = n - 1
      /\ \A j \in a .. n - 1 : open'[j] = open[j]
      /\ Top(open) = open[n]
  BY <1>0 DEF OpenOK, Front, Top
<1>2. Envs(a, Len(open))' = Envs(a, n - 1)
  BY <1>0, <1>1 DEF Envs
<1>3. Cardinality(Envs(a, n)) =
        Cardinality(Envs(a, n - 1)) + Cardinality(Envs(n, n))
  BY <1>0, EnvsSplit, (n - 1) + 1 = n
<1>4. Cardinality(Envs(a, n - 1)) \in Nat
  BY <1>0, EnvsFinite, n - 1 \in Int, a \in Int
<1>5. Cardinality(Envs(n, n)) = IF Top(open).env THEN 1 ELSE 0
  BY <1>0, <1>1, EnvsOne
<1>6. QED
  BY <1>0, <1>2, <1>3, <1>4, <1>5

-----------------------------------------------------------------------------
(* Opening and closing.                                                    *)

LEMMA Opened ==
  ASSUME OpenOK, NEW r \in [kind : Kinds, env : BOOLEAN, label : Labels \cup {None}],
         r.env => r.kind \in {"do", "for", "while", "forin", "forof"},
         open' = Append(open, r)
  PROVE  /\ OpenOK'
         /\ Len(open) \in Nat
         /\ Len(open') = Len(open) + 1
         /\ open'[Len(open) + 1] = r
         /\ \A i \in DOMAIN open : i \in 1 .. Len(open) /\ open'[i] = open[i]
         /\ DOMAIN open' = DOMAIN open \cup {Len(open) + 1}
<1>1. /\ Len(open) \in Nat
      /\ Len(open') = Len(open) + 1
      /\ open'[Len(open) + 1] = r
      /\ \A i \in DOMAIN open : i \in 1 .. Len(open) /\ open'[i] = open[i]
      /\ DOMAIN open' = DOMAIN open \cup {Len(open) + 1}
      /\ open' \in Seq([kind : Kinds, env : BOOLEAN, label : Labels \cup {None}])
  BY DEF OpenOK
<1>2. OpenOK'
  BY <1>1 DEF OpenOK, IsLoop
<1>3. QED
  BY <1>1, <1>2

(* Nothing but a jump disturbs what holds of jumps.                        *)
LEMMA NoJumpOK ==
  ASSUME jump' = NoJump
  PROVE  /\ JumpsToItsTarget'
         /\ JumpsAligned'
         /\ ThrowsAligned'
BY DEF JumpsToItsTarget, JumpsAligned, ThrowsAligned, NoJump, None

(* What holds of the targets around does so inside a new statement.        *)
LEMMA TargetsOpened ==
  ASSUME IInv, NEW n \in Nat, n = Len(open), OpenOK', Len(open') = n + 1,
         \A i \in 1 .. n : open'[i] = open[i],
         NEW t \in Target, NEW targets \in Seq(Target),
         labelTarget' = Append(targets, t), Len(targets) = n,
         \A i \in 1 .. n :
           /\ targets[i].kind = labelTarget[i].kind
           /\ targets[i].continueTarget = labelTarget[i].continueTarget
           /\ ~IsBreakable(i) =>
                targets[i].loopEnvLevel = labelTarget[i].loopEnvLevel,
         IF IsBreakable(n + 1)'
         THEN t.kind = open'[n + 1].kind /\ Innermost(t.continueTarget, n + 1)'
         ELSE t.loopEnvLevel = 0 /\ (open'[n + 1].kind = "block" => t.kind = "block")
  PROVE  TargetsOK'
<1>1. /\ DOMAIN open = 1 .. n
      /\ DOMAIN open' = 1 .. n + 1
      /\ DOMAIN targets = 1 .. n
      /\ DOMAIN labelTarget = 1 .. n
      /\ labelTarget \in Seq(Target)
  BY DEF IInv, TargetsOK, OpenOK
<1>2. \A j \in 1 .. n : /\ IsLoop(j)' <=> IsLoop(j)
                        /\ IsBreakable(j)' <=> IsBreakable(j)
  BY DEF IsLoop, IsBreakable
<1>3. \A i \in 1 .. n, c \in Nat : Innermost(c, i) => Innermost(c, i)'
  BY <1>2 DEF Innermost
<1>4. /\ labelTarget' \in Seq(Target)
      /\ Len(labelTarget') = n + 1
      /\ labelTarget'[n + 1] = t
      /\ \A i \in 1 .. n : labelTarget'[i] = targets[i] /\ targets[i] \in Target
  BY <1>1
<1>5. ASSUME NEW i \in 1 .. n
      PROVE  /\ IsBreakable(i)' =>
                  /\ labelTarget'[i].kind = open'[i].kind
                  /\ Innermost(labelTarget[i].continueTarget, i)'
             /\ open'[i].kind = "block" => labelTarget'[i].kind = "block"
             /\ ~IsBreakable(i)' => labelTarget'[i].loopEnvLevel = 0
  <2>1. labelTarget[i].continueTarget \in Nat
    <3>1. \A x \in Seq(Target) : \A k \in DOMAIN x : x[k] \in Target
      OBVIOUS
    <3>2. QED
      BY <1>1, <3>1 DEF Target
  <2>2. labelTarget'[i].continueTarget = labelTarget[i].continueTarget
    BY <1>4
  <2>3. IsBreakable(i) => Innermost(labelTarget[i].continueTarget, i)
    BY <1>1 DEF IInv, TargetsOK
  <2>4. IsBreakable(i)' => Innermost(labelTarget[i].continueTarget, i)'
    <3>1. PICK c \in Nat : c = labelTarget[i].continueTarget
      BY <2>1
    <3>2. labelTarget'[i].continueTarget = c
      BY <2>2, <3>1
    <3>3. IsBreakable(i)' => Innermost(c, i)
      BY <1>2, <2>3, <3>1
    <3>4. Innermost(c, i) => Innermost(c, i)'
      BY <1>3
    <3>5. QED
      BY <3>2, <3>3, <3>4
  <2>5. QED
    BY <1>1, <1>2, <1>4, <2>4, SMTT(60) DEF IInv, TargetsOK
<1>6. QED
  BY <1>1, <1>4, <1>5 DEF TargetsOK, IsBreakable, IsLoop, Innermost

LEMMA PushedOpen ==
  ASSUME StackOK
  PROVE  Pushed = {i \in DOMAIN open : IsBreakable(i)}
<1>1. \A k \in DOMAIN labelTargetStack : labelTargetStack[k] \in DOMAIN open
  BY DEF StackOK
<1>2. QED
  BY <1>1 DEF StackOK, Pushed, Range

LEMMA TriesOpen ==
  ASSUME TriesOK
  PROVE  /\ DOMAIN tries = 1 .. Len(tries)
         /\ \A k \in 1 .. Len(tries) : /\ tries[k] \in Try
                                      /\ tries[k].stmt \in DOMAIN open
                                      /\ tries[k].loopEnvLevel \in Int
<1>1. tries \in Seq(Try)
  BY DEF TriesOK
<1>2. DOMAIN tries = 1 .. Len(tries) /\ \A k \in 1 .. Len(tries) : tries[k] \in Try
  BY <1>1
<1>3. QED
  BY <1>2 DEF TriesOK, Try

(* What a statement adds to the levels around it.                          *)
Gain(r) == IF r.env THEN 1 ELSE 0

(* The levels inside a new statement.                                      *)
LEMMA LevelsOpened ==
  ASSUME IInv, NEW r, open' = Append(open, r),
         Pushed' \subseteq Pushed \cup {Len(open) + 1},
         \A i \in Pushed : labelTarget'[i].loopEnvLevel =
                           labelTarget[i].loopEnvLevel + Gain(r),
         labelTarget'[Len(open) + 1].loopEnvLevel = Gain(r),
         NEW counted \in Seq(Try), Len(counted) = Len(tries),
         \A k \in 1 .. Len(tries) :
           /\ counted[k].stmt = tries[k].stmt
           /\ counted[k].loopEnvLevel =
                tries[k].loopEnvLevel + IF k = Len(tries) THEN Gain(r) ELSE 0,
         \/ tries' = counted
         \/ \E u \in Try : /\ tries' = Append(counted, u)
                            /\ u.stmt = Len(open) + 1
                            /\ u.loopEnvLevel = 0
  PROVE  Levels'
<1>a. PICK n \in Nat, m \in Nat, e \in Int :
        n = Len(open) /\ m = Len(tries) /\ e = IF r.env THEN 1 ELSE 0
  BY DEF IInv, OpenOK, TriesOK
<1>b. /\ Pushed' \subseteq Pushed \cup {n + 1}
      /\ \A i \in Pushed :
           labelTarget'[i].loopEnvLevel = labelTarget[i].loopEnvLevel + e
      /\ labelTarget'[n + 1].loopEnvLevel = e
      /\ Len(counted) = m
      /\ \A k \in 1 .. m :
           /\ counted[k].stmt = tries[k].stmt
           /\ counted[k].loopEnvLevel =
                tries[k].loopEnvLevel + IF k = m THEN e ELSE 0
      /\ \/ tries' = counted
         \/ \E u \in Try : /\ tries' = Append(counted, u)
                            /\ u.stmt = n + 1
                            /\ u.loopEnvLevel = 0
  BY <1>a DEF Gain
<1>1. /\ e \in {0, 1}
      /\ Len(open') = n + 1
      /\ DOMAIN open = 1 .. n
      /\ \A i \in 1 .. n : open'[i] = open[i]
  BY <1>a, <1>b DEF IInv, OpenOK
<1>7. Pushed \subseteq 1 .. n
  BY <1>a, <1>b, <1>1, PushedOpen DEF IInv
<1>8. /\ DOMAIN tries = 1 .. m
      /\ \A k \in 1 .. m : /\ tries[k].stmt \in 1 .. n
                           /\ tries[k].loopEnvLevel \in Int
  BY <1>a, <1>b, <1>1, TriesOpen DEF IInv
<1>9. PICK p \in Nat :
        /\ p = Len(tries')
        /\ DOMAIN tries' = 1 .. p
        /\ \A k \in 1 .. m : /\ tries'[k].stmt = tries[k].stmt
                             /\ tries'[k].loopEnvLevel = counted[k].loopEnvLevel
        /\ \/ p = m
           \/ /\ p = m + 1
              /\ tries'[m + 1].stmt = n + 1
              /\ tries'[m + 1].loopEnvLevel = 0
  <2>1. CASE tries' = counted
    BY <1>a, <1>b, <2>1
  <2>2. CASE \E u \in Try : /\ tries' = Append(counted, u)
                            /\ u.stmt = n + 1
                            /\ u.loopEnvLevel = 0
    <3>1. PICK u \in Try : /\ tries' = Append(counted, u)
                          /\ u.stmt = n + 1
                          /\ u.loopEnvLevel = 0
      BY <1>a, <1>b, <2>2
    <3>2. /\ Len(tries') = m + 1
          /\ DOMAIN tries' = 1 .. m + 1
          /\ \A k \in 1 .. m : tries'[k] = counted[k]
          /\ tries'[m + 1] = u
      BY <1>b, <3>1
    <3>3. QED
      BY <3>1, <3>2
  <2>3. QED
    BY <1>b, <2>1, <2>2
<1>10. ASSUME NEW k \in DOMAIN tries'
       PROVE  \/ k \in 1 .. m /\ k # m /\ k + 1 \in 1 .. m /\ p # k
              \/ k \in 1 .. m /\ k = m
              \/ k = m + 1 /\ p = k
  BY <1>a, <1>b, <1>9, <1>10
<1>2. \A a \in 1 .. n + 1 :
        Cardinality(Envs(a, Len(open)))' = Cardinality(Envs(a, Len(open))) + e
  BY <1>a, <1>b, EnvsOpen DEF IInv
<1>3. \A a \in 1 .. n + 2 : a > n => Cardinality(Envs(a, n)) = 0
  <2>1. \A a \in 1 .. n + 2 : a > n => Envs(a, n) = {}
    BY DEF Envs
  <2>2. QED
    BY <2>1, FS_EmptySet
<1>4. ASSUME NEW i \in Pushed'
      PROVE  labelTarget'[i].loopEnvLevel = Cardinality(Envs(i, Len(open)))'
  <2>1. CASE i \in Pushed
    <3>1. labelTarget[i].loopEnvLevel = Cardinality(Envs(i, Len(open)))
      BY <1>a, <1>b, <2>1 DEF IInv, Levels
    <3>2. labelTarget'[i].loopEnvLevel = labelTarget[i].loopEnvLevel + e
      BY <1>b, <2>1
    <3>3. i \in 1 .. n + 1
      BY <1>7, <2>1
    <3>4. QED
      BY <1>2, <3>1, <3>2, <3>3
  <2>2. CASE i = n + 1
    BY <1>a, <1>b, <1>1, <1>2, <1>3, <2>2
  <2>3. QED
    BY <1>b, <1>4, <2>1, <2>2
<1>5. ASSUME NEW k \in DOMAIN tries'
      PROVE  tries'[k].loopEnvLevel =
               Cardinality(Envs(tries[k].stmt + 1,
                 IF k = Len(tries) THEN Len(open) ELSE tries[k + 1].stmt))'
  <2>1. CASE k \in 1 .. m /\ k # m /\ k + 1 \in 1 .. m /\ p # k
    <3>0. PICK next \in 1 .. m : next = k + 1
      BY <1>a, <1>b, <2>1
    <3>1. /\ tries'[k].stmt = tries[k].stmt
          /\ tries'[k + 1].stmt = tries[k + 1].stmt
          /\ tries'[k].loopEnvLevel = tries[k].loopEnvLevel
          /\ Len(tries') # k
      <4>1. tries'[k].stmt = tries[k].stmt /\ Len(tries') # k
        BY <1>a, <1>b, <1>9, <2>1
      <4>2. tries'[k + 1].stmt = tries[k + 1].stmt
        BY <1>a, <1>b, <1>9, <3>0
      <4>3. tries'[k].loopEnvLevel = tries[k].loopEnvLevel
        BY <1>a, <1>b, <1>1, <1>8, <1>9, <2>1
      <4>4. QED
        BY <1>a, <1>b, <4>1, <4>2, <4>3
    <3>2. PICK a \in Int, b \in Int : a = tries[k].stmt + 1 /\ b = tries[k + 1].stmt
                                    /\ a > 0 /\ b <= n
      BY <1>a, <1>b, <1>8, <2>1, SMTT(60)
    <3>3. \A i \in a .. b : open'[i] = open[i]
      BY <1>a, <1>b, <1>1, <2>1, <3>2, SMTT(60)
    <3>4. Envs(a, b)' = Envs(a, b)
      BY <1>a, <1>b, <3>3, EnvsSame
    <3>5. tries[k].loopEnvLevel = Cardinality(Envs(a, b))
      BY <1>a, <1>b, <1>8, <2>1, <3>2 DEF IInv, Levels
    <3>6. QED
      BY <1>a, <1>b, <3>1, <3>2, <3>4, <3>5
  <2>2. CASE k \in 1 .. m /\ k = m
    <3>1. /\ tries'[k].stmt = tries[k].stmt
          /\ tries'[k].loopEnvLevel = tries[k].loopEnvLevel + e
          /\ Len(tries') # k => tries'[k + 1].stmt = n + 1
      BY <1>a, <1>b, <1>8, <1>9, <2>2
    <3>2. PICK a \in 1 .. n + 1 : a = tries[k].stmt + 1
      BY <1>a, <1>b, <1>8, <2>2
    <3>3. tries[k].loopEnvLevel = Cardinality(Envs(a, Len(open)))
      BY <1>a, <1>b, <1>8, <2>2, <3>2 DEF IInv, Levels
    <3>4. tries'[k].loopEnvLevel = Cardinality(Envs(a, Len(open)))'
      BY <1>a, <1>b, <1>2, <3>1, <3>2, <3>3
    <3>5. QED
      BY <1>a, <1>b, <1>1, <3>1, <3>2, <3>4
  <2>3. CASE k = m + 1 /\ p = k
    <3>1. /\ tries'[k].stmt = n + 1
          /\ tries'[k].loopEnvLevel = 0
          /\ Len(tries') = k
      BY <1>a, <1>b, <1>9, <2>3
    <3>2. Envs(tries[k].stmt + 1, Len(open))' = {}
      BY <1>a, <1>b, <1>1, <3>1 DEF Envs
    <3>3. QED
      BY <1>a, <1>b, <1>1, <3>1, <3>2, FS_EmptySet
  <2>4. QED
    BY <1>a, <1>b, <1>5, <1>10, <2>1, <2>2, <2>3
<1>6. QED
  BY <1>a, <1>b, <1>4, <1>5 DEF Levels

LEMMA LevelsOpenedPlain ==
  ASSUME IInv, NEW r, open' = Append(open, r), ~r.env,
         Pushed' \subseteq Pushed \cup {Len(open) + 1},
         \A i \in Pushed :
           labelTarget'[i].loopEnvLevel = labelTarget[i].loopEnvLevel,
         \A i \in Pushed : labelTarget[i].loopEnvLevel \in Int,
         labelTarget'[Len(open) + 1].loopEnvLevel = 0,
         \/ tries' = tries
         \/ \E u \in Try : /\ tries' = Append(tries, u)
                            /\ u.stmt = Len(open) + 1
                            /\ u.loopEnvLevel = 0
  PROVE  Levels'
<1>1. PICK counted \in Seq(Try) : counted = tries
  BY DEF IInv, TriesOK
<1>2. Gain(r) = 0
  BY DEF Gain
<1>3. \A i \in Pushed : labelTarget'[i].loopEnvLevel =
                        labelTarget[i].loopEnvLevel + Gain(r)
  BY <1>2
<1>4. \A k \in 1 .. Len(tries) :
        /\ counted[k].stmt = tries[k].stmt
        /\ counted[k].loopEnvLevel =
             tries[k].loopEnvLevel + IF k = Len(tries) THEN Gain(r) ELSE 0
  BY <1>1, <1>2, TriesOpen DEF IInv
<1>5. /\ Len(counted) = Len(tries)
      /\ \/ tries' = counted
         \/ \E u \in Try : /\ tries' = Append(counted, u)
                            /\ u.stmt = Len(open) + 1
                            /\ u.loopEnvLevel = 0
  BY <1>1
<1>6. QED
  BY <1>2, <1>3, <1>4, <1>5, LevelsOpened

(* The other tables inside a new statement.                                *)
LEMMA StackOpened ==
  ASSUME IInv, NEW n \in Nat, DOMAIN open = 1 .. n, DOMAIN open' = 1 .. n + 1,
         \A i \in 1 .. n : open'[i] = open[i],
         labelTargetStack' = IF IsBreakable(n + 1)'
                             THEN Append(labelTargetStack, n + 1)
                             ELSE labelTargetStack
  PROVE  StackOK' /\ Pushed' \subseteq Pushed \cup {n + 1}
<1>1. PICK d \in Nat : d = Len(labelTargetStack) /\ DOMAIN labelTargetStack = 1 .. d
  BY DEF IInv, StackOK
<1>2. \A i \in 1 .. n : IsBreakable(i)' <=> IsBreakable(i)
  BY DEF IsBreakable, IsLoop
<1>3. /\ labelTargetStack \in Seq(1 .. n)
      /\ \A k \in 1 .. d :
           /\ labelTargetStack[k] \in 1 .. n
           /\ IsBreakable(labelTargetStack[k])
           /\ \A m \in 1 .. k - 1 : labelTargetStack[m] < labelTargetStack[k]
      /\ \A i \in 1 .. n : IsBreakable(i) =>
           \E k \in 1 .. d : labelTargetStack[k] = i
  <2>1. labelTargetStack \in Seq(1 .. n)
    BY DEF IInv, StackOK
  <2>2. \A k \in 1 .. d : labelTargetStack[k] \in 1 .. n
    BY <1>1, <2>1
  <2>3. QED
    BY <1>1, <2>1, <2>2 DEF IInv, StackOK
<1>4. CASE IsBreakable(n + 1)'
  <2>1. /\ labelTargetStack' \in Seq(1 .. n + 1)
        /\ DOMAIN labelTargetStack' = 1 .. d + 1
        /\ \A k \in 1 .. d : labelTargetStack'[k] = labelTargetStack[k]
        /\ labelTargetStack'[d + 1] = n + 1
    BY <1>1, <1>3, <1>4
  <2>2. \A k \in 1 .. d + 1 :
          /\ IsBreakable(labelTargetStack[k])'
          /\ \A m \in 1 .. k - 1 : labelTargetStack'[m] < labelTargetStack'[k]
    BY <1>2, <1>3, <1>4, <2>1
  <2>3. \A i \in 1 .. n + 1 : IsBreakable(i)' =>
          \E k \in 1 .. d + 1 : labelTargetStack'[k] = i
    BY <1>2, <1>3, <2>1
  <2>4. StackOK'
    BY <2>1, <2>2, <2>3 DEF StackOK
  <2>5. Pushed' \subseteq Pushed \cup {n + 1}
    BY <1>1, <2>1 DEF Pushed, Range
  <2>6. QED
    BY <2>4, <2>5
<1>5. CASE ~IsBreakable(n + 1)'
  <2>1. labelTargetStack' = labelTargetStack /\ labelTargetStack' \in Seq(1 .. n + 1)
    BY <1>3, <1>5
  <2>2. \A k \in 1 .. d : IsBreakable(labelTargetStack[k])'
    BY <1>2, <1>3, <2>1
  <2>3. QED
    BY <1>1, <1>2, <1>3, <1>5, <2>1, <2>2 DEF StackOK, Pushed, Range
<1>6. QED
  BY <1>4, <1>5

LEMMA NamesOpened ==
  ASSUME IInv, NEW n \in Nat, DOMAIN open = 1 .. n, DOMAIN open' = 1 .. n + 1,
         \A i \in 1 .. n : open'[i] = open[i],
         ~Known(open'[n + 1].label),
         open'[n + 1].label # None =>
           IsBreakable(n + 1)' \/ open'[n + 1].kind = "block",
         name2LabelTarget' = Named(open'[n + 1].label, n + 1)
  PROVE  NamesOK'
<1>1. \A i \in 1 .. n : /\ IsBreakable(i)' <=> IsBreakable(i)
                        /\ \A l : IsLabelled(i, l)' <=> IsLabelled(i, l)
  BY DEF IsBreakable, IsLoop, IsLabelled
<1>2. CASE open'[n + 1].label = None
  BY <1>1, <1>2 DEF IInv, NamesOK, Named, Known
<1>3. CASE open'[n + 1].label # None
  BY <1>1, <1>3 DEF IInv, NamesOK, Named, Known, IsLabelled
<1>4. QED
  BY <1>2, <1>3

LEMMA TriesOpened ==
  ASSUME IInv, NEW n \in Nat, DOMAIN open = 1 .. n, DOMAIN open' = 1 .. n + 1,
         \A i \in 1 .. n : open'[i] = open[i],
         NEW m \in Nat, m = Len(tries), NEW counted \in Seq(Try),
         Len(counted) = m,
         \A k \in 1 .. m : /\ counted[k].stmt = tries[k].stmt
                           /\ counted[k].builder = tries[k].builder,
         IF open'[n + 1].kind \in {"finally", "catch", "forof"}
         THEN \E u \in Try : /\ tries' = Append(counted, u)
                             /\ u.stmt = n + 1
                             /\ u.builder = open'[n + 1].kind
         ELSE tries' = counted
  PROVE  TriesOK'
<1>1. /\ DOMAIN tries = 1 .. m /\ DOMAIN counted = 1 .. m
      /\ \A i \in 1 .. n : open[i].kind \in {"finally", "catch", "forof"} =>
           \E k \in 1 .. m : counted[k].stmt = i
      /\ \A k \in 1 .. m :
           /\ counted[k].stmt \in 1 .. n
           /\ open[counted[k].stmt].kind = counted[k].builder
           /\ \A h \in 1 .. k - 1 : counted[h].stmt < counted[k].stmt
  <2>1. DOMAIN tries = 1 .. m /\ DOMAIN counted = 1 .. m
    BY TriesOpen DEF IInv
  <2>2. \A i \in 1 .. n : open[i].kind \in {"finally", "catch", "forof"} =>
          \E k \in 1 .. m : tries[k].stmt = i
    BY <2>1 DEF IInv, TriesOK
  <2>3. \A k \in 1 .. m :
          /\ tries[k].stmt \in 1 .. n
          /\ open[tries[k].stmt].kind = tries[k].builder
          /\ \A h \in 1 .. k - 1 : tries[h].stmt < tries[k].stmt
    BY <2>1 DEF IInv, TriesOK
  <2>4. \A k \in 1 .. m : \A h \in 1 .. k - 1 : h \in 1 .. m
    OBVIOUS
  <2>5. QED
    BY <2>1, <2>2, <2>3, <2>4, SMTT(60)
<1>2. CASE open'[n + 1].kind \in {"finally", "catch", "forof"}
  <2>1. PICK u \in Try : /\ tries' = Append(counted, u)
                        /\ u.stmt = n + 1
                        /\ u.builder = open'[n + 1].kind
    BY <1>2
  <2>2. /\ tries' \in Seq(Try)
        /\ DOMAIN tries' = 1 .. m + 1
        /\ \A k \in 1 .. m : tries'[k] = counted[k]
        /\ tries'[m + 1] = u
    BY <2>1
  <2>3. \A k \in 1 .. m + 1 :
          /\ tries'[k].stmt \in 1 .. n + 1
          /\ open'[tries'[k].stmt].kind = tries'[k].builder
          /\ \A h \in 1 .. k - 1 : tries'[h].stmt < tries'[k].stmt
    BY <1>1, <2>1, <2>2
  <2>4. \A i \in 1 .. n + 1 : open'[i].kind \in {"finally", "catch", "forof"} =>
          \E k \in 1 .. m + 1 : tries'[k].stmt = i
    <3>1. ASSUME NEW i \in 1 .. n, open[i].kind \in {"finally", "catch", "forof"}
          PROVE  \E k \in 1 .. m + 1 : tries'[k].stmt = i
      <4>1. PICK k \in 1 .. m : counted[k].stmt = i
        BY <1>1, <3>1
      <4>2. k \in 1 .. m + 1 /\ tries'[k].stmt = i
        BY <2>2, <4>1
      <4>3. QED
        BY <4>2
    <3>2. m + 1 \in 1 .. m + 1 /\ tries'[m + 1].stmt = n + 1
      BY <2>1, <2>2
    <3>3. \A i \in 1 .. n : open'[i].kind = open[i].kind
      OBVIOUS
    <3>4. \A i \in 1 .. n + 1 : i \in 1 .. n \/ i = n + 1
      OBVIOUS
    <3>5. QED
      BY <3>1, <3>2, <3>3, <3>4
  <2>5. QED
    BY <2>2, <2>3, <2>4 DEF TriesOK
<1>3. CASE open'[n + 1].kind \notin {"finally", "catch", "forof"}
  <2>1. tries' = counted
    BY <1>3
  <2>2. \A k \in 1 .. m : counted[k].stmt \in 1 .. n + 1
    BY <1>1
  <2>3. \A k \in 1 .. m : open'[counted[k].stmt].kind = counted[k].builder
    BY <1>1
  <2>4. \A i \in 1 .. n + 1 : open'[i].kind \in {"finally", "catch", "forof"} =>
          \E k \in 1 .. m : counted[k].stmt = i
    BY <1>1, <1>3
  <2>5. QED
    BY <1>1, <2>1, <2>2, <2>3, <2>4 DEF TriesOK
<1>4. QED
  BY <1>2, <1>3

(* What increasing all levels leaves alone.                                *)
LEMMA LeveledOK ==
  ASSUME TargetsOK, StackOK, NEW by \in Int
  PROVE  /\ Leveled(by) \in Seq(Target)
         /\ Len(Leveled(by)) = Len(open)
         /\ \A i \in 1 .. Len(open) :
              /\ Leveled(by)[i].kind = labelTarget[i].kind
              /\ Leveled(by)[i].continueTarget = labelTarget[i].continueTarget
              /\ i \in Pushed => Leveled(by)[i].loopEnvLevel =
                                  labelTarget[i].loopEnvLevel + by
              /\ i \notin Pushed => Leveled(by)[i] = labelTarget[i]
<1>1. /\ labelTarget \in Seq(Target)
      /\ Len(labelTarget) = Len(open)
      /\ Len(open) \in Nat
      /\ DOMAIN labelTarget = 1 .. Len(open)
  BY DEF TargetsOK
<1>2. \A i \in 1 .. Len(open) : labelTarget[i] \in Target
  BY <1>1
<1>3. \A i \in 1 .. Len(open) :
        [labelTarget[i] EXCEPT !.loopEnvLevel = @ + by] \in Target
  BY <1>2 DEF Target
<1>4. Leveled(by) \in [1 .. Len(open) -> Target]
  BY <1>1, <1>2, <1>3 DEF Leveled
<1>5. Leveled(by) \in Seq(Target) /\ Len(Leveled(by)) = Len(open)
  BY <1>1, <1>4
<1>6. QED
  BY <1>1, <1>2, <1>5 DEF Leveled, Target

LEMMA TriesLeveledOK ==
  ASSUME NEW chain \in Seq(Try), NEW by \in Int
  PROVE  /\ TriesLeveled(chain, by) \in Seq(Try)
         /\ Len(TriesLeveled(chain, by)) = Len(chain)
         /\ \A k \in 1 .. Len(chain) :
              /\ TriesLeveled(chain, by)[k].stmt = chain[k].stmt
              /\ TriesLeveled(chain, by)[k].builder = chain[k].builder
              /\ TriesLeveled(chain, by)[k].loopEnvLevel =
                   chain[k].loopEnvLevel + IF k = Len(chain) THEN by ELSE 0
<1>1. \A k \in 1 .. Len(chain) : chain[k] \in Try /\ chain[k].loopEnvLevel \in Int
  <2>1. \A k \in 1 .. Len(chain) : chain[k] \in Try
    OBVIOUS
  <2>2. QED
    BY <2>1 DEF Try
<1>2. CASE chain = <<>>
  BY <1>2 DEF TriesLeveled
<1>3. CASE chain # <<>>
  <2>1. Len(chain) \in Nat /\ Len(chain) \in 1 .. Len(chain)
    BY <1>3
  <2>2. [chain[Len(chain)] EXCEPT !.loopEnvLevel = @ + by] \in Try
    <3>1. PICK c \in Try : c = chain[Len(chain)] /\ c.loopEnvLevel \in Int
      BY <1>1, <2>1
    <3>2. c.loopEnvLevel + by \in Int
      BY <3>1
    <3>3. QED
      BY <3>1, <3>2 DEF Try
  <2>3. TriesLeveled(chain, by) \in Seq(Try) /\ Len(TriesLeveled(chain, by)) = Len(chain)
    BY <1>3, <2>1, <2>2 DEF TriesLeveled
  <2>4. QED
    BY <1>1, <1>3, <2>1, <2>3, SMTT(60) DEF TriesLeveled, Try
<1>4. QED
  BY <1>2, <1>3

-----------------------------------------------------------------------------
(* One lemma for each step that opens a statement.                         *)

LEMMA EnterLoopStep ==
  ASSUME IInv, NEW kind \in LoopKinds, NEW env \in BOOLEAN,
         NEW label \in Labels \cup {None}, EnterLoop(kind, env, label)
  PROVE  IInv'
<1> DEFINE r == [kind |-> kind, env |-> env, label |-> label]
           counted == IF env THEN TriesLeveled(tries, 1) ELSE tries
           targets == IF env THEN Leveled(1) ELSE labelTarget
           e == IF env THEN 1 ELSE 0
<1>1. PICK n \in Nat : n = Len(open) /\ DOMAIN open = 1 .. n
  BY DEF IInv, OpenOK
<1>2. kind \in {"do", "for", "while", "forin", "forof"}
  BY ControlFlowAssumption
<1>3. /\ OpenOK' /\ open' = Append(open, r) /\ Len(open') = n + 1
      /\ DOMAIN open' = 1 .. n + 1
      /\ open'[n + 1] = r
      /\ \A i \in 1 .. n : open'[i] = open[i]
  <2>1. r \in [kind : Kinds, env : BOOLEAN, label : Labels \cup {None}]
    BY DEF Kinds
  <2>2. open' = Append(open, r)
    BY DEF EnterLoop, Open
  <2>3. OpenOK' /\ open'[Len(open) + 1] = r
    BY <1>2, <2>1, <2>2, Opened DEF IInv
  <2>4. QED
    BY <1>1, <2>2, <2>3
<1>4. IsBreakable(n + 1)' /\ IsLoop(n + 1)'
  BY <1>2, <1>3 DEF IsBreakable, IsLoop
<1>5. /\ StackOK'
      /\ Pushed' \subseteq Pushed \cup {n + 1}
  BY <1>1, <1>3, <1>4, StackOpened DEF EnterLoop
<1>6. NamesOK'
  BY <1>1, <1>3, <1>4, NamesOpened DEF EnterLoop
<1>7. PICK m \in Nat : m = Len(tries) /\ tries \in Seq(Try) /\ DOMAIN tries = 1 .. m
  BY DEF IInv, TriesOK
<1>8. /\ counted \in Seq(Try)
      /\ Len(counted) = m
      /\ \A k \in 1 .. m :
           /\ counted[k].stmt = tries[k].stmt
           /\ counted[k].builder = tries[k].builder
           /\ counted[k].loopEnvLevel =
                tries[k].loopEnvLevel + IF k = m THEN e ELSE 0
  <2>1. \A k \in 1 .. m : tries[k].loopEnvLevel \in Int
    BY <1>7, TriesOpen DEF IInv
  <2>2. QED
    BY <1>7, <2>1, TriesLeveledOK
<1>9. IF kind = "forof"
      THEN \E u \in Try : /\ tries' = Append(counted, u)
                          /\ u.stmt = n + 1
                          /\ u.loopEnvLevel = 0
                          /\ u.builder = kind
      ELSE tries' = counted
  <2>1. CASE kind = "forof"
    <3>1. NewTry("forof") \in Try
      BY <1>1 DEF NewTry, Try
    <3>2. tries' = Append(counted, NewTry("forof"))
      BY <2>1 DEF EnterLoop
    <3>3. QED
      BY <1>1, <2>1, <3>1, <3>2 DEF NewTry
  <2>2. CASE kind # "forof"
    BY <2>2 DEF EnterLoop
  <2>3. QED
    BY <2>1, <2>2
<1> HIDE DEF counted, targets
<1>10. TriesOK'
  <2>1. IF open'[n + 1].kind \in {"finally", "catch", "forof"}
        THEN \E u \in Try : /\ tries' = Append(counted, u)
                            /\ u.stmt = n + 1
                            /\ u.builder = open'[n + 1].kind
        ELSE tries' = counted
    BY <1>2, <1>3, <1>9
  <2>2. QED
    BY <1>1, <1>3, <1>7, <1>8, <2>1, TriesOpened, SMTT(60)
<1>11. /\ targets \in Seq(Target)
       /\ Len(targets) = n
       /\ \A i \in 1 .. n :
            /\ targets[i].kind = labelTarget[i].kind
            /\ targets[i].continueTarget = labelTarget[i].continueTarget
            /\ i \in Pushed => targets[i].loopEnvLevel = labelTarget[i].loopEnvLevel + e
            /\ ~IsBreakable(i) => targets[i].loopEnvLevel = labelTarget[i].loopEnvLevel
  <2>1. CASE env
    <3>1. \A i \in 1 .. n : ~IsBreakable(i) => i \notin Pushed
      BY <1>1, PushedOpen DEF IInv
    <3>2. QED
      BY <1>1, <2>1, <3>1, LeveledOK DEF IInv, targets
  <2>2. CASE ~env
    <3>1. /\ labelTarget \in Seq(Target)
          /\ Len(labelTarget) = n
      BY <1>1 DEF IInv, TargetsOK
    <3>2. \A i \in Pushed : labelTarget[i].loopEnvLevel \in Int
      <4>1. \A i \in 1 .. n : labelTarget[i] \in Target
        BY <3>1
      <4>2. QED
        BY <1>1, <4>1, PushedOpen DEF IInv, Target
    <3>3. QED
      BY <2>2, <3>1, <3>2 DEF targets
  <2>3. QED
    BY <2>1, <2>2
<1>12. PICK t \in Target :
         /\ labelTarget' = Append(targets, t)
         /\ t.kind = kind
         /\ t.continueTarget = n + 1
         /\ t.loopEnvLevel = e
  <2>1. NewLabelTarget(kind, env, n + 1) \in Target
    BY <1>7 DEF NewLabelTarget, Target
  <2>2. labelTarget' = Append(targets, NewLabelTarget(kind, env, n + 1))
    BY <1>1 DEF EnterLoop, targets
  <2>3. QED
    BY <2>1, <2>2 DEF NewLabelTarget
<1>13. labelTarget'[n + 1] = t /\ \A i \in 1 .. n : labelTarget'[i] = targets[i]
  BY <1>11, <1>12
<1>14. TargetsOK'
  <2>1. Innermost(t.continueTarget, n + 1)'
    BY <1>4, <1>12 DEF Innermost
  <2>2. t.kind = open'[n + 1].kind
    BY <1>3, <1>12
  <2>3. \A i \in 1 .. n :
           /\ targets[i].kind = labelTarget[i].kind
           /\ targets[i].continueTarget = labelTarget[i].continueTarget
           /\ ~IsBreakable(i) =>
                targets[i].loopEnvLevel = labelTarget[i].loopEnvLevel
    BY <1>11
  <2>4. QED
    BY <1>1, <1>3, <1>4, <1>11, <1>12, <2>1, <2>2, <2>3, TargetsOpened
<1>15. Levels'
  <2>1. Pushed \subseteq 1 .. n
    BY <1>1, PushedOpen DEF IInv
  <2>2. \/ tries' = counted
        \/ \E u \in Try : /\ tries' = Append(counted, u)
                           /\ u.stmt = n + 1
                           /\ u.loopEnvLevel = 0
    BY <1>9
  <2>3. Gain(r) = e
    BY DEF Gain
  <2>4. labelTarget'[n + 1].loopEnvLevel = Gain(r)
    BY <1>12, <1>13, <2>3
  <2>5. \A i \in Pushed : labelTarget'[i].loopEnvLevel =
                          labelTarget[i].loopEnvLevel + Gain(r)
    BY <1>11, <1>13, <2>1, <2>3
  <2>6. \A k \in 1 .. m :
          /\ counted[k].stmt = tries[k].stmt
          /\ counted[k].loopEnvLevel =
               tries[k].loopEnvLevel + IF k = m THEN Gain(r) ELSE 0
    BY <1>8, <2>3
  <2> HIDE DEF r, e
  <2>7. QED
    BY <1>1, <1>3, <1>5, <1>7, <1>8, <2>2, <2>4, <2>5, <2>6, LevelsOpened
<1>16. QED
  BY <1>3, <1>5, <1>6, <1>10, <1>14, <1>15, NoJumpOK
  DEF IInv, EnterLoop, Compiling

(* The top of the stack is the innermost loop or switch.                   *)
LEMMA TopInnermost ==
  ASSUME IInv
  PROVE  /\ labelTargetStack = <<>> => \A i \in DOMAIN open : ~IsBreakable(i)
         /\ labelTargetStack # <<>> =>
              /\ Top(labelTargetStack) \in DOMAIN open
              /\ Top(labelTargetStack) \in Pushed
              /\ IsBreakable(Top(labelTargetStack))
              /\ \A i \in DOMAIN open : IsBreakable(i) => i <= Top(labelTargetStack)
<1>1. PICK n \in Nat : n = Len(open) /\ DOMAIN open = 1 .. n
  BY DEF IInv, OpenOK
<1>2. PICK d \in Nat : d = Len(labelTargetStack) /\ DOMAIN labelTargetStack = 1 .. d
  BY DEF IInv, StackOK
<1>3. \A k \in 1 .. d : labelTargetStack[k] \in 1 .. n
  <2>1. labelTargetStack \in Seq(1 .. n)
    BY <1>1 DEF IInv, StackOK
  <2>2. QED
    BY <1>2, <2>1
<1>4. CASE labelTargetStack = <<>>
  BY <1>4 DEF IInv, StackOK
<1>5. CASE labelTargetStack # <<>>
  <2>1. d \in 1 .. d
    <3>1. d # 0
      BY <1>2, <1>5 DEF IInv, StackOK
    <3>2. QED
      BY <3>1
  <2>2. \A k \in 1 .. d : labelTargetStack[k] <= labelTargetStack[d]
    BY <1>2, <1>3, <2>1 DEF IInv, StackOK
  <2>3. Top(labelTargetStack) = labelTargetStack[d]
    BY <1>2 DEF Top
  <2>4. IsBreakable(labelTargetStack[d]) /\ labelTargetStack[d] \in Pushed
    BY <1>2, <2>1 DEF IInv, StackOK, Pushed, Range
  <2>5. \A i \in 1 .. n : IsBreakable(i) => i <= labelTargetStack[d]
    BY <1>1, <1>2, <2>2 DEF IInv, StackOK
  <2>6. QED
    BY <1>1, <1>3, <1>5, <2>1, <2>3, <2>4, <2>5
<1>6. QED
  BY <1>4, <1>5

LEMMA CloseInnermost ==
  ASSUME IInv
  PROVE  Innermost(CloseContinueTarget, Len(open))
<1>1. PICK n \in Nat : n = Len(open) /\ DOMAIN open = 1 .. n
  BY DEF IInv, OpenOK
<1>2. CASE labelTargetStack = <<>>
  BY <1>1, <1>2, TopInnermost DEF CloseContinueTarget, Innermost, IsBreakable
<1>3. CASE labelTargetStack # <<>>
  <2>1. PICK top \in 1 .. n :
          /\ top = Top(labelTargetStack)
          /\ IsBreakable(top)
          /\ \A i \in 1 .. n : IsBreakable(i) => i <= top
    BY <1>1, <1>3, TopInnermost
  <2>2. Innermost(labelTarget[top].continueTarget, top)
    BY <1>1, <2>1 DEF IInv, TargetsOK
  <2>3. PICK c \in Nat : c = labelTarget[top].continueTarget
    BY <2>2 DEF Innermost
  <2>4. \A j \in top + 1 .. n : ~IsLoop(j)
    BY <2>1 DEF IsBreakable
  <2>5. \A j \in c + 1 .. n : j \in c + 1 .. top \/ j \in top + 1 .. n
    OBVIOUS
  <2>6. Innermost(c, n)
    BY <2>1, <2>2, <2>3, <2>4, <2>5 DEF Innermost
  <2>7. QED
    BY <1>1, <1>3, <2>1, <2>3, <2>6 DEF CloseContinueTarget
<1>4. QED
  BY <1>2, <1>3

(* Opening a statement that has no environment.                            *)
LEMMA OpenNoEnv ==
  ASSUME IInv, NEW kind \in {"switch", "block", "finally", "catch"},
         NEW label \in Labels \cup {None}, Open(kind, FALSE, label),
         label # None => ~Known(label) /\ kind \in {"switch", "block"},
         NEW t \in Target, labelTarget' = Append(labelTarget, t),
         t.loopEnvLevel = 0,
         kind \in {"switch", "block"} => t.kind = kind,
         kind = "switch" => Innermost(t.continueTarget, Len(open)),
         labelTargetStack' = IF kind = "switch"
                             THEN Append(labelTargetStack, Len(open) + 1)
                             ELSE labelTargetStack,
         name2LabelTarget' = Named(label, Len(open) + 1),
         tries' = IF kind \in {"finally", "catch"} THEN Append(tries, NewTry(kind))
                  ELSE tries,
         jump' = NoJump
  PROVE  IInv'
<1> DEFINE r == [kind |-> kind, env |-> FALSE, label |-> label]
<1>1. PICK n \in Nat : n = Len(open) /\ DOMAIN open = 1 .. n
  BY DEF IInv, OpenOK
<1>2. /\ OpenOK' /\ open' = Append(open, r) /\ Len(open') = n + 1
      /\ DOMAIN open' = 1 .. n + 1
      /\ open'[n + 1] = r
      /\ \A i \in 1 .. n : open'[i] = open[i]
  <2>1. r \in [kind : Kinds, env : BOOLEAN, label : Labels \cup {None}]
    BY DEF Kinds
  <2>2. open' = Append(open, r)
    BY DEF Open
  <2>3. OpenOK' /\ open'[Len(open) + 1] = r
    BY <2>1, <2>2, Opened DEF IInv
  <2>4. QED
    BY <1>1, <2>2, <2>3
<1>3. (IsBreakable(n + 1)' <=> kind = "switch") /\ ~IsLoop(n + 1)'
  BY <1>2 DEF IsBreakable, IsLoop
<1>4. StackOK' /\ Pushed' \subseteq Pushed \cup {n + 1}
  BY <1>1, <1>2, <1>3, StackOpened
<1>5. NamesOK'
  <2>1. ~Known(label)
    BY DEF IInv, NamesOK, Known, IsLabelled
  <2>2. QED
    BY <1>1, <1>2, <1>3, <2>1, NamesOpened
<1>6. PICK m \in Nat : m = Len(tries) /\ tries \in Seq(Try)
  BY DEF IInv, TriesOK
<1>7. IF kind \in {"finally", "catch"}
      THEN \E u \in Try : /\ tries' = Append(tries, u)
                          /\ u.stmt = n + 1
                          /\ u.loopEnvLevel = 0
                          /\ u.builder = kind
      ELSE tries' = tries
  <2>1. CASE kind \in {"finally", "catch"}
    <3>1. NewTry(kind) \in Try
      BY <1>1, <2>1 DEF NewTry, Try
    <3>2. QED
      BY <1>1, <2>1, <3>1 DEF NewTry
  <2>2. CASE kind \notin {"finally", "catch"}
    BY <2>2
  <2>3. QED
    BY <2>1, <2>2
<1>8. TriesOK'
  <2>1. IF open'[n + 1].kind \in {"finally", "catch", "forof"}
        THEN \E u \in Try : /\ tries' = Append(tries, u)
                            /\ u.stmt = n + 1
                            /\ u.builder = open'[n + 1].kind
        ELSE tries' = tries
    BY <1>2, <1>7
  <2>2. QED
    BY <1>1, <1>2, <1>6, <2>1, TriesOpened
<1>9. /\ labelTarget \in Seq(Target)
      /\ Len(labelTarget) = n
  BY <1>1 DEF IInv, TargetsOK
<1>10. labelTarget'[n + 1] = t /\ \A i \in 1 .. n : labelTarget'[i] = labelTarget[i]
  BY <1>9
<1>11. TargetsOK'
  <2>1. CASE kind = "switch"
    <3>1. Innermost(t.continueTarget, n + 1)'
      <4>1. PICK c \in 0 .. n : c = t.continueTarget /\ Innermost(c, n)
        BY <1>1, <2>1 DEF Innermost
      <4>2. \A j \in 1 .. n : IsLoop(j)' <=> IsLoop(j)
        BY <1>2 DEF IsLoop
      <4>3. \A j \in c + 1 .. n + 1 : j \in c + 1 .. n \/ j = n + 1
        OBVIOUS
      <4>4. QED
        BY <1>3, <4>1, <4>2, <4>3 DEF Innermost
    <3>2. t.kind = open'[n + 1].kind
      BY <1>2, <2>1
    <3>3. QED
      BY <1>1, <1>2, <1>3, <1>9, <2>1, <3>1, <3>2, TargetsOpened
  <2>2. CASE kind # "switch"
    <3>1. open'[n + 1].kind = "block" => t.kind = "block"
      BY <1>2
    <3>2. QED
      BY <1>1, <1>2, <1>3, <1>9, <2>2, <3>1, TargetsOpened
  <2>3. QED
    BY <2>1, <2>2
<1>12. Levels'
  <2>1. Pushed \subseteq 1 .. n
    BY <1>1, PushedOpen DEF IInv
  <2>2. \/ tries' = tries
        \/ \E u \in Try : /\ tries' = Append(tries, u)
                           /\ u.stmt = n + 1
                           /\ u.loopEnvLevel = 0
    BY <1>7
  <2>3. labelTarget'[n + 1].loopEnvLevel = 0
    BY <1>10
  <2>4. \A i \in Pushed :
          labelTarget'[i].loopEnvLevel = labelTarget[i].loopEnvLevel
    BY <1>10, <2>1
  <2>5. \A i \in Pushed : labelTarget[i].loopEnvLevel \in Int
    <3>1. \A i \in 1 .. n : labelTarget[i] \in Target
      BY <1>9
    <3>2. QED
      BY <2>1, <3>1 DEF Target
  <2>6. ~r.env
    OBVIOUS
  <2> HIDE DEF r
  <2>7. QED
    BY <1>1, <1>2, <1>4, <2>2, <2>3, <2>4, <2>5, <2>6, LevelsOpenedPlain
<1>13. QED
  BY <1>2, <1>4, <1>5, <1>8, <1>11, <1>12, NoJumpOK DEF IInv

LEMMA EnterSwitchStep ==
  ASSUME IInv, NEW label \in Labels \cup {None}, EnterSwitch(label)
  PROVE  IInv'
<1>1. Len(tries) \in Nat
  BY DEF IInv, TriesOK
<1>2. CloseContinueTarget \in Nat
  BY CloseInnermost DEF Innermost, IInv, OpenOK
<1>3. NewLabelTarget("switch", FALSE, CloseContinueTarget) \in Target
  BY <1>1, <1>2 DEF NewLabelTarget, Target
<1>4. QED
  BY <1>3, CloseInnermost, OpenNoEnv
  DEF EnterSwitch, NewLabelTarget, Compiling

LEMMA EnterBlockStep ==
  ASSUME IInv, NEW label \in Labels, EnterBlock(label)
  PROVE  IInv'
<1>1. NewLabelTarget("block", FALSE, 0) \in Target
  BY DEF NewLabelTarget, Target, IInv, TriesOK
<1>2. QED
  BY <1>1, OpenNoEnv DEF EnterBlock, NewLabelTarget, Compiling

LEMMA EnterTryStep ==
  ASSUME IInv, NEW builder \in {"finally", "catch"}, EnterTry(builder)
  PROVE  IInv'
<1>1. NewLabelTarget(None, FALSE, 0) \in Target
  BY DEF NewLabelTarget, Target, IInv, TriesOK
<1>2. name2LabelTarget' = Named(None, Len(open) + 1)
  BY DEF EnterTry, Named
<1>3. QED
  BY <1>1, <1>2, OpenNoEnv DEF EnterTry, NewLabelTarget, Compiling

-----------------------------------------------------------------------------
(* The steps that close a statement.                                       *)

IsTry(kind) == kind \in {"finally", "catch", "forof"}

LEMMA SeqElement ==
  ASSUME NEW S, NEW x \in Seq(S)
  PROVE  \A k \in 1 .. Len(x) : x[k] \in S
OBVIOUS

(* A try statement or for-of loop that is the innermost statement is the   *)
(* current TryStatement.                                                   *)
LEMMA TopTry ==
  ASSUME IInv, NEW n \in Nat, n = Len(open), n > 0, IsTry(open[n].kind),
         NEW m \in Nat, m = Len(tries)
  PROVE  /\ m > 0
         /\ tries[m].stmt = n
         /\ \A k \in 1 .. m - 1 : tries[k].stmt \in 1 .. n - 1
<1>1. /\ DOMAIN open = 1 .. n
      /\ DOMAIN tries = 1 .. m
      /\ \A k \in 1 .. m : tries[k].stmt \in 1 .. n
  BY TriesOpen DEF IInv, OpenOK
<1>2. PICK k \in 1 .. m : tries[k].stmt = n
  BY <1>1 DEF IInv, TriesOK, IsTry
<1>3. \A j \in 1 .. m : \A h \in 1 .. j - 1 : tries[h].stmt < tries[j].stmt
  BY <1>1 DEF IInv, TriesOK
<1>4. k = m
  <2>1. ASSUME k < m PROVE FALSE
    <3>1. m \in 1 .. m /\ k \in 1 .. m - 1
      BY <2>1
    <3>2. tries[k].stmt < tries[m].stmt
      BY <1>3, <3>1
    <3>3. QED
      BY <1>1, <1>2, <3>1, <3>2
  <2>2. QED
    BY <2>1
<1>5. m \in 1 .. m /\ \A h \in 1 .. m - 1 : h \in 1 .. m
  BY <1>2
<1>6. \A h \in 1 .. m - 1 : tries[h].stmt < n
  BY <1>2, <1>3, <1>4, <1>5
<1>7. QED
  BY <1>1, <1>2, <1>4, <1>5, <1>6

(* The try statements that are left when the innermost statement, or its   *)
(* try block, is.                                                          *)
EndedOK(n, ended, m) ==
  /\ ended \in Seq(Try) /\ m \in Nat
  /\ \A k \in 1 .. m :
       /\ ended[k].stmt \in 1 .. n - 1
       /\ ended[k].loopEnvLevel \in Int
       /\ open[ended[k].stmt].kind = ended[k].builder
       /\ \A h \in 1 .. k - 1 : ended[h].stmt < ended[k].stmt
       /\ ended[k].loopEnvLevel = Cardinality(Envs(ended[k].stmt + 1,
            IF k = m THEN n ELSE ended[k + 1].stmt))
  /\ \A i \in 1 .. n - 1 :
       IsTry(open[i].kind) => \E k \in 1 .. m : ended[k].stmt = i

LEMMA Ended ==
  ASSUME IInv, NEW n \in Nat, n = Len(open), n > 0,
         NEW ended, ended = IF IsTry(open[n].kind) THEN Front(tries) ELSE tries,
         NEW m, m = Len(ended)
  PROVE  EndedOK(n, ended, m)
<1>1. PICK all \in Nat : all = Len(tries) /\ tries \in Seq(Try) /\ DOMAIN tries = 1 .. all
  BY DEF IInv, TriesOK
<1>2. /\ \A k \in 1 .. all :
           /\ tries[k].stmt \in 1 .. n
           /\ tries[k].loopEnvLevel \in Int
           /\ open[tries[k].stmt].kind = tries[k].builder
           /\ IsTry(tries[k].builder)
           /\ \A h \in 1 .. k - 1 : tries[h].stmt < tries[k].stmt
           /\ tries[k].loopEnvLevel = Cardinality(Envs(tries[k].stmt + 1,
                IF k = all THEN n ELSE tries[k + 1].stmt))
      /\ \A i \in 1 .. n :
           IsTry(open[i].kind) => \E k \in 1 .. all : tries[k].stmt = i
  <2>1. DOMAIN open = 1 .. n
    BY DEF IInv, OpenOK
  <2>2. \A k \in 1 .. all : /\ tries[k].stmt \in 1 .. n
                            /\ tries[k].loopEnvLevel \in Int
                            /\ tries[k] \in Try
    BY <1>1, <2>1, TriesOpen DEF IInv
  <2>3. \A k \in 1 .. all : IsTry(tries[k].builder)
    BY <2>2 DEF Try, IsTry
  <2>4. \A k \in 1 .. all :
          tries[k].loopEnvLevel = Cardinality(Envs(tries[k].stmt + 1,
            IF k = all THEN n ELSE tries[k + 1].stmt))
    BY <1>1 DEF IInv, Levels
  <2>5. \A k \in 1 .. all :
           /\ open[tries[k].stmt].kind = tries[k].builder
           /\ \A h \in 1 .. k - 1 : tries[h].stmt < tries[k].stmt
    BY <1>1 DEF IInv, TriesOK
  <2>6. \A i \in 1 .. n :
          IsTry(open[i].kind) => \E k \in 1 .. all : tries[k].stmt = i
    BY <1>1, <2>1 DEF IInv, TriesOK, IsTry
  <2>7. QED
    BY <2>2, <2>3, <2>4, <2>5, <2>6
<1>3. CASE IsTry(open[n].kind)
  <2>1. /\ all > 0
        /\ tries[all].stmt = n
        /\ \A k \in 1 .. all - 1 : tries[k].stmt \in 1 .. n - 1
    BY <1>1, <1>3, TopTry
  <2>2. /\ ended = SubSeq(tries, 1, all - 1)
        /\ m = all - 1
        /\ ended \in Seq(Try)
        /\ \A k \in 1 .. m : ended[k] = tries[k]
    BY <1>1, <1>3, <2>1 DEF Front
  <2>3. ASSUME NEW k \in 1 .. m
        PROVE  /\ ended[k].stmt \in 1 .. n - 1
               /\ ended[k].loopEnvLevel \in Int
               /\ open[ended[k].stmt].kind = ended[k].builder
               /\ \A h \in 1 .. k - 1 : ended[h].stmt < ended[k].stmt
    <3>1. k \in 1 .. all /\ k \in 1 .. all - 1 /\ ended[k] = tries[k]
      BY <2>1, <2>2
    <3>2. \A h \in 1 .. k - 1 : h \in 1 .. m /\ ended[h] = tries[h]
      BY <2>1, <2>2
    <3>3. /\ tries[k].stmt \in 1 .. n - 1
          /\ tries[k].loopEnvLevel \in Int
          /\ open[tries[k].stmt].kind = tries[k].builder
      BY <1>2, <2>1, <3>1
    <3>4. \A h \in 1 .. k - 1 : tries[h].stmt < tries[k].stmt
      BY <1>2, <3>1
    <3>5. QED
      BY <3>1, <3>2, <3>3, <3>4
  <2>4. ASSUME NEW k \in 1 .. m
        PROVE  ended[k].loopEnvLevel = Cardinality(Envs(ended[k].stmt + 1,
                 IF k = m THEN n ELSE ended[k + 1].stmt))
    <3>1. k \in 1 .. all /\ k # all
      BY <2>1, <2>2
    <3>2. ended[k].loopEnvLevel =
            Cardinality(Envs(ended[k].stmt + 1, tries[k + 1].stmt))
      BY <1>2, <2>2, <2>4, <3>1
    <3>3. tries[k + 1].stmt = IF k = m THEN n ELSE ended[k + 1].stmt
      <4>1. CASE k = m
        BY <2>1, <2>2, <4>1
      <4>2. CASE k # m
        <5>1. PICK next \in 1 .. m : next = k + 1
          BY <2>1, <2>2, <4>2
        <5>2. QED
          BY <2>2, <4>2, <5>1
      <4>3. QED
        BY <4>1, <4>2
    <3>4. QED
      BY <3>2, <3>3
  <2>5. ASSUME NEW i \in 1 .. n - 1, IsTry(open[i].kind)
        PROVE  \E k \in 1 .. m : ended[k].stmt = i
    <3>1. PICK k \in 1 .. all : tries[k].stmt = i
      BY <1>2, <2>5, SMTT(60)
    <3>2. k \in 1 .. m
      BY <2>1, <2>2, <3>1
    <3>3. QED
      BY <2>2, <3>1, <3>2
  <2>6. QED
    BY <2>1, <2>2, <2>3, <2>4, <2>5 DEF EndedOK
<1>4. CASE ~IsTry(open[n].kind)
  <2>1. ended = tries /\ m = all
    BY <1>1, <1>4
  <2>2. \A k \in 1 .. m : ended[k].stmt # n
    BY <1>2, <1>4, <2>1
  <2>3. \A k \in 1 .. m : ended[k].stmt \in 1 .. n
    BY <1>2, <2>1
  <2>4. \A k \in 1 .. m : ended[k].stmt \in 1 .. n - 1
    BY <2>2, <2>3
  <2>5. \A i \in 1 .. n - 1 : i \in 1 .. n
    OBVIOUS
  <2>6. \A i \in 1 .. n - 1 :
          IsTry(open[i].kind) => \E k \in 1 .. m : ended[k].stmt = i
    BY <1>2, <2>1, <2>5
  <2>7. \A k \in 1 .. m :
          /\ ended[k].loopEnvLevel \in Int
          /\ open[ended[k].stmt].kind = ended[k].builder
          /\ \A h \in 1 .. k - 1 : ended[h].stmt < ended[k].stmt
          /\ ended[k].loopEnvLevel = Cardinality(Envs(ended[k].stmt + 1,
               IF k = m THEN n ELSE ended[k + 1].stmt))
    BY <1>2, <2>1
  <2>8. QED
    BY <1>1, <2>1, <2>4, <2>6, <2>7 DEF EndedOK
<1>5. QED
  BY <1>3, <1>4

(* From the try block to its handler.                                      *)
LEMMA LeaveTryBlockStep ==
  ASSUME IInv, LeaveTryBlock
  PROVE  IInv'
<1>1. PICK n \in Nat : n = Len(open) /\ n > 0 /\ DOMAIN open = 1 .. n
  BY DEF IInv, OpenOK, LeaveTryBlock
<1>2. /\ open[n].kind \in {"finally", "catch"}
      /\ IsTry(open[n].kind)
      /\ ~IsBreakable(n)
  BY <1>1 DEF LeaveTryBlock, Top, IsTry, IsBreakable, IsLoop
<1>2a. open[n] \in [kind : Kinds, env : BOOLEAN, label : Labels \cup {None}]
  <2>1. \A k \in 1 .. n :
          open[k] \in [kind : Kinds, env : BOOLEAN, label : Labels \cup {None}]
    <3>1. open \in Seq([kind : Kinds, env : BOOLEAN, label : Labels \cup {None}])
      BY DEF IInv, OpenOK
    <3>2. QED
      BY <1>1, <3>1, SeqElement
  <2>2. QED
    BY <1>1, <2>1
<1>3. /\ DOMAIN open' = 1 .. n
      /\ Len(open') = n
      /\ open'[n] = [open[n] EXCEPT !.kind = "handler"]
      /\ \A i \in 1 .. n : i # n => open'[i] = open[i]
      /\ open' \in Seq([kind : Kinds, env : BOOLEAN, label : Labels \cup {None}])
  <2>1. open' = [open EXCEPT ![n].kind = "handler"]
    BY <1>1 DEF LeaveTryBlock
  <2>2. "handler" \in Kinds
    BY DEF Kinds
  <2>3. [open[n] EXCEPT !.kind = "handler"] \in
          [kind : Kinds, env : BOOLEAN, label : Labels \cup {None}]
    BY <1>2a, <2>2
  <2>4. QED
    BY <1>1, <2>1, <2>3 DEF IInv, OpenOK
<1>4. /\ open'[n].kind = "handler"
      /\ \A i \in 1 .. n : /\ open'[i].env = open[i].env
                           /\ open'[i].label = open[i].label
                           /\ IsLoop(i)' <=> IsLoop(i)
                           /\ IsBreakable(i)' <=> IsBreakable(i)
  <2>2. /\ open'[n].env = open[n].env
        /\ open'[n].label = open[n].label
        /\ open'[n].kind = "handler"
    BY <1>3, <1>2a
  <2>3. QED
    BY <1>2, <1>3, <2>2 DEF IsLoop, IsBreakable
<1>5. OpenOK'
  BY <1>1, <1>3, <1>4 DEF IInv, OpenOK
<1>6. TargetsOK'
  <2>1. \A i \in 1 .. n, c \in 0 .. n : Innermost(c, i) => Innermost(c, i)'
    BY <1>4 DEF Innermost
  <2>2. \A i \in 1 .. n : open'[i].kind = "block" => open[i].kind = "block"
    BY <1>3, <1>4
  <2>3. \A i \in 1 .. n : IsBreakable(i) => i # n /\ open'[i].kind = open[i].kind
    BY <1>2, <1>3
  <2>4. labelTarget' = labelTarget
    BY DEF LeaveTryBlock
  <2>5. \A i \in 1 .. n :
          IsBreakable(i)' => Innermost(labelTarget[i].continueTarget, i)'
    <3>1. \A i \in 1 .. n :
            IsBreakable(i) => Innermost(labelTarget[i].continueTarget, i)
      BY <1>1 DEF IInv, TargetsOK
    <3>2. \A i \in 1 .. n : IsBreakable(i) =>
            labelTarget[i].continueTarget \in 0 .. n
      BY <3>1 DEF Innermost
    <3>3. QED
      BY <1>4, <2>1, <2>4, <3>1, <3>2
  <2>6. QED
    BY <1>1, <1>3, <1>4, <2>2, <2>3, <2>4, <2>5 DEF IInv, TargetsOK
<1>7. StackOK'
  <2>1. labelTargetStack' = labelTargetStack
    BY DEF LeaveTryBlock
  <2>2. \A k \in DOMAIN labelTargetStack : labelTargetStack[k] \in 1 .. n
    BY <1>1 DEF IInv, StackOK
  <2>3. QED
    BY <1>1, <1>3, <1>4, <2>1, <2>2 DEF IInv, StackOK
<1>8. NamesOK'
  <2>1. open[n].label = None
    BY <1>1, <1>2 DEF IInv, NamesOK
  <2>2. \A i \in 1 .. n : open'[i].label # None =>
          i # n /\ open'[i].kind = open[i].kind
    BY <1>3, <1>4, <2>1
  <2>3. name2LabelTarget' = name2LabelTarget
    BY DEF LeaveTryBlock
  <2>4. \A i \in 1 .. n : \A l : IsLabelled(i, l)' <=> IsLabelled(i, l)
    BY <1>4 DEF IsLabelled
  <2>5. QED
    BY <1>1, <1>3, <1>4, <2>2, <2>3, <2>4 DEF IInv, NamesOK, Known
<1>9. PICK ended : ended = tries' /\ ended = Front(tries)
  BY DEF LeaveTryBlock
<1>10. PICK m : m = Len(ended)
  OBVIOUS
<1>11. /\ ended \in Seq(Try) /\ m \in Nat
       /\ \A k \in 1 .. m :
            /\ ended[k].stmt \in 1 .. n - 1
            /\ ended[k].loopEnvLevel \in Int
            /\ open[ended[k].stmt].kind = ended[k].builder
            /\ \A h \in 1 .. k - 1 : ended[h].stmt < ended[k].stmt
            /\ ended[k].loopEnvLevel = Cardinality(Envs(ended[k].stmt + 1,
                 IF k = m THEN n ELSE ended[k + 1].stmt))
       /\ \A i \in 1 .. n - 1 :
            IsTry(open[i].kind) => \E k \in 1 .. m : ended[k].stmt = i
  <2>1. ended = IF IsTry(open[n].kind) THEN Front(tries) ELSE tries
    BY <1>2, <1>9
  <2>2. n \in Nat /\ n = Len(open) /\ n > 0
    BY <1>1
  <2>3. EndedOK(n, ended, m)
    BY <1>10, <2>1, <2>2, Ended
  <2>4. QED
    BY <2>3 DEF EndedOK
<1>12. TriesOK'
  <2>1. \A k \in 1 .. m : ended[k].stmt \in 1 .. n /\ ended[k].stmt # n
    BY <1>1, <1>11
  <2>2. ASSUME NEW k \in 1 .. m
        PROVE  open'[ended[k].stmt].kind = ended[k].builder
    <3>1. open'[ended[k].stmt] = open[ended[k].stmt]
      BY <1>3, <2>1, <2>2
    <3>2. QED
      BY <1>11, <2>2, <3>1
  <2>3. ASSUME NEW i \in 1 .. n, IsTry(open'[i].kind)
        PROVE  \E k \in 1 .. m : ended[k].stmt = i
    <3>1. i # n
      BY <1>4, <2>3 DEF IsTry
    <3>2. i \in 1 .. n - 1 /\ IsTry(open[i].kind)
      BY <1>3, <2>3, <3>1
    <3>3. QED
      BY <1>11, <3>2
  <2>4. DOMAIN ended = 1 .. m
    BY <1>10, <1>11
  <2>5. QED
    BY <1>3, <1>9, <1>11, <2>1, <2>2, <2>3, <2>4 DEF TriesOK, IsTry
<1>13. Levels'
  <2>1. \A a, b \in Int : (a \in 1 .. n /\ b \in 1 .. n) => Envs(a, b)' = Envs(a, b)
    BY <1>4 DEF Envs
  <2>2. \A i \in Pushed : labelTarget[i].loopEnvLevel = Cardinality(Envs(i, n))
    BY <1>1 DEF IInv, Levels
  <2>3. \A i \in Pushed : i \in 1 .. n
    BY <1>1, PushedOpen DEF IInv
  <2>4. \A i \in Pushed : Envs(i, Len(open))' = Envs(i, n)
    BY <1>1, <1>3, <2>1, <2>3
  <2>5. ASSUME NEW k \in 1 .. m
        PROVE  tries'[k].loopEnvLevel = Cardinality(Envs(tries[k].stmt + 1,
                 IF k = Len(tries) THEN Len(open) ELSE tries[k + 1].stmt))'
    <3>1. PICK a \in 1 .. n : a = ended[k].stmt + 1
      BY <1>1, <1>11, <2>5
    <3>2. PICK b \in 1 .. n : b = IF k = m THEN n ELSE ended[k + 1].stmt
      <4>1. k # m => k + 1 \in 1 .. m
        BY <1>11, <2>5
      <4>2. k # m => ended[k + 1].stmt \in 1 .. n - 1
        BY <1>11, <4>1
      <4>3. QED
        BY <1>1, <4>2
    <3>3. Envs(a, b)' = Envs(a, b)
      BY <2>1
    <3>4. QED
      BY <1>3, <1>9, <1>10, <1>11, <3>1, <3>2, <3>3, SMTT(60)
  <2>6. DOMAIN tries' = 1 .. m
    BY <1>9, <1>10, <1>11
  <2>7. /\ Pushed' = Pushed
        /\ labelTarget' = labelTarget
    BY DEF LeaveTryBlock, Pushed
  <2>8. QED
    BY <2>2, <2>4, <2>5, <2>6, <2>7 DEF Levels
<1>14. jump' = NoJump
  BY DEF LeaveTryBlock, Compiling
<1>15. QED
  BY <1>5, <1>6, <1>7, <1>8, <1>12, <1>13, <1>14, NoJumpOK DEF IInv

LEMMA SeqFront ==
  ASSUME NEW S, NEW x \in Seq(S), x # <<>>
  PROVE  /\ Front(x) \in Seq(S)
         /\ Len(Front(x)) = Len(x) - 1
         /\ \A i \in 1 .. Len(x) - 1 : Front(x)[i] = x[i]
<1>1. PICK n \in Nat : n = Len(x) /\ n > 0
  OBVIOUS
<1>2. Front(x) = SubSeq(x, 1, n - 1)
  BY <1>1 DEF Front
<1>3. \A i \in 1 .. n - 1 : x[i] \in S
  BY <1>1
<1>4. QED
  BY <1>1, <1>2, <1>3

(* What is left when the innermost statement, the n-th, is.                *)
Closed(n) ==
  /\ n \in Nat /\ n > 0 /\ n = Len(open)
  /\ open # <<>> /\ open' = Front(open)
  /\ DOMAIN open = 1 .. n /\ DOMAIN open' = 1 .. n - 1
  /\ Top(open) = open[n]
  /\ Len(open') = n - 1
  /\ \A i \in 1 .. n - 1 : /\ open'[i] = open[i]
                           /\ IsLoop(i)' <=> IsLoop(i)
                           /\ IsBreakable(i)' <=> IsBreakable(i)

LEMMA CloseOpen ==
  ASSUME OpenOK, open # <<>>, open' = Front(open)
  PROVE  OpenOK' /\ \E n \in Nat : Closed(n)
<1>1. PICK n \in Nat : n = Len(open) /\ n > 0 /\ DOMAIN open = 1 .. n
  BY DEF OpenOK
<1>2. /\ Len(open') = n - 1
      /\ \A i \in 1 .. n - 1 : open'[i] = open[i]
      /\ open' \in Seq([kind : Kinds, env : BOOLEAN, label : Labels \cup {None}])
  <2>1. open \in Seq([kind : Kinds, env : BOOLEAN, label : Labels \cup {None}])
    BY DEF OpenOK
  <2>2. QED
    BY <1>1, <2>1, SeqFront
<1>3. DOMAIN open' = 1 .. n - 1
  BY <1>2
<1>4. \A i \in 1 .. n - 1 : /\ IsLoop(i)' <=> IsLoop(i)
                            /\ IsBreakable(i)' <=> IsBreakable(i)
  BY <1>2 DEF IsLoop, IsBreakable
<1>5. OpenOK'
  BY <1>1, <1>2, <1>3, <1>4 DEF OpenOK
<1>6. Top(open) = open[n]
  BY <1>1 DEF Top
<1>7. Closed(n)
  BY <1>1, <1>2, <1>3, <1>4, <1>6 DEF Closed
<1>8. QED
  BY <1>5, <1>7

LEMMA TargetsClosed ==
  ASSUME IInv, NEW n \in Nat, Closed(n),
         NEW targets \in Seq(Target), Len(targets) = n,
         labelTarget' = Front(targets),
         \A i \in 1 .. n :
           /\ targets[i].kind = labelTarget[i].kind
           /\ targets[i].continueTarget = labelTarget[i].continueTarget
           /\ ~IsBreakable(i) =>
                targets[i].loopEnvLevel = labelTarget[i].loopEnvLevel
  PROVE  /\ TargetsOK'
         /\ \A i \in 1 .. n - 1 : labelTarget'[i] = targets[i]
<1>1. /\ n = Len(open) /\ n > 0
      /\ DOMAIN open = 1 .. n /\ DOMAIN open' = 1 .. n - 1
      /\ Len(open') = n - 1
      /\ \A i \in 1 .. n - 1 : /\ open'[i] = open[i]
                               /\ IsLoop(i)' <=> IsLoop(i)
                               /\ IsBreakable(i)' <=> IsBreakable(i)
  BY DEF Closed
<1>2. /\ labelTarget' \in Seq(Target)
      /\ Len(labelTarget') = n - 1
      /\ \A i \in 1 .. n - 1 : labelTarget'[i] = targets[i]
  <2>1. targets # <<>>
    BY <1>1
  <2>2. QED
    BY <1>1, <2>1, SeqFront
<1>3. ASSUME NEW i \in 1 .. n - 1
      PROVE  /\ IsBreakable(i)' =>
                  /\ labelTarget'[i].kind = open'[i].kind
                  /\ Innermost(labelTarget[i].continueTarget, i)'
             /\ open'[i].kind = "block" => labelTarget'[i].kind = "block"
             /\ ~IsBreakable(i)' => labelTarget'[i].loopEnvLevel = 0
  <2>1. /\ labelTarget'[i].continueTarget = labelTarget[i].continueTarget
        /\ labelTarget'[i].kind = labelTarget[i].kind
        /\ ~IsBreakable(i) =>
             labelTarget'[i].loopEnvLevel = labelTarget[i].loopEnvLevel
    BY <1>1, <1>2, <1>3
  <2>2. ASSUME IsBreakable(i) PROVE Innermost(labelTarget[i].continueTarget, i)'
    <3>1. PICK c \in 0 .. i :
            /\ c = labelTarget[i].continueTarget
            /\ c # 0 => IsLoop(c)
            /\ \A j \in c + 1 .. i : ~IsLoop(j)
      <4>1. i \in 1 .. n
        BY <1>1, <1>3
      <4>2. Innermost(labelTarget[i].continueTarget, i)
        BY <1>1, <2>2, <4>1 DEF IInv, TargetsOK
      <4>3. QED
        BY <4>2 DEF Innermost
    <3>2. \A j \in c + 1 .. i : j \in 1 .. n - 1
      BY <1>1, <1>3, <3>1
    <3>3. c # 0 => c \in 1 .. n - 1
      BY <1>1, <1>3, <3>1
    <3>4. /\ c # 0 => IsLoop(c)'
          /\ \A j \in c + 1 .. i : ~IsLoop(j)'
      BY <1>1, <3>1, <3>2, <3>3
    <3>5. Innermost(c, i)'
      BY <3>1, <3>4 DEF Innermost
    <3>6. QED
      BY <2>1, <3>1, <3>5
  <2>3. i \in 1 .. n
    BY <1>1, <1>3
  <2>4. /\ IsBreakable(i) => labelTarget[i].kind = open[i].kind
        /\ open[i].kind = "block" => labelTarget[i].kind = "block"
        /\ ~IsBreakable(i) => labelTarget[i].loopEnvLevel = 0
    BY <1>1, <2>3 DEF IInv, TargetsOK
  <2>5. QED
    BY <1>1, <1>3, <2>1, <2>2, <2>4
<1>4. QED
  BY <1>1, <1>2, <1>3 DEF TargetsOK

LEMMA NamesClosed ==
  ASSUME IInv, NEW n \in Nat, Closed(n),
         name2LabelTarget' = Unnamed(Top(open).label)
  PROVE  NamesOK'
<1>1. /\ n = Len(open) /\ n > 0
      /\ Top(open) = open[n]
      /\ DOMAIN open = 1 .. n /\ DOMAIN open' = 1 .. n - 1
      /\ \A i \in 1 .. n - 1 : /\ open'[i] = open[i]
                               /\ IsBreakable(i)' <=> IsBreakable(i)
  BY DEF Closed
<1>2. /\ DOMAIN name2LabelTarget' = DOMAIN name2LabelTarget \ {open[n].label}
      /\ \A l \in DOMAIN name2LabelTarget' :
           name2LabelTarget'[l] = name2LabelTarget[l]
  BY <1>1 DEF Unnamed
<1>3. ASSUME NEW l \in DOMAIN name2LabelTarget'
      PROVE  /\ name2LabelTarget'[l] \in DOMAIN open'
             /\ IsLabelled(name2LabelTarget[l], l)'
  <2>1. PICK i \in 1 .. n : i = name2LabelTarget[l] /\ l # None /\ open[i].label = l
    BY <1>1, <1>2, <1>3 DEF IInv, NamesOK, IsLabelled
  <2>2. i \in 1 .. n - 1
    BY <1>1, <1>2, <1>3, <2>1
  <2>3. QED
    BY <1>1, <1>2, <1>3, <2>1, <2>2 DEF IsLabelled
<1>4. ASSUME NEW i \in 1 .. n - 1, open'[i].label # None
      PROVE  /\ Known(open[i].label)'
             /\ name2LabelTarget'[open'[i].label] = i
             /\ IsBreakable(i)' \/ open'[i].kind = "block"
  <2>1. /\ Known(open[i].label)
        /\ name2LabelTarget[open[i].label] = i
        /\ IsBreakable(i) \/ open[i].kind = "block"
    BY <1>1, <1>4 DEF IInv, NamesOK
  <2>2. open[i].label # open[n].label
    BY <1>1, <1>4, <2>1 DEF IInv, NamesOK
  <2>3. QED
    BY <1>1, <1>2, <1>4, <2>1, <2>2 DEF Known
<1>5. QED
  BY <1>1, <1>3, <1>4 DEF NamesOK

LEMMA StackClosed ==
  ASSUME IInv, NEW n \in Nat, Closed(n),
         labelTargetStack' = IF n \in Pushed THEN Front(labelTargetStack)
                             ELSE labelTargetStack
  PROVE  /\ StackOK'
         /\ \A i \in Pushed' : i \in Pushed /\ i \in 1 .. n - 1
<1>1. /\ n > 0
      /\ DOMAIN open = 1 .. n /\ DOMAIN open' = 1 .. n - 1
      /\ \A i \in 1 .. n - 1 : IsBreakable(i)' <=> IsBreakable(i)
  BY DEF Closed
<1>2. PICK d \in Nat : d = Len(labelTargetStack) /\ DOMAIN labelTargetStack = 1 .. d
  BY DEF IInv, StackOK
<1>3. /\ labelTargetStack \in Seq(1 .. n)
      /\ \A k \in 1 .. d : labelTargetStack[k] \in 1 .. n
  <2>1. labelTargetStack \in Seq(1 .. n)
    BY <1>1 DEF IInv, StackOK
  <2>2. QED
    BY <1>2, <2>1, SeqElement
<1>4. /\ \A k \in 1 .. d :
           /\ IsBreakable(labelTargetStack[k])
           /\ \A m \in 1 .. k - 1 : labelTargetStack[m] < labelTargetStack[k]
      /\ \A i \in 1 .. n : IsBreakable(i) =>
           \E k \in 1 .. d : labelTargetStack[k] = i
      /\ Pushed = {i \in 1 .. n : IsBreakable(i)}
  BY <1>1, <1>2, PushedOpen DEF IInv, StackOK
<1>5. PICK e \in 0 .. d :
        /\ labelTargetStack' \in Seq(1 .. n)
        /\ DOMAIN labelTargetStack' = 1 .. e
        /\ \A k \in 1 .. e : k \in 1 .. d /\ labelTargetStack'[k] = labelTargetStack[k]
        /\ \A k \in 1 .. e : labelTargetStack[k] # n
        /\ \A k \in 1 .. d : labelTargetStack[k] # n => k \in 1 .. e
  <2>1. CASE n \in Pushed
    <3>1. PICK top \in 1 .. d : labelTargetStack[top] = n
      BY <1>1, <1>4, <2>1
    <3>2. \A k \in 1 .. d : \A m \in 1 .. k - 1 :
            labelTargetStack[m] # labelTargetStack[k]
      BY <1>3, <1>4
    <3>3. top = d
      <4>1. ASSUME top < d PROVE FALSE
        <5>1. d \in 1 .. d /\ top \in 1 .. d - 1
          BY <3>1, <4>1
        <5>2. n < labelTargetStack[d]
          BY <1>4, <3>1, <5>1
        <5>3. QED
          BY <1>3, <5>1, <5>2
      <4>2. QED
        BY <4>1
    <3>4. labelTargetStack # <<>>
      BY <1>2, <3>1
    <3>5. /\ labelTargetStack' \in Seq(1 .. n)
          /\ Len(labelTargetStack') = d - 1
          /\ \A k \in 1 .. d - 1 : labelTargetStack'[k] = labelTargetStack[k]
      BY <1>2, <1>3, <2>1, <3>4, SeqFront
    <3>6. d \in 1 .. d
      BY <3>1
    <3>7. \A k \in 1 .. d - 1 : k \in 1 .. d /\ labelTargetStack[k] # n
      BY <3>1, <3>2, <3>3, <3>6
    <3>8. \A k \in 1 .. d : labelTargetStack[k] # n => k \in 1 .. d - 1
      BY <3>1, <3>3
    <3>9. d - 1 \in 0 .. d /\ DOMAIN labelTargetStack' = 1 .. d - 1
      BY <3>5, <3>6
    <3>10. QED
      BY <3>5, <3>7, <3>8, <3>9
  <2>2. CASE n \notin Pushed
    <3>1. \A k \in 1 .. d : labelTargetStack[k] # n
      BY <1>1, <1>3, <1>4, <2>2
    <3>2. d \in 0 .. d
      OBVIOUS
    <3>3. QED
      BY <1>2, <1>3, <2>2, <3>1, <3>2
  <2>3. QED
    BY <2>1, <2>2
<1>6. \A k \in 1 .. e : labelTargetStack'[k] \in 1 .. n - 1
  BY <1>1, <1>3, <1>5
<1>7. labelTargetStack' \in Seq(1 .. n - 1)
  BY <1>5, <1>6
<1>8. \A i \in 1 .. n - 1 : IsBreakable(i)' =>
        \E k \in 1 .. e : labelTargetStack'[k] = i
  <2>1. ASSUME NEW i \in 1 .. n - 1, IsBreakable(i)'
        PROVE  \E k \in 1 .. e : labelTargetStack'[k] = i
    <3>1. PICK k \in 1 .. d : labelTargetStack[k] = i
      BY <1>1, <1>4, <2>1
    <3>2. k \in 1 .. e
      BY <1>5, <2>1, <3>1
    <3>3. QED
      BY <1>5, <3>1, <3>2
  <2>2. QED
    BY <2>1
<1>9. ASSUME NEW k \in 1 .. e
      PROVE  /\ IsBreakable(labelTargetStack[k])'
             /\ \A m \in 1 .. k - 1 : labelTargetStack'[m] < labelTargetStack'[k]
  <2>1. PICK i \in 1 .. n - 1 : i = labelTargetStack'[k] /\ i = labelTargetStack[k]
    BY <1>5, <1>6, <1>9
  <2>2. IsBreakable(i)'
    BY <1>1, <1>4, <1>5, <1>9, <2>1
  <2>3. \A m \in 1 .. k - 1 : m \in 1 .. e
    BY <1>9
  <2>4. \A m \in 1 .. k - 1 : labelTargetStack'[m] < labelTargetStack'[k]
    BY <1>4, <1>5, <1>9, <2>3
  <2>5. QED
    BY <2>1, <2>2, <2>4
<1>10. StackOK'
  BY <1>1, <1>5, <1>7, <1>8, <1>9 DEF StackOK
<1>11. \A i \in Pushed' : i \in Pushed /\ i \in 1 .. n - 1
  BY <1>2, <1>5, <1>6 DEF Pushed, Range
<1>12. QED
  BY <1>10, <1>11

LEMMA TriesClosed ==
  ASSUME IInv, NEW n \in Nat, Closed(n), NEW ended, NEW m,
         EndedOK(n, ended, m), m = Len(ended),
         tries' \in Seq(Try), Len(tries') = m,
         \A k \in 1 .. m : /\ tries'[k].stmt = ended[k].stmt
                           /\ tries'[k].builder = ended[k].builder
  PROVE  TriesOK'
<1>1. /\ DOMAIN open' = 1 .. n - 1
      /\ \A i \in 1 .. n - 1 : open'[i] = open[i]
  BY DEF Closed
<1>2. /\ m \in Nat
      /\ \A k \in 1 .. m :
           /\ ended[k].stmt \in 1 .. n - 1
           /\ open[ended[k].stmt].kind = ended[k].builder
           /\ \A h \in 1 .. k - 1 : ended[h].stmt < ended[k].stmt
      /\ \A i \in 1 .. n - 1 :
           IsTry(open[i].kind) => \E k \in 1 .. m : ended[k].stmt = i
  BY DEF EndedOK
<1>3. DOMAIN tries' = 1 .. m
  BY <1>2
<1>4. \A k \in 1 .. m : \A h \in 1 .. k - 1 : h \in 1 .. m
  BY <1>2
<1>5. \A k \in 1 .. m :
        /\ tries'[k].stmt \in 1 .. n - 1
        /\ open'[tries'[k].stmt].kind = tries'[k].builder
        /\ \A h \in 1 .. k - 1 : tries'[h].stmt < tries'[k].stmt
  BY <1>1, <1>2, <1>4
<1>6. \A i \in 1 .. n - 1 :
        IsTry(open'[i].kind) => \E k \in 1 .. m : tries'[k].stmt = i
  BY <1>1, <1>2, SMTT(60)
<1>7. QED
  BY <1>1, <1>3, <1>5, <1>6 DEF TriesOK, IsTry

LEMMA LevelsClosed ==
  ASSUME IInv, NEW n \in Nat, Closed(n), NEW ended, NEW m,
         EndedOK(n, ended, m),
         \A i \in Pushed' :
           /\ i \in Pushed /\ i \in 1 .. n - 1
           /\ labelTarget'[i].loopEnvLevel =
                labelTarget[i].loopEnvLevel - Gain(open[n]),
         DOMAIN tries' = 1 .. m,
         \A k \in 1 .. m :
           /\ tries'[k].stmt = ended[k].stmt
           /\ tries'[k].loopEnvLevel =
                ended[k].loopEnvLevel - IF k = m THEN Gain(open[n]) ELSE 0
  PROVE  Levels'
<1>1. /\ n > 0 /\ n = Len(open) /\ Len(open') = n - 1
      /\ open # <<>> /\ open' = Front(open)
      /\ Top(open) = open[n]
      /\ DOMAIN open = 1 .. n
      /\ \A i \in 1 .. n - 1 : open'[i] = open[i]
  BY DEF Closed
<1>2. PICK e \in Int : e = Gain(open[n]) /\ e = IF Top(open).env THEN 1 ELSE 0
  BY <1>1 DEF Gain
<1>3. \A a \in 1 .. n : Cardinality(Envs(a, Len(open)))' = Cardinality(Envs(a, n)) - e
  BY <1>1, <1>2, EnvsClose DEF IInv
<1>4. ASSUME NEW i \in Pushed'
      PROVE  labelTarget'[i].loopEnvLevel = Cardinality(Envs(i, Len(open)))'
  <2>1. i \in Pushed /\ i \in 1 .. n
    BY <1>1, <1>4
  <2>2. labelTarget[i].loopEnvLevel = Cardinality(Envs(i, n))
    BY <1>1, <2>1 DEF IInv, Levels
  <2>3. QED
    BY <1>2, <1>3, <1>4, <2>1, <2>2
<1>5. ASSUME NEW k \in 1 .. m
      PROVE  tries'[k].loopEnvLevel = Cardinality(Envs(tries[k].stmt + 1,
               IF k = Len(tries) THEN Len(open) ELSE tries[k + 1].stmt))'
  <2>1. m \in Nat /\ Len(tries') = m
    BY DEF EndedOK
  <2>2. PICK a \in 1 .. n : a = ended[k].stmt + 1 /\ a = tries'[k].stmt + 1
    <3>1. ended[k].stmt \in 1 .. n - 1 /\ tries'[k].stmt = ended[k].stmt
      BY <1>5 DEF EndedOK
    <3>2. ended[k].stmt + 1 \in 1 .. n
      BY <1>1, <3>1
    <3>3. QED
      BY <3>1, <3>2
  <2>3. CASE k = m
    <3>1. ended[k].loopEnvLevel = Cardinality(Envs(a, n))
      BY <1>5, <2>2, <2>3 DEF EndedOK
    <3>2. tries'[k].loopEnvLevel = Cardinality(Envs(a, n)) - e
      BY <1>2, <1>5, <2>3, <3>1
    <3>3. QED
      BY <1>3, <2>1, <2>2, <2>3, <3>2
  <2>4. CASE k # m
    <3>1. k + 1 \in 1 .. m
      BY <1>5, <2>1, <2>4
    <3>2. PICK b \in 1 .. n - 1 : b = ended[k + 1].stmt /\ b = tries'[k + 1].stmt
      BY <3>1 DEF EndedOK
    <3>3. ended[k].loopEnvLevel = Cardinality(Envs(a, b))
      BY <1>5, <2>2, <2>4, <3>2 DEF EndedOK
    <3>4. Envs(a, b)' = Envs(a, b)
      <4>1. \A j \in a .. b : open'[j].env = open[j].env
        BY <1>1, <2>2, <3>2, SMTT(60)
      <4>2. QED
        BY <4>1, EnvsSame
    <3>5. tries'[k].loopEnvLevel = ended[k].loopEnvLevel
      <4>1. ended[k].loopEnvLevel \in Int
        BY <1>5 DEF EndedOK
      <4>2. QED
        BY <1>5, <2>4, <4>1
    <3>6. QED
      BY <2>1, <2>2, <2>4, <3>2, <3>3, <3>4, <3>5
  <2>5. QED
    BY <2>3, <2>4
<1>6. QED
  BY <1>4, <1>5 DEF Levels

LEMMA LeaveStep ==
  ASSUME IInv, Leave
  PROVE  IInv'
<1>1. PICK n \in Nat : OpenOK' /\ Closed(n)
  BY CloseOpen DEF IInv, Leave
<1>2. /\ n > 0 /\ n = Len(open) /\ DOMAIN open = 1 .. n
      /\ Top(open) = open[n]
      /\ Len(open') = n - 1
  BY <1>1 DEF Closed
<1>3. IsTry(open[n].kind) <=> open[n].kind = "forof"
  BY <1>2 DEF Leave, IsTry
<1>4. PICK targets : targets = IF open[n].env THEN Leveled(-1) ELSE labelTarget
  OBVIOUS
<1>5. /\ targets \in Seq(Target)
      /\ Len(targets) = n
      /\ \A i \in 1 .. n :
           /\ targets[i].kind = labelTarget[i].kind
           /\ targets[i].continueTarget = labelTarget[i].continueTarget
           /\ i \in Pushed => targets[i].loopEnvLevel =
                                labelTarget[i].loopEnvLevel - Gain(open[n])
           /\ ~IsBreakable(i) =>
                targets[i].loopEnvLevel = labelTarget[i].loopEnvLevel
  <2>1. /\ labelTarget \in Seq(Target) /\ Len(labelTarget) = n
        /\ \A i \in 1 .. n : labelTarget[i].loopEnvLevel \in Int
    <3>1. labelTarget \in Seq(Target) /\ Len(labelTarget) = n
      BY <1>2 DEF IInv, TargetsOK
    <3>2. \A i \in 1 .. n : labelTarget[i] \in Target
      BY <3>1, SeqElement
    <3>3. QED
      BY <3>1, <3>2 DEF Target
  <2>2. CASE open[n].env
    <3>1. \A i \in 1 .. n : ~IsBreakable(i) => i \notin Pushed
      BY <1>2, PushedOpen DEF IInv
    <3>2. targets = Leveled(-1) /\ Gain(open[n]) = 1
      BY <1>4, <2>2 DEF Gain
    <3>3. -1 \in Int /\ TargetsOK /\ StackOK
      BY DEF IInv
    <3>4. /\ Leveled(-1) \in Seq(Target)
          /\ Len(Leveled(-1)) = n
          /\ \A i \in 1 .. n :
               /\ Leveled(-1)[i].kind = labelTarget[i].kind
               /\ Leveled(-1)[i].continueTarget = labelTarget[i].continueTarget
               /\ i \in Pushed => Leveled(-1)[i].loopEnvLevel =
                                   labelTarget[i].loopEnvLevel + (-1)
               /\ i \notin Pushed => Leveled(-1)[i] = labelTarget[i]
      BY <1>2, <3>3, LeveledOK
    <3>5. QED
      BY <2>1, <3>1, <3>2, <3>4
  <2>3. CASE ~open[n].env
    <3>1. targets = labelTarget /\ Gain(open[n]) = 0
      BY <1>4, <2>3 DEF Gain
    <3>2. QED
      BY <2>1, <3>1
  <2>4. QED
    BY <2>2, <2>3
<1>6. labelTarget' = Front(targets)
  BY <1>2, <1>4 DEF Leave
<1>7. /\ TargetsOK'
      /\ \A i \in 1 .. n - 1 : labelTarget'[i] = targets[i]
  BY <1>1, <1>5, <1>6, TargetsClosed
<1>8. NamesOK'
  BY <1>1, NamesClosed DEF Leave
<1>9. /\ StackOK'
      /\ \A i \in Pushed' : i \in Pushed /\ i \in 1 .. n - 1
  <2>1. labelTargetStack' = IF n \in Pushed THEN Front(labelTargetStack)
                            ELSE labelTargetStack
    BY <1>2 DEF Leave
  <2>2. QED
    BY <1>1, <2>1, StackClosed
<1>10. PICK ended : ended = IF IsTry(open[n].kind) THEN Front(tries) ELSE tries
  OBVIOUS
<1>11. PICK m : m = Len(ended)
  OBVIOUS
<1>12. EndedOK(n, ended, m)
  BY <1>2, <1>10, <1>11, Ended
<1>13. tries' = IF open[n].env THEN TriesLeveled(ended, -1) ELSE ended
  BY <1>2, <1>3, <1>10 DEF Leave
<1>14. /\ tries' \in Seq(Try)
       /\ Len(tries') = m
       /\ \A k \in 1 .. m :
            /\ tries'[k].stmt = ended[k].stmt
            /\ tries'[k].builder = ended[k].builder
            /\ tries'[k].loopEnvLevel =
                 ended[k].loopEnvLevel - IF k = m THEN Gain(open[n]) ELSE 0
  <2>1. ended \in Seq(Try) /\ \A k \in 1 .. m : ended[k].loopEnvLevel \in Int
    BY <1>12 DEF EndedOK
  <2>2. CASE open[n].env
    <3>1. tries' = TriesLeveled(ended, -1) /\ Gain(open[n]) = 1 /\ -1 \in Int
      BY <1>13, <2>2 DEF Gain
    <3>2. /\ TriesLeveled(ended, -1) \in Seq(Try)
          /\ Len(TriesLeveled(ended, -1)) = m
          /\ \A k \in 1 .. m :
               /\ TriesLeveled(ended, -1)[k].stmt = ended[k].stmt
               /\ TriesLeveled(ended, -1)[k].builder = ended[k].builder
               /\ TriesLeveled(ended, -1)[k].loopEnvLevel =
                    ended[k].loopEnvLevel + IF k = m THEN -1 ELSE 0
      BY <1>11, <2>1, <3>1, TriesLeveledOK
    <3>3. QED
      BY <2>1, <3>1, <3>2
  <2>3. CASE ~open[n].env
    <3>1. tries' = ended /\ Gain(open[n]) = 0
      BY <1>13, <2>3 DEF Gain
    <3>2. QED
      BY <1>11, <2>1, <3>1
  <2>4. QED
    BY <2>2, <2>3
<1>15. TriesOK'
  BY <1>1, <1>11, <1>12, <1>14, TriesClosed
<1>16. Levels'
  <2>1. \A i \in Pushed' :
          /\ i \in Pushed /\ i \in 1 .. n - 1
          /\ labelTarget'[i].loopEnvLevel =
               labelTarget[i].loopEnvLevel - Gain(open[n])
    BY <1>2, <1>5, <1>7, <1>9
  <2>2. DOMAIN tries' = 1 .. m
    BY <1>14
  <2>3. QED
    BY <1>1, <1>12, <1>14, <2>1, <2>2, LevelsClosed
<1>17. jump' = NoJump
  BY DEF Leave, Compiling
<1>18. QED
  BY <1>1, <1>7, <1>8, <1>9, <1>15, <1>16, <1>17, NoJumpOK DEF IInv

-----------------------------------------------------------------------------
(* The jumps.                                                              *)

LEMMA MaxIs ==
  ASSUME NEW S \in SUBSET Int, NEW t \in S, \A y \in S : t >= y
  PROVE  Max(S) = t
<1>1. Max(S) \in S /\ \A y \in S : Max(S) >= y
  BY DEF Max
<1>2. PICK m \in Int : m = Max(S) /\ m >= t /\ t >= m
  BY <1>1
<1>3. QED
  BY <1>2

(* A loop or switch is reached with the environments its end, or for a     *)
(* continue its start, expects, unless it is a loop without environment    *)
(* that is left from one with.                                             *)
LEMMA Popped ==
  ASSUME IInv, NEW n \in Nat, n = Len(open), NEW t \in 1 .. n,
         NEW isContinue \in BOOLEAN,
         IF isContinue THEN IsLoop(t) ELSE IsBreakable(t)
  PROVE  \/ Depth(n) - PopTimes(labelTarget[t], isContinue) =
              IF isContinue THEN ContinueDepth(t) ELSE BreakDepth(t)
         \/ IsLoop(t) /\ ~open[t].env /\ Depth(n) > Depth(t)
<1>1. /\ IsBreakable(t)
      /\ DOMAIN open = 1 .. n
      /\ open[t].env => IsLoop(t)
  BY DEF IsBreakable, IInv, OpenOK
<1>2. t \in Pushed
  BY <1>1, PushedOpen DEF IInv
<1>3. PICK lvl \in Nat : lvl = labelTarget[t].loopEnvLevel /\ lvl = Cardinality(Envs(t, n))
  <2>1. t \in Int /\ n \in Int
    OBVIOUS
  <2>2. Cardinality(Envs(t, n)) \in Nat
    BY <2>1, EnvsFinite
  <2>3. labelTarget[t].loopEnvLevel = Cardinality(Envs(t, n))
    BY <1>2 DEF IInv, Levels
  <2>4. QED
    BY <2>2, <2>3
<1>4. labelTarget[t].kind = open[t].kind
  BY <1>1 DEF IInv, TargetsOK
<1>5. PICK before \in Nat, gain \in Nat, after \in Nat :
        /\ before = Depth(t - 1)
        /\ gain = IF open[t].env THEN 1 ELSE 0
        /\ after = Cardinality(Envs(t + 1, n))
        /\ Depth(t) = before + gain
        /\ lvl = gain + after
        /\ Depth(n) = before + lvl
  <2>1. /\ Cardinality(Envs(1, t - 1)) \in Nat
        /\ Cardinality(Envs(t + 1, n)) \in Nat
    <3>1. t - 1 \in Int /\ t + 1 \in Int /\ 1 \in Int /\ n \in Int
      OBVIOUS
    <3>2. Cardinality(Envs(1, t - 1)) \in Nat
      BY <3>1, EnvsFinite
    <3>3. Cardinality(Envs(t + 1, n)) \in Nat
      BY <3>1, EnvsFinite
    <3>4. QED
      BY <3>2, <3>3
  <2>2. Cardinality(Envs(t, t)) = IF open[t].env THEN 1 ELSE 0
    BY EnvsOne
  <2>3. (t - 1) + 1 = t /\ t - 1 \in Int /\ 1 <= (t - 1) + 1
    OBVIOUS
  <2>4. Cardinality(Envs(1, t)) = Cardinality(Envs(1, t - 1)) + Cardinality(Envs(t, t))
    BY <2>3, EnvsSplit
  <2>5. Cardinality(Envs(1, n)) = Cardinality(Envs(1, t - 1)) + Cardinality(Envs(t, n))
    BY <2>3, EnvsSplit
  <2>6. Cardinality(Envs(t, n)) = Cardinality(Envs(t, t)) + Cardinality(Envs(t + 1, n))
    BY EnvsSplit
  <2>7. QED
    BY <1>3, <2>1, <2>2, <2>4, <2>5, <2>6 DEF Depth
<1>6. CASE lvl = 0
  <2>1. PopTimes(labelTarget[t], isContinue) = 0
    BY <1>3, <1>6 DEF PopTimes
  <2>2. gain = 0
    BY <1>5, <1>6
  <2>3. QED
    BY <1>5, <1>6, <2>1, <2>2 DEF ContinueDepth, BreakDepth
<1>7. CASE lvl # 0 /\ open[t].kind \in {"do", "for"}
  <2>1. PopTimes(labelTarget[t], isContinue) = lvl - 1
    BY <1>3, <1>4, <1>7 DEF PopTimes
  <2>2. IsLoop(t)
    BY <1>7 DEF IsLoop
  <2>3. CASE open[t].env
    BY <1>5, <1>7, <2>1, <2>3 DEF ContinueDepth, BreakDepth
  <2>4. CASE ~open[t].env
    BY <1>5, <1>7, <2>2, <2>4
  <2>5. QED
    BY <2>3, <2>4
<1>8. CASE lvl # 0 /\ open[t].kind \in {"while", "forin", "forof"}
  <2>1. PopTimes(labelTarget[t], isContinue) = lvl - IF isContinue THEN 0 ELSE 1
    BY <1>3, <1>4, <1>8 DEF PopTimes
  <2>2. IsLoop(t)
    BY <1>8 DEF IsLoop
  <2>3. CASE isContinue
    <3>1. open[t].kind \notin {"do", "for"}
      BY <1>8
    <3>2. ContinueDepth(t) = before
      BY <1>5, <3>1 DEF ContinueDepth
    <3>3. PopTimes(labelTarget[t], isContinue) = lvl
      BY <2>1, <2>3
    <3>4. Depth(n) - lvl = ContinueDepth(t)
      BY <1>5, <3>2
    <3>5. QED
      BY <2>3, <3>3, <3>4, Zenon
  <2>4. CASE ~isContinue /\ open[t].env
    BY <1>5, <1>8, <2>1, <2>4 DEF BreakDepth
  <2>5. CASE ~isContinue /\ ~open[t].env
    BY <1>5, <1>8, <2>2, <2>5
  <2>6. QED
    BY <2>3, <2>4, <2>5
<1>9. CASE lvl # 0 /\ open[t].kind = "switch"
  <2>1. PopTimes(labelTarget[t], isContinue) = lvl
    BY <1>3, <1>4, <1>9 DEF PopTimes
  <2>2. ~IsLoop(t) /\ gain = 0 /\ ~isContinue
    BY <1>1, <1>5, <1>9 DEF IsLoop
  <2>3. QED
    BY <1>5, <2>1, <2>2 DEF BreakDepth
<1>10. QED
  BY <1>1, <1>6, <1>7, <1>8, <1>9 DEF IsBreakable, IsLoop

(* What holds of a jump, as a predicate of the jump.                       *)
LeadsRight(j) ==
  j.kind \in {"break", "continue"} /\ ~(j.kind = "break" /\ j.to = 0) =>
    LET targets ==
          {i \in DOMAIN open :
             IF j.label # None THEN IsLabelled(i, j.label)
             ELSE IF j.kind = "break" THEN IsBreakable(i) ELSE IsLoop(i)}
    IN  j.to = Max(targets)

ArrivesRight(j) ==
  j.kind \in {"break", "continue"} /\ ~(j.kind = "break" /\ j.to = 0) =>
    \/ j.depth = IF j.kind = "break" THEN BreakDepth(j.to)
                 ELSE ContinueDepth(j.to)
    \/ IsLoop(j.to) /\ ~open[j.to].env /\ Depth(Len(open)) > Depth(j.to)
    \/ /\ j.kind = "continue" /\ j.label = None
       /\ \E i \in j.to + 1 .. Len(open) : open[i].kind = "switch"
    \/ open[j.to].kind = "block" /\ Depth(Len(open)) > Depth(j.to)

LandsRight(j) ==
  j.kind = "throw" /\ tries # <<>> => j.depth = Depth(Top(tries).stmt)

LEMMA JumpsOnly ==
  ASSUME IInv,
         UNCHANGED <<open, labelTarget, labelTargetStack, name2LabelTarget, tries>>,
         NEW j, jump' = j, LeadsRight(j), ArrivesRight(j), LandsRight(j)
  PROVE  IInv'
<1>1. OpenOK'
  BY DEF IInv, OpenOK, IsLoop
<1>2. TargetsOK'
  BY DEF IInv, TargetsOK, IsBreakable, IsLoop, Innermost
<1>3. StackOK'
  BY DEF IInv, StackOK, IsBreakable, IsLoop
<1>4. NamesOK' /\ TriesOK'
  BY DEF IInv, NamesOK, TriesOK, IsLabelled, Known, IsBreakable, IsLoop
<1>5. Levels'
  BY DEF IInv, Levels, Envs, Pushed
<1>6. JumpsToItsTarget'
  BY DEF JumpsToItsTarget, SourceTarget, IsReturn, LeadsRight, IsLabelled,
         IsBreakable, IsLoop
<1>7. JumpsAligned'
  BY DEF JumpsAligned, IsReturn, Expected, TargetWithoutEnv, ContinueOfSwitch,
         BreakOfBlock, LeavesEnvs, ArrivesRight, BreakDepth, ContinueDepth,
         Depth, Envs, IsLoop
<1>8. ThrowsAligned'
  BY DEF ThrowsAligned, LandsRight, Depth, Envs
<1>9. QED
  BY <1>1, <1>2, <1>3, <1>4, <1>5, <1>6, <1>7, <1>8 DEF IInv

LEMMA LabelledTarget ==
  ASSUME IInv, NEW label, NEW i \in DOMAIN open, IsLabelled(i, label)
  PROVE  /\ label # None
         /\ LabelTargetOf(label) = i
         /\ IsBreakable(i) \/ open[i].kind = "block"
         /\ \A k \in DOMAIN open : IsLabelled(k, label) => k = i
<1>1. \A k \in DOMAIN open : IsLabelled(k, label) =>
        label # None /\ name2LabelTarget[label] = k
  BY DEF IInv, NamesOK, IsLabelled
<1>2. IsBreakable(i) \/ open[i].kind = "block"
  BY DEF IInv, NamesOK, IsLabelled
<1>3. QED
  BY <1>1, <1>2 DEF LabelTargetOf

(* What a break, to the statement t, leaves behind.                        *)
LEMMA BreakFinds ==
  ASSUME IInv, NEW label \in Labels \cup {None}, Break(label),
         NEW n \in Nat, n = Len(open)
  PROVE  \E t \in 1 .. n :
           /\ t = LabelTargetOf(label)
           /\ IF label = None
              THEN IsBreakable(t) /\ \A i \in 1 .. n : IsBreakable(i) => i <= t
              ELSE /\ IsLabelled(t, label)
                   /\ IsBreakable(t) \/ open[t].kind = "block"
                   /\ \A i \in 1 .. n : IsLabelled(i, label) => i = t
<1>1. DOMAIN open = 1 .. n
  BY DEF IInv, OpenOK
<1>2. CASE label = None
  <2>1. PICK i \in 1 .. n : IsBreakable(i)
    BY <1>1, <1>2 DEF Break
  <2>2. labelTargetStack # <<>>
    BY <1>1, <2>1, TopInnermost
  <2>3. LabelTargetOf(label) = Top(labelTargetStack)
    BY <1>2 DEF LabelTargetOf
  <2>4. QED
    BY <1>1, <1>2, <2>2, <2>3, TopInnermost
<1>3. CASE label # None
  <2>1. PICK i \in 1 .. n : IsLabelled(i, label)
    BY <1>1, <1>3 DEF Break
  <2>2. QED
    BY <1>1, <1>3, <2>1, LabelledTarget
<1>4. QED
  BY <1>2, <1>3

(* A continue finds the innermost target t and the loop c, which are one   *)
(* but for a switch inside the loop.                                       *)
LEMMA ContinueFinds ==
  ASSUME IInv, NEW label \in Labels \cup {None}, Continue(label),
         NEW n \in Nat, n = Len(open)
  PROVE  \E t \in 1 .. n, c \in 1 .. n :
           /\ t = LabelTargetOf(label)
           /\ c = labelTarget[t].continueTarget
           /\ IsBreakable(t)
           /\ IsLoop(c) /\ c <= t
           /\ IsLoop(t) => c = t
           /\ label = None => \A k \in 1 .. n : IsLoop(k) => k <= c
           /\ label # None => /\ IsLoop(t) /\ IsLabelled(t, label)
                              /\ \A k \in 1 .. n : IsLabelled(k, label) => k = t
<1>1. DOMAIN open = 1 .. n
  BY DEF IInv, OpenOK
<1>2. PICK i \in 1 .. n : IsLoop(i) /\ (label = None \/ IsLabelled(i, label))
  BY <1>1 DEF Continue
<1>3. PICK t \in 1 .. n :
        /\ t = LabelTargetOf(label)
        /\ IsBreakable(t)
        /\ label = None => \A k \in 1 .. n : IsBreakable(k) => k <= t
        /\ label # None =>
             /\ IsLoop(t) /\ IsLabelled(t, label)
             /\ \A k \in 1 .. n : IsLabelled(k, label) => k = t
  <2>1. CASE label = None
    <3>1. labelTargetStack # <<>>
      BY <1>1, <1>2, TopInnermost DEF IsBreakable
    <3>2. LabelTargetOf(label) = Top(labelTargetStack)
      BY <2>1 DEF LabelTargetOf
    <3>3. QED
      BY <1>1, <2>1, <3>1, <3>2, TopInnermost
  <2>2. CASE label # None
    <3>1. QED
      BY <1>1, <1>2, <2>2, LabelledTarget DEF IsBreakable
  <2>3. QED
    BY <2>1, <2>2
<1>4. PICK c \in 0 .. t : /\ c = labelTarget[t].continueTarget
                          /\ c # 0 => IsLoop(c)
                          /\ \A k \in c + 1 .. t : ~IsLoop(k)
  <2>1. Innermost(labelTarget[t].continueTarget, t)
    BY <1>1, <1>3 DEF IInv, TargetsOK
  <2>2. QED
    BY <2>1 DEF Innermost
<1>5. IsLoop(t) => c = t
  BY <1>3, <1>4
<1>6. \A k \in 1 .. n : label = None /\ IsLoop(k) => k <= c
  BY <1>3, <1>4 DEF IsBreakable
<1>7. c \in 1 .. n /\ IsLoop(c) /\ c <= t
  BY <1>2, <1>3, <1>4, <1>5, <1>6
<1>8. QED
  BY <1>3, <1>4, <1>5, <1>6, <1>7

LEMMA BreakStep ==
  ASSUME IInv, NEW label \in Labels \cup {None}, Break(label)
  PROVE  IInv'
<1>1. PICK n \in Nat : n = Len(open) /\ DOMAIN open = 1 .. n
  BY DEF IInv, OpenOK
<1>2. PICK t \in 1 .. n :
        /\ t = LabelTargetOf(label)
        /\ IF label = None
           THEN IsBreakable(t) /\ \A i \in 1 .. n : IsBreakable(i) => i <= t
           ELSE /\ IsLabelled(t, label)
                /\ IsBreakable(t) \/ open[t].kind = "block"
                /\ \A i \in 1 .. n : IsLabelled(i, label) => i = t
  BY <1>1, BreakFinds
<1>3. PICK j :
        /\ jump' = j
        /\ j.kind = "break" /\ j.label = label /\ j.to = t
        /\ j.depth = Depth(n) - PopTimes(labelTarget[t], FALSE)
  <2>1. PICK f : jump' =
          [kind |-> "break", label |-> label, to |-> LabelTargetOf(label),
           depth |-> Depth(Len(open)) -
                       PopTimes(labelTarget[LabelTargetOf(label)], FALSE),
           finalized |-> f]
    BY DEF Break, Emit
  <2>2. /\ jump'.kind = "break" /\ jump'.label = label
        /\ jump'.to = LabelTargetOf(label)
        /\ jump'.depth = Depth(Len(open)) -
                           PopTimes(labelTarget[LabelTargetOf(label)], FALSE)
    BY <2>1
  <2>3. Len(open) = n /\ LabelTargetOf(label) = t
    BY <1>1, <1>2
  <2>4. jump'.to = t /\ jump'.depth = Depth(n) - PopTimes(labelTarget[t], FALSE)
    BY <2>2, <2>3, Zenon
  <2>5. QED
    BY <2>2, <2>4, Zenon
<1>4. UNCHANGED <<open, labelTarget, labelTargetStack, name2LabelTarget, tries>>
  BY DEF Break, Emit
<1>5. LeadsRight(j)
  <2>1. CASE label = None
    <3>1. Max({i \in 1 .. n : IsBreakable(i)}) = t
      BY <1>2, <2>1, MaxIs, SMTT(60)
    <3>2. QED
      BY <1>1, <1>3, <2>1, <3>1 DEF LeadsRight
  <2>2. CASE label # None
    <3>1. Max({i \in 1 .. n : IsLabelled(i, label)}) = t
      <4>1. /\ t \in {i \in 1 .. n : IsLabelled(i, label)}
            /\ \A y \in {i \in 1 .. n : IsLabelled(i, label)} : t >= y
        BY <1>2, <2>2
      <4>2. {i \in 1 .. n : IsLabelled(i, label)} \in SUBSET Int
        OBVIOUS
      <4>3. QED
        BY <4>1, <4>2, MaxIs
    <3>2. QED
      BY <1>1, <1>3, <2>2, <3>1 DEF LeadsRight
  <2>3. QED
    BY <2>1, <2>2
<1>6. ArrivesRight(j)
  <2>1. CASE IsBreakable(t)
    <3>1. \/ Depth(n) - PopTimes(labelTarget[t], FALSE) = BreakDepth(t)
          \/ IsLoop(t) /\ ~open[t].env /\ Depth(n) > Depth(t)
      BY <1>1, <2>1, Popped
    <3>2. QED
      BY <1>1, <1>3, <3>1 DEF ArrivesRight
  <2>2. CASE ~IsBreakable(t)
    <3>1. open[t].kind = "block" /\ labelTarget[t].loopEnvLevel = 0
      BY <1>1, <1>2, <2>2 DEF IInv, TargetsOK
    <3>2. PopTimes(labelTarget[t], FALSE) = 0
      BY <3>1 DEF PopTimes
    <3>3. Depth(n) \in Nat /\ Depth(t) \in Nat /\ Depth(n) >= Depth(t)
      <4>1. 1 \in Int /\ n \in Int /\ t + 1 \in Int
        OBVIOUS
      <4>2. /\ Cardinality(Envs(1, n)) \in Nat
            /\ Cardinality(Envs(1, t)) \in Nat
            /\ Cardinality(Envs(t + 1, n)) \in Nat
        BY <4>1, EnvsFinite
      <4>3. Cardinality(Envs(1, n)) =
              Cardinality(Envs(1, t)) + Cardinality(Envs(t + 1, n))
        BY <4>1, EnvsSplit
      <4>4. QED
        BY <4>2, <4>3 DEF Depth
    <3>4. j.depth = Depth(n)
      <4>1. j.depth = Depth(n) - 0
        BY <1>3, <3>2, Zenon
      <4>2. QED
        BY <3>3, <4>1
    <3>5. \/ j.depth = BreakDepth(t)
          \/ open[t].kind = "block" /\ Depth(n) > Depth(t)
      BY <3>1, <3>3, <3>4 DEF BreakDepth
    <3>6. QED
      BY <1>1, <1>3, <3>5 DEF ArrivesRight
  <2>3. QED
    BY <2>1, <2>2
<1>7. LandsRight(j)
  BY <1>3 DEF LandsRight
<1>8. QED
  BY <1>3, <1>4, <1>5, <1>6, <1>7, JumpsOnly

LEMMA ContinueStep ==
  ASSUME IInv, NEW label \in Labels \cup {None}, Continue(label)
  PROVE  IInv'
<1>1. PICK n \in Nat : n = Len(open) /\ DOMAIN open = 1 .. n
  BY DEF IInv, OpenOK
<1>2. PICK t \in 1 .. n, c \in 1 .. n :
        /\ t = LabelTargetOf(label)
        /\ c = labelTarget[t].continueTarget
        /\ IsBreakable(t)
        /\ IsLoop(c) /\ c <= t
        /\ IsLoop(t) => c = t
        /\ label = None => \A k \in 1 .. n : IsLoop(k) => k <= c
        /\ label # None => /\ IsLoop(t) /\ IsLabelled(t, label)
                           /\ \A k \in 1 .. n : IsLabelled(k, label) => k = t
  BY <1>1, ContinueFinds
<1>3. PICK j :
        /\ jump' = j
        /\ j.kind = "continue" /\ j.label = label /\ j.to = c
        /\ j.depth = Depth(n) - PopTimes(labelTarget[t], TRUE)
  <2>1. PICK f : jump' =
          [kind |-> "continue", label |-> label,
           to |-> labelTarget[LabelTargetOf(label)].continueTarget,
           depth |-> Depth(Len(open)) -
                       PopTimes(labelTarget[LabelTargetOf(label)], TRUE),
           finalized |-> f]
    BY DEF Continue, Emit
  <2>2. /\ jump'.kind = "continue" /\ jump'.label = label
        /\ jump'.to = labelTarget[LabelTargetOf(label)].continueTarget
        /\ jump'.depth = Depth(Len(open)) -
                           PopTimes(labelTarget[LabelTargetOf(label)], TRUE)
    BY <2>1
  <2>3. Len(open) = n /\ LabelTargetOf(label) = t
    BY <1>1, <1>2
  <2>4. /\ jump'.to = labelTarget[t].continueTarget
        /\ jump'.depth = Depth(n) - PopTimes(labelTarget[t], TRUE)
    BY <2>2, <2>3, Zenon
  <2>5. jump'.to = c
    BY <1>2, <2>4, Zenon
  <2>6. QED
    BY <2>2, <2>4, <2>5, Zenon
<1>4. UNCHANGED <<open, labelTarget, labelTargetStack, name2LabelTarget, tries>>
  BY DEF Continue, Emit
<1>5. LeadsRight(j)
  <2>1. CASE label = None
    <3>1. Max({k \in 1 .. n : IsLoop(k)}) = c
      <4>1. /\ c \in {k \in 1 .. n : IsLoop(k)}
            /\ \A y \in {k \in 1 .. n : IsLoop(k)} : c >= y
        BY <1>2, <2>1
      <4>2. {k \in 1 .. n : IsLoop(k)} \in SUBSET Int
        OBVIOUS
      <4>3. QED
        BY <4>1, <4>2, MaxIs
    <3>2. QED
      BY <1>1, <1>3, <2>1, <3>1 DEF LeadsRight
  <2>2. CASE label # None
    <3>1. Max({k \in 1 .. n : IsLabelled(k, label)}) = t
      <4>1. /\ t \in {k \in 1 .. n : IsLabelled(k, label)}
            /\ \A y \in {k \in 1 .. n : IsLabelled(k, label)} : t >= y
        BY <1>2, <2>2
      <4>2. {k \in 1 .. n : IsLabelled(k, label)} \in SUBSET Int
        OBVIOUS
      <4>3. QED
        BY <4>1, <4>2, MaxIs
    <3>2. QED
      BY <1>1, <1>2, <1>3, <2>2, <3>1 DEF LeadsRight
  <2>3. QED
    BY <2>1, <2>2
<1>6. ArrivesRight(j)
  <2>1. CASE IsLoop(t)
    <3>1. TRUE \in BOOLEAN
      OBVIOUS
    <3>2. \/ Depth(n) - PopTimes(labelTarget[t], TRUE) = ContinueDepth(t)
          \/ IsLoop(t) /\ ~open[t].env /\ Depth(n) > Depth(t)
      BY <1>1, <2>1, <3>1, Popped
    <3>3. QED
      BY <1>1, <1>2, <1>3, <2>1, <3>2 DEF ArrivesRight
  <2>2. CASE ~IsLoop(t)
    <3>1. open[t].kind = "switch" /\ t \in c + 1 .. n /\ label = None
      BY <1>2, <2>2 DEF IsBreakable
    <3>2. QED
      BY <1>1, <1>3, <3>1 DEF ArrivesRight
  <2>3. QED
    BY <2>1, <2>2
<1>7. LandsRight(j)
  BY <1>3 DEF LandsRight
<1>8. QED
  BY <1>3, <1>4, <1>5, <1>6, <1>7, JumpsOnly

LEMMA ReturnStep ==
  ASSUME IInv, Return
  PROVE  IInv'
<1>1. PICK j : jump' = j /\ j.kind = "break" /\ j.to = 0
  BY DEF Return, Emit
<1>2. UNCHANGED <<open, labelTarget, labelTargetStack, name2LabelTarget, tries>>
  BY DEF Return, Emit
<1>3. LeadsRight(j) /\ ArrivesRight(j) /\ LandsRight(j)
  BY <1>1 DEF LeadsRight, ArrivesRight, LandsRight
<1>4. QED
  BY <1>1, <1>2, <1>3, JumpsOnly

LEMMA ThrowStep ==
  ASSUME IInv, Throw
  PROVE  IInv'
<1>1. PICK n \in Nat : n = Len(open) /\ DOMAIN open = 1 .. n
  BY DEF IInv, OpenOK
<1>2. PICK j :
        /\ jump' = j /\ j.kind = "throw"
        /\ j.depth = Depth(n)
                     - (IF tries = <<>> THEN 0 ELSE Top(tries).loopEnvLevel)
  BY <1>1 DEF Throw
<1>3. UNCHANGED <<open, labelTarget, labelTargetStack, name2LabelTarget, tries>>
  BY DEF Throw
<1>4. LeadsRight(j) /\ ArrivesRight(j)
  BY <1>2 DEF LeadsRight, ArrivesRight
<1>5. LandsRight(j)
  <2>1. CASE tries = <<>>
    BY <2>1 DEF LandsRight
  <2>2. CASE tries # <<>>
    <3>1. PICK m \in Nat : m = Len(tries) /\ m \in DOMAIN tries /\ Top(tries) = tries[m]
      BY <2>2 DEF IInv, TriesOK, Top
    <3>2. PICK s \in 1 .. n : s = tries[m].stmt
      BY <1>1, <3>1 DEF IInv, TriesOK
    <3>3. tries[m].loopEnvLevel = Cardinality(Envs(s + 1, n))
      BY <1>1, <3>1, <3>2 DEF IInv, Levels
    <3>4. 1 \in Int /\ n \in Int /\ s + 1 \in Int
      OBVIOUS
    <3>5. /\ Cardinality(Envs(1, s)) \in Nat
          /\ Cardinality(Envs(s + 1, n)) \in Nat
      BY <3>4, EnvsFinite
    <3>6. Cardinality(Envs(1, n)) =
            Cardinality(Envs(1, s)) + Cardinality(Envs(s + 1, n))
      BY <3>4, EnvsSplit
    <3>7. Depth(n) - Cardinality(Envs(s + 1, n)) = Depth(s)
      BY <3>5, <3>6 DEF Depth
    <3>8. j.depth = Depth(s)
      BY <1>2, <2>2, <3>1, <3>3, <3>7
    <3>9. QED
      BY <3>1, <3>2, <3>8 DEF LandsRight
  <2>3. QED
    BY <2>1, <2>2
<1>6. QED
  BY <1>2, <1>3, <1>4, <1>5, JumpsOnly

(* The other steps leave jump as it is or forget it.                       *)
LEMMA OtherSteps ==
  ASSUME IInv,
         UNCHANGED <<open, labelTarget, labelTargetStack, name2LabelTarget, tries>>,
         jump' = jump \/ jump' = NoJump
  PROVE  IInv'
<1>1. LeadsRight(jump)
  BY DEF IInv, JumpsToItsTarget, SourceTarget, IsReturn, LeadsRight
<1>2. ArrivesRight(jump)
  BY DEF IInv, JumpsAligned, IsReturn, Expected, TargetWithoutEnv,
         ContinueOfSwitch, BreakOfBlock, LeavesEnvs, ArrivesRight
<1>3. LandsRight(jump)
  BY DEF IInv, ThrowsAligned, LandsRight
<1>4. LeadsRight(NoJump) /\ ArrivesRight(NoJump) /\ LandsRight(NoJump)
  BY DEF LeadsRight, ArrivesRight, LandsRight, NoJump, None
<1>5. QED
  BY <1>1, <1>2, <1>3, <1>4, JumpsOnly

-----------------------------------------------------------------------------
(* What a jump finalizes and what the catch tables cover.                  *)

(* The depth in the chain of try statements that a LabelTarget has kept is *)
(* still that of the try statements around it.                             *)
TryDepths ==
  \A i \in DOMAIN open :
    /\ labelTarget[i].try \in 0 .. Len(tries)
    /\ \A k \in DOMAIN tries : k <= labelTarget[i].try <=> tries[k].stmt < i

TablesApart ==
  \A k \in DOMAIN tries : \A m \in 1 .. k - 1 : tries[m].table # tries[k].table

Pairs == Nat \X Nat

(* A catch table after n emitted statements: its label pairs are closed,   *)
(* but for the last one of a try statement whose block is open.            *)
ClosedTable(table, n) ==
  /\ table \in Seq(Pairs)
  /\ \A i \in 1 .. Len(table) : table[i][2] \in 1 .. n + 1

OpenTable(table, n) ==
  /\ table \in Seq(Pairs)
  /\ Len(table) > 0
  /\ \A i \in 1 .. Len(table) - 1 : table[i][2] \in 1 .. n + 1
  /\ table[Len(table)][1] <= n + 1
  /\ table[Len(table)][2] = 0

(* What is emitted, c, is covered by the tables that must cover it; those  *)
(* in o are of try statements whose block is open.                         *)
TablesOK(c, tables, o) ==
  /\ c \in Seq(SUBSET Nat)
  /\ tables \in Seq(Seq(Pairs))
  /\ o \subseteq DOMAIN tables
  /\ \A t \in DOMAIN tables :
       IF t \in o THEN OpenTable(tables[t], Len(c))
       ELSE ClosedTable(tables[t], Len(c))
  /\ \A p \in DOMAIN c :
       /\ c[p] \subseteq DOMAIN tables
       /\ \A t \in DOMAIN tables : Covers(tables[t], p) <=> t \in c[p]

(* Together with IInv these are inductive.                                 *)
JInv ==
  /\ TryDepths
  /\ TablesApart
  /\ TablesOK(code, catchTables, TablesOf(tries))
  /\ FinalizesWhatItLeaves

(* The last element is replaced by others.                                 *)
Replaced(s, x, q) == s = SubSeq(x, 1, Len(x) - 1) \o q

(* By the elements of q.                                                   *)
LEMMA LastReplaced ==
  ASSUME NEW S, NEW x \in Seq(S), Len(x) > 0, NEW q \in Seq(S),
         NEW s, Replaced(s, x, q)
  PROVE  /\ s \in Seq(S)
         /\ Len(s) = Len(x) - 1 + Len(q)
         /\ \A i \in 1 .. Len(x) - 1 : s[i] = x[i]
         /\ \A i \in 1 .. Len(q) : s[Len(x) - 1 + i] = q[i]
<1>1. PICK n \in Nat : n = Len(x) /\ n > 0
  OBVIOUS
<1>2. x # <<>>
  BY <1>1
<1>3. PICK f : f = Front(x)
  OBVIOUS
<1>4. /\ f \in Seq(S) /\ Len(f) = n - 1
      /\ \A i \in 1 .. n - 1 : f[i] = x[i]
  BY <1>1, <1>2, <1>3, SeqFront
<1>5. SubSeq(x, 1, Len(x) - 1) = f
  BY <1>3 DEF Front
<1>6. PICK m \in Nat : m = Len(q)
  OBVIOUS
<1>7. s = f \o q
  BY <1>5 DEF Replaced
<1>8. /\ s \in Seq(S)
      /\ Len(s) = n - 1 + m
      /\ \A i \in 1 .. n - 1 : s[i] = f[i]
      /\ \A i \in 1 .. m : s[n - 1 + i] = q[i]
  <2>1. /\ s \in Seq(S)
        /\ Len(s) = Len(f) + Len(q)
        /\ \A i \in 1 .. Len(f) + Len(q) :
             s[i] = IF i <= Len(f) THEN f[i] ELSE q[i - Len(f)]
    BY <1>4, <1>7, ConcatProperties
  <2>2. \A i \in 1 .. n - 1 + m :
          s[i] = IF i <= n - 1 THEN f[i] ELSE q[i - (n - 1)]
    BY <1>4, <1>6, <2>1
  <2>4. \A i \in 1 .. n - 1 : i \in 1 .. n - 1 + m
    OBVIOUS
  <2>5. ASSUME NEW i \in 1 .. m PROVE s[n - 1 + i] = q[i]
    <3>0. n - 1 + i \in 1 .. n - 1 + m
      BY <1>1
    <3>1. PICK k \in 1 .. n - 1 + m : k = n - 1 + i
      BY <3>0, Zenon
    <3>2. ~(k <= n - 1) /\ k - (n - 1) = i
      BY <3>1
    <3>3. s[k] = q[k - (n - 1)]
      BY <2>2, <3>2
    <3>4. QED
      BY <3>1, <3>2, <3>3
  <2>6. \A i \in 1 .. n - 1 : s[i] = f[i]
    BY <2>2, <2>4
  <2>7. Len(s) = n - 1 + m
    BY <1>4, <1>6, <2>1
  <2>8. QED
    BY <2>1, <2>5, <2>6, <2>7
<1>9. QED
  BY <1>1, <1>4, <1>5, <1>6, <1>7, <1>8

(* By one element.                                                         *)
LEMMA LastPair ==
  ASSUME NEW S, NEW x \in Seq(S), Len(x) > 0, NEW a \in S,
         NEW s, Replaced(s, x, <<a>>)
  PROVE  /\ s \in Seq(S)
         /\ Len(s) = Len(x)
         /\ \A i \in 1 .. Len(x) - 1 : s[i] = x[i]
         /\ s[Len(x)] = a
<1>1. PICK q \in Seq(S) : q = <<a>> /\ Len(q) = 1 /\ q[1] = a
  <2>1. <<a>> \in Seq(S) /\ Len(<<a>>) = 1 /\ <<a>>[1] = a
    OBVIOUS
  <2>2. QED
    BY <2>1, Zenon
<1>2. Replaced(s, x, q)
  BY <1>1
<1>3. /\ s \in Seq(S)
      /\ Len(s) = Len(x) - 1 + Len(q)
      /\ \A i \in 1 .. Len(x) - 1 : s[i] = x[i]
      /\ \A i \in 1 .. Len(q) : s[Len(x) - 1 + i] = q[i]
  BY <1>2, LastReplaced, SMTT(60)
<1>4. PICK n \in Nat : n = Len(x)
  OBVIOUS
<1>5. Len(s) = n /\ s[n - 1 + 1] = q[1] /\ n - 1 + 1 = n
  BY <1>1, <1>3, <1>4
<1>6. Len(s) = n /\ s[n] = a
  BY <1>1, <1>5
<1>7. QED
  BY <1>1, <1>2, <1>3, <1>4, <1>6

(* By two elements.                                                        *)
LEMMA LastPairs ==
  ASSUME NEW S, NEW x \in Seq(S), Len(x) > 0, NEW a \in S, NEW b \in S,
         NEW s, Replaced(s, x, <<a, b>>)
  PROVE  /\ s \in Seq(S)
         /\ Len(s) = Len(x) + 1
         /\ \A i \in 1 .. Len(x) - 1 : s[i] = x[i]
         /\ s[Len(x)] = a
         /\ s[Len(x) + 1] = b
<1>1. PICK q \in Seq(S) : q = <<a, b>> /\ Len(q) = 2 /\ q[1] = a /\ q[2] = b
  <2>1. /\ <<a, b>> \in Seq(S) /\ Len(<<a, b>>) = 2
        /\ <<a, b>>[1] = a /\ <<a, b>>[2] = b
    OBVIOUS
  <2>2. QED
    BY <2>1, Zenon
<1>2. Replaced(s, x, q)
  BY <1>1
<1>3. /\ s \in Seq(S)
      /\ Len(s) = Len(x) - 1 + Len(q)
      /\ \A i \in 1 .. Len(x) - 1 : s[i] = x[i]
      /\ \A i \in 1 .. Len(q) : s[Len(x) - 1 + i] = q[i]
  BY <1>2, LastReplaced, SMTT(60)
<1>4. PICK n \in Nat : n = Len(x)
  OBVIOUS
<1>5. /\ Len(s) = n + 1
      /\ s[n - 1 + 1] = q[1] /\ n - 1 + 1 = n
      /\ s[n - 1 + 2] = q[2] /\ n - 1 + 2 = n + 1
  BY <1>1, <1>3, <1>4
<1>6. Len(s) = n + 1 /\ s[n] = a /\ s[n + 1] = b
  BY <1>1, <1>5
<1>7. QED
  BY <1>1, <1>2, <1>3, <1>4, <1>6

(* The pairs of a table.                                                   *)
LEMMA TablePairs ==
  ASSUME NEW table \in Seq(Pairs)
  PROVE  /\ DOMAIN table = 1 .. Len(table) /\ Len(table) \in Nat
         /\ \A i \in 1 .. Len(table) :
              table[i] \in Pairs /\ table[i][1] \in Nat /\ table[i][2] \in Nat
<1>1. \A i \in 1 .. Len(table) : table[i] \in Pairs
  BY SeqElement
<1>2. \A x \in Pairs : x[1] \in Nat /\ x[2] \in Nat
  BY DEF Pairs
<1>3. DOMAIN table = 1 .. Len(table) /\ Len(table) \in Nat
  OBVIOUS
<1>4. QED
  BY <1>1, <1>2, <1>3

(* The pairs of a table whose last one is open.                            *)
LEMMA OpenPairs ==
  ASSUME NEW table, NEW n \in Nat, OpenTable(table, n)
  PROVE  /\ Len(table) \in Nat /\ Len(table) > 0
         /\ DOMAIN table = 1 .. Len(table)
         /\ table \in Seq(Pairs)
         /\ \A i \in 1 .. Len(table) : table[i][1] \in Nat /\ table[i][2] \in Nat
         /\ \A i \in 1 .. Len(table) - 1 : table[i][2] \in 1 .. n + 1
         /\ table[Len(table)][1] \in Nat
         /\ table[Len(table)][1] <= n + 1 /\ table[Len(table)][2] = 0
<1>1. /\ table \in Seq(Pairs) /\ Len(table) > 0
      /\ \A i \in 1 .. Len(table) - 1 : table[i][2] \in 1 .. n + 1
      /\ table[Len(table)][1] <= n + 1 /\ table[Len(table)][2] = 0
  BY DEF OpenTable
<1>2. /\ DOMAIN table = 1 .. Len(table) /\ Len(table) \in Nat
      /\ \A i \in 1 .. Len(table) :
           table[i] \in Pairs /\ table[i][1] \in Nat /\ table[i][2] \in Nat
  BY <1>1, TablePairs
<1>3. Len(table) \in 1 .. Len(table)
  BY <1>1, <1>2
<1>4. QED
  BY <1>1, <1>2, <1>3

(* What is emitted next is covered by the tables that are open.            *)
LEMMA OpenCovers ==
  ASSUME NEW table, NEW n \in Nat, OpenTable(table, n)
  PROVE  Covers(table, n + 1) /\ OpenTable(table, n + 1)
<1>1. /\ Len(table) \in Nat /\ Len(table) > 0
      /\ DOMAIN table = 1 .. Len(table)
      /\ table \in Seq(Pairs)
      /\ \A i \in 1 .. Len(table) - 1 : table[i][2] \in 1 .. n + 1
      /\ table[Len(table)][1] \in Nat
      /\ table[Len(table)][1] <= n + 1 /\ table[Len(table)][2] = 0
  BY OpenPairs
<1>2. Len(table) \in DOMAIN table
  BY <1>1
<1>3. Covers(table, n + 1)
  BY <1>1, <1>2 DEF Covers
<1>4. OpenTable(table, n + 1)
  BY <1>1 DEF OpenTable
<1>5. QED
  BY <1>3, <1>4

(* A closed table does not cover what comes next.                          *)
LEMMA ClosedCovers ==
  ASSUME NEW table, NEW n \in Nat, ClosedTable(table, n)
  PROVE  ~Covers(table, n + 1) /\ ClosedTable(table, n + 1)
<1>1. /\ table \in Seq(Pairs)
      /\ \A i \in 1 .. Len(table) : table[i][2] \in 1 .. n + 1
  BY DEF ClosedTable
<1>2. DOMAIN table = 1 .. Len(table)
  BY <1>1, TablePairs
<1>3. \A i \in DOMAIN table : table[i][2] # 0 /\ ~(n + 1 < table[i][2])
  BY <1>1, <1>2
<1>4. ~Covers(table, n + 1)
  BY <1>3 DEF Covers
<1>5. ClosedTable(table, n + 1)
  BY <1>1 DEF ClosedTable
<1>6. QED
  BY <1>4, <1>5

(* Splitting the pair of an open table takes nothing from what is covered. *)
LEMMA SplitCovers ==
  ASSUME NEW table, NEW n \in Nat, OpenTable(table, n),
         NEW m \in Nat, m = n \/ m = n + 1, NEW d \in Nat, d = Len(table),
         NEW s \in Seq(Pairs), Len(s) = d + 1,
         \A i \in 1 .. d - 1 : s[i] = table[i],
         s[d][1] = table[d][1], s[d][2] = n + 1,
         s[d + 1][1] = m + 1, s[d + 1][2] = 0
  PROVE  /\ OpenTable(s, m)
         /\ \A p \in 1 .. n : Covers(s, p) <=> Covers(table, p)
         /\ m = n + 1 => ~Covers(s, n + 1)
<1>1. d > 0 /\ DOMAIN table = 1 .. d /\ DOMAIN s = 1 .. d + 1
  <2>1. d > 0 /\ DOMAIN table = 1 .. d
    BY OpenPairs
  <2>2. QED
    BY <2>1
<1>2. /\ \A i \in 1 .. d : table[i][1] \in Nat /\ table[i][2] \in Nat
      /\ \A i \in 1 .. d - 1 : table[i][2] \in 1 .. n + 1
      /\ table[d][1] <= n + 1 /\ table[d][2] = 0
  BY OpenPairs
<1>7. OpenTable(s, m)
  <2>1. ASSUME NEW i \in 1 .. d + 1
        PROVE  IF i = d + 1 THEN s[i][1] <= m + 1 /\ s[i][2] = 0
               ELSE s[i][2] \in 1 .. m + 1
    <3>1. CASE i = d + 1
      BY <3>1
    <3>2. CASE i = d
      BY <3>2
    <3>3. CASE i \in 1 .. d - 1
      BY <1>2, <3>3
    <3>4. QED
      BY <3>1, <3>2, <3>3
  <2>2. /\ Len(s) > 0
        /\ \A i \in 1 .. Len(s) - 1 : s[i][2] \in 1 .. m + 1
        /\ s[Len(s)][1] <= m + 1 /\ s[Len(s)][2] = 0
    BY <1>1, <2>1
  <2>3. QED
    BY <2>2 DEF OpenTable
<1>8. ASSUME NEW p \in 1 .. n + 1, p <= n \/ m = n + 1
      PROVE  Covers(s, p) <=> p <= n /\ Covers(table, p)
  <2>1. ASSUME NEW i \in 1 .. d + 1, s[i][1] <= p, s[i][2] = 0 \/ p < s[i][2]
        PROVE  p <= n /\ i \in 1 .. d /\ table[i][1] <= p
               /\ (table[i][2] = 0 \/ p < table[i][2])
    <3>1. CASE i = d + 1
      BY <1>8, <2>1, <3>1
    <3>2. CASE i = d
      BY <1>2, <2>1, <3>2
    <3>3. CASE i \in 1 .. d - 1
      BY <1>2, <2>1, <3>3, SMTT(60)
    <3>4. QED
      BY <3>1, <3>2, <3>3
  <2>2. ASSUME NEW i \in 1 .. d, table[i][1] <= p, table[i][2] = 0 \/ p < table[i][2],
               p <= n
        PROVE  i \in 1 .. d + 1 /\ s[i][1] <= p /\ (s[i][2] = 0 \/ p < s[i][2])
    <3>1. CASE i = d
      BY <2>2, <3>1
    <3>2. CASE i \in 1 .. d - 1
      BY <2>2, <3>2
    <3>3. QED
      BY <3>1, <3>2
  <2>3. QED
    BY <1>1, <2>1, <2>2 DEF Covers
<1>9. \A p \in 1 .. n : p \in 1 .. n + 1 /\ p <= n
  OBVIOUS
<1>10. n + 1 \in 1 .. n + 1 /\ ~(n + 1 <= n)
  OBVIOUS
<1>11. \A p \in 1 .. n : Covers(s, p) <=> Covers(table, p)
  BY <1>8, <1>9
<1>12. m = n + 1 => ~Covers(s, n + 1)
  BY <1>8, <1>10
<1>13. QED
  BY <1>7, <1>11, <1>12

(* The same of Split.                                                      *)
LEMMA SplitOK ==
  ASSUME NEW table, NEW n \in Nat, OpenTable(table, n),
         NEW m \in Nat, m = n \/ m = n + 1
  PROVE  LET s == Split(table, n + 1, m + 1)
         IN  /\ OpenTable(s, m)
             /\ \A p \in 1 .. n : Covers(s, p) <=> Covers(table, p)
             /\ m = n + 1 => ~Covers(s, n + 1)
<1>1. PICK d \in Nat, x \in Nat :
        d = Len(table) /\ d > 0 /\ x = table[d][1] /\ table[d][2] = 0
  BY OpenPairs
<1>2. PICK a, b : a = <<x, n + 1>> /\ b = <<m + 1, 0>>
  OBVIOUS
<1>3. a \in Pairs /\ b \in Pairs
  BY <1>2 DEF Pairs
<1>4. PICK s : s = Split(table, n + 1, m + 1)
  OBVIOUS
<1>5. Replaced(s, table, <<a, b>>)
  BY <1>1, <1>2, <1>4 DEF Split, Top, Replaced
<1>6. /\ s \in Seq(Pairs) /\ Len(s) = Len(table) + 1
      /\ \A i \in 1 .. Len(table) - 1 : s[i] = table[i]
      /\ s[Len(table)] = a
      /\ s[Len(table) + 1] = b
  <2>1. table \in Seq(Pairs) /\ Len(table) > 0
    BY OpenPairs
  <2>2. QED
    BY <1>3, <1>5, <2>1, LastPairs
<1>7. /\ s[d][1] = table[d][1] /\ s[d][2] = n + 1
      /\ s[d + 1][1] = m + 1 /\ s[d + 1][2] = 0
  <2>1. s[d] = <<x, n + 1>> /\ s[d + 1] = <<m + 1, 0>>
    BY <1>1, <1>2, <1>6
  <2>2. QED
    BY <1>1, <2>1
<1>8. /\ Len(s) = d + 1
      /\ \A i \in 1 .. d - 1 : s[i] = table[i]
  BY <1>1, <1>6
<1>9. /\ OpenTable(s, m)
      /\ \A p \in 1 .. n : Covers(s, p) <=> Covers(table, p)
      /\ m = n + 1 => ~Covers(s, n + 1)
  BY <1>1, <1>6, <1>7, <1>8, SplitCovers, SMTT(60)
<1>10. QED
  BY <1>4, <1>9

(* Ending the last pair neither.                                           *)
LEMMA EndCovers ==
  ASSUME NEW table, NEW n \in Nat, OpenTable(table, n),
         NEW d \in Nat, d = Len(table), NEW s \in Seq(Pairs), Len(s) = d,
         \A i \in 1 .. d - 1 : s[i] = table[i],
         s[d][1] = table[d][1], s[d][2] = n + 1
  PROVE  /\ ClosedTable(s, n)
         /\ \A p \in 1 .. n : Covers(s, p) <=> Covers(table, p)
<1>1. d > 0 /\ DOMAIN table = 1 .. d /\ DOMAIN s = 1 .. d
  <2>1. d > 0 /\ DOMAIN table = 1 .. d
    BY OpenPairs
  <2>2. QED
    BY <2>1
<1>2. /\ \A i \in 1 .. d : table[i][1] \in Nat /\ table[i][2] \in Nat
      /\ \A i \in 1 .. d - 1 : table[i][2] \in 1 .. n + 1
      /\ table[d][1] <= n + 1 /\ table[d][2] = 0
  BY OpenPairs
<1>7. ClosedTable(s, n)
  <2>1. ASSUME NEW i \in 1 .. d
        PROVE  s[i][2] \in 1 .. n + 1
    <3>1. CASE i = d
      BY <3>1
    <3>2. CASE i \in 1 .. d - 1
      BY <1>2, <3>2
    <3>3. QED
      BY <3>1, <3>2
  <2>2. QED
    BY <1>1, <2>1 DEF ClosedTable
<1>8. ASSUME NEW p \in 1 .. n
      PROVE  Covers(s, p) <=> Covers(table, p)
  <2>1. ASSUME NEW i \in 1 .. d
        PROVE  s[i][1] <= p /\ (s[i][2] = 0 \/ p < s[i][2]) <=>
               table[i][1] <= p /\ (table[i][2] = 0 \/ p < table[i][2])
    <3>1. CASE i = d
      BY <1>2, <3>1
    <3>2. CASE i \in 1 .. d - 1
      BY <3>2
    <3>3. QED
      BY <3>1, <3>2
  <2>2. QED
    BY <1>1, <2>1 DEF Covers
<1>9. QED
  BY <1>7, <1>8

(* The same of EndTry.                                                     *)
LEMMA EndOK ==
  ASSUME NEW table, NEW n \in Nat, OpenTable(table, n)
  PROVE  LET s == SubSeq(table, 1, Len(table) - 1) \o << <<Top(table)[1], n + 1>> >>
         IN  /\ ClosedTable(s, n)
             /\ \A p \in 1 .. n : Covers(s, p) <=> Covers(table, p)
<1>1. PICK d \in Nat, x \in Nat : d = Len(table) /\ d > 0 /\ x = table[d][1]
  BY OpenPairs
<1>2. PICK a : a = <<x, n + 1>>
  OBVIOUS
<1>3. a \in Pairs
  BY <1>2 DEF Pairs
<1>4. PICK s : s = SubSeq(table, 1, Len(table) - 1) \o << <<Top(table)[1], n + 1>> >>
  OBVIOUS
<1>5. Replaced(s, table, <<a>>)
  BY <1>1, <1>2, <1>4 DEF Top, Replaced
<1>6. /\ s \in Seq(Pairs) /\ Len(s) = Len(table)
      /\ \A i \in 1 .. Len(table) - 1 : s[i] = table[i]
      /\ s[Len(table)] = a
  <2>1. table \in Seq(Pairs) /\ Len(table) > 0
    BY OpenPairs
  <2>2. QED
    BY <1>3, <1>5, <2>1, LastPair
<1>7. s[d][1] = table[d][1] /\ s[d][2] = n + 1
  <2>1. s[d] = <<x, n + 1>>
    BY <1>1, <1>2, <1>6
  <2>2. QED
    BY <1>1, <2>1
<1>8. Len(s) = d /\ \A i \in 1 .. d - 1 : s[i] = table[i]
  BY <1>1, <1>6
<1>9. /\ ClosedTable(s, n)
      /\ \A p \in 1 .. n : Covers(s, p) <=> Covers(table, p)
  BY <1>1, <1>6, <1>7, <1>8, EndCovers
<1>10. QED
  BY <1>4, <1>9

(* What TablesOK says of one table.                                        *)
LEMMA TablesFacts ==
  ASSUME NEW c, NEW tables, NEW o, TablesOK(c, tables, o)
  PROVE  /\ c \in Seq(SUBSET Nat) /\ Len(c) \in Nat /\ DOMAIN c = 1 .. Len(c)
         /\ tables \in Seq(Seq(Pairs)) /\ Len(tables) \in Nat
         /\ DOMAIN tables = 1 .. Len(tables)
         /\ o \subseteq DOMAIN tables
         /\ \A t \in o : OpenTable(tables[t], Len(c))
         /\ \A t \in DOMAIN tables : t \notin o => ClosedTable(tables[t], Len(c))
         /\ \A p \in 1 .. Len(c) :
              /\ c[p] \subseteq DOMAIN tables
              /\ \A t \in DOMAIN tables : Covers(tables[t], p) <=> t \in c[p]
<1>1. /\ c \in Seq(SUBSET Nat)
      /\ tables \in Seq(Seq(Pairs))
      /\ o \subseteq DOMAIN tables
      /\ \A t \in DOMAIN tables :
           IF t \in o THEN OpenTable(tables[t], Len(c))
           ELSE ClosedTable(tables[t], Len(c))
      /\ \A p \in DOMAIN c :
           /\ c[p] \subseteq DOMAIN tables
           /\ \A t \in DOMAIN tables : Covers(tables[t], p) <=> t \in c[p]
  BY DEF TablesOK
<1>2. /\ Len(c) \in Nat /\ DOMAIN c = 1 .. Len(c)
      /\ Len(tables) \in Nat /\ DOMAIN tables = 1 .. Len(tables)
  BY <1>1
<1>3. QED
  BY <1>1, <1>2

(* An emitted statement is covered by the open tables.                     *)
LEMMA TablesEmit ==
  ASSUME NEW c, NEW tables, NEW o, TablesOK(c, tables, o)
  PROVE  TablesOK(Append(c, o), tables, o)
<1>1. PICK n \in Nat : n = Len(c)
  BY TablesFacts
<1>2. /\ c \in Seq(SUBSET Nat) /\ DOMAIN c = 1 .. n
      /\ tables \in Seq(Seq(Pairs)) /\ o \subseteq DOMAIN tables
      /\ DOMAIN tables \subseteq Nat
      /\ \A t \in o : OpenTable(tables[t], n)
      /\ \A t \in DOMAIN tables : t \notin o => ClosedTable(tables[t], n)
      /\ \A p \in 1 .. n :
           /\ c[p] \subseteq DOMAIN tables
           /\ \A t \in DOMAIN tables : Covers(tables[t], p) <=> t \in c[p]
  BY <1>1, TablesFacts
<1>3. PICK d : d = Append(c, o)
  OBVIOUS
<1>4. /\ d \in Seq(SUBSET Nat) /\ Len(d) = n + 1 /\ DOMAIN d = 1 .. n + 1
      /\ \A p \in 1 .. n : d[p] = c[p]
      /\ d[n + 1] = o
  <2>1. o \in SUBSET Nat
    BY <1>2
  <2>2. QED
    BY <1>1, <1>2, <1>3, <2>1
<1>5. \A t \in DOMAIN tables :
        /\ IF t \in o THEN OpenTable(tables[t], n + 1) ELSE ClosedTable(tables[t], n + 1)
        /\ Covers(tables[t], n + 1) <=> t \in o
  BY <1>2, OpenCovers, ClosedCovers
<1>6. ASSUME NEW p \in 1 .. n + 1
      PROVE  /\ d[p] \subseteq DOMAIN tables
             /\ \A t \in DOMAIN tables : Covers(tables[t], p) <=> t \in d[p]
  <2>1. CASE p = n + 1
    BY <1>2, <1>4, <1>5, <2>1
  <2>2. CASE p \in 1 .. n
    BY <1>2, <1>4, <2>2
  <2>3. QED
    BY <2>1, <2>2
<1>7. TablesOK(d, tables, o)
  BY <1>2, <1>4, <1>5, <1>6 DEF TablesOK
<1>8. QED
  BY <1>3, <1>7

(* The table of a new try statement covers nothing yet.                    *)
LEMMA TablesOpened ==
  ASSUME NEW c, NEW tables, NEW o, TablesOK(c, tables, o)
  PROVE  TablesOK(c, Append(tables, << <<Len(c) + 1, 0>> >>), o \cup {Len(tables) + 1})
<1>1. PICK n \in Nat, m \in Nat : n = Len(c) /\ m = Len(tables)
  BY TablesFacts
<1>2. /\ c \in Seq(SUBSET Nat) /\ DOMAIN c = 1 .. n
      /\ tables \in Seq(Seq(Pairs)) /\ o \subseteq 1 .. m
      /\ DOMAIN tables = 1 .. m
      /\ \A t \in o : OpenTable(tables[t], n)
      /\ \A t \in 1 .. m : t \notin o => ClosedTable(tables[t], n)
      /\ \A p \in 1 .. n :
           /\ c[p] \subseteq 1 .. m
           /\ \A t \in 1 .. m : Covers(tables[t], p) <=> t \in c[p]
  <2>1. DOMAIN tables = 1 .. m
    BY <1>1, TablesFacts
  <2>2. QED
    BY <1>1, <2>1, TablesFacts
<1>3. PICK x : x = << <<n + 1, 0>> >>
  OBVIOUS
<1>4. x \in Seq(Pairs) /\ Len(x) = 1 /\ x[1][1] = n + 1 /\ x[1][2] = 0
      /\ DOMAIN x = 1 .. 1
  <2>1. <<n + 1, 0>> \in Pairs
    BY DEF Pairs
  <2>2. QED
    BY <1>3, <2>1
<1>5. OpenTable(x, n)
  BY <1>4 DEF OpenTable
<1>6. \A p \in 1 .. n : ~Covers(x, p)
  BY <1>4 DEF Covers
<1>7. PICK more : more = Append(tables, x)
  OBVIOUS
<1>8. /\ more \in Seq(Seq(Pairs)) /\ DOMAIN more = 1 .. m + 1
      /\ \A t \in 1 .. m : more[t] = tables[t]
      /\ more[m + 1] = x
  BY <1>1, <1>2, <1>4, <1>7
<1>9. \A t \in 1 .. m + 1 :
        IF t \in o \cup {m + 1} THEN OpenTable(more[t], n) ELSE ClosedTable(more[t], n)
  <2>1. ASSUME NEW t \in 1 .. m
        PROVE  IF t \in o THEN OpenTable(more[t], n) ELSE ClosedTable(more[t], n)
    <3>1. more[t] = tables[t]
      BY <1>8
    <3>2. t \in o => OpenTable(tables[t], n)
      BY <1>2
    <3>3. t \notin o => ClosedTable(tables[t], n)
      BY <1>2
    <3>4. QED
      BY <3>1, <3>2, <3>3
  <2>2. \A t \in 1 .. m + 1 : (t \in 1 .. m /\ t # m + 1) \/ t = m + 1
    OBVIOUS
  <2>3. OpenTable(more[m + 1], n)
    BY <1>5, <1>8
  <2>4. QED
    BY <2>1, <2>2, <2>3
<1>10. ASSUME NEW p \in 1 .. n
       PROVE  /\ c[p] \subseteq 1 .. m + 1
              /\ \A t \in 1 .. m + 1 : Covers(more[t], p) <=> t \in c[p]
  <2>1. c[p] \subseteq 1 .. m /\ m + 1 \notin 1 .. m
    BY <1>2
  <2>2. \A t \in 1 .. m : Covers(more[t], p) <=> t \in c[p]
    BY <1>2, <1>8
  <2>3. ~Covers(more[m + 1], p)
    BY <1>6, <1>8
  <2>4. \A t \in 1 .. m + 1 : t \in 1 .. m \/ t = m + 1
    OBVIOUS
  <2>5. \A t \in 1 .. m : t \in 1 .. m + 1
    OBVIOUS
  <2>6. QED
    BY <2>1, <2>2, <2>3, <2>4, <2>5
<1>11. o \cup {m + 1} \subseteq DOMAIN more
  BY <1>2, <1>8
<1>12. TablesOK(c, more, o \cup {m + 1})
  BY <1>1, <1>2, <1>8, <1>9, <1>10, <1>11 DEF TablesOK
<1>13. QED
  BY <1>1, <1>3, <1>7, <1>12

(* The end of a try block ends the range of its table.                     *)
LEMMA TablesEnded ==
  ASSUME NEW c, NEW tables, NEW o, TablesOK(c, tables, o), NEW e \in o,
         NEW x,
         x = SubSeq(tables[e], 1, Len(tables[e]) - 1)
               \o << <<Top(tables[e])[1], Len(c) + 1>> >>
  PROVE  TablesOK(c, [tables EXCEPT ![e] = x], o \ {e})
<1>1. PICK n \in Nat : n = Len(c)
  BY TablesFacts
<1>2. /\ c \in Seq(SUBSET Nat) /\ DOMAIN c = 1 .. n
      /\ tables \in Seq(Seq(Pairs)) /\ o \subseteq DOMAIN tables
      /\ DOMAIN tables = 1 .. Len(tables) /\ Len(tables) \in Nat
      /\ \A t \in o : OpenTable(tables[t], n)
      /\ \A t \in DOMAIN tables : t \notin o => ClosedTable(tables[t], n)
      /\ \A p \in 1 .. n :
           /\ c[p] \subseteq DOMAIN tables
           /\ \A t \in DOMAIN tables : Covers(tables[t], p) <=> t \in c[p]
  BY <1>1, TablesFacts
<1>4. ClosedTable(x, n) /\ \A p \in 1 .. n : Covers(x, p) <=> Covers(tables[e], p)
  <2>1. OpenTable(tables[e], n)
    BY <1>2
  <2>2. QED
    BY <1>1, <2>1, EndOK
<1>5. PICK ended : ended = [tables EXCEPT ![e] = x]
  OBVIOUS
<1>6. /\ DOMAIN ended = DOMAIN tables
      /\ ended[e] = x
      /\ \A t \in DOMAIN tables : t # e => ended[t] = tables[t]
  BY <1>2, <1>5
<1>7. ASSUME NEW t \in DOMAIN tables
      PROVE  /\ IF t \in o \ {e} THEN OpenTable(ended[t], n) ELSE ClosedTable(ended[t], n)
             /\ \A p \in 1 .. n : Covers(ended[t], p) <=> Covers(tables[t], p)
  <2>1. CASE t = e
    BY <1>4, <1>6, <2>1
  <2>2. CASE t # e
    <3>1. ended[t] = tables[t]
      BY <1>6, <2>2
    <3>2. t \in o => OpenTable(tables[t], n)
      BY <1>2
    <3>3. t \notin o => ClosedTable(tables[t], n)
      BY <1>2
    <3>4. QED
      BY <2>2, <3>1, <3>2, <3>3
  <2>3. QED
    BY <2>1, <2>2
<1>8. ended \in Seq(Seq(Pairs))
  <2>1. \A t \in DOMAIN tables : ended[t] \in Seq(Pairs)
    BY <1>7 DEF OpenTable, ClosedTable
  <2>2. PICK h \in Nat : DOMAIN tables = 1 .. h
    BY <1>2
  <2>3. ended \in [1 .. h -> Seq(Pairs)]
    BY <1>5, <1>6, <2>1, <2>2
  <2>4. QED
    BY <2>3
<1>9. \A p \in 1 .. n :
        /\ c[p] \subseteq DOMAIN ended
        /\ \A t \in DOMAIN ended : Covers(ended[t], p) <=> t \in c[p]
  BY <1>2, <1>6, <1>7
<1>10. TablesOK(c, ended, o \ {e})
  BY <1>1, <1>2, <1>6, <1>7, <1>8, <1>9 DEF TablesOK
<1>11. QED
  BY <1>5, <1>10

SplitAll(tables, cut, from, to) ==
  [t \in DOMAIN tables |-> IF t \in cut THEN Split(tables[t], from, to) ELSE tables[t]]

(* What is emitted while the tables in cut are split is covered by the     *)
(* other open tables.                                                      *)
LEMMA TablesCut ==
  ASSUME NEW c, NEW tables, NEW o, TablesOK(c, tables, o), NEW cut \in SUBSET o,
         NEW d, d = c \/ d = Append(c, o \ cut),
         NEW split, split = SplitAll(tables, cut, Len(c) + 1, Len(d) + 1)
  PROVE  TablesOK(d, split, o)
<1>1. PICK n \in Nat : n = Len(c)
  BY TablesFacts
<1>2. /\ c \in Seq(SUBSET Nat) /\ DOMAIN c = 1 .. n
      /\ tables \in Seq(Seq(Pairs)) /\ o \subseteq DOMAIN tables
      /\ DOMAIN tables \subseteq Nat
      /\ DOMAIN tables = 1 .. Len(tables) /\ Len(tables) \in Nat
      /\ \A t \in o : OpenTable(tables[t], n)
      /\ \A t \in DOMAIN tables : t \notin o => ClosedTable(tables[t], n)
      /\ \A p \in 1 .. n :
           /\ c[p] \subseteq DOMAIN tables
           /\ \A t \in DOMAIN tables : Covers(tables[t], p) <=> t \in c[p]
  BY <1>1, TablesFacts
<1>3. PICK m \in Nat : /\ m = Len(d)
                       /\ m = n \/ m = n + 1
                       /\ d \in Seq(SUBSET Nat)
                       /\ DOMAIN d = 1 .. m
                       /\ \A p \in 1 .. n : d[p] = c[p]
                       /\ m = n + 1 => d[n + 1] = o \ cut
  <2>1. CASE d = c
    BY <1>1, <1>2, <2>1
  <2>2. CASE d = Append(c, o \ cut)
    <3>1. o \ cut \in SUBSET Nat
      BY <1>2
    <3>2. Len(d) = n + 1 /\ d \in Seq(SUBSET Nat) /\ DOMAIN d = 1 .. n + 1
          /\ (\A p \in 1 .. n : d[p] = c[p]) /\ d[n + 1] = o \ cut
      BY <1>1, <1>2, <2>2, <3>1
    <3>3. QED
      BY <3>2
  <2>3. QED
    BY <2>1, <2>2
<1>4. /\ DOMAIN split = DOMAIN tables
      /\ \A t \in cut : split[t] = Split(tables[t], n + 1, m + 1)
      /\ \A t \in DOMAIN tables : t \notin cut => split[t] = tables[t]
  BY <1>1, <1>2, <1>3 DEF SplitAll
<1>5. \A t \in cut :
        /\ OpenTable(split[t], m)
        /\ \A p \in 1 .. n : Covers(split[t], p) <=> Covers(tables[t], p)
        /\ m = n + 1 => ~Covers(split[t], n + 1)
  <2>1. ASSUME NEW t \in cut
        PROVE  /\ OpenTable(split[t], m)
               /\ \A p \in 1 .. n : Covers(split[t], p) <=> Covers(tables[t], p)
               /\ m = n + 1 => ~Covers(split[t], n + 1)
    <3>1. OpenTable(tables[t], n)
      BY <1>2
    <3>2. split[t] = Split(tables[t], n + 1, m + 1)
      BY <1>4
    <3>3. m = n \/ m = n + 1
      BY <1>3
    <3>4. QED
      BY <3>1, <3>2, <3>3, SplitOK
  <2>2. QED
    BY <2>1
<1>6. \A t \in o \ cut : OpenTable(split[t], m) /\ Covers(split[t], n + 1)
  <2>1. \A t \in o \ cut : OpenTable(tables[t], n) /\ split[t] = tables[t]
    BY <1>2, <1>4
  <2>2. \A t \in o \ cut : Covers(split[t], n + 1) /\ OpenTable(split[t], n + 1)
    BY <2>1, OpenCovers
  <2>3. QED
    BY <1>3, <2>1, <2>2
<1>7. \A t \in DOMAIN tables \ o : ClosedTable(split[t], m) /\ ~Covers(split[t], n + 1)
  <2>1. \A t \in DOMAIN tables \ o : ClosedTable(tables[t], n) /\ split[t] = tables[t]
    BY <1>2, <1>4
  <2>2. \A t \in DOMAIN tables \ o :
          ~Covers(split[t], n + 1) /\ ClosedTable(split[t], n + 1)
    BY <2>1, ClosedCovers
  <2>3. QED
    BY <1>3, <2>1, <2>2
<1>8. \A t \in DOMAIN split :
        IF t \in o THEN OpenTable(split[t], m) ELSE ClosedTable(split[t], m)
  BY <1>4, <1>5, <1>6, <1>7
<1>9. split \in Seq(Seq(Pairs))
  <2>1. \A t \in DOMAIN tables : split[t] \in Seq(Pairs)
    BY <1>4, <1>8 DEF OpenTable, ClosedTable
  <2>2. PICK h \in Nat : DOMAIN tables = 1 .. h
    BY <1>2
  <2>3. split \in [1 .. h -> Seq(Pairs)]
    BY <2>1, <2>2 DEF SplitAll
  <2>4. QED
    BY <2>3
<1>10. ASSUME NEW p \in 1 .. m
       PROVE  /\ d[p] \subseteq DOMAIN tables
              /\ \A t \in DOMAIN tables : Covers(split[t], p) <=> t \in d[p]
  <2>1. CASE p \in 1 .. n
    <3>1. d[p] = c[p]
      BY <1>3, <2>1
    <3>2. \A t \in DOMAIN tables : Covers(split[t], p) <=> Covers(tables[t], p)
      BY <1>4, <1>5, <2>1
    <3>3. QED
      BY <1>2, <2>1, <3>1, <3>2
  <2>2. CASE m = n + 1 /\ p = n + 1
    <3>1. d[p] = o \ cut
      BY <1>3, <2>2
    <3>2. \A t \in DOMAIN tables : Covers(split[t], p) <=> t \in o \ cut
      BY <1>5, <1>6, <1>7, <2>2
    <3>3. QED
      BY <1>2, <3>1, <3>2
  <2>3. p \in 1 .. n \/ (m = n + 1 /\ p = n + 1)
    BY <1>3
  <2>4. QED
    BY <2>1, <2>2, <2>3
<1>11. QED
  BY <1>2, <1>3, <1>4, <1>8, <1>9, <1>10 DEF TablesOK

(* The tables of the try statements around the i-th are those that are not *)
(* cut with it.                                                            *)
LEMMA CutRest ==
  ASSUME TriesOK, TablesApart, NEW i \in 1 .. Len(tries)
  PROVE  /\ Cut(i) \subseteq TablesOf(tries)
         /\ TablesOf(SubSeq(tries, 1, i - 1)) = TablesOf(tries) \ Cut(i)
<1>1. PICK n \in Nat : /\ n = Len(tries) /\ DOMAIN tries = 1 .. n
                       /\ tries \in Seq(Try)
  BY DEF TriesOK
<1>2. PICK f : f = SubSeq(tries, 1, i - 1)
  OBVIOUS
<1>3. /\ DOMAIN f = 1 .. i - 1
      /\ \A k \in 1 .. i - 1 : f[k] = tries[k]
  BY <1>1, <1>2
<1>4. TablesOf(f) = {tries[k].table : k \in 1 .. i - 1}
  BY <1>3 DEF TablesOf
<1>5. TablesOf(tries) = {tries[k].table : k \in 1 .. n}
  BY <1>1 DEF TablesOf
<1>6. Cut(i) = {tries[k].table : k \in i .. n}
  BY <1>1 DEF Cut
<1>7. \A k \in 1 .. n : k \in 1 .. i - 1 \/ k \in i .. n
  OBVIOUS
<1>8. \A k \in i .. n : k \in 1 .. n
  OBVIOUS
<1>9. \A k \in 1 .. i - 1 : k \in 1 .. n
  BY <1>1
<1>10. \A k \in i .. n : \A m \in 1 .. i - 1 : tries[m].table # tries[k].table
  <2>1. ASSUME NEW k \in i .. n, NEW m \in 1 .. i - 1
        PROVE  k \in DOMAIN tries /\ m \in 1 .. k - 1
    BY <1>1
  <2>2. QED
    BY <2>1 DEF TablesApart
<1>11. Cut(i) \subseteq TablesOf(tries)
  BY <1>5, <1>6, <1>8
<1>12. TablesOf(f) = TablesOf(tries) \ Cut(i)
  BY <1>4, <1>5, <1>6, <1>7, <1>9, <1>10
<1>13. QED
  BY <1>2, <1>11, <1>12

(* The statements that a jump finalizes of those inside the i-th try.      *)
Finalizing(i, kind, continueTarget) ==
  {tries[k].stmt :
     k \in {j \in i + 1 .. Len(tries) : Finalizes(tries[j], kind, continueTarget)}}

InlinedOK(s, i, kind, continueTarget) ==
  /\ TablesOK(s.code, s.tables, TablesOf(tries))
  /\ s.finalized \in Seq(Nat)
  /\ InnermostFirst(s.finalized)
  /\ Range(s.finalized) = Finalizing(i, kind, continueTarget)

(* One try statement further out.                                          *)
LEMMA FinalizingStep ==
  ASSUME TriesOK, NEW kind, NEW continueTarget, NEW i \in 1 .. Len(tries)
  PROVE  /\ Finalizing(i - 1, kind, continueTarget) =
              Finalizing(i, kind, continueTarget)
                \cup IF Finalizes(tries[i], kind, continueTarget) THEN {tries[i].stmt}
                     ELSE {}
         /\ tries[i].stmt \in Nat
         /\ \A x \in Finalizing(i, kind, continueTarget) : x \in Nat /\ tries[i].stmt < x
<1>1. PICK n \in Nat : n = Len(tries) /\ DOMAIN tries = 1 .. n
  BY DEF TriesOK
<1>2. \A k \in 1 .. n : tries[k].stmt \in Nat
  BY <1>1, TriesOpen DEF Try
<1>3. \A k \in 1 .. n : k \in i - 1 + 1 .. n <=> k = i \/ k \in i + 1 .. n
  OBVIOUS
<1>4. \A k : k \in i + 1 .. n => k \in 1 .. n
  OBVIOUS
<1>5. \A k : k \in i - 1 + 1 .. n => k \in 1 .. n
  OBVIOUS
<1>6. Finalizing(i - 1, kind, continueTarget) =
              Finalizing(i, kind, continueTarget)
                \cup IF Finalizes(tries[i], kind, continueTarget) THEN {tries[i].stmt}
                     ELSE {}
  BY <1>1, <1>3, <1>4, <1>5 DEF Finalizing
<1>7. \A k \in i + 1 .. n : tries[i].stmt < tries[k].stmt
  <2>1. ASSUME NEW k \in i + 1 .. n
        PROVE  k \in DOMAIN tries /\ i \in 1 .. k - 1
    BY <1>1
  <2>2. QED
    BY <2>1 DEF TriesOK
<1>8. \A x \in Finalizing(i, kind, continueTarget) : x \in Nat /\ tries[i].stmt < x
  BY <1>1, <1>2, <1>4, <1>7 DEF Finalizing
<1>9. QED
  BY <1>1, <1>2, <1>6, <1>8

(* A statement further out is appended.                                    *)
LEMMA OuterLast ==
  ASSUME NEW f \in Seq(Nat), InnermostFirst(f), NEW x \in Nat,
         \A y \in Range(f) : x < y
  PROVE  /\ Append(f, x) \in Seq(Nat)
         /\ InnermostFirst(Append(f, x))
         /\ Range(Append(f, x)) = Range(f) \cup {x}
<1>1. PICK n \in Nat : n = Len(f) /\ DOMAIN f = 1 .. n
  OBVIOUS
<1>2. PICK g : g = Append(f, x)
  OBVIOUS
<1>3. /\ g \in Seq(Nat) /\ DOMAIN g = 1 .. n + 1
      /\ \A k \in 1 .. n : g[k] = f[k]
      /\ g[n + 1] = x
  BY <1>1, <1>2
<1>4. Range(g) = Range(f) \cup {x}
  <2>1. \A y : y \in Range(g) <=> \E k \in 1 .. n + 1 : y = g[k]
    BY <1>3 DEF Range
  <2>2. \A y : y \in Range(f) <=> \E k \in 1 .. n : y = f[k]
    BY <1>1 DEF Range
  <2>3. \A y \in Range(g) : y \in Range(f) \cup {x}
    <3>1. TAKE y \in Range(g)
    <3>2. PICK k \in 1 .. n + 1 : y = g[k]
      BY <2>1
    <3>3. k \in 1 .. n \/ k = n + 1
      OBVIOUS
    <3>4. QED
      BY <1>3, <2>2, <3>2, <3>3
  <2>4. \A y \in Range(f) \cup {x} : y \in Range(g)
    <3>1. TAKE y \in Range(f) \cup {x}
    <3>2. n + 1 \in 1 .. n + 1 /\ \A k \in 1 .. n : k \in 1 .. n + 1
      OBVIOUS
    <3>3. QED
      BY <1>3, <2>1, <2>2, <3>2
  <2>5. QED
    BY <2>3, <2>4
<1>5. \A k \in 1 .. n : x < f[k]
  BY <1>1 DEF Range
<1>6. InnermostFirst(g)
  <2>1. ASSUME NEW m \in 1 .. n + 1, NEW k \in 1 .. m - 1
        PROVE  g[m] < g[k]
    <3>1. k \in 1 .. n /\ g[k] = f[k]
      BY <1>3
    <3>2. CASE m = n + 1
      BY <1>3, <1>5, <3>1, <3>2
    <3>3. CASE m \in 1 .. n
      BY <1>1, <1>3, <3>1, <3>3 DEF InnermostFirst
    <3>4. QED
      BY <3>2, <3>3
  <2>2. QED
    BY <1>3, <2>1 DEF InnermostFirst
<1>7. QED
  BY <1>2, <1>3, <1>4, <1>6

(* Leaving one try statement.                                              *)
LEMMA FinalizedOK ==
  ASSUME TriesOK, TablesApart, NEW kind, NEW continueTarget,
         NEW i \in 1 .. Len(tries), NEW s, InlinedOK(s, i, kind, continueTarget)
  PROVE  InlinedOK(Finalized(s, i, kind, continueTarget), i - 1, kind, continueTarget)
<1> DEFINE t == tries[i]
           emits == Finalizes(t, kind, continueTarget)
           after == IF emits THEN Append(s.code, TablesOf(SubSeq(tries, 1, i - 1)))
                    ELSE s.code
           split == [k \in DOMAIN s.tables |->
                       IF k \in Cut(i)
                       THEN Split(s.tables[k], Len(s.code) + 1, Len(after) + 1)
                       ELSE s.tables[k]]
           done == IF emits THEN Append(s.finalized, t.stmt) ELSE s.finalized
           r == Finalized(s, i, kind, continueTarget)
<1>1. TablesOK(s.code, s.tables, TablesOf(tries))
  BY DEF InlinedOK
<1>2. /\ s.finalized \in Seq(Nat) /\ InnermostFirst(s.finalized)
      /\ Range(s.finalized) = Finalizing(i, kind, continueTarget)
  BY DEF InlinedOK
<1>3. TablesOK(after, split, TablesOf(tries))
  <2>1. Cut(i) \in SUBSET TablesOf(tries)
    BY CutRest
  <2>2. after = s.code \/ after = Append(s.code, TablesOf(tries) \ Cut(i))
    BY CutRest
  <2>3. PICK d : d = after
    OBVIOUS
  <2>4. PICK x : x = SplitAll(s.tables, Cut(i), Len(s.code) + 1, Len(d) + 1)
    OBVIOUS
  <2>5. x = split
    BY <2>3, <2>4 DEF SplitAll
  <2>6. d = s.code \/ d = Append(s.code, TablesOf(tries) \ Cut(i))
    BY <2>2, <2>3, Zenon
  <2> HIDE DEF after, split
  <2>7. TablesOK(d, x, TablesOf(tries))
    BY <1>1, <2>1, <2>4, <2>6, TablesCut
  <2>8. QED
    BY <2>3, <2>5, <2>7
<1>4. /\ done \in Seq(Nat) /\ InnermostFirst(done)
      /\ Range(done) = Finalizing(i - 1, kind, continueTarget)
  <2>1. /\ Finalizing(i - 1, kind, continueTarget) =
             Finalizing(i, kind, continueTarget) \cup IF emits THEN {t.stmt} ELSE {}
        /\ t.stmt \in Nat
        /\ \A x \in Finalizing(i, kind, continueTarget) : x \in Nat /\ t.stmt < x
    BY FinalizingStep
  <2>2. CASE emits
    <3>1. /\ Append(s.finalized, t.stmt) \in Seq(Nat)
          /\ InnermostFirst(Append(s.finalized, t.stmt))
          /\ Range(Append(s.finalized, t.stmt)) = Range(s.finalized) \cup {t.stmt}
      BY <1>2, <2>1, OuterLast
    <3>2. done = Append(s.finalized, t.stmt)
      BY <2>2
    <3>3. QED
      BY <1>2, <2>1, <2>2, <3>1, <3>2
  <2>3. CASE ~emits
    BY <1>2, <2>1, <2>3
  <2>4. QED
    BY <2>2, <2>3
<1>5. CASE t.builder = "catch"
  <2>1. r = s
    BY <1>5 DEF Finalized
  <2>2. ~emits
    BY <1>5 DEF Finalizes
  <2>3. done = s.finalized
    BY <2>2
  <2>4. QED
    BY <1>1, <1>4, <2>1, <2>3 DEF InlinedOK
<1>6. CASE t.builder # "catch"
  <2>1. r = [code |-> after, tables |-> split, finalized |-> done]
    BY <1>6 DEF Finalized
  <2>2. r.code = after /\ r.tables = split /\ r.finalized = done
    BY <2>1
  <2>3. QED
    BY <1>3, <1>4, <2>2 DEF InlinedOK
<1>7. QED
  BY <1>5, <1>6

(* What compileFinallyBeforeCFC computes, from the innermost try outwards. *)
Unwinding(F, end, kind, continueTarget) ==
  F = [i \in end .. Len(tries) |->
         IF i = Len(tries)
         THEN [code |-> code, tables |-> catchTables, finalized |-> <<>>]
         ELSE Finalized(F[i + 1], i + 1, kind, continueTarget)]

(* The recursive function of Inlined exists.                               *)
LEMMA UnwindingExists ==
  ASSUME NEW kind, NEW continueTarget, NEW n \in Nat, n = Len(tries)
  PROVE  \A j \in Nat : \E F : Unwinding(F, n - j, kind, continueTarget)
<1> DEFINE B == [code |-> code, tables |-> catchTables, finalized |-> <<>>]
           W(F, i) == IF i = n THEN B ELSE Finalized(F[i + 1], i + 1, kind, continueTarget)
           S == {j \in Nat : \E F : Unwinding(F, n - j, kind, continueTarget)}
<1> HIDE DEF B
<1>1. \A F, end : Unwinding(F, end, kind, continueTarget) <=> F = [i \in end .. n |-> W(F, i)]
  BY DEF Unwinding, B
<1>2. 0 \in S
  <2>1. PICK F : F = [i \in n .. n |-> B]
    OBVIOUS
  <2>2. \A i \in n .. n : i = n
    OBVIOUS
  <2>3. F = [i \in n .. n |-> W(F, i)]
    BY <2>1, <2>2
  <2>4. Unwinding(F, n - 0, kind, continueTarget)
    BY <1>1, <2>3, n - 0 = n
  <2>5. QED
    BY <2>4
<1>3. ASSUME NEW j \in Nat, j \in S
      PROVE  j + 1 \in S
  <2>1. PICK F : Unwinding(F, n - j, kind, continueTarget)
    BY <1>3
  <2>2. F = [i \in n - j .. n |-> W(F, i)]
    BY <1>1, <2>1
  <2>3. PICK G : G = [i \in n - (j + 1) .. n |-> IF i < n - j THEN W(F, i) ELSE F[i]]
    OBVIOUS
  <2>4. \A i \in n - j .. n : G[i] = F[i]
    BY <2>3
  <2>5. ASSUME NEW i \in n - (j + 1) .. n
        PROVE  G[i] = W(G, i)
    <3>1. i # n => G[i + 1] = F[i + 1]
      BY <2>4
    <3>2. W(G, i) = W(F, i)
      BY <3>1
    <3>3. G[i] = W(F, i)
      BY <2>2, <2>3
    <3>4. QED
      BY <3>2, <3>3
  <2>6. G = [i \in n - (j + 1) .. n |-> W(G, i)]
    <3>1. PICK H : H = [i \in n - (j + 1) .. n |-> W(G, i)]
      OBVIOUS
    <3> HIDE DEF W
    <3>2. G = [i \in n - (j + 1) .. n |-> G[i]]
      BY <2>3
    <3>3. H = [i \in n - (j + 1) .. n |-> H[i]]
      BY <3>1
    <3>4. \A i \in n - (j + 1) .. n : G[i] = H[i]
      BY <2>5, <3>1
    <3>5. G = H
      BY <3>2, <3>3, <3>4
    <3>6. QED
      BY <3>1, <3>5
  <2>7. Unwinding(G, n - (j + 1), kind, continueTarget)
    BY <1>1, <2>6
  <2>8. QED
    BY <2>7
<1> HIDE DEF S
<1>4. S = Nat
  <2>1. S \in SUBSET Nat
    BY DEF S
  <2>2. QED
    BY <1>2, <1>3, <2>1, SetInduction
<1>5. QED
  BY <1>4 DEF S

(* A jump finalizes and cuts what it should.                               *)
LEMMA InlinedRight ==
  ASSUME TriesOK, TablesApart, TablesOK(code, catchTables, TablesOf(tries)),
         NEW kind, NEW continueTarget, NEW end \in 0 .. Len(tries)
  PROVE  InlinedOK(Inlined(end, kind, continueTarget), end, kind, continueTarget)
<1>1. PICK n \in Nat : n = Len(tries)
  BY DEF TriesOK
<1> DEFINE B == [code |-> code, tables |-> catchTables, finalized |-> <<>>]
           P(F) == F = [i \in end .. Len(tries) |->
                          IF i = Len(tries) THEN B
                          ELSE Finalized(F[i + 1], i + 1, kind, continueTarget)]
<1>2. \E F : P(F)
  <2>1. PICK F : Unwinding(F, n - (n - end), kind, continueTarget)
    BY <1>1, n - end \in Nat, UnwindingExists
  <2>2. n - (n - end) = end
    OBVIOUS
  <2>3. QED
    BY <2>1, <2>2 DEF Unwinding
<1>3. PICK F : F = CHOOSE G : P(G)
  OBVIOUS
<1>4. P(F)
  BY <1>2, <1>3, Zenon
<1>5. Inlined(end, kind, continueTarget) = F[end]
  BY <1>3 DEF Inlined
<1>6. /\ F[n] = B
      /\ \A i \in end .. n : i # n => F[i] = Finalized(F[i + 1], i + 1, kind, continueTarget)
  BY <1>1, <1>4
<1> HIDE DEF P
<1> DEFINE S == {j \in Nat : j <= n - end => InlinedOK(F[n - j], n - j, kind, continueTarget)}
<1>7. 0 \in S
  <2>1. Finalizing(n, kind, continueTarget) = {}
    <3>1. n + 1 .. n = {}
      OBVIOUS
    <3>2. QED
      BY <1>1, <3>1 DEF Finalizing
  <2>2. <<>> \in Seq(Nat) /\ InnermostFirst(<<>>) /\ Range(<<>>) = {}
    BY DEF InnermostFirst, Range
  <2>3. B.code = code /\ B.tables = catchTables /\ B.finalized = <<>>
    OBVIOUS
  <2>4. InlinedOK(B, n, kind, continueTarget)
    BY <2>1, <2>2, <2>3 DEF InlinedOK
  <2>5. n - 0 = n
    OBVIOUS
  <2>6. QED
    BY <1>6, <2>4, <2>5
<1>8. ASSUME NEW j \in Nat, j \in S
      PROVE  j + 1 \in S
  <2>1. SUFFICES ASSUME j + 1 <= n - end
                 PROVE  InlinedOK(F[n - (j + 1)], n - (j + 1), kind, continueTarget)
    BY DEF S
  <2>2. PICK i \in end .. n : i = n - (j + 1) /\ i # n /\ i + 1 = n - j
    BY <2>1
  <2>3. InlinedOK(F[i + 1], i + 1, kind, continueTarget)
    BY <1>8, <2>1, <2>2
  <2>4. i + 1 \in 1 .. Len(tries) /\ i + 1 - 1 = i
    BY <1>1, <2>2
  <2>5. InlinedOK(Finalized(F[i + 1], i + 1, kind, continueTarget), i, kind, continueTarget)
    BY <2>3, <2>4, FinalizedOK
  <2>6. QED
    BY <1>6, <2>2, <2>5
<1> HIDE DEF S
<1>9. S = Nat
  <2>1. S \in SUBSET Nat
    BY DEF S
  <2>2. QED
    BY <1>7, <1>8, <2>1, SetInduction
<1>10. n - end \in S /\ n - end \in Nat /\ n - (n - end) = end
  BY <1>1, <1>9
<1>11. InlinedOK(F[end], end, kind, continueTarget)
  BY <1>10 DEF S
<1>12. QED
  BY <1>5, <1>11

(* The chain a is b but for what is counted in it.                         *)
Like(a, b) ==
  /\ Len(a) = Len(b) /\ Len(b) \in Nat
  /\ DOMAIN a = 1 .. Len(b) /\ DOMAIN b = 1 .. Len(b)
  /\ \A k \in 1 .. Len(b) : a[k].table = b[k].table /\ a[k].stmt = b[k].stmt

(* A chain is like itself.                                                 *)
LEMMA LikeSame ==
  ASSUME NEW a \in Seq(Try)
  PROVE  Like(a, a)
<1>1. Len(a) \in Nat /\ DOMAIN a = 1 .. Len(a)
  OBVIOUS
<1>2. QED
  BY <1>1 DEF Like

(* Counting environments keeps tables and statements.                      *)
LEMMA LeveledLike ==
  ASSUME NEW chain \in Seq(Try), NEW by \in Int
  PROVE  Like(TriesLeveled(chain, by), chain)
<1>1. PICK n \in Nat : n = Len(chain) /\ DOMAIN chain = 1 .. n
  OBVIOUS
<1>2. PICK c : c = TriesLeveled(chain, by)
  OBVIOUS
<1>3. /\ Len(c) = n /\ c \in Seq(Try)
      /\ \A k \in 1 .. n : c[k].stmt = chain[k].stmt
  BY <1>1, <1>2, TriesLeveledOK
<1>4. DOMAIN c = 1 .. n
  BY <1>3
<1>5. \A k \in 1 .. n : c[k].table = chain[k].table
  <2>1. CASE chain = <<>>
    BY <1>2, <2>1 DEF TriesLeveled
  <2>2. CASE chain # <<>>
    <3>1. c = [chain EXCEPT ![n].loopEnvLevel = @ + by]
      BY <1>1, <1>2, <2>2 DEF TriesLeveled
    <3>2. n \in 1 .. n
      BY <1>1, <2>2
    <3>3. \A k \in 1 .. n : k # n => c[k] = chain[k]
      BY <1>1, <3>1
    <3>4. c[n] = [chain[n] EXCEPT !.loopEnvLevel = @ + by]
      BY <1>1, <3>1, <3>2
    <3>5. c[n].table = chain[n].table
      <4>1. chain[n] \in Try
        BY <1>1, <3>2, SeqElement
      <4>2. QED
        BY <3>4, <4>1 DEF Try
    <3>6. QED
      BY <3>3, <3>5
  <2>3. QED
    BY <2>1, <2>2
<1>6. QED
  BY <1>1, <1>2, <1>3, <1>4, <1>5 DEF Like

(* A chain like that without its innermost try statement.                  *)
LEMMA FrontLike ==
  ASSUME NEW chain \in Seq(Try), chain # <<>>, NEW a, Like(a, Front(chain))
  PROVE  /\ Len(a) = Len(chain) - 1 /\ DOMAIN a = 1 .. Len(chain) - 1
         /\ \A k \in 1 .. Len(chain) - 1 :
              a[k].table = chain[k].table /\ a[k].stmt = chain[k].stmt
<1>1. PICK n \in Nat : n = Len(chain) /\ n > 0
  OBVIOUS
<1>2. PICK f : f = Front(chain)
  OBVIOUS
<1>3. Len(f) = n - 1 /\ \A i \in 1 .. n - 1 : f[i] = chain[i]
  BY <1>1, <1>2, SeqFront
<1>4. /\ Len(a) = Len(f)
      /\ DOMAIN a = 1 .. Len(f)
      /\ \A k \in 1 .. Len(f) : a[k].table = f[k].table /\ a[k].stmt = f[k].stmt
  BY <1>2 DEF Like
<1>5. QED
  BY <1>1, <1>3, <1>4

(* The tables of the current try statements.                               *)
LEMMA ChainTables ==
  ASSUME NEW chain, NEW n, DOMAIN chain = 1 .. n
  PROVE  TablesOf(chain) = {chain[k].table : k \in 1 .. n}
BY DEF TablesOf

(* Nothing is opened, closed or emitted.                                   *)
LEMMA TablesKept ==
  ASSUME TriesOK, TablesApart, TablesOK(code, catchTables, TablesOf(tries)),
         Like(tries', tries), UNCHANGED <<code, catchTables>>
  PROVE  TablesApart' /\ TablesOK(code, catchTables, TablesOf(tries))'
<1>1. PICK n \in Nat :
        /\ DOMAIN tries = 1 .. n /\ DOMAIN tries' = 1 .. n
        /\ \A k \in 1 .. n : tries'[k].table = tries[k].table
  BY DEF Like
<1>2. TablesOf(tries)' = TablesOf(tries)
  BY <1>1 DEF TablesOf
<1>3. TablesApart'
  BY <1>1 DEF TablesApart
<1>4. TablesOK(code, catchTables, TablesOf(tries))' <=>
        TablesOK(code', catchTables', TablesOf(tries'))
  BY DEF TablesOK, OpenTable, ClosedTable, Covers, TablesOf
<1>5. QED
  BY <1>2, <1>3, <1>4

(* A new table is open, too.                                               *)
LEMMA ChainPushed ==
  ASSUME TablesApart, NEW n \in Nat, NEW t, DOMAIN tries = 1 .. n,
         DOMAIN tries' = 1 .. n + 1,
         \A k \in 1 .. n : tries'[k].table = tries[k].table,
         tries'[n + 1].table = t, t \notin TablesOf(tries)
  PROVE  TablesApart' /\ TablesOf(tries)' = TablesOf(tries) \cup {t}
<1>1. TablesOf(tries)' = TablesOf(tries) \cup {t}
  <2>1. TablesOf(tries)' = {tries'[k].table : k \in 1 .. n + 1}
    BY DEF TablesOf
  <2>2. TablesOf(tries) = {tries[k].table : k \in 1 .. n}
    BY DEF TablesOf
  <2>3. \A k \in 1 .. n + 1 : k \in 1 .. n \/ k = n + 1
    OBVIOUS
  <2>4. n + 1 \in 1 .. n + 1 /\ \A k \in 1 .. n : k \in 1 .. n + 1
    OBVIOUS
  <2>5. QED
    BY <2>1, <2>2, <2>3, <2>4
<1>2. \A k \in 1 .. n : tries[k].table # t
  BY DEF TablesOf
<1>3. ASSUME NEW k \in 1 .. n + 1, NEW m \in 1 .. k - 1
      PROVE  tries'[m].table # tries'[k].table
  <2>1. m \in 1 .. n
    OBVIOUS
  <2>2. CASE k = n + 1
    BY <1>2, <2>1, <2>2
  <2>3. CASE k \in 1 .. n
    <3>1. tries[m].table # tries[k].table
      BY <2>3 DEF TablesApart
    <3>2. QED
      BY <2>1, <2>3, <3>1
  <2>4. QED
    BY <2>2, <2>3
<1>4. TablesApart'
  BY <1>3 DEF TablesApart
<1>5. QED
  BY <1>1, <1>4

(* A try block is opened.                                                  *)
LEMMA TablesPushed ==
  ASSUME TriesOK, TablesApart, TablesOK(code, catchTables, TablesOf(tries)),
         NEW counted \in Seq(Try), Like(counted, tries),
         NEW u \in Try, u.table = Len(catchTables) + 1,
         tries' = Append(counted, u),
         catchTables' = Append(catchTables, << <<Here, 0>> >>), code' = code
  PROVE  TablesApart' /\ TablesOK(code, catchTables, TablesOf(tries))'
<1>1. PICK n \in Nat :
        /\ n = Len(counted) /\ DOMAIN tries = 1 .. n
        /\ \A k \in 1 .. n : counted[k].table = tries[k].table
  BY DEF Like
<1>2. /\ DOMAIN tries' = 1 .. n + 1
      /\ \A k \in 1 .. n : tries'[k] = counted[k]
      /\ tries'[n + 1] = u
  BY <1>1
<1>3. PICK t : t = Len(catchTables) + 1
  OBVIOUS
<1>4. t \notin TablesOf(tries)
  <2>1. TablesOf(tries) \subseteq 1 .. Len(catchTables) /\ Len(catchTables) \in Nat
    BY TablesFacts
  <2>2. QED
    BY <1>3, <2>1
<1>5. TablesApart' /\ TablesOf(tries)' = TablesOf(tries) \cup {t}
  <2>1. /\ \A k \in 1 .. n : tries'[k].table = tries[k].table
        /\ tries'[n + 1].table = t
    BY <1>1, <1>2, <1>3
  <2>2. QED
    BY <1>1, <1>2, <1>4, <2>1, ChainPushed
<1>6. PICK more : more = Append(catchTables, << <<Len(code) + 1, 0>> >>)
  OBVIOUS
<1>7. TablesOK(code, more, TablesOf(tries) \cup {t})
  BY <1>3, <1>6, TablesOpened
<1>8. catchTables' = more /\ code' = code
  BY <1>6 DEF Here
<1>9. TablesOK(code, catchTables, TablesOf(tries))' <=>
        TablesOK(code', catchTables', TablesOf(tries)')
  BY DEF TablesOK, OpenTable, ClosedTable, Covers
<1>10. QED
  BY <1>5, <1>7, <1>8, <1>9

(* A try block is closed.                                                  *)
LEMMA TablesPopped ==
  ASSUME TriesOK, TablesApart, TablesOK(code, catchTables, TablesOf(tries)),
         tries # <<>>, Like(tries', Front(tries)),
         catchTables' = EndTry(Top(tries).table), code' = code
  PROVE  TablesApart' /\ TablesOK(code, catchTables, TablesOf(tries))'
<1>1. PICK n \in Nat : /\ n = Len(tries) /\ n > 0 /\ DOMAIN tries = 1 .. n
                       /\ tries \in Seq(Try)
  BY DEF TriesOK
<1>2. /\ DOMAIN tries' = 1 .. n - 1
      /\ \A k \in 1 .. n - 1 : tries'[k].table = tries[k].table
  BY <1>1, FrontLike
<1>3. PICK e : e = Top(tries).table /\ e = tries[n].table
  BY <1>1 DEF Top
<1>4. TablesOf(tries') = {tries[k].table : k \in 1 .. n - 1}
  <2>1. TablesOf(tries') = {tries'[k].table : k \in 1 .. n - 1}
    BY <1>2, ChainTables
  <2>2. QED
    BY <1>2, <2>1
<1>5. TablesOf(tries) = {tries[k].table : k \in 1 .. n}
  BY <1>1, ChainTables
<1>6. \A k \in 1 .. n - 1 : tries[k].table # e
  BY <1>1, <1>3 DEF TablesApart
<1>7. TablesOf(tries') = TablesOf(tries) \ {e} /\ e \in TablesOf(tries)
  <2>1. \A k \in 1 .. n : k \in 1 .. n - 1 \/ k = n
    OBVIOUS
  <2>2. n \in 1 .. n /\ \A k \in 1 .. n - 1 : k \in 1 .. n
    BY <1>1
  <2>3. QED
    BY <1>3, <1>4, <1>5, <1>6, <2>1, <2>2
<1>8. TablesApart'
  <2>1. ASSUME NEW k \in 1 .. n - 1, NEW m \in 1 .. k - 1
        PROVE  tries'[m].table # tries'[k].table
    <3>1. m \in 1 .. n - 1 /\ k \in 1 .. n
      BY <1>1
    <3>2. tries[m].table # tries[k].table
      BY <1>1, <3>1 DEF TablesApart
    <3>3. QED
      BY <1>2, <3>1, <3>2
  <2>2. QED
    BY <1>2, <2>1 DEF TablesApart
<1>9. PICK x : x = SubSeq(catchTables[e], 1, Len(catchTables[e]) - 1)
                     \o << <<Top(catchTables[e])[1], Len(code) + 1>> >>
  OBVIOUS
<1>10. catchTables' = [catchTables EXCEPT ![e] = x]
  BY <1>3, <1>9 DEF EndTry, Here
<1>11. TablesOK(code, [catchTables EXCEPT ![e] = x], TablesOf(tries) \ {e})
  BY <1>7, <1>9, TablesEnded
<1>12. TablesOK(code, catchTables, TablesOf(tries))' <=>
        TablesOK(code', catchTables', TablesOf(tries'))
  BY DEF TablesOK, OpenTable, ClosedTable, Covers, TablesOf
<1>13. QED
  BY <1>7, <1>8, <1>10, <1>11, <1>12

(* The depths inside a new statement.                                      *)
LEMMA DepthsPushed ==
  ASSUME TryDepths, TriesOK, NEW n \in Nat, DOMAIN open = 1 .. n, DOMAIN open' = 1 .. n + 1,
         NEW m \in Nat, DOMAIN tries = 1 .. m, Len(tries) = m,
         NEW d \in Nat, DOMAIN tries' = 1 .. d, Len(tries') = d, d = m \/ d = m + 1,
         \A k \in 1 .. m : tries'[k].stmt = tries[k].stmt,
         d = m + 1 => tries'[d].stmt = n + 1,
         \A i \in 1 .. n : labelTarget'[i].try = labelTarget[i].try,
         labelTarget'[n + 1].try = m
  PROVE  TryDepths'
<1>1. \A k \in 1 .. m : tries[k].stmt \in 1 .. n
  BY TriesOpen
<1>2. \A i \in 1 .. n : /\ labelTarget[i].try \in 0 .. m
                        /\ \A k \in 1 .. m : k <= labelTarget[i].try <=> tries[k].stmt < i
  BY DEF TryDepths
<1>3. ASSUME NEW i \in 1 .. n + 1
      PROVE  /\ labelTarget'[i].try \in 0 .. d
             /\ \A k \in 1 .. d : k <= labelTarget'[i].try <=> tries'[k].stmt < i
  <2>1. ASSUME NEW k \in 1 .. d
        PROVE  k \in 1 .. m \/ (k = m + 1 /\ d = m + 1)
    OBVIOUS
  <2>2. CASE i = n + 1
    <3>1. labelTarget'[i].try = m
      BY <2>2
    <3>2. \A k \in 1 .. m : k <= m /\ tries'[k].stmt < i
      BY <1>1, <2>2
    <3>3. d = m + 1 => ~(d <= m) /\ ~(tries'[d].stmt < i)
      BY <2>2
    <3>4. QED
      BY <2>1, <3>1, <3>2, <3>3
  <2>3. CASE i \in 1 .. n
    <3>1. labelTarget'[i].try = labelTarget[i].try /\ labelTarget[i].try \in 0 .. m
      BY <1>2, <2>3
    <3>2. \A k \in 1 .. m : k <= labelTarget[i].try <=> tries'[k].stmt < i
      BY <1>2, <2>3
    <3>3. d = m + 1 => ~(d <= labelTarget[i].try) /\ ~(tries'[d].stmt < i)
      BY <2>3, <3>1
    <3>4. QED
      BY <2>1, <3>1, <3>2, <3>3
  <2>4. QED
    BY <2>2, <2>3
<1>4. QED
  BY <1>3 DEF TryDepths

(* The depths outside a statement, or a try block, that is left.           *)
LEMMA DepthsPopped ==
  ASSUME TryDepths, TriesOK, NEW n \in Nat, DOMAIN open = 1 .. n,
         NEW h \in 0 .. n, DOMAIN open' = 1 .. h,
         NEW m \in Nat, DOMAIN tries = 1 .. m, Len(tries) = m,
         NEW d \in Nat, DOMAIN tries' = 1 .. d, Len(tries') = d,
         d = m \/ (m = d + 1 /\ tries[m].stmt = n),
         \A k \in 1 .. d : tries'[k].stmt = tries[k].stmt,
         \A i \in 1 .. h : labelTarget'[i].try = labelTarget[i].try
  PROVE  TryDepths'
<1>1. ASSUME NEW i \in 1 .. h
      PROVE  /\ labelTarget[i].try \in 0 .. m
             /\ \A k \in 1 .. m : k <= labelTarget[i].try <=> tries[k].stmt < i
  BY DEF TryDepths
<1>2. ASSUME NEW i \in 1 .. h
      PROVE  labelTarget[i].try \in 0 .. d
  <2>1. CASE d = m
    BY <1>1, <2>1
  <2>2. CASE m = d + 1 /\ tries[m].stmt = n
    <3>1. m \in 1 .. m /\ ~(tries[m].stmt < i)
      BY <2>2
    <3>2. ~(m <= labelTarget[i].try) /\ labelTarget[i].try \in 0 .. m
      BY <1>1, <3>1
    <3>3. QED
      BY <2>2, <3>2
  <2>3. QED
    BY <2>1, <2>2
<1>3. d <= m
  OBVIOUS
<1>4. ASSUME NEW i \in 1 .. h, NEW k \in 1 .. d
      PROVE  k <= labelTarget'[i].try <=> tries'[k].stmt < i
  <2>1. k \in 1 .. m
    BY <1>3
  <2>2. QED
    BY <1>1, <2>1
<1>5. QED
  BY <1>2, <1>4 DEF TryDepths

(* FinalizesWhatItLeaves of a jump j.                                      *)
LeftBy(j) ==
  {i \in DOMAIN open :
     \/ i > j.to /\ open[i].kind \in {"finally", "forof"}
     \/ i = j.to /\ open[i].kind = "forof" /\ j.kind = "break"}

LeavesRight(j) ==
  j.kind \in {"break", "continue"} =>
    /\ InnermostFirst(j.finalized)
    /\ Range(j.finalized) \subseteq LeftBy(j)
    /\ \A i \in LeftBy(j) \ Range(j.finalized) :
         /\ j.kind = "continue" /\ j.label = None
         /\ \E k \in j.to + 1 .. Len(open) : open[k].kind = "switch"
         /\ \A k \in Range(j.finalized) : i < k

(* The property is about the last jump only.                               *)
LEMMA JumpsLeave ==
  ASSUME open' = open, NEW j, jump' = j, LeavesRight(j)
  PROVE  FinalizesWhatItLeaves'
<1>1. ToFinalize' = LeftBy(j)
  BY DEF ToFinalize, LeftBy
<1>2. CASE j.kind \notin {"break", "continue"}
  BY <1>2 DEF FinalizesWhatItLeaves
<1>3. CASE j.kind \in {"break", "continue"}
  <2>1. /\ InnermostFirst(j.finalized)
        /\ Range(j.finalized) \subseteq LeftBy(j)
        /\ \A i \in LeftBy(j) \ Range(j.finalized) :
             /\ j.kind = "continue" /\ j.label = None
             /\ \E k \in j.to + 1 .. Len(open) : open[k].kind = "switch"
             /\ \A k \in Range(j.finalized) : i < k
    BY <1>3 DEF LeavesRight
  <2>2. \A i \in LeftBy(j) \ Range(j.finalized) :
          ContinueOfSwitch' /\ \A k \in Range(j.finalized) : i < k
    BY <2>1 DEF ContinueOfSwitch
  <2>3. QED
    BY <1>1, <2>1, <2>2 DEF FinalizesWhatItLeaves
<1>4. QED
  BY <1>2, <1>3

(* The statements to finalize from the depth of the statement t on.        *)
LEMMA FinalizingIs ==
  ASSUME IInv, NEW n \in Nat, DOMAIN open = 1 .. n,
         NEW m \in Nat, DOMAIN tries = 1 .. m, Len(tries) = m,
         NEW t \in Nat, NEW end \in 0 .. m,
         \A k \in 1 .. m : k <= end <=> tries[k].stmt < t,
         NEW kind, NEW ct
  PROVE  Finalizing(end, kind, ct) =
           {i \in 1 .. n : /\ i >= t
                           /\ \/ open[i].kind = "finally"
                              \/ open[i].kind = "forof" /\ (kind = "break" \/ ct # i)}
<1>1. /\ \A k \in 1 .. m : tries[k].stmt \in 1 .. n
      /\ \A k \in 1 .. m : open[tries[k].stmt].kind = tries[k].builder
      /\ \A i \in 1 .. n : open[i].kind \in {"finally", "catch", "forof"} =>
           \E k \in 1 .. m : tries[k].stmt = i
  BY DEF IInv, TriesOK
<1>2. \A k : k \in end + 1 .. m <=> k \in 1 .. m /\ ~(k <= end)
  OBVIOUS
<1>3. \A k \in 1 .. m : Finalizes(tries[k], kind, ct) <=>
        \/ open[tries[k].stmt].kind = "finally"
        \/ open[tries[k].stmt].kind = "forof" /\ (kind = "break" \/ ct # tries[k].stmt)
  BY <1>1 DEF Finalizes
<1>4. ASSUME NEW x \in Finalizing(end, kind, ct)
      PROVE  /\ x \in 1 .. n /\ x >= t
             /\ \/ open[x].kind = "finally"
                \/ open[x].kind = "forof" /\ (kind = "break" \/ ct # x)
  <2>1. PICK k \in end + 1 .. m : Finalizes(tries[k], kind, ct) /\ x = tries[k].stmt
    BY <1>4 DEF Finalizing
  <2>2. k \in 1 .. m /\ ~(tries[k].stmt < t) /\ tries[k].stmt \in 1 .. n
    BY <1>1, <1>2, <2>1
  <2>3. QED
    BY <1>3, <2>1, <2>2
<1>5. ASSUME NEW i \in 1 .. n, i >= t,
             \/ open[i].kind = "finally"
             \/ open[i].kind = "forof" /\ (kind = "break" \/ ct # i)
      PROVE  i \in Finalizing(end, kind, ct)
  <2>1. PICK k \in 1 .. m : tries[k].stmt = i
    BY <1>1, <1>5
  <2>2. k \in end + 1 .. m
    BY <1>2, <1>5, <2>1
  <2>3. Finalizes(tries[k], kind, ct)
    BY <1>3, <1>5, <2>1
  <2>4. QED
    BY <2>1, <2>2, <2>3 DEF Finalizing
<1>6. QED
  BY <1>4, <1>5

(* What Emit does.                                                         *)
LEMMA Emitted ==
  ASSUME TriesOK, TablesApart, TablesOK(code, catchTables, TablesOf(tries)),
         NEW kind, NEW label, NEW to, NEW end \in 0 .. Len(tries), NEW ct, NEW pops,
         Emit(kind, label, to, end, ct, pops)
  PROVE  /\ TablesApart' /\ TablesOK(code, catchTables, TablesOf(tries))'
         /\ UNCHANGED <<open, labelTarget, tries>>
         /\ jump'.kind = kind /\ jump'.label = label /\ jump'.to = to
         /\ InnermostFirst(jump'.finalized)
         /\ Range(jump'.finalized) = Finalizing(end, kind, ct)
<1>1. PICK s : s = Inlined(end, kind, ct)
  OBVIOUS
<1>2. InlinedOK(s, end, kind, ct)
  BY <1>1, InlinedRight
<1>3. /\ code' = Append(s.code, TablesOf(tries))
      /\ catchTables' = s.tables
      /\ jump'.kind = kind /\ jump'.label = label /\ jump'.to = to
      /\ jump'.finalized = s.finalized
  BY <1>1 DEF Emit
<1>4. UNCHANGED <<open, labelTarget, tries>>
  BY DEF Emit
<1>5. TablesOK(code', catchTables', TablesOf(tries))
  BY <1>2, <1>3, TablesEmit DEF InlinedOK
<1>6. TablesOK(code, catchTables, TablesOf(tries))' <=>
        TablesOK(code', catchTables', TablesOf(tries)')
  BY DEF TablesOK, OpenTable, ClosedTable, Covers
<1>7. TablesOf(tries)' = TablesOf(tries) /\ TablesApart'
  BY <1>4 DEF TablesOf, TablesApart
<1>8. QED
  BY <1>2, <1>3, <1>4, <1>5, <1>6, <1>7 DEF InlinedOK

(* Until the next jump.                                                    *)
LEMMA NotJumping ==
  ASSUME jump' = NoJump
  PROVE  FinalizesWhatItLeaves'
BY DEF FinalizesWhatItLeaves, NoJump, None

(* The tables a proof of a step starts from.                               *)
LEMMA Around ==
  ASSUME IInv
  PROVE  /\ TriesOK /\ tries \in Seq(Try)
         /\ Len(open) \in Nat /\ DOMAIN open = 1 .. Len(open)
         /\ Len(tries) \in Nat /\ DOMAIN tries = 1 .. Len(tries)
         /\ labelTarget \in Seq(Target) /\ Len(labelTarget) = Len(open)
         /\ DOMAIN labelTarget = 1 .. Len(open)
<1>1. labelTarget \in Seq(Target) /\ Len(labelTarget) = Len(open)
  BY DEF IInv, TargetsOK
<1>2. DOMAIN labelTarget = 1 .. Len(labelTarget)
  BY <1>1
<1>3. QED
  BY <1>1, <1>2 DEF IInv, TriesOK, OpenOK

(* Counting levels leaves what the LabelTargets keep of the try statements.*)
LEMMA LeveledTry ==
  ASSUME IInv, NEW by \in Int, NEW targets, targets = Leveled(by) \/ targets = labelTarget
  PROVE  /\ targets \in Seq(Target) /\ Len(targets) = Len(open)
         /\ \A i \in 1 .. Len(open) : targets[i].try = labelTarget[i].try
<1>1. PICK n \in Nat : /\ n = Len(open) /\ labelTarget \in Seq(Target)
                       /\ Len(labelTarget) = n /\ DOMAIN labelTarget = 1 .. n
  BY Around
<1>2. CASE targets = labelTarget
  BY <1>1, <1>2
<1>3. CASE targets = Leveled(by)
  <2>1. targets \in Seq(Target) /\ Len(targets) = n
    BY <1>1, <1>3, LeveledOK DEF IInv
  <2>2. ASSUME NEW i \in 1 .. n
        PROVE  targets[i].try = labelTarget[i].try
    <3>1. \/ targets[i] = labelTarget[i]
          \/ targets[i] = [labelTarget[i] EXCEPT !.loopEnvLevel = @ + by]
      BY <1>1, <1>3 DEF Leveled
    <3>2. labelTarget[i] \in Target
      BY <1>1, SeqElement
    <3>3. QED
      BY <3>1, <3>2 DEF Target
  <2>3. QED
    BY <1>1, <2>1, <2>2
<1>4. QED
  BY <1>2, <1>3

(* A statement is opened around no try block.                              *)
LEMMA OpenedPlain ==
  ASSUME IInv, JInv, NEW r, open' = Append(open, r),
         NEW targets \in Seq(Target), Len(targets) = Len(open),
         \A i \in 1 .. Len(open) : targets[i].try = labelTarget[i].try,
         NEW t, t.try = Len(tries), labelTarget' = Append(targets, t),
         Like(tries', tries), UNCHANGED <<code, catchTables>>, jump' = NoJump
  PROVE  JInv'
<1>1. PICK n \in Nat, m \in Nat :
        n = Len(open) /\ DOMAIN open = 1 .. n /\ m = Len(tries) /\ DOMAIN tries = 1 .. m
  BY Around
<1>2. DOMAIN open' = 1 .. n + 1
  BY <1>1, Around DEF IInv, OpenOK
<1>3. /\ \A i \in 1 .. n : labelTarget'[i].try = labelTarget[i].try
      /\ labelTarget'[n + 1].try = m
  <2>1. \A i \in 1 .. n : labelTarget'[i] = targets[i]
    BY <1>1
  <2>2. labelTarget'[n + 1] = t
    BY <1>1
  <2>3. QED
    BY <1>1, <2>1, <2>2
<1>4. /\ DOMAIN tries' = 1 .. m /\ Len(tries') = m
      /\ \A k \in 1 .. m : tries'[k].stmt = tries[k].stmt
  BY <1>1 DEF Like
<1>5. TryDepths'
  <2>1. TryDepths /\ TriesOK /\ ~(m = m + 1)
    BY Around DEF JInv
  <2>2. QED
    BY <1>1, <1>2, <1>3, <1>4, <2>1, DepthsPushed
<1>6. TablesApart' /\ TablesOK(code, catchTables, TablesOf(tries))'
  BY Around, TablesKept DEF JInv
<1>7. QED
  BY <1>5, <1>6, NotJumping DEF JInv

(* A statement is opened around a try block.                               *)
LEMMA OpenedTry ==
  ASSUME IInv, JInv, NEW r, open' = Append(open, r),
         NEW targets \in Seq(Target), Len(targets) = Len(open),
         \A i \in 1 .. Len(open) : targets[i].try = labelTarget[i].try,
         NEW t, t.try = Len(tries), labelTarget' = Append(targets, t),
         NEW counted \in Seq(Try), Like(counted, tries),
         NEW builder \in {"finally", "catch", "forof"},
         tries' = Append(counted, NewTry(builder)),
         catchTables' = Append(catchTables, << <<Here, 0>> >>), code' = code,
         jump' = NoJump
  PROVE  JInv'
<1>1. PICK n \in Nat, m \in Nat :
        n = Len(open) /\ DOMAIN open = 1 .. n /\ m = Len(tries) /\ DOMAIN tries = 1 .. m
  BY Around
<1>2. DOMAIN open' = 1 .. n + 1
  BY <1>1, Around DEF IInv, OpenOK
<1>3. /\ \A i \in 1 .. n : labelTarget'[i].try = labelTarget[i].try
      /\ labelTarget'[n + 1].try = m
  <2>1. \A i \in 1 .. n : labelTarget'[i] = targets[i]
    BY <1>1
  <2>2. labelTarget'[n + 1] = t
    BY <1>1
  <2>3. QED
    BY <1>1, <2>1, <2>2
<1>4. PICK u \in Try : /\ u = NewTry(builder)
                       /\ u.table = Len(catchTables) + 1
                       /\ u.stmt = n + 1
  <2>1. Len(catchTables) \in Nat
    BY TablesFacts DEF JInv
  <2>2. NewTry(builder) \in Try
    BY <1>1, <2>1 DEF NewTry, Try
  <2>3. NewTry(builder).table = Len(catchTables) + 1 /\ NewTry(builder).stmt = n + 1
    BY <1>1 DEF NewTry
  <2>4. QED
    BY <2>2, <2>3, Zenon
<1>5. /\ Len(counted) = m
      /\ \A k \in 1 .. m : counted[k].stmt = tries[k].stmt
  BY <1>1 DEF Like
<1>6. tries' = Append(counted, u)
  BY <1>4
<1>7. /\ DOMAIN tries' = 1 .. m + 1 /\ Len(tries') = m + 1
      /\ \A k \in 1 .. m : tries'[k].stmt = tries[k].stmt
      /\ tries'[m + 1].stmt = n + 1
  <2>1. \A k \in 1 .. m : tries'[k] = counted[k]
    BY <1>5, <1>6
  <2>2. tries'[m + 1] = u
    BY <1>5, <1>6
  <2>3. QED
    BY <1>4, <1>5, <1>6, <2>1, <2>2
<1>8. TryDepths'
  <2>1. TryDepths /\ TriesOK /\ m + 1 \in Nat
    BY Around DEF JInv
  <2>2. QED
    BY <1>1, <1>2, <1>3, <1>7, <2>1, DepthsPushed
<1>9. TablesApart' /\ TablesOK(code, catchTables, TablesOf(tries))'
  BY <1>4, <1>6, Around, TablesPushed DEF JInv
<1>10. QED
  BY <1>8, <1>9, NotJumping DEF JInv

(* A loop; that of a for-of loop is opened around a try block.             *)
LEMMA EnterLoopKeeps ==
  ASSUME IInv, JInv, NEW kind \in LoopKinds, NEW env \in BOOLEAN,
         NEW label \in Labels \cup {None}, EnterLoop(kind, env, label)
  PROVE  JInv'
<1>1. PICK r : open' = Append(open, r)
  BY DEF EnterLoop, Open
<1>2. PICK targets : targets = IF env THEN Leveled(1) ELSE labelTarget
  OBVIOUS
<1>3. /\ targets \in Seq(Target) /\ Len(targets) = Len(open)
      /\ \A i \in 1 .. Len(open) : targets[i].try = labelTarget[i].try
  <2>1. PICK by \in Int : by = 1
    OBVIOUS
  <2>2. targets = Leveled(by) \/ targets = labelTarget
    BY <1>2, <2>1
  <2>3. QED
    BY <2>2, LeveledTry
<1>4. PICK t : t = NewLabelTarget(kind, env, Len(open) + 1) /\ t.try = Len(tries)
  <2>1. NewLabelTarget(kind, env, Len(open) + 1).try = Len(tries)
    BY DEF NewLabelTarget
  <2>2. QED
    BY <2>1, Zenon
<1>5. labelTarget' = Append(targets, t)
  BY <1>2, <1>4 DEF EnterLoop
<1>6. PICK counted : counted = IF env THEN TriesLeveled(tries, 1) ELSE tries
  OBVIOUS
<1>7. counted \in Seq(Try) /\ Like(counted, tries)
  BY <1>6, Around, TriesLeveledOK, LeveledLike, LikeSame
<1>8. jump' = NoJump /\ code' = code
  BY DEF EnterLoop, Compiling
<1>9. CASE kind = "forof"
  <2>1. /\ tries' = Append(counted, NewTry("forof"))
        /\ catchTables' = Append(catchTables, << <<Here, 0>> >>)
    BY <1>6, <1>9 DEF EnterLoop
  <2>2. QED
    BY <1>1, <1>3, <1>4, <1>5, <1>7, <1>8, <2>1, OpenedTry
<1>10. CASE kind # "forof"
  <2>1. tries' = counted /\ UNCHANGED catchTables
    BY <1>6, <1>10 DEF EnterLoop
  <2>2. Like(tries', tries)
    BY <1>7, <2>1
  <2>3. QED
    BY <1>1, <1>3, <1>4, <1>5, <1>8, <2>1, <2>2, OpenedPlain
<1>11. QED
  BY <1>9, <1>10

(* The other statements that are opened.                                   *)
LEMMA EnterKeeps ==
  ASSUME IInv, JInv,
         \/ \E label \in Labels \cup {None} : EnterSwitch(label)
         \/ \E label \in Labels : EnterBlock(label)
         \/ \E builder \in {"finally", "catch"} : EnterTry(builder)
  PROVE  JInv'
<1>1. PICK targets \in Seq(Target) : targets = labelTarget
  BY Around
<1>2. /\ Len(targets) = Len(open)
      /\ \A i \in 1 .. Len(open) : targets[i].try = labelTarget[i].try
  BY <1>1, Around
<1>3. tries \in Seq(Try) /\ Like(tries, tries)
  BY Around, LikeSame
<1>4. ASSUME NEW label \in Labels \cup {None}, EnterSwitch(label) PROVE JInv'
  <2>1. PICK r : open' = Append(open, r)
    BY <1>4 DEF EnterSwitch, Open
  <2>2. PICK t : t.try = Len(tries) /\ labelTarget' = Append(targets, t)
    <3>1. NewLabelTarget("switch", FALSE, CloseContinueTarget).try = Len(tries)
      BY DEF NewLabelTarget
    <3>2. QED
      BY <1>1, <1>4, <3>1 DEF EnterSwitch
  <2>3. UNCHANGED <<tries, code, catchTables>> /\ jump' = NoJump
    BY <1>4 DEF EnterSwitch, Compiling
  <2>4. QED
    BY <1>2, <1>3, <2>1, <2>2, <2>3, OpenedPlain
<1>5. ASSUME NEW label \in Labels, EnterBlock(label) PROVE JInv'
  <2>1. PICK r : open' = Append(open, r)
    BY <1>5 DEF EnterBlock, Open
  <2>2. PICK t : t.try = Len(tries) /\ labelTarget' = Append(targets, t)
    <3>1. NewLabelTarget("block", FALSE, 0).try = Len(tries)
      BY DEF NewLabelTarget
    <3>2. QED
      BY <1>1, <1>5, <3>1 DEF EnterBlock
  <2>3. UNCHANGED <<tries, code, catchTables>> /\ jump' = NoJump
    BY <1>5 DEF EnterBlock, Compiling
  <2>4. QED
    BY <1>2, <1>3, <2>1, <2>2, <2>3, OpenedPlain
<1>6. ASSUME NEW builder \in {"finally", "catch"}, EnterTry(builder) PROVE JInv'
  <2>1. PICK r : open' = Append(open, r)
    BY <1>6 DEF EnterTry, Open
  <2>2. PICK t : t.try = Len(tries) /\ labelTarget' = Append(targets, t)
    <3>1. NewLabelTarget(None, FALSE, 0).try = Len(tries)
      BY DEF NewLabelTarget
    <3>2. QED
      BY <1>1, <1>6, <3>1 DEF EnterTry
  <2>3. /\ tries' = Append(tries, NewTry(builder))
        /\ catchTables' = Append(catchTables, << <<Here, 0>> >>)
        /\ code' = code /\ jump' = NoJump
    BY <1>6 DEF EnterTry, Compiling
  <2>4. builder \in {"finally", "catch", "forof"}
    OBVIOUS
  <2>5. QED
    BY <1>2, <1>3, <2>1, <2>2, <2>3, <2>4, OpenedTry
<1>7. QED
  BY <1>4, <1>5, <1>6

(* The innermost statement, or its try block, is left.                     *)
LEMMA ClosedPlain ==
  ASSUME IInv, JInv, NEW h \in 0 .. Len(open), DOMAIN open' = 1 .. h,
         \A i \in 1 .. h : labelTarget'[i].try = labelTarget[i].try,
         Like(tries', tries), UNCHANGED <<code, catchTables>>, jump' = NoJump
  PROVE  JInv'
<1>1. PICK n \in Nat, m \in Nat :
        n = Len(open) /\ DOMAIN open = 1 .. n /\ m = Len(tries) /\ DOMAIN tries = 1 .. m
  BY Around
<1>2. /\ DOMAIN tries' = 1 .. m /\ Len(tries') = m
      /\ \A k \in 1 .. m : tries'[k].stmt = tries[k].stmt
  BY <1>1 DEF Like
<1>3. TryDepths'
  <2>1. TryDepths /\ TriesOK
    BY Around DEF JInv
  <2>2. QED
    BY <1>1, <1>2, <2>1, DepthsPopped, ZenonT(60)
<1>4. TablesApart' /\ TablesOK(code, catchTables, TablesOf(tries))'
  BY Around, TablesKept DEF JInv
<1>5. QED
  BY <1>3, <1>4, NotJumping DEF JInv

(* The same where a try block ends.                                        *)
LEMMA ClosedTry ==
  ASSUME IInv, JInv, NEW h \in 0 .. Len(open), DOMAIN open' = 1 .. h,
         \A i \in 1 .. h : labelTarget'[i].try = labelTarget[i].try,
         open # <<>>, IsTry(Top(open).kind), Like(tries', Front(tries)),
         catchTables' = EndTry(Top(tries).table), code' = code, jump' = NoJump
  PROVE  JInv'
<1>1. PICK n \in Nat, m \in Nat :
        n = Len(open) /\ DOMAIN open = 1 .. n /\ m = Len(tries) /\ DOMAIN tries = 1 .. m
  BY Around
<1>2. n > 0 /\ IsTry(open[n].kind)
  BY <1>1 DEF IInv, OpenOK, Top
<1>3. m > 0 /\ tries[m].stmt = n
  BY <1>1, <1>2, TopTry
<1>4. tries # <<>>
  BY <1>1, <1>3
<1>5. PICK d \in Nat : m = d + 1
  BY <1>3, m - 1 \in Nat, m = (m - 1) + 1
<1>6. /\ DOMAIN tries' = 1 .. d /\ Len(tries') = d
      /\ \A k \in 1 .. d : tries'[k].stmt = tries[k].stmt
  <2>1. /\ Len(tries') = m - 1 /\ DOMAIN tries' = 1 .. m - 1
        /\ \A k \in 1 .. m - 1 : tries'[k].stmt = tries[k].stmt
    BY <1>1, <1>4, Around, FrontLike
  <2>2. m - 1 = d
    BY <1>5
  <2>3. QED
    BY <2>1, <2>2
<1>7. TryDepths'
  <2>1. TryDepths /\ TriesOK
    BY Around DEF JInv
  <2>2. QED
    BY <1>1, <1>3, <1>5, <1>6, <2>1, DepthsPopped
<1>8. TablesApart' /\ TablesOK(code, catchTables, TablesOf(tries))'
  BY <1>4, Around, TablesPopped DEF JInv
<1>9. QED
  BY <1>7, <1>8, NotJumping DEF JInv

(* The handler comes after the try block.                                  *)
LEMMA LeaveTryBlockKeeps ==
  ASSUME IInv, JInv, LeaveTryBlock
  PROVE  JInv'
<1>1. PICK n \in Nat : n = Len(open) /\ DOMAIN open = 1 .. n
  BY Around
<1>2. open # <<>> /\ IsTry(Top(open).kind)
  BY DEF LeaveTryBlock, IsTry
<1>3. DOMAIN open' = 1 .. n /\ n \in 0 .. Len(open)
  BY <1>1 DEF LeaveTryBlock
<1>4. /\ labelTarget' = labelTarget
      /\ tries' = Front(tries)
      /\ catchTables' = EndTry(Top(tries).table) /\ code' = code /\ jump' = NoJump
  BY DEF LeaveTryBlock, Compiling
<1>5. tries # <<>>
  <2>1. PICK m \in Nat : m = Len(tries)
    BY Around
  <2>2. n > 0 /\ IsTry(open[n].kind)
    BY <1>1, <1>2 DEF IInv, OpenOK, Top
  <2>3. m > 0
    BY <1>1, <2>1, <2>2, TopTry
  <2>4. QED
    BY <2>1, <2>3
<1>6. Like(tries', Front(tries))
  BY <1>4, <1>5, Around, SeqFront, LikeSame
<1>7. QED
  BY <1>1, <1>2, <1>3, <1>4, <1>6, ClosedTry

(* The end of a statement, of a for-of loop that of its try block too.     *)
LEMMA LeaveKeeps ==
  ASSUME IInv, JInv, Leave
  PROVE  JInv'
<1>1. open # <<>> /\ open' = Front(open) /\ code' = code /\ jump' = NoJump
  BY DEF Leave, Compiling
<1>2. PICK n \in Nat : /\ n = Len(open) /\ n > 0
                       /\ DOMAIN open = 1 .. n /\ DOMAIN open' = 1 .. n - 1
                       /\ Top(open) = open[n]
  BY <1>1, CloseOpen DEF IInv, Closed
<1>3. PICK h \in 0 .. n : h = n - 1
  BY <1>2, n - 1 \in 0 .. n
<1>4. PICK targets : targets = IF Top(open).env THEN Leveled(-1) ELSE labelTarget
  OBVIOUS
<1>5. /\ targets \in Seq(Target) /\ Len(targets) = n
      /\ \A i \in 1 .. n : targets[i].try = labelTarget[i].try
  BY <1>2, <1>4, -1 \in Int, LeveledTry
<1>6. labelTarget' = Front(targets)
  BY <1>4 DEF Leave
<1>7. \A i \in 1 .. h : labelTarget'[i].try = labelTarget[i].try
  <2>1. \A i \in 1 .. n - 1 : labelTarget'[i] = targets[i]
    BY <1>2, <1>5, <1>6, SeqFront
  <2>2. QED
    BY <1>3, <1>5, <2>1
<1>8. PICK ended : ended = IF Top(open).kind = "forof" THEN Front(tries) ELSE tries
  OBVIOUS
<1>9. tries' = IF Top(open).env THEN TriesLeveled(ended, -1) ELSE ended
  BY <1>8 DEF Leave
<1>10. ended \in Seq(Try) => Like(tries', ended)
  BY <1>9, -1 \in Int, LeveledLike, LikeSame
<1>11. CASE Top(open).kind = "forof"
  <2>1. IsTry(Top(open).kind)
    BY <1>11 DEF IsTry
  <2>2. tries # <<>>
    <3>1. PICK m \in Nat : m = Len(tries)
      BY Around
    <3>2. m > 0
      BY <1>2, <2>1, <3>1, TopTry
    <3>3. QED
      BY <3>1, <3>2
  <2>3. ended = Front(tries) /\ ended \in Seq(Try)
    BY <1>8, <1>11, <2>2, Around, SeqFront
  <2>4. catchTables' = EndTry(Top(tries).table)
    BY <1>11 DEF Leave
  <2>5. Like(tries', Front(tries))
    BY <1>10, <2>3
  <2>6. QED
    BY <1>1, <1>2, <1>3, <1>7, <2>1, <2>4, <2>5, ClosedTry
<1>12. CASE Top(open).kind # "forof"
  <2>1. ended = tries /\ ended \in Seq(Try)
    BY <1>8, <1>12, Around
  <2>2. Like(tries', tries)
    BY <1>10, <2>1
  <2>3. UNCHANGED <<code, catchTables>>
    BY <1>1, <1>12 DEF Leave
  <2>4. QED
    BY <1>1, <1>2, <1>3, <1>7, <2>2, <2>3, ClosedPlain
<1>13. QED
  BY <1>11, <1>12

(* What a jump that finds the statement t finalizes, and that this suits a *)
(* jump to the statement to.                                               *)
Done(t, kind, ct) ==
  {i \in DOMAIN open : /\ i >= t
                       /\ \/ open[i].kind = "finally"
                          \/ open[i].kind = "forof" /\ (kind = "break" \/ ct # i)}

Suits(done, kind, label, to) ==
  \A j : j.kind = kind /\ j.label = label /\ j.to = to =>
    /\ done \subseteq LeftBy(j)
    /\ \A i \in LeftBy(j) \ done :
         /\ kind = "continue" /\ label = None
         /\ \E k \in to + 1 .. Len(open) : open[k].kind = "switch"
         /\ \A k \in done : i < k

(* A jump that finds the statement t and leads to the statement to.        *)
LEMMA JumpKeeps ==
  ASSUME IInv, JInv, NEW n \in Nat, DOMAIN open = 1 .. n,
         NEW m \in Nat, DOMAIN tries = 1 .. m, Len(tries) = m,
         NEW kind \in {"break", "continue"}, NEW label, NEW to, NEW ct, NEW pops,
         NEW t \in 0 .. n, NEW end \in 0 .. m,
         \A k \in 1 .. m : k <= end <=> tries[k].stmt < t,
         Emit(kind, label, to, end, ct, pops),
         Suits(Done(t, kind, ct), kind, label, to)
  PROVE  JInv'
<1>1. TriesOK /\ TablesApart /\ TablesOK(code, catchTables, TablesOf(tries))
  BY DEF IInv, JInv
<1>2. end \in 0 .. Len(tries)
  OBVIOUS
<1>3. /\ TablesApart' /\ TablesOK(code, catchTables, TablesOf(tries))'
      /\ UNCHANGED <<open, labelTarget, tries>>
      /\ jump'.kind = kind /\ jump'.label = label /\ jump'.to = to
      /\ InnermostFirst(jump'.finalized)
      /\ Range(jump'.finalized) = Finalizing(end, kind, ct)
  BY <1>1, <1>2, Emitted
<1>4. TryDepths'
  <2>1. TryDepths
    BY DEF JInv
  <2>2. QED
    BY <1>3, <2>1 DEF TryDepths
<1>5. Range(jump'.finalized) = Done(t, kind, ct)
  <2>1. t \in Nat
    OBVIOUS
  <2>2. Finalizing(end, kind, ct) =
          {i \in 1 .. n : /\ i >= t
                          /\ \/ open[i].kind = "finally"
                             \/ open[i].kind = "forof" /\ (kind = "break" \/ ct # i)}
    BY <2>1, FinalizingIs
  <2>3. QED
    BY <1>3, <2>2 DEF Done
<1>6. FinalizesWhatItLeaves'
  <2>1. PICK j : j = jump'
    OBVIOUS
  <2>2. LeavesRight(j)
    BY <1>3, <1>5, <2>1 DEF LeavesRight, Suits
  <2>3. QED
    BY <1>3, <2>1, <2>2, JumpsLeave
<1>7. QED
  BY <1>3, <1>4, <1>6 DEF JInv

(* The try statements around the statement t.                              *)
LEMMA DepthAt ==
  ASSUME IInv, JInv, NEW t \in DOMAIN open, NEW m \in Nat, m = Len(tries)
  PROVE  /\ labelTarget[t].try \in 0 .. m
         /\ \A k \in 1 .. m : k <= labelTarget[t].try <=> tries[k].stmt < t
<1>1. DOMAIN tries = 1 .. m
  BY Around
<1>2. QED
  BY <1>1 DEF JInv, TryDepths

(* A break finalizes from its target inwards.                              *)
LEMMA BreakKeeps ==
  ASSUME IInv, JInv, NEW label \in Labels \cup {None}, Break(label)
  PROVE  JInv'
<1>1. PICK n \in Nat, m \in Nat :
        n = Len(open) /\ DOMAIN open = 1 .. n /\ m = Len(tries) /\ DOMAIN tries = 1 .. m
  BY Around
<1>2. PICK t \in 1 .. n :
        /\ t = LabelTargetOf(label)
        /\ IsBreakable(t) \/ open[t].kind = "block"
  BY <1>1, BreakFinds
<1>3. PICK end, pops :
        end = labelTarget[t].try /\ Emit("break", label, t, end, 0, pops)
  BY <1>2 DEF Break
<1>4. end \in 0 .. m /\ \A k \in 1 .. m : k <= end <=> tries[k].stmt < t
  BY <1>1, <1>3, DepthAt
<1>5. PICK done : done = Done(t, "break", 0)
  OBVIOUS
<1>6. ASSUME NEW j, j.kind = "break", j.to = t
      PROVE  LeftBy(j) = done
  <2>1. open[t].kind # "finally"
    BY <1>2 DEF IsBreakable, IsLoop
  <2>2. QED
    BY <1>1, <1>5, <1>6, <2>1 DEF LeftBy, Done
<1>7. t \in 0 .. n /\ "break" \in {"break", "continue"}
  OBVIOUS
<1>8. Suits(done, "break", label, t)
  BY <1>6 DEF Suits
<1>9. QED
  BY <1>1, <1>3, <1>4, <1>5, <1>7, <1>8, JumpKeeps

(* In a switch the loop is further out than what the continue finds.       *)
LEMMA ContinueKeeps ==
  ASSUME IInv, JInv, NEW label \in Labels \cup {None}, Continue(label)
  PROVE  JInv'
<1>1. PICK n \in Nat, m \in Nat :
        n = Len(open) /\ DOMAIN open = 1 .. n /\ m = Len(tries) /\ DOMAIN tries = 1 .. m
  BY Around
<1>2. PICK t \in 1 .. n, c \in 1 .. n :
        /\ t = LabelTargetOf(label)
        /\ c = labelTarget[t].continueTarget
        /\ IsBreakable(t)
        /\ IsLoop(c) /\ c <= t
        /\ IsLoop(t) => c = t
        /\ label # None => IsLoop(t)
  BY <1>1, ContinueFinds
<1>3. PICK end, pops :
        end = labelTarget[t].try /\ Emit("continue", label, c, end, c, pops)
  BY <1>2 DEF Continue
<1>4. end \in 0 .. m /\ \A k \in 1 .. m : k <= end <=> tries[k].stmt < t
  BY <1>1, <1>3, DepthAt
<1>5. PICK done : done = Done(t, "continue", c)
  OBVIOUS
<1>6. ASSUME NEW j, j.kind = "continue", j.to = c
      PROVE  LeftBy(j) = {i \in 1 .. n : i > c /\ open[i].kind \in {"finally", "forof"}}
  BY <1>1, <1>6 DEF LeftBy
<1>7. open[c].kind # "finally"
  BY <1>2 DEF IsLoop
<1>8. \A i \in done : i > c /\ open[i].kind \in {"finally", "forof"}
  BY <1>1, <1>2, <1>5, <1>7 DEF Done
<1>9. ASSUME NEW i \in 1 .. n, i > c, open[i].kind \in {"finally", "forof"}, i \notin done
      PROVE  /\ label = None
             /\ \E k \in c + 1 .. n : open[k].kind = "switch"
             /\ \A k \in done : i < k
  <2>1. i < t
    BY <1>1, <1>5, <1>9 DEF Done
  <2>2. ~IsLoop(t)
    BY <1>2, <1>9, <2>1
  <2>3. open[t].kind = "switch" /\ t \in c + 1 .. n /\ label = None
    BY <1>2, <1>9, <2>1, <2>2 DEF IsBreakable
  <2>4. QED
    BY <1>1, <1>5, <2>1, <2>3 DEF Done
<1>10. Suits(done, "continue", label, c)
  <2>1. \A i \in done : i \in 1 .. n
    BY <1>1, <1>5 DEF Done
  <2>2. PICK left :
          left = {i \in 1 .. n : i > c /\ open[i].kind \in {"finally", "forof"}}
    OBVIOUS
  <2>3. done \subseteq left
    BY <1>8, <2>1, <2>2
  <2>4. \A i \in left \ done :
          /\ label = None
          /\ \E k \in c + 1 .. Len(open) : open[k].kind = "switch"
          /\ \A k \in done : i < k
    BY <1>1, <1>9, <2>2
  <2>5. \A j : j.kind = "continue" /\ j.to = c => LeftBy(j) = left
    BY <1>6, <2>2
  <2>6. QED
    BY <2>3, <2>4, <2>5 DEF Suits
<1>11. t \in 0 .. n /\ "continue" \in {"break", "continue"}
  OBVIOUS
<1>12. QED
  BY <1>1, <1>3, <1>4, <1>5, <1>10, <1>11, JumpKeeps

(* A return finalizes everything.                                          *)
LEMMA ReturnKeeps ==
  ASSUME IInv, JInv, Return
  PROVE  JInv'
<1>1. PICK n \in Nat, m \in Nat :
        n = Len(open) /\ DOMAIN open = 1 .. n /\ m = Len(tries) /\ DOMAIN tries = 1 .. m
  BY Around
<1>2. Emit("break", None, 0, 0, 0, 0)
  BY DEF Return
<1>3. \A k \in 1 .. m : k <= 0 <=> tries[k].stmt < 0
  BY <1>1 DEF IInv, TriesOK
<1>4. PICK done : done = Done(0, "break", 0)
  OBVIOUS
<1>5. ASSUME NEW j, j.kind = "break", j.to = 0
      PROVE  LeftBy(j) = done
  BY <1>1, <1>4, <1>5 DEF LeftBy, Done
<1>6. 0 \in 0 .. n /\ 0 \in 0 .. m /\ "break" \in {"break", "continue"}
  OBVIOUS
<1>7. Suits(done, "break", None, 0)
  BY <1>5 DEF Suits
<1>8. QED
  BY <1>1, <1>2, <1>3, <1>4, <1>6, <1>7, JumpKeeps

(* A statement that may throw is covered by the try statements around it.  *)
LEMMA EmitKeeps ==
  ASSUME IInv, JInv, Statement \/ Throw
  PROVE  JInv'
<1>1. /\ code' = Append(code, TablesOf(tries))
      /\ UNCHANGED <<open, labelTarget, tries, catchTables>>
  BY DEF Statement, Throw
<1>2. jump' = NoJump \/ jump'.kind = "throw"
  BY DEF Statement, Throw, Compiling
<1>3. FinalizesWhatItLeaves'
  BY <1>2 DEF FinalizesWhatItLeaves, NoJump, None
<1>4. TryDepths' /\ TablesApart'
  <2>1. TryDepths /\ TablesApart
    BY DEF JInv
  <2>2. QED
    BY <1>1, <2>1 DEF TryDepths, TablesApart
<1>5. TablesOK(code', catchTables', TablesOf(tries))
  <2>1. TablesOK(code, catchTables, TablesOf(tries))
    BY DEF JInv
  <2>2. TablesOK(Append(code, TablesOf(tries)), catchTables, TablesOf(tries))
    BY <2>1, TablesEmit
  <2>3. QED
    BY <1>1, <2>2
<1>6. TablesOK(code, catchTables, TablesOf(tries))' <=>
        TablesOK(code', catchTables', TablesOf(tries)')
  BY DEF TablesOK, OpenTable, ClosedTable, Covers
<1>7. TablesOf(tries)' = TablesOf(tries)
  BY <1>1 DEF TablesOf
<1>8. QED
  BY <1>3, <1>4, <1>5, <1>6, <1>7 DEF JInv

(* Nothing is compiled.                                                    *)
LEMMA StillKeeps ==
  ASSUME IInv, JInv,
         Proceed \/ (\E label \in Labels : Refuse(label)) \/ UNCHANGED vars
  PROVE  JInv'
<1>1. /\ UNCHANGED <<open, labelTarget, tries, code, catchTables>>
      /\ jump' = jump \/ jump' = NoJump
  BY DEF Proceed, Refuse, vars
<1>2. Like(tries', tries)
  BY <1>1, Around, LikeSame
<1>3. TablesApart' /\ TablesOK(code, catchTables, TablesOf(tries))'
  BY <1>1, <1>2, Around, TablesKept DEF JInv
<1>4. TryDepths'
  <2>1. TryDepths
    BY DEF JInv
  <2>2. QED
    BY <1>1, <2>1 DEF TryDepths
<1>5. CASE jump' = NoJump
  BY <1>3, <1>4, <1>5, NotJumping DEF JInv
<1>6. CASE jump' = jump
  <2>1. FinalizesWhatItLeaves'
    <3>1. FinalizesWhatItLeaves
      BY DEF JInv
    <3>2. QED
      BY <1>1, <1>6, <3>1 DEF FinalizesWhatItLeaves, ToFinalize, ContinueOfSwitch
  <2>2. QED
    BY <1>3, <1>4, <2>1 DEF JInv
<1>7. QED
  BY <1>1, <1>5, <1>6

(* Nothing is compiled yet.                                                *)
LEMMA InitJumps ==
  ASSUME Init
  PROVE  JInv
<1>1. /\ DOMAIN open = {} /\ DOMAIN tries = {} /\ DOMAIN code = {}
      /\ DOMAIN catchTables = {}
  BY DEF Init
<1>2. code \in Seq(SUBSET Nat) /\ catchTables \in Seq(Seq(Pairs))
  BY DEF Init
<1>3. TablesOf(tries) = {}
  BY <1>1 DEF TablesOf
<1>4. TryDepths /\ TablesApart
  BY <1>1 DEF TryDepths, TablesApart
<1>5. TablesOK(code, catchTables, TablesOf(tries))
  BY <1>1, <1>2, <1>3 DEF TablesOK
<1>6. FinalizesWhatItLeaves
  BY DEF Init, NoJump, None, FinalizesWhatItLeaves
<1>7. QED
  BY <1>4, <1>5, <1>6 DEF JInv

(* The actions of Next.                                                    *)
LEMMA JumpStep ==
  ASSUME IInv, JInv, [Next]_vars
  PROVE  JInv'
<1>1. ASSUME NEW kind \in LoopKinds, NEW env \in BOOLEAN, NEW label \in Labels \cup {None},
             EnterLoop(kind, env, label)
      PROVE  JInv'
  BY <1>1, EnterLoopKeeps
<1>2. CASE \/ \E label \in Labels \cup {None} : EnterSwitch(label)
           \/ \E label \in Labels : EnterBlock(label)
           \/ \E builder \in {"finally", "catch"} : EnterTry(builder)
  BY <1>2, EnterKeeps
<1>3. CASE LeaveTryBlock
  BY <1>3, LeaveTryBlockKeeps
<1>4. CASE Leave
  BY <1>4, LeaveKeeps
<1>5. CASE Statement \/ Throw
  BY <1>5, EmitKeeps
<1>6. ASSUME NEW label \in Labels \cup {None}, Break(label) \/ Continue(label)
      PROVE  JInv'
  BY <1>6, BreakKeeps, ContinueKeeps
<1>7. CASE Return
  BY <1>7, ReturnKeeps
<1>8. CASE Proceed \/ (\E label \in Labels : Refuse(label)) \/ UNCHANGED vars
  BY <1>8, StillKeeps
<1>9. QED
  BY <1>1, <1>2, <1>3, <1>4, <1>5, <1>6, <1>7, <1>8 DEF Next

-----------------------------------------------------------------------------
(* The theorems.                                                           *)

LEMMA InitOK ==
  Init => IInv
<1> SUFFICES ASSUME Init PROVE IInv
  OBVIOUS
<1>1. open = <<>> /\ labelTarget = <<>> /\ labelTargetStack = <<>>
      /\ name2LabelTarget = <<>> /\ tries = <<>> /\ jump = NoJump
  BY DEF Init
<1>2. OpenOK /\ TargetsOK /\ NamesOK
  BY <1>1 DEF OpenOK, TargetsOK, NamesOK
<1>3. StackOK /\ TriesOK
  BY <1>1 DEF StackOK, TriesOK
<1>4. Levels
  BY <1>1 DEF Levels, Pushed, Range
<1>5. JumpsToItsTarget /\ JumpsAligned /\ ThrowsAligned
  BY <1>1 DEF JumpsToItsTarget, JumpsAligned, ThrowsAligned, NoJump, None
<1>6. QED
  BY <1>2, <1>3, <1>4, <1>5 DEF IInv

LEMMA StepOK ==
  IInv /\ [Next]_vars => IInv'
<1> SUFFICES ASSUME IInv, [Next]_vars PROVE IInv'
  OBVIOUS
<1>1. ASSUME NEW kind \in LoopKinds, NEW env \in BOOLEAN,
             NEW label \in Labels \cup {None}, EnterLoop(kind, env, label)
      PROVE  IInv'
  BY <1>1, EnterLoopStep
<1>2. ASSUME NEW label \in Labels \cup {None}, EnterSwitch(label) PROVE IInv'
  BY <1>2, EnterSwitchStep
<1>3. ASSUME NEW label \in Labels, EnterBlock(label) PROVE IInv'
  BY <1>3, EnterBlockStep
<1>4. ASSUME NEW label \in Labels, Refuse(label) PROVE IInv'
  BY <1>4, OtherSteps DEF Refuse
<1>5. ASSUME NEW builder \in {"finally", "catch"}, EnterTry(builder) PROVE IInv'
  BY <1>5, EnterTryStep
<1>6. CASE LeaveTryBlock
  BY <1>6, LeaveTryBlockStep
<1>7. CASE Leave
  BY <1>7, LeaveStep
<1>8. CASE Statement
  BY <1>8, OtherSteps DEF Statement
<1>9. ASSUME NEW label \in Labels \cup {None}, Break(label) PROVE IInv'
  BY <1>9, BreakStep
<1>10. ASSUME NEW label \in Labels \cup {None}, Continue(label) PROVE IInv'
  BY <1>10, ContinueStep
<1>11. CASE Return
  BY <1>11, ReturnStep
<1>12. CASE Throw
  BY <1>12, ThrowStep
<1>13. CASE Proceed
  BY <1>13, OtherSteps DEF Proceed
<1>14. CASE UNCHANGED vars
  BY <1>14, OtherSteps DEF vars
<1>15. QED
  BY <1>1, <1>2, <1>3, <1>4, <1>5, <1>6, <1>7, <1>8, <1>9, <1>10, <1>11, <1>12,
     <1>13, <1>14 DEF Next

(* The tables of the compiler always agree with the nesting of the source. *)
THEOREM Invariance == Spec => []IInv
<1>1. Init => IInv
  BY InitOK
<1>2. IInv /\ [Next]_vars => IInv'
  BY StepOK
<1>3. QED
  BY <1>1, <1>2, PTL DEF Spec

(* The levels that popLoopEnvWhenContinueOrBreak and compileThrowStatement *)
(* read are the numbers of environments between the statement they belong  *)
(* to and the code being compiled.                                         *)
THEOREM LevelsExact == Spec => []Levels
<1>1. IInv => Levels
  BY DEF IInv
<1>2. QED
  BY <1>1, Invariance, PTL

(* getLabelTarget and getCloseContinueTarget find the statement that the   *)
(* source of a break or a continue names.                                  *)
THEOREM JumpsLead == Spec => []JumpsToItsTarget
<1>1. IInv => JumpsToItsTarget
  BY DEF IInv
<1>2. QED
  BY <1>1, Invariance, PTL

(* A break or a continue pops the environments its target expects to be    *)
(* gone, but for the three situations that JumpsAligned names.             *)
THEOREM JumpsArrive == Spec => []JumpsAligned
<1>1. IInv => JumpsAligned
  BY DEF IInv
<1>2. QED
  BY <1>1, Invariance, PTL

(* A throw statement pops the environments pushed inside the current try   *)
(* statement and no others.                                                *)
THEOREM ThrowsLand == Spec => []ThrowsAligned
<1>1. IInv => ThrowsAligned
  BY DEF IInv
<1>2. QED
  BY <1>1, Invariance, PTL

(* The catch tables always cover the code they must cover, and what a jump *)
(* finalizes is what it leaves.                                            *)
THEOREM JumpInvariance == Spec => []JInv
<1>1. Init => JInv
  BY InitJumps
<1>2. IInv /\ JInv /\ [Next]_vars => JInv'
  BY JumpStep
<1>3. QED
  BY <1>1, <1>2, Invariance, PTL DEF Spec

(* A catch table covers exactly the code of its try block, however the     *)
(* finalizers are inlined and the label pairs split.                       *)
THEOREM RangesExact == Spec => []CatchRangesExact
<1>1. ASSUME JInv
      PROVE  CatchRangesExact
  <2>1. TablesOK(code, catchTables, TablesOf(tries))
    BY <1>1 DEF JInv
  <2>2. ASSUME NEW p \in DOMAIN code
        PROVE  {t \in DOMAIN catchTables : Covers(catchTables[t], p)} = code[p]
    <3>1. /\ code[p] \subseteq DOMAIN catchTables
          /\ \A t \in DOMAIN catchTables : Covers(catchTables[t], p) <=> t \in code[p]
      BY <2>1, <2>2 DEF TablesOK
    <3>2. QED
      BY <3>1, Zenon
  <2>3. QED
    BY <2>2 DEF CatchRangesExact
<1>2. QED
  BY <1>1, JumpInvariance, PTL

(* A jump finalizes the statements it leaves, each once, innermost first;  *)
(* only a continue inside a switch may leave out some.                     *)
THEOREM JumpsFinalize == Spec => []FinalizesWhatItLeaves
<1>1. JInv => FinalizesWhatItLeaves
  BY DEF JInv
<1>2. QED
  BY <1>1, JumpInvariance, PTL

=============================================================================
