------------------------ MODULE SyntaxContextsProofs ------------------------
(***************************************************************************)
(* Proofs about SyntaxContexts, for every set of labels, every set of      *)
(* kinds of functions and every depth.                                     *)
(***************************************************************************)
EXTENDS SyntaxContexts, TLAPS

\* The construct is a parameter list that is being read.
InHead(f) == f.takes = "parameters"

\* Two frames of the same construct.
Alike(f, g) ==
    /\ f.form = g.form
    /\ f.async = g.async
    /\ f.generator = g.generator
    /\ f.label = g.label
    /\ f.ctx = g.ctx

\* ... in the same state, but for the statements still to come.
Kept(f, g) ==
    /\ Alike(f, g)
    /\ InHead(f) <=> InHead(g)
    /\ f.status = g.status
    /\ f.past = g.past

(* How the frames of s refer to their contexts. *)
Shape(s) ==
    /\ s \in Seq(Frames)
    /\ Len(s) >= 1
    /\ s[1].form = "program"
    /\ \A i \in 1 .. Len(s) :
        /\ s[i].form = "program" => i = 1
        /\ s[i].ctx \in 1 .. i
        /\ s[i].ctx = i <=> s[i].form \notin StatementForms
        /\ s[i].label # NoLabel <=> s[i].form = "label"
        /\ s[i].form \in StatementForms => s[i].ctx = s[i - 1].ctx
        /\ InHead(s[i]) =>
              i = Len(s) /\ s[i].form \in FunctionForms \ {"arrow"}
        /\ \A j \in s[i].ctx .. i : s[j].ctx = s[i].ctx

(* What the flags of loops and switches in context c stand for. *)
JumpFlagsAt(s, c) ==
    /\ "IN_ITERATION" \in s[c].status =>
          \/ "loop" \in s[c].past
          \/ \E i \in 1 .. Len(s) : s[i].form = "loop" /\ s[i].ctx = c
    /\ "IN_SWITCH" \in s[c].status =>
          \/ "switch" \in s[c].past
          \/ \E i \in 1 .. Len(s) : s[i].form = "switch" /\ s[i].ctx = c
    /\ \A i \in 1 .. Len(s) : s[i].ctx = c =>
          /\ s[i].form = "loop" => "IN_ITERATION" \in s[c].status
          /\ s[i].form = "switch" => "IN_SWITCH" \in s[c].status

JumpFlags(s) ==
    \A c \in 1 .. Len(s) : s[c].ctx = c => JumpFlagsAt(s, c)

(* ... those of async functions and generators ... *)
BodyFlagsOf(f) ==
    LET function == f.form \in FunctionForms
    IN  /\ "ASYNC_FUNCTION" \in f.status =>
              "async" \in f.past \/ (function /\ f.async)
        /\ function /\ f.async =>
              /\ "ASYNC_FUNCTION" \in f.status
              /\ ~InHead(f) => "DISALLOW_AWAIT" \notin f.status
        /\ "ALLOW_YIELD" \in f.status <=>
              function /\ f.generator /\ ~InHead(f)

BodyFlags(s) ==
    \A c \in 1 .. Len(s) : s[c].ctx = c => BodyFlagsOf(s[c])

\* A construct of s of these forms is still seen from c.
Seen(s, c, forms, hidden) ==
    \E i \in 1 .. c :
        /\ s[i].form \in forms
        /\ \A j \in i + 1 .. c : s[j].form \notin hidden

HidesSuper == (FunctionForms \ {"arrow"}) \cup {"label"}

(* ... and those a function hands to the functions inside it. *)
FunctionFlagsAt(s, c) ==
    /\ "ALLOW_SUPER" \in s[c].status <=>
          Seen(s, c, {"method", "constructor"}, HidesSuper)
    /\ "ALLOW_SUPER_CALL" \in s[c].status <=>
          Seen(s, c, {"constructor"}, HidesSuper)
    /\ "ALLOW_NEW_TARGET" \in s[c].status <=>
          Seen(s, c, FunctionForms \ {"arrow"}, {})
    /\ "FUNCTION" \in s[c].status <=> Seen(s, c, FunctionForms, {})

FunctionFlags(s) ==
    \A c \in 1 .. Len(s) : s[c].ctx = c => FunctionFlagsAt(s, c)

ReadHere == ~read.ended => read.flags = Now

Inv ==
    /\ typescript \in BOOLEAN
    /\ read \in [flags : SUBSET LexerFlags, ended : BOOLEAN]
    /\ Shape(open)
    /\ Len(open) <= MaxDepth
    /\ JumpFlags(open)
    /\ BodyFlags(open)
    /\ FunctionFlags(open)
    /\ ReadHere

-----------------------------------------------------------------------------
(* What the shape says of the innermost context.                           *)

LEMMA FormsApart ==
    /\ "program" \notin FunctionForms \cup StatementForms
    /\ "label" \notin FunctionForms \cup StatementForms
    /\ FunctionForms \cap StatementForms = {}
    /\ {"loop", "switch"} \subseteq StatementForms
BY DEF FunctionForms, StatementForms

\* Everything after the innermost context is a statement of that context.
LEMMA InnermostContext ==
    ASSUME Shape(open)
    PROVE  /\ Top.ctx \in 1 .. Len(open)
           /\ open[Top.ctx].ctx = Top.ctx
           /\ open[Top.ctx].form \notin StatementForms
           /\ \A j \in Top.ctx .. Len(open) : open[j].ctx = Top.ctx
           /\ \A j \in Top.ctx + 1 .. Len(open) :
                open[j].form \in StatementForms
<1> DEFINE n == Len(open)
           c == open[n].ctx
<1>1. n \in Nat /\ n \in 1 .. n
  BY DEF Shape
<1>2. c \in 1 .. n /\ \A j \in c .. n : open[j].ctx = c
  BY <1>1 DEF Shape
<1>3. open[c].ctx = c
  BY <1>1, <1>2
<1>4. open[c].form \notin StatementForms
  BY <1>2, <1>3 DEF Shape
<1>5. ASSUME NEW j \in c + 1 .. n
      PROVE  open[j].form \in StatementForms
  <2>1. j \in 1 .. n /\ open[j].ctx = c /\ c # j
    BY <1>1, <1>2
  <2> QED BY <2>1 DEF Shape
<1> QED BY <1>2, <1>3, <1>4, <1>5 DEF Top

\* A context is that of the program, a function or a label.
LEMMA ContextForms ==
    ASSUME Shape(open), NEW i \in 1 .. Len(open)
    PROVE  /\ open[i] \in Frames
           /\ HasContext(i) <=> open[i].form \notin StatementForms
           /\ open[i].form \in FunctionForms \cup StatementForms
                                \cup {"program", "label"}
<1>1. open[i] \in Frames
  BY DEF Shape
<1>2. HasContext(i) <=> open[i].form \notin StatementForms
  BY DEF Shape, HasContext
<1> QED BY <1>1, <1>2 DEF Frames

\* The function a place belongs to is the innermost context, or else that
\* context is a label or the program.
LEMMA HomeFunction ==
    ASSUME Shape(open),
           NEW i \in 1 .. Len(open), IsFunction(i), SameFunction(i)
    PROVE  open[Top.ctx].form = "label" \/ i = Top.ctx
<1> DEFINE n == Len(open)
           c == Top.ctx
<1>1. n \in Nat /\ c \in 1 .. n /\ open[c].form \notin StatementForms
  BY InnermostContext DEF Shape
<1>2. ~(i > c)
  BY <1>1, InnermostContext, FormsApart DEF IsFunction
<1>3. CASE i < c
  <2>1. c \in i + 1 .. n
    BY <1>1, <1>3
  <2>2. open[c].form \notin FunctionForms
    BY <2>1 DEF SameFunction, IsFunction
  <2>3. open[c].form # "program"
    BY <1>1, <1>3 DEF Shape
  <2> QED BY <1>1, <2>2, <2>3, ContextForms
<1> QED BY <1>1, <1>2, <1>3

\* A loop or a switch of this function belongs to the innermost context or
\* stands around the label that made it.
LEMMA TargetContext ==
    ASSUME Shape(open),
           NEW i \in 1 .. Len(open), SameFunction(i),
           open[i].form \in StatementForms
    PROVE  open[i].ctx = Top.ctx \/ UnderLabel
<1> DEFINE n == Len(open)
           c == Top.ctx
<1>1. n \in Nat /\ c \in 1 .. n /\ open[c].form \notin StatementForms
  BY InnermostContext DEF Shape
<1>2. CASE i >= c
  <2>1. i \in c .. n
    BY <1>1, <1>2
  <2> QED BY <2>1, InnermostContext
<1>3. CASE i < c
  <2>1. c \in i + 1 .. n
    BY <1>1, <1>3
  <2>2. open[c].form \notin FunctionForms
    BY <2>1 DEF SameFunction, IsFunction
  <2>3. open[c].form # "program"
    BY <1>1, <1>3 DEF Shape
  <2>4. open[c].form = "label"
    BY <1>1, <2>2, <2>3, ContextForms
  <2> QED BY <2>4 DEF UnderLabel, Context
<1> QED BY <1>1, <1>2, <1>3

-----------------------------------------------------------------------------
(* The properties follow from the invariant.                               *)

LEMMA InvYield ==
    ASSUME Inv
    PROVE  YieldFollowsFunction
<1> DEFINE n == Len(open)
           c == Top.ctx
<1>1. Shape(open) /\ BodyFlags(open)
  BY DEF Inv
<1>2. /\ c \in 1 .. n
      /\ open[c].ctx = c
      /\ open[c].form \notin StatementForms
      /\ \A j \in c + 1 .. n : open[j].form \in StatementForms
  BY <1>1, InnermostContext
<1>3. n \in Nat /\ open[n].ctx = c /\ n \in 1 .. n
  BY <1>1 DEF Shape, Top
<1>4. InParameters <=> InHead(open[c]) /\ c = n
  <2>1. InParameters => n = c
    BY <1>1, <1>2, <1>3, FormsApart DEF Shape, InParameters, InHead, Top
  <2> QED BY <1>1, <1>3, <2>1 DEF InParameters, InHead, Top
<1>5. InHead(open[c]) => c = n
  BY <1>1, <1>2 DEF Shape
<1>6. YieldIs(Now) = "keyword" <=> "ALLOW_YIELD" \in open[c].status
  BY DEF YieldIs, Now, Status, Context, LexerFlags
<1>7. "ALLOW_YIELD" \in open[c].status <=>
        /\ open[c].form \in FunctionForms
        /\ open[c].generator
        /\ ~InHead(open[c])
  BY <1>1, <1>2 DEF BodyFlags, BodyFlagsOf
<1>8. ASSUME open[c].form \in FunctionForms, open[c].generator
      PROVE  InGenerator /\ ~UnderLabel
  <2>1. IsFunction(c) /\ SameFunction(c)
    BY <1>2, <1>8, FormsApart DEF IsFunction, SameFunction
  <2> QED BY <1>2, <1>8, <2>1, FormsApart
          DEF InGenerator, UnderLabel, Context
<1>9. ASSUME InGenerator, ~UnderLabel
      PROVE  open[c].form \in FunctionForms /\ open[c].generator
  <2>1. PICK i \in 1 .. n :
          IsFunction(i) /\ SameFunction(i) /\ open[i].generator
    BY <1>9 DEF InGenerator
  <2>2. i = c
    BY <1>1, <1>9, <2>1, HomeFunction DEF UnderLabel, Context
  <2> QED BY <2>1, <2>2 DEF IsFunction
<1> QED BY <1>4, <1>5, <1>6, <1>7, <1>8, <1>9 DEF YieldFollowsFunction

LEMMA InvAwait ==
    ASSUME Inv
    PROVE  AwaitFollowsFunction
<1> DEFINE n == Len(open)
           c == Top.ctx
           function == open[c].form \in FunctionForms
<1>1. Shape(open) /\ BodyFlags(open)
  BY DEF Inv
<1>2. /\ c \in 1 .. n
      /\ open[c].ctx = c
      /\ \A j \in c + 1 .. n : open[j].form \in StatementForms
  BY <1>1, InnermostContext
<1>3. n \in Nat /\ open[n].ctx = c /\ n \in 1 .. n
  BY <1>1 DEF Shape, Top
<1>4. InHead(open[c]) => InParameters
  BY <1>1, <1>2 DEF Shape, InParameters, InHead, Top
<1>5. InParameters => InHead(open[c])
  BY <1>1, <1>2, <1>3, FormsApart DEF Shape, InParameters, InHead, Top
<1>6. /\ AwaitIs(Now) # "identifier" <=>
           "ASYNC_FUNCTION" \in open[c].status
      /\ AwaitIs(Now) = "refused" =>
           "DISALLOW_AWAIT" \in open[c].status
      /\ AwaitIs(Now) = "keyword" <=>
           /\ "ASYNC_FUNCTION" \in open[c].status
           /\ "DISALLOW_AWAIT" \notin open[c].status
  BY DEF AwaitIs, Now, Status, Context, LexerFlags
<1>7. /\ "ASYNC_FUNCTION" \in open[c].status =>
           "async" \in open[c].past \/ (function /\ open[c].async)
      /\ function /\ open[c].async /\ ~InHead(open[c]) =>
           /\ "ASYNC_FUNCTION" \in open[c].status
           /\ "DISALLOW_AWAIT" \notin open[c].status
  BY <1>1, <1>2 DEF BodyFlags, BodyFlagsOf
<1>8. ASSUME function, open[c].async
      PROVE  InAsync
  <2>1. IsFunction(c) /\ SameFunction(c)
    BY <1>2, <1>8, FormsApart DEF IsFunction, SameFunction
  <2> QED BY <1>2, <1>8, <2>1 DEF InAsync
<1>9. ASSUME InAsync, ~UnderLabel
      PROVE  function /\ open[c].async
  <2>1. PICK i \in 1 .. n :
          IsFunction(i) /\ SameFunction(i) /\ open[i].async
    BY <1>9 DEF InAsync
  <2>2. i = c
    BY <1>1, <1>9, <2>1, HomeFunction DEF UnderLabel, Context
  <2> QED BY <2>1, <2>2 DEF IsFunction
<1>10. AwaitIs(Now) = "keyword" => InAsync \/ "async" \in Context.past
  BY <1>6, <1>7, <1>8 DEF Context
<1>11. InAsync /\ ~InParameters /\ ~UnderLabel => AwaitIs(Now) = "keyword"
  BY <1>4, <1>6, <1>7, <1>9
<1>12. AwaitIs(Now) = "refused" =>
         (InAsync /\ InParameters) \/ "async" \in Context.past
  BY <1>4, <1>6, <1>7, <1>8 DEF Context
<1> QED BY <1>10, <1>11, <1>12 DEF AwaitFollowsFunction

LEMMA InvRead ==
    ASSUME Inv
    PROVE  TokenReadInItsContext
BY DEF Inv, ReadHere, TokenReadInItsContext

\* The frames around here, seen from the innermost context and from here.
LEMMA SeenFromHere ==
    ASSUME Shape(open), NEW i \in 1 .. Top.ctx,
           NEW hidden \in SUBSET (FunctionForms \cup {"label"})
    PROVE  (\A j \in i + 1 .. Top.ctx : open[j].form \notin hidden) <=>
           (\A j \in i + 1 .. Len(open) : open[j].form \notin hidden)
<1> DEFINE n == Len(open)
           c == Top.ctx
<1>1. /\ c \in 1 .. n
      /\ \A j \in c + 1 .. n : open[j].form \in StatementForms
  BY InnermostContext
<1>2. n \in Nat
  BY DEF Shape
<1>3. \A j \in c + 1 .. n : open[j].form \notin hidden
  BY <1>1, FormsApart
<1> QED BY <1>1, <1>2, <1>3

LEMMA InvSuper ==
    ASSUME Inv
    PROVE  SuperFollowsMethod
<1> DEFINE n == Len(open)
           c == Top.ctx
           hidden == HidesSuper
           Reached(forms) ==
             \E i \in Within(forms) :
                \A j \in i .. n : open[j].form # "label"
<1>1. Shape(open) /\ FunctionFlags(open)
  BY DEF Inv
<1>2. /\ c \in 1 .. n
      /\ open[c].ctx = c
      /\ \A j \in c + 1 .. n : open[j].form \in StatementForms
  BY <1>1, InnermostContext
<1>3. n \in Nat
  BY <1>1 DEF Shape
<1>4. ASSUME NEW forms \in SUBSET FunctionForms
      PROVE  Reached(forms) <=> Seen(open, c, forms, HidesSuper)
  <2>1. ASSUME NEW i \in Within(forms),
               \A j \in i .. n : open[j].form # "label"
        PROVE  Seen(open, c, forms, HidesSuper)
    <3>1. /\ i \in 1 .. n
          /\ open[i].form \in forms
          /\ \A j \in i + 1 .. n : open[j].form \notin hidden
      BY <1>3, <2>1 DEF Within, IsFunction, HidesSuper
    <3>2. i <= c
      BY <1>2, <1>3, <3>1, FormsApart
    <3>3. i \in 1 .. c /\ i + 1 .. c \subseteq i + 1 .. n
      BY <1>2, <1>3, <3>1, <3>2
    <3> QED BY <3>1, <3>3 DEF Seen
  <2>2. ASSUME NEW i \in 1 .. c, open[i].form \in forms,
               \A j \in i + 1 .. c : open[j].form \notin hidden
        PROVE  /\ i \in Within(forms)
               /\ \A j \in i .. n : open[j].form # "label"
    <3>1. i \in 1 .. n
      BY <1>2, <1>3
    <3>2. \A j \in i + 1 .. n : open[j].form \notin hidden
      BY <1>1, <2>2, SeenFromHere DEF HidesSuper
    <3>3. open[i].form \in forms
      BY <2>2
    <3>4. i \in Within(forms)
      BY <3>1, <3>2, <3>3 DEF Within, IsFunction, HidesSuper
    <3>5. \A j \in i .. n : j = i \/ j \in i + 1 .. n
      BY <1>3, <3>1
    <3> QED BY <3>2, <3>3, <3>4, <3>5, FormsApart DEF HidesSuper
  <2> QED BY <2>1, <2>2 DEF Seen
<1>5. {"method", "constructor"} \subseteq FunctionForms
  BY DEF FunctionForms
<1>6. /\ SuperAccepted <=> "ALLOW_SUPER" \in open[c].status
      /\ SuperCallAccepted <=> "ALLOW_SUPER_CALL" \in open[c].status
      /\ NewTargetAccepted <=> "ALLOW_NEW_TARGET" \in open[c].status
      /\ ReturnAccepted <=> "FUNCTION" \in open[c].status
  BY DEF SuperAccepted, SuperCallAccepted, NewTargetAccepted,
         ReturnAccepted, Status, Context
<1>7. SuperAccepted <=> Reached({"method", "constructor"})
  BY <1>1, <1>2, <1>4, <1>5, <1>6 DEF FunctionFlags, FunctionFlagsAt
<1>8. SuperCallAccepted <=> Reached({"constructor"})
  BY <1>1, <1>2, <1>4, <1>5, <1>6 DEF FunctionFlags, FunctionFlagsAt
<1>9. NewTargetAccepted <=>
        \E i \in 1 .. n : IsFunction(i) /\ open[i].form # "arrow"
  <2>1. NewTargetAccepted <=>
          \E i \in 1 .. c : open[i].form \in FunctionForms \ {"arrow"}
    BY <1>1, <1>2, <1>6 DEF FunctionFlags, FunctionFlagsAt, Seen
  <2>2. \A i \in 1 .. n :
          open[i].form \in FunctionForms => i \in 1 .. c
    BY <1>2, <1>3, FormsApart
  <2>3. 1 .. c \subseteq 1 .. n
    BY <1>2, <1>3
  <2> QED BY <2>1, <2>2, <2>3 DEF IsFunction
<1>10. ReturnAccepted <=> \E i \in 1 .. n : IsFunction(i)
  <2>1. ReturnAccepted <=>
          \E i \in 1 .. c : open[i].form \in FunctionForms
    BY <1>1, <1>2, <1>6 DEF FunctionFlags, FunctionFlagsAt, Seen
  <2>2. \A i \in 1 .. n :
          open[i].form \in FunctionForms => i \in 1 .. c
    BY <1>2, <1>3, FormsApart
  <2>3. 1 .. c \subseteq 1 .. n
    BY <1>2, <1>3
  <2> QED BY <2>1, <2>2, <2>3 DEF IsFunction
<1> QED BY <1>7, <1>8, <1>9, <1>10 DEF SuperFollowsMethod

\* FindLabel finds the labels of this function.
LEMMA LabelsFound ==
    ASSUME Shape(open), NEW l \in Labels
    PROVE  /\ \A i \in FindLabel(l) :
                /\ i \in 1 .. Len(open)
                /\ open[i].ctx = i
                /\ open[i].label = l
                /\ SameFunction(i)
           /\ \A i \in 1 .. Len(open) :
                open[i].label = l /\ SameFunction(i) => i \in FindLabel(l)
<1> DEFINE n == Len(open)
<1>1. n \in Nat /\ l # NoLabel
  BY NestingAssumption DEF Shape
<1>2. ASSUME NEW i \in FindLabel(l)
      PROVE  /\ i \in 1 .. n
             /\ open[i].ctx = i
             /\ open[i].label = l
             /\ SameFunction(i)
  <2>1. /\ i \in 1 .. n
        /\ open[i].ctx = i
        /\ open[i].label = l
        /\ \A j \in i .. n : HasContext(j) => open[j].label # NoLabel
    BY DEF FindLabel, HasContext
  <2>2. ASSUME NEW j \in i + 1 .. n
        PROVE  ~IsFunction(j)
    <3>1. j \in 1 .. n /\ j \in i .. n
      BY <1>1, <2>1
    <3>2. HasContext(j) => open[j].form = "label"
      BY <2>1, <3>1 DEF Shape
    <3> QED BY <3>1, <3>2, ContextForms, FormsApart DEF IsFunction
  <2> QED BY <2>1, <2>2 DEF SameFunction
<1>3. ASSUME NEW i \in 1 .. n, open[i].label = l, SameFunction(i)
      PROVE  i \in FindLabel(l)
  <2>1. open[i].form = "label"
    BY <1>1, <1>3 DEF Shape
  <2>2. HasContext(i)
    BY <2>1, ContextForms, FormsApart
  <2>3. ASSUME NEW j \in i .. n, HasContext(j)
        PROVE  open[j].label # NoLabel
    <3>1. CASE j = i
      BY <1>1, <1>3, <3>1
    <3>2. CASE j # i
      <4>1. j \in i + 1 .. n /\ j \in 1 .. n /\ j # 1
        BY <1>1, <3>2
      <4>2. open[j].form \notin FunctionForms
        BY <4>1, <1>3 DEF SameFunction, IsFunction
      <4>3. open[j].form # "program"
        BY <4>1 DEF Shape
      <4>4. open[j].form = "label"
        BY <2>3, <4>1, <4>2, <4>3, ContextForms
      <4> QED BY <4>1, <4>4 DEF Shape
    <3> QED BY <3>1, <3>2
  <2> QED BY <1>3, <2>2, <2>3 DEF FindLabel
<1> QED BY <1>2, <1>3

\* A loop or a switch of the innermost context is in this function, and its
\* flag is set.
LEMMA InnermostJumps ==
    ASSUME Inv, NEW i \in 1 .. Len(open), open[i].ctx = Top.ctx
    PROVE  /\ i \in Top.ctx .. Len(open)
           /\ open[i].form \in StatementForms => SameFunction(i)
           /\ open[i].form = "loop" => "IN_ITERATION" \in Status
           /\ open[i].form = "switch" => "IN_SWITCH" \in Status
<1> DEFINE n == Len(open)
           c == Top.ctx
<1>1. Shape(open) /\ JumpFlags(open)
  BY DEF Inv
<1>2. /\ c \in 1 .. n
      /\ open[c].ctx = c
      /\ \A j \in c + 1 .. n : open[j].form \in StatementForms
  BY <1>1, InnermostContext
<1>3. n \in Nat
  BY <1>1 DEF Shape
<1>4. c <= i
  BY <1>1 DEF Shape
<1>5. i \in c .. n
  BY <1>2, <1>3, <1>4
<1>6. SameFunction(i)
  <2>1. ASSUME NEW j \in i + 1 .. n
        PROVE  open[j].form \in StatementForms
    BY <1>2, <1>3, <1>5
  <2> QED BY <2>1, FormsApart DEF SameFunction, IsFunction
<1>7. /\ open[i].form = "loop" => "IN_ITERATION" \in Status
      /\ open[i].form = "switch" => "IN_SWITCH" \in Status
  BY <1>1, <1>2 DEF JumpFlags, JumpFlagsAt, Status, Context
<1> QED BY <1>5, <1>6, <1>7

LEMMA InvTargets ==
    ASSUME Inv
    PROVE  JumpsHaveTargets
<1> DEFINE n == Len(open)
           c == Top.ctx
<1>1. Shape(open) /\ JumpFlags(open)
  BY DEF Inv
<1>2. n \in Nat /\ c \in 1 .. n /\ open[c].ctx = c
  BY <1>1, InnermostContext DEF Shape
<1>3. /\ "IN_ITERATION" \in Status =>
           \/ "loop" \in Context.past
           \/ \E i \in 1 .. n : open[i].form = "loop" /\ open[i].ctx = c
      /\ "IN_SWITCH" \in Status =>
           \/ "switch" \in Context.past
           \/ \E i \in 1 .. n : open[i].form = "switch" /\ open[i].ctx = c
  BY <1>1, <1>2 DEF JumpFlags, JumpFlagsAt, Status, Context
<1>4. ASSUME NEW i \in 1 .. n, open[i].ctx = c,
             open[i].form \in {"loop", "switch"}
      PROVE  /\ BreakTarget(NoLabel)
             /\ open[i].form = "loop" => ContinueTarget(NoLabel)
  <2>1. SameFunction(i)
    BY <1>4, InnermostJumps, FormsApart
  <2> QED BY <1>4, <2>1 DEF BreakTarget, ContinueTarget
<1>5. BreakAccepted(NoLabel) =>
        BreakTarget(NoLabel) \/ Context.past \cap {"loop", "switch"} # {}
  BY <1>3, <1>4 DEF BreakAccepted, AllowBreak
<1>6. ContinueAccepted(NoLabel) =>
        ContinueTarget(NoLabel) \/ "loop" \in Context.past
  BY <1>3, <1>4 DEF ContinueAccepted
<1>7. ASSUME NEW l \in Labels, BreakAccepted(l)
      PROVE  BreakTarget(l)
  <2>1. l # NoLabel
    BY NestingAssumption
  <2>2. PICK i \in FindLabel(l) : TRUE
    BY <1>7, <2>1 DEF BreakAccepted
  <2> QED BY <1>1, <2>1, <2>2, LabelsFound DEF BreakTarget
<1>8. ASSUME NEW l \in Labels, ContinueAccepted(l)
      PROVE  \E k \in 1 .. n :
                /\ open[k].label = l
                /\ SameFunction(k)
                /\ \/ "loop" \in open[k].past
                   \/ \E i \in k .. n :
                        open[i].form = "loop" /\ open[i].ctx = k
  <2>1. l # NoLabel
    BY NestingAssumption
  <2>2. PICK k \in FindLabel(l) : "IN_ITERATION" \in open[k].status
    BY <1>8, <2>1 DEF ContinueAccepted
  <2>3. /\ k \in 1 .. n
        /\ open[k].ctx = k
        /\ open[k].label = l
        /\ SameFunction(k)
    BY <1>1, LabelsFound
  <2>4. \/ "loop" \in open[k].past
        \/ \E i \in 1 .. n : open[i].form = "loop" /\ open[i].ctx = k
    BY <1>1, <2>2, <2>3 DEF JumpFlags, JumpFlagsAt
  <2>5. ASSUME NEW i \in 1 .. n, open[i].ctx = k
        PROVE  i \in k .. n
    <3>1. open[i].ctx \in 1 .. i
      BY <1>1 DEF Shape
    <3> QED BY <1>2, <2>3, <2>5, <3>1
  <2> QED BY <2>3, <2>4, <2>5
<1> QED BY <1>5, <1>6, <1>7, <1>8 DEF JumpsHaveTargets

LEMMA InvLegal ==
    ASSUME Inv
    PROVE  LegalJumpsAccepted
<1> DEFINE n == Len(open)
           c == Top.ctx
           NoLoopSince == \A i \in c .. n : open[i].form # "loop"
<1>1. Shape(open) /\ JumpFlags(open)
  BY DEF Inv
<1>2. n \in Nat /\ c \in 1 .. n /\ open[c].ctx = c
  BY <1>1, InnermostContext DEF Shape
<1>3. \A i \in c .. n : i \in 1 .. n /\ open[i].ctx = c
  BY <1>1, <1>2, InnermostContext
<1>4. "IN_ITERATION" \notin Status => NoLoopSince
  BY <1>3, InnermostJumps
<1>5. ~AllowBreak => NothingSince
  <2>1. ASSUME ~AllowBreak, NEW i \in c .. n
        PROVE  open[i].form \notin {"loop", "switch"}
    BY <1>3, <2>1, InnermostJumps DEF AllowBreak
  <2> QED BY <2>1 DEF NothingSince
<1>6. ASSUME BreakTarget(NoLabel), ~BreakAccepted(NoLabel)
      PROVE  UnderLabel /\ NothingSince
  <2>1. PICK i \in 1 .. n :
          SameFunction(i) /\ open[i].form \in {"loop", "switch"}
    BY <1>6 DEF BreakTarget
  <2>2. ~AllowBreak
    BY <1>6 DEF BreakAccepted
  <2>3. open[i].ctx # c
    BY <2>1, <2>2, InnermostJumps DEF AllowBreak
  <2> QED BY <1>1, <1>5, <2>1, <2>2, <2>3, TargetContext, FormsApart
<1>7. ASSUME ContinueTarget(NoLabel), ~ContinueAccepted(NoLabel)
      PROVE  UnderLabel /\ NoLoopSince
  <2>1. PICK i \in 1 .. n : SameFunction(i) /\ open[i].form = "loop"
    BY <1>7 DEF ContinueTarget
  <2>2. "IN_ITERATION" \notin Status
    BY <1>7 DEF ContinueAccepted
  <2>3. open[i].ctx # c
    BY <2>1, <2>2, InnermostJumps
  <2> QED BY <1>1, <1>4, <2>1, <2>2, <2>3, TargetContext, FormsApart
<1>8. ASSUME NEW l \in Labels, BreakTarget(l), ~BreakAccepted(l)
      PROVE  typescript /\ ReturnAccepted /\ NothingSince
  <2>1. l # NoLabel
    BY NestingAssumption
  <2>2. FindLabel(l) # {}
    BY <1>1, <1>8, <2>1, LabelsFound DEF BreakTarget
  <2>3. typescript /\ "FUNCTION" \in Status /\ ~AllowBreak
    BY <1>8, <2>1, <2>2 DEF BreakAccepted
  <2> QED BY <1>5, <2>3 DEF ReturnAccepted
<1>9. ASSUME NEW l \in Labels, ContinueTarget(l), ~ContinueAccepted(l)
      PROVE  \/ NoLoopSince
             \/ \E k \in 1 .. n - 1 :
                  open[k].label = l /\ open[k + 1].form = "label"
  <2>1. l # NoLabel
    BY NestingAssumption
  <2>2. PICK i \in 1 .. n :
          /\ SameFunction(i)
          /\ open[i].form = "loop"
          /\ \E k \in 1 .. i :
                /\ open[k].label = l
                /\ \A m \in k .. i - 1 : open[m].form = "label"
    BY <1>9, <2>1 DEF ContinueTarget
  <2>3. PICK k \in 1 .. i :
          /\ open[k].label = l
          /\ \A m \in k .. i - 1 : open[m].form = "label"
    BY <2>2
  <2>4. k # i /\ k \in 1 .. n /\ k \in 1 .. i - 1
    <3>1. open[i].label = NoLabel
      BY <1>1, <2>2 DEF Shape
    <3> QED BY <1>2, <2>1, <2>3, <3>1
  <2>5. SameFunction(k)
    <3>1. ASSUME NEW j \in k + 1 .. n
          PROVE  open[j].form \notin FunctionForms
      <4>1. CASE j < i
        <5>1. j \in k .. i - 1
          BY <1>2, <2>4, <4>1
        <5> QED BY <2>3, <5>1, FormsApart
      <4>2. CASE j = i
        BY <2>2, <4>2, FormsApart
      <4>3. CASE j > i
        <5>1. j \in i + 1 .. n
          BY <1>2, <4>3
        <5> QED BY <2>2, <5>1 DEF SameFunction, IsFunction
      <4> QED BY <1>2, <2>4, <4>1, <4>2, <4>3
    <3> QED BY <3>1 DEF SameFunction, IsFunction
  <2>6. k \in FindLabel(l)
    BY <1>1, <2>3, <2>4, <2>5, LabelsFound
  <2>7. CASE "IN_ITERATION" \notin Status
    BY <1>4, <2>7
  <2>8. CASE "IN_ITERATION" \notin open[k].status
    <3>1. open[k].ctx = k
      BY <1>1, <2>6, LabelsFound
    <3>2. open[i].ctx # k
      BY <1>1, <2>2, <2>4, <2>8, <3>1 DEF JumpFlags, JumpFlagsAt
    <3>3. open[i].ctx = open[i - 1].ctx
      BY <1>1, <2>2, FormsApart DEF Shape
    <3>4. k # i - 1
      BY <3>1, <3>2, <3>3
    <3>5. k + 1 \in k .. i - 1 /\ k \in 1 .. n - 1
      BY <1>2, <2>4, <3>4
    <3> QED BY <2>3, <3>5
  <2> QED BY <1>9, <2>1, <2>6, <2>7, <2>8 DEF ContinueAccepted
<1> QED BY <1>6, <1>7, <1>8, <1>9 DEF LegalJumpsAccepted

-----------------------------------------------------------------------------
(* The changes of the stack of frames that the steps are made of.          *)

\* The destructor of SavedStatusContext changes nothing: this is the fault
\* behind JumpsHaveTargets.
LEMMA RestoredNothing ==
    ASSUME NEW status, NEW saved
    PROVE  status \in SUBSET Flags => Restored(status, saved) = status
BY DEF Restored

LEMMA FilledKeeps ==
    ASSUME NEW s \in Seq(Frames), Len(s) >= 1
    PROVE  /\ Filled(s) \in Seq(Frames)
           /\ Len(Filled(s)) = Len(s)
           /\ \A i \in 1 .. Len(s) : Kept(Filled(s)[i], s[i])
<1> DEFINE n == Len(s)
<1>1. n \in Nat /\ n \in 1 .. n /\ s[n] \in Frames
  OBVIOUS
<1>2. CASE s[n].takes # "one"
  BY <1>1, <1>2 DEF Filled, Kept, Alike
<1>3. CASE s[n].takes = "one"
  <2> DEFINE f == [s[n] EXCEPT !.takes = "none"]
  <2>1. Filled(s) = [s EXCEPT ![n] = f]
    BY <1>3 DEF Filled
  <2>2. f \in Frames /\ Kept(f, s[n])
    BY <1>1, <1>3 DEF Frames, Kept, Alike, InHead
  <2> HIDE DEF f
  <2>3. [s EXCEPT ![n] = f] \in Seq(Frames)
    BY <1>1, <2>2
  <2>4. Len([s EXCEPT ![n] = f]) = n
    BY <1>1, <2>2
  <2>5. \A i \in 1 .. n : Kept([s EXCEPT ![n] = f][i], s[i])
    <3>1. \A i \in 1 .. n : Kept(s[i], s[i])
      BY DEF Kept, Alike
    <3> QED BY <1>1, <2>2, <3>1
  <2> QED BY <2>1, <2>3, <2>4, <2>5
<1> QED BY <1>2, <1>3

\* s2 is s with changes to status and past of context c only.
Changed(s, s2, c, status, past) ==
    /\ s2 \in Seq(Frames)
    /\ Len(s2) = Len(s)
    /\ \A i \in 1 .. Len(s) :
        /\ Alike(s2[i], s[i])
        /\ InHead(s2[i]) <=> InHead(s[i])
        /\ s2[i].status = IF i = c THEN status ELSE s[i].status
        /\ s2[i].past = IF i = c THEN past ELSE s[i].past

LEMMA ChangedByOne ==
    ASSUME NEW s \in Seq(Frames), NEW c \in 1 .. Len(s),
           NEW t \in Seq(Frames), Len(t) = Len(s),
           \A i \in 1 .. Len(s) : Kept(t[i], s[i]),
           NEW status \in SUBSET Flags,
           NEW past \in SUBSET {"loop", "switch", "async"},
           NEW s2,
           s2 = [t EXCEPT ![c] = [t[c] EXCEPT !.status = status,
                                              !.past = past]]
    PROVE  Changed(s, s2, c, status, past)
<1> DEFINE f == [t[c] EXCEPT !.status = status, !.past = past]
<1>1. t[c] \in Frames /\ Len(s) \in Nat
  OBVIOUS
<1>2. f \in Frames
  BY <1>1 DEF Frames
<1>3. /\ Alike(f, t[c])
      /\ InHead(f) <=> InHead(t[c])
      /\ f.status = status
      /\ f.past = past
  BY <1>1 DEF Frames, Alike, InHead
<1> HIDE DEF f
<1>4. s2 = [t EXCEPT ![c] = f]
  BY DEF f
<1>5. s2 \in Seq(Frames) /\ Len(s2) = Len(s)
  BY <1>2, <1>4
<1>6. ASSUME NEW i \in 1 .. Len(s)
      PROVE  s2[i] = IF i = c THEN f ELSE t[i]
  BY <1>4
<1>7. ASSUME NEW i \in 1 .. Len(s)
      PROVE  /\ Alike(s2[i], s[i])
             /\ InHead(s2[i]) <=> InHead(s[i])
             /\ s2[i].status = IF i = c THEN status ELSE s[i].status
             /\ s2[i].past = IF i = c THEN past ELSE s[i].past
  BY <1>3, <1>6 DEF Kept, Alike
<1> QED BY <1>5, <1>7 DEF Changed

\* s3 is such a change with a frame more.
Grown(s, s3, f, c, status, past) ==
    /\ s3 \in Seq(Frames)
    /\ Len(s3) = Len(s) + 1
    /\ s3[Len(s) + 1] = f
    /\ \A i \in 1 .. Len(s) :
        /\ Alike(s3[i], s[i])
        /\ InHead(s3[i]) <=> InHead(s[i])
        /\ s3[i].status = IF i = c THEN status ELSE s[i].status
        /\ s3[i].past = IF i = c THEN past ELSE s[i].past

LEMMA GrownByOne ==
    ASSUME NEW s \in Seq(Frames), NEW c, NEW status, NEW past,
           NEW s2, Changed(s, s2, c, status, past),
           NEW f \in Frames
    PROVE  Grown(s, Append(s2, f), f, c, status, past)
<1>1. s2 \in Seq(Frames) /\ Len(s2) = Len(s)
  BY DEF Changed
<1>2. /\ Append(s2, f) \in Seq(Frames)
      /\ Len(Append(s2, f)) = Len(s) + 1
      /\ Append(s2, f)[Len(s) + 1] = f
      /\ \A i \in 1 .. Len(s) : Append(s2, f)[i] = s2[i]
  BY <1>1
<1> QED BY <1>2 DEF Grown, Changed

-----------------------------------------------------------------------------
(* The invariant over a frame more.                                        *)

LEMMA GrownShape ==
    ASSUME NEW s, Shape(s), NEW c, NEW status, NEW past,
           NEW s3, NEW f, Grown(s, s3, f, c, status, past),
           ~InHead(s[Len(s)]), f.form # "program",
           f.form \in StatementForms => f.ctx = s[Len(s)].ctx,
           f.form \notin StatementForms => f.ctx = Len(s) + 1,
           f.label # NoLabel <=> f.form = "label",
           InHead(f) => f.form \in FunctionForms \ {"arrow"}
    PROVE  Shape(s3)
<1> DEFINE n == Len(s)
<1>1. n \in Nat /\ n \in 1 .. n /\ 1 \in 1 .. n
  BY DEF Shape
<1>2. /\ s3 \in Seq(Frames)
      /\ Len(s3) = n + 1
      /\ s3[n + 1] = f
      /\ \A i \in 1 .. n : Alike(s3[i], s[i])
      /\ \A i \in 1 .. n : InHead(s3[i]) <=> InHead(s[i])
  BY DEF Grown
<1>3. \A i \in 1 .. n :
        /\ s3[i].form = s[i].form
        /\ s3[i].label = s[i].label
        /\ s3[i].ctx = s[i].ctx
  BY <1>2 DEF Alike
<1>4. \A i \in 1 .. n : ~InHead(s[i])
  BY DEF Shape
<1>5. s3[1].form = "program"
  BY <1>1, <1>3 DEF Shape
<1>6. ASSUME NEW i \in 1 .. n
      PROVE  /\ s3[i].form = "program" => i = 1
             /\ s3[i].ctx \in 1 .. i
             /\ s3[i].ctx = i <=> s3[i].form \notin StatementForms
             /\ s3[i].label # NoLabel <=> s3[i].form = "label"
             /\ s3[i].form \in StatementForms => s3[i].ctx = s3[i - 1].ctx
             /\ ~InHead(s3[i])
             /\ \A j \in s3[i].ctx .. i : s3[j].ctx = s3[i].ctx
  <2>1. /\ s3[i].form = "program" => i = 1
        /\ s3[i].ctx \in 1 .. i
        /\ s3[i].ctx = i <=> s3[i].form \notin StatementForms
        /\ s3[i].label # NoLabel <=> s3[i].form = "label"
        /\ ~InHead(s3[i])
    BY <1>2, <1>3, <1>4 DEF Shape
  <2>2. s3[i].form \in StatementForms => s3[i].ctx = s3[i - 1].ctx
    <3>1. s[1].form \notin StatementForms
      BY FormsApart DEF Shape
    <3>2. CASE i = 1
      BY <1>3, <3>1, <3>2
    <3>3. CASE i # 1
      <4>1. i - 1 \in 1 .. n
        BY <1>1, <3>3
      <4> QED BY <1>3, <4>1 DEF Shape
    <3> QED BY <3>2, <3>3
  <2>3. \A j \in s3[i].ctx .. i : s3[j].ctx = s3[i].ctx
    <3>1. \A j \in s3[i].ctx .. i : j \in 1 .. n
      BY <1>1, <2>1
    <3> QED BY <1>3, <3>1 DEF Shape
  <2> QED BY <2>1, <2>2, <2>3
<1>7. /\ f.ctx \in 1 .. n + 1
      /\ f.ctx = n + 1 <=> f.form \notin StatementForms
      /\ \A j \in f.ctx .. n + 1 : s3[j].ctx = f.ctx
  <2>1. CASE f.form \notin StatementForms
    BY <1>1, <1>2, <2>1
  <2>2. CASE f.form \in StatementForms
    <3>1. f.ctx \in 1 .. n
      BY <1>1, <2>2 DEF Shape
    <3>2. \A j \in f.ctx .. n : s[j].ctx = f.ctx
      BY <1>1, <2>2 DEF Shape
    <3>3. \A j \in f.ctx .. n : j \in 1 .. n
      BY <1>1, <3>1
    <3>4. \A j \in f.ctx .. n + 1 : j \in f.ctx .. n \/ j = n + 1
      BY <1>1, <3>1
    <3> QED BY <1>1, <1>2, <1>3, <2>2, <3>1, <3>2, <3>3, <3>4
  <2> QED BY <2>1, <2>2
<1>8. f.form \in StatementForms => f.ctx = s3[n].ctx
  BY <1>1, <1>3
<1>9. \A i \in 1 .. n + 1 : i \in 1 .. n \/ i = n + 1
  BY <1>1
<1> QED BY <1>1, <1>2, <1>5, <1>6, <1>7, <1>8, <1>9 DEF Shape

LEMMA SeenBelow ==
    ASSUME NEW s, NEW s3, NEW c \in Nat, NEW forms, NEW hidden,
           \A i \in 1 .. c : s3[i].form = s[i].form
    PROVE  Seen(s3, c, forms, hidden) <=> Seen(s, c, forms, hidden)
<1>1. \A i \in 1 .. c : \A j \in i + 1 .. c : j \in 1 .. c
  OBVIOUS
<1> QED BY <1>1 DEF Seen

\* Statements hide nothing: a new context sees what the last one saw.
LEMMA SeenFromNew ==
    ASSUME NEW s, Shape(s), NEW s3,
           \A i \in 1 .. Len(s) : s3[i].form = s[i].form,
           NEW forms \in SUBSET FunctionForms,
           NEW hidden \in SUBSET (FunctionForms \cup {"label"})
    PROVE  Seen(s3, Len(s) + 1, forms, hidden) <=>
              \/ s3[Len(s) + 1].form \in forms
              \/ /\ s3[Len(s) + 1].form \notin hidden
                 /\ Seen(s, s[Len(s)].ctx, forms, hidden)
<1> DEFINE n == Len(s)
           c == s[n].ctx
<1>1. n \in Nat /\ n \in 1 .. n /\ c \in 1 .. n
  BY DEF Shape
<1>2. ASSUME NEW j \in c + 1 .. n
      PROVE  j \in 1 .. n /\ s[j].form \in StatementForms
  <2>1. j \in 1 .. n /\ j \in c .. n
    BY <1>1
  <2>2. s[j].ctx = c
    BY <1>1, <2>1 DEF Shape
  <2> QED BY <1>1, <2>1, <2>2 DEF Shape
<1>3. ASSUME NEW i \in 1 .. n + 1, s3[i].form \in forms,
             \A j \in i + 1 .. n + 1 : s3[j].form \notin hidden
      PROVE  \/ s3[n + 1].form \in forms
             \/ /\ s3[n + 1].form \notin hidden
                /\ Seen(s, c, forms, hidden)
  <2>1. CASE i = n + 1
    BY <1>3, <2>1
  <2>2. CASE i # n + 1
    <3>1. i \in 1 .. n /\ n + 1 \in i + 1 .. n + 1
      BY <1>1, <2>2
    <3>2. s3[n + 1].form \notin hidden
      BY <1>3, <3>1
    <3>3. i \notin c + 1 .. n
      BY <1>2, <1>3, <3>1, FormsApart
    <3>4. i \in 1 .. c
      BY <1>1, <3>1, <3>3
    <3>5. \A j \in i + 1 .. c : j \in i + 1 .. n + 1 /\ j \in 1 .. n
      BY <1>1, <3>4
    <3> QED BY <1>3, <3>1, <3>2, <3>4, <3>5 DEF Seen
  <2> QED BY <2>1, <2>2
<1>4. ASSUME s3[n + 1].form \notin hidden,
             NEW i \in 1 .. c, s[i].form \in forms,
             \A j \in i + 1 .. c : s[j].form \notin hidden
      PROVE  Seen(s3, n + 1, forms, hidden)
  <2>1. i \in 1 .. n + 1 /\ s3[i].form \in forms
    BY <1>1, <1>4
  <2>2. ASSUME NEW j \in i + 1 .. n + 1
        PROVE  s3[j].form \notin hidden
    <3>1. CASE j \in i + 1 .. c
      BY <1>1, <1>4, <3>1
    <3>2. CASE j \in c + 1 .. n
      BY <1>2, <3>2, FormsApart
    <3>3. CASE j = n + 1
      BY <1>4, <3>3
    <3> QED BY <1>1, <3>1, <3>2, <3>3
  <2> QED BY <2>1, <2>2 DEF Seen
<1>5. ASSUME s3[n + 1].form \in forms
      PROVE  Seen(s3, n + 1, forms, hidden)
  <2>1. n + 1 \in 1 .. n + 1 /\ \A j \in n + 1 + 1 .. n + 1 : FALSE
    BY <1>1
  <2> QED BY <1>5, <2>1 DEF Seen
<1>6. Seen(s3, n + 1, forms, hidden) =>
        \E i \in 1 .. n + 1 :
            /\ s3[i].form \in forms
            /\ \A j \in i + 1 .. n + 1 : s3[j].form \notin hidden
  BY DEF Seen
<1>7. Seen(s, c, forms, hidden) =>
        \E i \in 1 .. c :
            /\ s[i].form \in forms
            /\ \A j \in i + 1 .. c : s[j].form \notin hidden
  BY DEF Seen
<1> QED BY <1>3, <1>4, <1>5, <1>6, <1>7

SuperFlags ==
    {"ALLOW_SUPER", "ALLOW_SUPER_CALL", "ALLOW_NEW_TARGET", "FUNCTION"}

LEMMA GrownFunctionFlags ==
    ASSUME NEW s, Shape(s), FunctionFlags(s), NEW c, NEW status, NEW past,
           NEW s3, NEW f, Grown(s, s3, f, c, status, past),
           c = s[Len(s)].ctx,
           \A x \in SuperFlags : x \in status <=> x \in s[c].status,
           f.ctx = Len(s) + 1 => FunctionFlagsAt(s3, Len(s) + 1)
    PROVE  FunctionFlags(s3)
<1> DEFINE n == Len(s)
<1>1. n \in Nat
  BY DEF Shape
<1>2. /\ Len(s3) = n + 1
      /\ s3[n + 1] = f
      /\ \A i \in 1 .. n : /\ s3[i].form = s[i].form
                           /\ s3[i].ctx = s[i].ctx
                           /\ \A x \in SuperFlags :
                                x \in s3[i].status <=> x \in s[i].status
  BY DEF Grown, Alike
<1>3. ASSUME NEW k \in 1 .. n + 1, s3[k].ctx = k
      PROVE  FunctionFlagsAt(s3, k)
  <2>1. CASE k = n + 1
    BY <1>2, <1>3, <2>1
  <2>2. CASE k # n + 1
    <3>1. k \in 1 .. n /\ k \in Nat
      BY <1>1, <2>2
    <3>2. FunctionFlagsAt(s, k)
      BY <1>2, <1>3, <3>1 DEF FunctionFlags
    <3>3. \A i \in 1 .. k : s3[i].form = s[i].form
      BY <1>1, <1>2, <3>1
    <3>4. \A forms, hidden :
            Seen(s3, k, forms, hidden) <=> Seen(s, k, forms, hidden)
      BY <3>1, <3>3, SeenBelow
    <3>5. /\ "ALLOW_SUPER" \in s3[k].status <=>
                "ALLOW_SUPER" \in s[k].status
          /\ "ALLOW_SUPER_CALL" \in s3[k].status <=>
                "ALLOW_SUPER_CALL" \in s[k].status
          /\ "ALLOW_NEW_TARGET" \in s3[k].status <=>
                "ALLOW_NEW_TARGET" \in s[k].status
          /\ "FUNCTION" \in s3[k].status <=> "FUNCTION" \in s[k].status
      BY <1>2, <3>1 DEF SuperFlags
    <3> QED BY <3>2, <3>4, <3>5 DEF FunctionFlagsAt
  <2> QED BY <2>1, <2>2
<1> QED BY <1>2, <1>3 DEF FunctionFlags

LEMMA GrownJumpFlags ==
    ASSUME NEW s, Shape(s), JumpFlags(s), NEW c, NEW status, NEW past,
           NEW s3, NEW f, Grown(s, s3, f, c, status, past),
           c = s[Len(s)].ctx,
           s[c].past \subseteq past,
           "IN_ITERATION" \in status <=>
              \/ "IN_ITERATION" \in s[c].status
              \/ f.form = "loop",
           "IN_SWITCH" \in status <=>
              "IN_SWITCH" \in s[c].status \/ f.form = "switch",
           f.form \in StatementForms => f.ctx = c,
           f.form \notin StatementForms =>
              /\ f.ctx = Len(s) + 1
              /\ f.status \cap {"IN_ITERATION", "IN_SWITCH"} = {}
    PROVE  JumpFlags(s3)
<1> DEFINE n == Len(s)
<1>1. n \in Nat /\ c \in 1 .. n /\ s[c].ctx = c
  <2>1. n \in Nat /\ n \in 1 .. n /\ c \in 1 .. n
    BY DEF Shape
  <2>2. c \in c .. n
    BY <2>1
  <2> QED BY <2>1, <2>2 DEF Shape
<1>2. /\ Len(s3) = n + 1
      /\ s3[n + 1] = f
      /\ \A i \in 1 .. n :
            /\ s3[i].form = s[i].form
            /\ s3[i].ctx = s[i].ctx
            /\ s3[i].status = IF i = c THEN status ELSE s[i].status
            /\ s3[i].past = IF i = c THEN past ELSE s[i].past
  BY DEF Grown, Alike
<1>3. \A i \in 1 .. n : s[i].ctx \in 1 .. n
  <2>1. \A i \in 1 .. n : s[i].ctx \in 1 .. i
    BY DEF Shape
  <2> QED BY <1>1, <2>1
<1>4. \A i \in 1 .. n + 1 : i \in 1 .. n \/ i = n + 1
  BY <1>1
<1>5. \A i \in 1 .. n : i \in 1 .. n + 1 /\ i # n + 1
  BY <1>1
<1>6. n + 1 \in 1 .. n + 1
  BY <1>1
<1>7. {"loop", "switch"} \subseteq StatementForms
  BY FormsApart
<1>8. ASSUME NEW k \in 1 .. n, s3[k].ctx = k
      PROVE  JumpFlagsAt(s3, k)
  <2>1. JumpFlagsAt(s, k)
    BY <1>2, <1>8 DEF JumpFlags
  <2>2. "IN_ITERATION" \in s3[k].status =>
          \/ "loop" \in s3[k].past
          \/ \E i \in 1 .. n + 1 : s3[i].form = "loop" /\ s3[i].ctx = k
    BY <1>2, <1>5, <1>6, <1>7, <2>1, SMTT(60) DEF JumpFlagsAt
  <2>3. "IN_SWITCH" \in s3[k].status =>
          \/ "switch" \in s3[k].past
          \/ \E i \in 1 .. n + 1 : s3[i].form = "switch" /\ s3[i].ctx = k
    BY <1>2, <1>5, <1>6, <1>7, <2>1 DEF JumpFlagsAt
  <2>4. ASSUME NEW i \in 1 .. n + 1, s3[i].ctx = k
        PROVE  /\ s3[i].form = "loop" => "IN_ITERATION" \in s3[k].status
               /\ s3[i].form = "switch" => "IN_SWITCH" \in s3[k].status
    <3>1. CASE i \in 1 .. n
      BY <1>2, <2>1, <2>4, <3>1 DEF JumpFlagsAt
    <3>2. CASE i = n + 1
      BY <1>2, <1>5, <1>7, <2>4, <3>2
    <3> QED BY <1>4, <3>1, <3>2
  <2> QED BY <1>2, <2>2, <2>3, <2>4 DEF JumpFlagsAt
<1>9. ASSUME s3[n + 1].ctx = n + 1
      PROVE  JumpFlagsAt(s3, n + 1)
  <2>1. f.form \notin StatementForms
    BY <1>1, <1>2, <1>5, <1>9
  <2>2. s3[n + 1].status \cap {"IN_ITERATION", "IN_SWITCH"} = {}
    BY <1>2, <2>1
  <2>3. ASSUME NEW i \in 1 .. n + 1, s3[i].ctx = n + 1
        PROVE  s3[i].form \notin {"loop", "switch"}
    BY <1>2, <1>3, <1>4, <1>5, <1>7, <2>1, <2>3
  <2> QED BY <1>2, <2>2, <2>3 DEF JumpFlagsAt
<1> QED BY <1>2, <1>4, <1>8, <1>9 DEF JumpFlags

LEMMA GrownBodyFlags ==
    ASSUME NEW s, Shape(s), BodyFlags(s), NEW c, NEW status, NEW past,
           NEW s3, NEW f, Grown(s, s3, f, c, status, past),
           c = s[Len(s)].ctx,
           s[c].past \subseteq past,
           "ALLOW_YIELD" \in status <=> "ALLOW_YIELD" \in s[c].status,
           "DISALLOW_AWAIT" \in status <=>
              "DISALLOW_AWAIT" \in s[c].status,
           "ASYNC_FUNCTION" \in s[c].status => "ASYNC_FUNCTION" \in status,
           "ASYNC_FUNCTION" \in status =>
              "ASYNC_FUNCTION" \in s[c].status \/ "async" \in past,
           f.ctx = Len(s) + 1 => BodyFlagsOf(f)
    PROVE  BodyFlags(s3)
<1> DEFINE n == Len(s)
<1>1. n \in Nat
  BY DEF Shape
<1>2. /\ Len(s3) = n + 1
      /\ s3[n + 1] = f
      /\ \A i \in 1 .. n :
            /\ Alike(s3[i], s[i])
            /\ InHead(s3[i]) <=> InHead(s[i])
            /\ s3[i].status = IF i = c THEN status ELSE s[i].status
            /\ s3[i].past = IF i = c THEN past ELSE s[i].past
  BY DEF Grown
<1>3. ASSUME NEW k \in 1 .. n, s3[k].ctx = k
      PROVE  BodyFlagsOf(s3[k])
  <2>1. BodyFlagsOf(s[k])
    BY <1>2, <1>3 DEF BodyFlags, Alike
  <2> QED BY <1>2, <2>1 DEF BodyFlagsOf, Alike
<1>4. \A i \in 1 .. n + 1 : i \in 1 .. n \/ i = n + 1
  BY <1>1
<1> QED BY <1>2, <1>3, <1>4 DEF BodyFlags

-----------------------------------------------------------------------------
(* The invariant over a frame less.                                        *)

\* s2 is s without its last frame, which has left its mark in `past` of its
\* context when it was a loop or a switch.
Shrunk(s, s2) ==
    LET n == Len(s)
    IN  /\ s2 \in Seq(Frames)
        /\ n > 1
        /\ Len(s2) = n - 1
        /\ \A i \in 1 .. n - 1 :
            /\ Alike(s2[i], s[i])
            /\ InHead(s2[i]) <=> InHead(s[i])
            /\ s2[i].status = s[i].status
            /\ s2[i].past =
                  IF i = s[n].ctx /\ s[n].form \in {"loop", "switch"}
                  THEN s[i].past \cup {s[n].form} ELSE s[i].past

LEMMA ShrunkKeeps ==
    ASSUME NEW s, NEW s2, Shrunk(s, s2),
           Shape(s), JumpFlags(s), BodyFlags(s), FunctionFlags(s)
    PROVE  Shape(s2) /\ JumpFlags(s2) /\ BodyFlags(s2) /\ FunctionFlags(s2)
<1> DEFINE n == Len(s)
<1>1. n \in Nat /\ n > 1 /\ Len(s2) = n - 1 /\ s2 \in Seq(Frames)
  BY DEF Shape, Shrunk
<1>2. \A i \in 1 .. n - 1 :
        /\ Alike(s2[i], s[i])
        /\ InHead(s2[i]) <=> InHead(s[i])
        /\ s2[i].status = s[i].status
        /\ s2[i].past =
              IF i = s[n].ctx /\ s[n].form \in {"loop", "switch"}
              THEN s[i].past \cup {s[n].form} ELSE s[i].past
  BY DEF Shrunk
<1>3. \A i \in 1 .. n - 1 :
        /\ i \in 1 .. n
        /\ i # n
        /\ s2[i].form = s[i].form
        /\ s2[i].label = s[i].label
        /\ s2[i].ctx = s[i].ctx
  <2>1. \A i \in 1 .. n - 1 : i \in 1 .. n /\ i # n
    BY <1>1
  <2>2. \A i \in 1 .. n - 1 :
          /\ s2[i].form = s[i].form
          /\ s2[i].label = s[i].label
          /\ s2[i].ctx = s[i].ctx
    BY <1>2 DEF Alike
  <2> QED BY <2>1, <2>2
<1>4. Shape(s2)
  <2>1. 1 \in 1 .. n - 1
    BY <1>1
  <2>2. s2[1].form = "program"
    BY <1>3, <2>1 DEF Shape
  <2>3. ASSUME NEW i \in 1 .. n - 1
        PROVE  /\ s2[i].form = "program" => i = 1
               /\ s2[i].ctx \in 1 .. i
               /\ s2[i].ctx = i <=> s2[i].form \notin StatementForms
               /\ s2[i].label # NoLabel <=> s2[i].form = "label"
               /\ ~InHead(s2[i])
    <3>1. InHead(s2[i]) <=> InHead(s[i])
      BY <1>2
    <3>2. i \in 1 .. n /\ i # n
      BY <1>3
    <3>3. ~InHead(s[i])
      BY <3>2 DEF Shape
    <3>4. /\ s[i].form = "program" => i = 1
          /\ s[i].ctx \in 1 .. i
          /\ s[i].ctx = i <=> s[i].form \notin StatementForms
          /\ s[i].label # NoLabel <=> s[i].form = "label"
      BY <3>2 DEF Shape
    <3>5. /\ s2[i].form = s[i].form
          /\ s2[i].label = s[i].label
          /\ s2[i].ctx = s[i].ctx
      BY <1>3
    <3> QED BY <3>1, <3>3, <3>4, <3>5
  <2>4. ASSUME NEW i \in 1 .. n - 1, s2[i].form \in StatementForms
        PROVE  s2[i].ctx = s2[i - 1].ctx
    <3>1. i # 1
      BY <2>2, <2>4, FormsApart
    <3>2. i - 1 \in 1 .. n - 1
      BY <1>1, <3>1
    <3> QED BY <1>3, <2>4, <3>2, SMTT(60) DEF Shape
  <2>5. ASSUME NEW i \in 1 .. n - 1, NEW j \in s2[i].ctx .. i
        PROVE  s2[j].ctx = s2[i].ctx
    <3>1. s2[i].ctx \in 1 .. i
      BY <2>3
    <3>2. j \in 1 .. n - 1
      BY <1>1, <3>1
    <3>3. s2[i].ctx = s[i].ctx /\ s2[j].ctx = s[j].ctx /\ i \in 1 .. n
      BY <1>3, <3>2
    <3> QED BY <3>3 DEF Shape
  <2> QED BY <1>1, <2>2, <2>3, <2>4, <2>5 DEF Shape
<1>5. JumpFlags(s2)
  <2>1. ASSUME NEW k \in 1 .. n - 1, s2[k].ctx = k
        PROVE  JumpFlagsAt(s2, k)
    <3>1. JumpFlagsAt(s, k)
      BY <1>3, <2>1 DEF JumpFlags
    <3>2. \A i \in 1 .. n : i \in 1 .. n - 1 \/ i = n
      BY <1>1
    <3>3. s2[k].status = s[k].status /\ s[k].past \subseteq s2[k].past
      BY <1>2
    <3>4. ASSUME NEW form \in {"loop", "switch"},
                 \E i \in 1 .. n : s[i].form = form /\ s[i].ctx = k
          PROVE  \/ form \in s2[k].past
                 \/ \E i \in 1 .. n - 1 : s2[i].form = form /\ s2[i].ctx = k
      <4>1. PICK i \in 1 .. n : s[i].form = form /\ s[i].ctx = k
        BY <3>4
      <4>2. CASE i = n
        BY <1>2, <4>1, <4>2
      <4>3. CASE i \in 1 .. n - 1
        BY <1>3, <4>1, <4>3
      <4> QED BY <3>2, <4>2, <4>3
    <3>5. "IN_ITERATION" \in s2[k].status =>
            \/ "loop" \in s2[k].past
            \/ \E i \in 1 .. n - 1 : s2[i].form = "loop" /\ s2[i].ctx = k
      BY <3>1, <3>3, <3>4 DEF JumpFlagsAt
    <3>6. "IN_SWITCH" \in s2[k].status =>
            \/ "switch" \in s2[k].past
            \/ \E i \in 1 .. n - 1 : s2[i].form = "switch" /\ s2[i].ctx = k
      BY <3>1, <3>3, <3>4 DEF JumpFlagsAt
    <3>7. \A i \in 1 .. n - 1 : s2[i].ctx = k =>
            /\ s2[i].form = "loop" => "IN_ITERATION" \in s2[k].status
            /\ s2[i].form = "switch" => "IN_SWITCH" \in s2[k].status
      BY <1>3, <3>1, <3>3 DEF JumpFlagsAt
    <3> QED BY <1>1, <3>5, <3>6, <3>7 DEF JumpFlagsAt
  <2> QED BY <1>1, <2>1 DEF JumpFlags
<1>6. BodyFlags(s2)
  <2>1. ASSUME NEW k \in 1 .. n - 1, s2[k].ctx = k
        PROVE  BodyFlagsOf(s2[k])
    <3>1. BodyFlagsOf(s[k])
      BY <1>3, <2>1 DEF BodyFlags
    <3>2. s2[k].status = s[k].status /\ s[k].past \subseteq s2[k].past
      BY <1>2
    <3> QED BY <1>2, <3>1, <3>2 DEF BodyFlagsOf, Alike
  <2> QED BY <1>1, <2>1 DEF BodyFlags
<1>7. FunctionFlags(s2)
  <2>1. ASSUME NEW k \in 1 .. n - 1, s2[k].ctx = k
        PROVE  FunctionFlagsAt(s2, k)
    <3>1. FunctionFlagsAt(s, k)
      BY <1>3, <2>1 DEF FunctionFlags
    <3>2. k \in Nat /\ \A i \in 1 .. k : s2[i].form = s[i].form
      BY <1>1, <1>3
    <3>3. \A forms, hidden :
            Seen(s2, k, forms, hidden) <=> Seen(s, k, forms, hidden)
      BY <3>2, SeenBelow
    <3>4. s2[k].status = s[k].status
      BY <1>2
    <3> QED BY <3>1, <3>3, <3>4 DEF FunctionFlagsAt
  <2> QED BY <1>1, <2>1 DEF FunctionFlags
<1> QED BY <1>4, <1>5, <1>6, <1>7

-----------------------------------------------------------------------------
(* The invariant over a change of the last frame.                          *)

\* s2 has the constructs of s, but an if may have become an else.
Turned(s, s2) ==
    /\ s2 \in Seq(Frames)
    /\ Len(s2) = Len(s)
    /\ \A i \in 1 .. Len(s) :
        /\ \/ s2[i].form = s[i].form
           \/ s[i].form = "if" /\ s2[i].form = "else"
        /\ s2[i].label = s[i].label
        /\ s2[i].ctx = s[i].ctx
        /\ s2[i].past = s[i].past
        /\ InHead(s2[i]) => InHead(s[i])
        /\ \A x \in SuperFlags \cup {"IN_ITERATION", "IN_SWITCH"} :
              x \in s2[i].status <=> x \in s[i].status
        /\ BodyFlagsOf(s[i]) => BodyFlagsOf(s2[i])

LEMMA TurnedKeeps ==
    ASSUME NEW s, NEW s2, Turned(s, s2),
           Shape(s), JumpFlags(s), BodyFlags(s), FunctionFlags(s)
    PROVE  Shape(s2) /\ JumpFlags(s2) /\ BodyFlags(s2) /\ FunctionFlags(s2)
<1> DEFINE n == Len(s)
<1>1. n \in Nat /\ n >= 1 /\ Len(s2) = n /\ s2 \in Seq(Frames)
  BY DEF Shape, Turned
<1>2. {"if", "else"} \subseteq StatementForms
  BY DEF StatementForms
<1>3. \A i \in 1 .. n :
        /\ \/ s2[i].form = s[i].form
           \/ s[i].form = "if" /\ s2[i].form = "else"
        /\ s2[i].label = s[i].label
        /\ s2[i].ctx = s[i].ctx
        /\ s2[i].past = s[i].past
        /\ InHead(s2[i]) => InHead(s[i])
  BY DEF Turned
<1>4. \A i \in 1 .. n :
        \A x \in SuperFlags \cup {"IN_ITERATION", "IN_SWITCH"} :
            x \in s2[i].status <=> x \in s[i].status
  BY DEF Turned
<1>5. \A i \in 1 .. n :
        /\ s2[i].form \in StatementForms <=> s[i].form \in StatementForms
        /\ s2[i].form = "loop" <=> s[i].form = "loop"
        /\ s2[i].form = "switch" <=> s[i].form = "switch"
        /\ s2[i].form = "program" <=> s[i].form = "program"
        /\ s2[i].form = "label" <=> s[i].form = "label"
        /\ s[i].form \in FunctionForms => s2[i].form = s[i].form
  BY <1>2, <1>3, FormsApart
<1>6. Shape(s2)
  <2>1. 1 \in 1 .. n
    BY <1>1
  <2>2. s2[1].form = "program"
    BY <1>5, <2>1 DEF Shape
  <2>3. ASSUME NEW i \in 1 .. n
        PROVE  /\ s2[i].form = "program" => i = 1
               /\ s2[i].ctx \in 1 .. i
               /\ s2[i].ctx = i <=> s2[i].form \notin StatementForms
               /\ s2[i].label # NoLabel <=> s2[i].form = "label"
               /\ InHead(s2[i]) =>
                    i = n /\ s2[i].form \in FunctionForms \ {"arrow"}
    BY <1>3, <1>5 DEF Shape
  <2>4. ASSUME NEW i \in 1 .. n, s2[i].form \in StatementForms
        PROVE  s2[i].ctx = s2[i - 1].ctx
    <3>1. i # 1
      BY <2>2, <2>4, FormsApart
    <3>2. i - 1 \in 1 .. n
      BY <1>1, <3>1
    <3> QED BY <1>3, <1>5, <2>4, <3>2 DEF Shape
  <2>5. ASSUME NEW i \in 1 .. n, NEW j \in s2[i].ctx .. i
        PROVE  s2[j].ctx = s2[i].ctx
    <3>1. j \in 1 .. n
      BY <1>1, <2>3
    <3> QED BY <1>3, <3>1 DEF Shape
  <2> QED BY <1>1, <2>2, <2>3, <2>4, <2>5 DEF Shape
<1>7. JumpFlags(s2)
  <2>1. ASSUME NEW k \in 1 .. n, s2[k].ctx = k
        PROVE  JumpFlagsAt(s2, k)
    <3>1. JumpFlagsAt(s, k)
      BY <1>3, <2>1 DEF JumpFlags
    <3> QED BY <1>1, <1>3, <1>4, <1>5, <3>1 DEF JumpFlagsAt
  <2> QED BY <1>1, <2>1 DEF JumpFlags
<1>8. BodyFlags(s2)
  BY <1>1, <1>3 DEF BodyFlags, Turned
<1>9. FunctionFlags(s2)
  <2>1. ASSUME NEW k \in 1 .. n, s2[k].ctx = k
        PROVE  FunctionFlagsAt(s2, k)
    <3>1. FunctionFlagsAt(s, k)
      BY <1>3, <2>1 DEF FunctionFlags
    <3>2. ASSUME NEW forms \in SUBSET FunctionForms,
                 NEW hidden \in SUBSET (FunctionForms \cup {"label"})
          PROVE  Seen(s2, k, forms, hidden) <=> Seen(s, k, forms, hidden)
      <4>1. \A i \in 1 .. k : i \in 1 .. n
        BY <1>1
      <4>2. \A i \in 1 .. n :
              /\ s2[i].form \in forms <=> s[i].form \in forms
              /\ s2[i].form \in hidden <=> s[i].form \in hidden
        BY <1>2, <1>3, FormsApart
      <4>3. \A i \in 1 .. k : \A j \in i + 1 .. k : j \in 1 .. k
        BY <1>1
      <4> QED BY <4>1, <4>2, <4>3 DEF Seen
    <3>3. /\ {"method", "constructor"} \in SUBSET FunctionForms
          /\ {"constructor"} \in SUBSET FunctionForms
          /\ FunctionForms \ {"arrow"} \in SUBSET FunctionForms
          /\ FunctionForms \in SUBSET FunctionForms
          /\ HidesSuper \in SUBSET (FunctionForms \cup {"label"})
          /\ {} \in SUBSET (FunctionForms \cup {"label"})
      BY DEF FunctionForms, HidesSuper
    <3>4. /\ Seen(s2, k, {"method", "constructor"}, HidesSuper) <=>
                Seen(s, k, {"method", "constructor"}, HidesSuper)
          /\ Seen(s2, k, {"constructor"}, HidesSuper) <=>
                Seen(s, k, {"constructor"}, HidesSuper)
          /\ Seen(s2, k, FunctionForms \ {"arrow"}, {}) <=>
                Seen(s, k, FunctionForms \ {"arrow"}, {})
          /\ Seen(s2, k, FunctionForms, {}) <=>
                Seen(s, k, FunctionForms, {})
      BY <3>2, <3>3
    <3>5. /\ "ALLOW_SUPER" \in s2[k].status <=>
                "ALLOW_SUPER" \in s[k].status
          /\ "ALLOW_SUPER_CALL" \in s2[k].status <=>
                "ALLOW_SUPER_CALL" \in s[k].status
          /\ "ALLOW_NEW_TARGET" \in s2[k].status <=>
                "ALLOW_NEW_TARGET" \in s[k].status
          /\ "FUNCTION" \in s2[k].status <=> "FUNCTION" \in s[k].status
      BY <1>4 DEF SuperFlags
    <3> QED BY <3>1, <3>4, <3>5 DEF FunctionFlagsAt
  <2> QED BY <1>1, <2>1 DEF FunctionFlags
<1> QED BY <1>6, <1>7, <1>8, <1>9

-----------------------------------------------------------------------------
(* The steps keep the invariant.                                           *)

LEMMA Here ==
    ASSUME Inv
    PROVE  /\ open \in Seq(Frames)
           /\ Len(open) \in Nat
           /\ Len(open) \in 1 .. Len(open)
           /\ Top = open[Len(open)] /\ Top \in Frames
           /\ Top.ctx \in 1 .. Len(open)
           /\ Context = open[Top.ctx] /\ Context \in Frames
           /\ Context.ctx = Top.ctx
           /\ Status = Context.status /\ Status \in SUBSET Flags
           /\ Context.past \in SUBSET {"loop", "switch", "async"}
<1>1. Shape(open)
  BY DEF Inv
<1>2. /\ open \in Seq(Frames)
      /\ Len(open) \in Nat
      /\ Len(open) \in 1 .. Len(open)
      /\ Top = open[Len(open)]
      /\ Top.ctx \in 1 .. Len(open)
      /\ Context = open[Top.ctx]
      /\ Context.ctx = Top.ctx
  BY <1>1, InnermostContext DEF Shape, Top, Context
<1>3. Top \in Frames /\ Context \in Frames
  BY <1>2
<1> QED BY <1>2, <1>3 DEF Status, Frames

\* What the lexer reads at once it reads in the context of the step.
LEMMA ReadAtOnce ==
    ASSUME NEW s, NEW flags, Len(s) \in Nat,
           flags = s[s[Len(s)].ctx].status,
           open' = s, read' = ReadIn(flags)
    PROVE  /\ read' \in [flags : SUBSET LexerFlags, ended : BOOLEAN]
           /\ ReadHere'
<1>1. Now' = flags \cap LexerFlags
  BY DEF Now, Status, Context, Top
<1> QED BY <1>1 DEF ReadIn, ReadHere

LEMMA KeptTurned ==
    ASSUME NEW s, NEW s2 \in Seq(Frames), Len(s2) = Len(s),
           \A i \in 1 .. Len(s) : Kept(s2[i], s[i])
    PROVE  Turned(s, s2)
<1>1. ASSUME NEW i \in 1 .. Len(s), BodyFlagsOf(s[i])
      PROVE  BodyFlagsOf(s2[i])
  BY <1>1 DEF BodyFlagsOf, Kept, Alike
<1>2. ASSUME NEW i \in 1 .. Len(s)
      PROVE  /\ s2[i].form = s[i].form
             /\ s2[i].label = s[i].label
             /\ s2[i].ctx = s[i].ctx
             /\ s2[i].past = s[i].past
             /\ InHead(s2[i]) => InHead(s[i])
             /\ s2[i].status = s[i].status
  BY DEF Kept, Alike
<1> QED BY <1>1, <1>2 DEF Turned

LEMMA StepSay ==
    ASSUME Inv, Say
    PROVE  Inv'
<1> DEFINE n == Len(open)
           s2 == Filled(open)
<1>1. /\ Shape(open) /\ JumpFlags(open)
      /\ BodyFlags(open) /\ FunctionFlags(open)
      /\ n <= MaxDepth /\ typescript \in BOOLEAN
  BY DEF Inv
<1>2. /\ open' = s2 /\ typescript' = typescript
      /\ \/ read' = ReadIn(Status)
         \/ read' = [flags |-> Now \cup {"ASYNC_FUNCTION"}, ended |-> TRUE]
  BY DEF Say
<1>3. /\ s2 \in Seq(Frames)
      /\ Len(s2) = n
      /\ \A i \in 1 .. n : Kept(s2[i], open[i])
  BY Here, FilledKeeps
<1>4. Turned(open, s2)
  BY <1>3, KeptTurned
<1>5. Shape(s2) /\ JumpFlags(s2) /\ BodyFlags(s2) /\ FunctionFlags(s2)
  BY <1>1, <1>4, TurnedKeeps
<1>6. Status = s2[s2[Len(s2)].ctx].status
  BY <1>3, Here DEF Kept, Alike
<1> HIDE DEF s2
<1>7. /\ read' \in [flags : SUBSET LexerFlags, ended : BOOLEAN]
      /\ ReadHere'
  <2>1. CASE read' = ReadIn(Status)
    BY <1>2, <1>3, <1>6, <2>1, Here, ReadAtOnce
  <2>2. CASE read' = [flags |-> Now \cup {"ASYNC_FUNCTION"}, ended |-> TRUE]
    <3>1. Now \cup {"ASYNC_FUNCTION"} \in SUBSET LexerFlags
      BY DEF Now, LexerFlags
    <3> QED BY <2>2, <3>1 DEF ReadHere
  <2> QED BY <1>2, <2>1, <2>2
<1> QED BY <1>1, <1>2, <1>3, <1>5, <1>7 DEF Inv

\* The stack with a frame more, and the changes its context has seen.
LEMMA GrownInv ==
    ASSUME Inv, Deeper, ~InHead(Top),
           NEW status \in SUBSET Flags,
           NEW past \in SUBSET {"loop", "switch", "async"},
           NEW f, NEW s3, Grown(open, s3, f, Top.ctx, status, past),
           open' = s3, typescript' = typescript,
           read' = ReadIn(s3[f.ctx].status),
           Shape(s3), JumpFlags(s3), BodyFlags(s3), FunctionFlags(s3)
    PROVE  Inv'
<1>1. Len(s3) = Len(open) + 1 /\ s3[Len(s3)] = f /\ Len(s3) \in Nat
  BY Here DEF Grown
<1>2. Len(s3) <= MaxDepth
  BY <1>1, Here, NestingAssumption DEF Deeper
<1>3. /\ read' \in [flags : SUBSET LexerFlags, ended : BOOLEAN]
      /\ ReadHere'
  BY <1>1, ReadAtOnce
<1> QED BY <1>2, <1>3 DEF Inv

LEMMA StepOpenStatement ==
    ASSUME Inv, NEW form \in StatementForms \ {"else"}, OpenStatement(form)
    PROVE  Inv'
<1> DEFINE n == Len(open)
           c == Top.ctx
           status == Status \cup StatusFlag(form)
           takes == IF form \in {"block", "switch"} THEN "list" ELSE "one"
           f == Frame(Plain(form), NoLabel, takes,
                      Status \cap StatusFlag(form), {}, c)
           s1 == Filled(open)
           s2 == ChangeStatus(s1, c, status)
           s3 == Append(s2, f)
<1>1. /\ Shape(open) /\ JumpFlags(open)
      /\ BodyFlags(open) /\ FunctionFlags(open)
  BY DEF Inv
<1>2. /\ open' = s3 /\ read' = ReadIn(status) /\ typescript' = typescript
      /\ Deeper /\ TakesStatement
  BY DEF OpenStatement, Deeper
<1>3. /\ s1 \in Seq(Frames)
      /\ Len(s1) = n
      /\ \A i \in 1 .. n : Kept(s1[i], open[i])
  BY Here, FilledKeeps
<1>4. /\ status \in SUBSET Flags
      /\ StatusFlag(form) \in SUBSET {"IN_ITERATION", "IN_SWITCH"}
      /\ "IN_ITERATION" \in StatusFlag(form) <=> form = "loop"
      /\ "IN_SWITCH" \in StatusFlag(form) <=> form = "switch"
  BY Here DEF StatusFlag, Flags
<1>5. /\ f \in Frames /\ f.form = form /\ f.label = NoLabel /\ f.ctx = c
      /\ ~InHead(f)
  <2>1. form \in StatementForms /\ c \in Nat
    BY Here
  <2>2. (Status \cap StatusFlag(form)) \in SUBSET Flags
    BY Here
  <2> QED BY <2>1, <2>2 DEF Frame, Plain, Frames, InHead
<1>6. Changed(open, s2, c, status, Context.past)
  <2>1. s1[c].past = Context.past /\ s1[c] \in Frames
    BY <1>3, Here DEF Kept
  <2>2. [s1[c] EXCEPT !.status = status] =
          [s1[c] EXCEPT !.status = status, !.past = Context.past]
    BY <2>1 DEF Frames
  <2>3. s2 = [s1 EXCEPT ![c] =
                [s1[c] EXCEPT !.status = status, !.past = Context.past]]
    BY <2>2 DEF ChangeStatus
  <2> HIDE DEF s1, s2, status
  <2> QED BY <1>3, <1>4, <2>3, Here, ChangedByOne
<1> HIDE DEF s1, s2, f
<1>7. Grown(open, s3, f, c, status, Context.past)
  BY <1>5, <1>6, Here, GrownByOne
<1> HIDE DEF s3
<1>8. ~InHead(Top) /\ Top = open[n]
  BY <1>2, Here DEF TakesStatement, InHead
<1>9. form \in StatementForms /\ form # "program" /\ form # "label"
  BY FormsApart
<1>10. Shape(s3)
  BY <1>1, <1>5, <1>7, <1>8, <1>9, GrownShape
<1>11. c \in 1 .. n /\ c # n + 1 /\ c = open[n].ctx /\ n + 1 # c
  BY Here
<1>12. JumpFlags(s3)
  BY <1>1, <1>4, <1>5, <1>7, <1>9, <1>11, Here, GrownJumpFlags, ZenonT(60)
<1>13. /\ "ALLOW_YIELD" \in status <=> "ALLOW_YIELD" \in open[c].status
       /\ "DISALLOW_AWAIT" \in status <=>
             "DISALLOW_AWAIT" \in open[c].status
       /\ "ASYNC_FUNCTION" \in status <=>
             "ASYNC_FUNCTION" \in open[c].status
       /\ \A x \in SuperFlags : x \in status <=> x \in open[c].status
  BY <1>4, Here DEF SuperFlags
<1>14. BodyFlags(s3)
  <2>1. /\ c = open[Len(open)].ctx /\ f.ctx # Len(open) + 1
        /\ open[c].past \subseteq Context.past
    BY <1>5, <1>11, Here
  <2> HIDE DEF status, n, c
  <2> QED BY <1>1, <1>7, <1>13, <2>1, GrownBodyFlags
<1>15. FunctionFlags(s3)
  BY <1>1, <1>5, <1>7, <1>11, <1>13, Here, GrownFunctionFlags
<1>16. s3[f.ctx].status = status
  BY <1>5, <1>7, <1>11 DEF Grown
<1>17. Context.past \in SUBSET {"loop", "switch", "async"}
  BY Here
<1> HIDE DEF status
<1> QED BY <1>2, <1>4, <1>7, <1>8, <1>10, <1>12, <1>14, <1>15, <1>16,
           <1>17, GrownInv

\* What a new context sees of the functions around it.
LEMMA NewContextFlags ==
    ASSUME NEW s, Shape(s), FunctionFlags(s), NEW c, NEW status, NEW past,
           NEW s3, NEW f, Grown(s, s3, f, c, status, past),
           c = s[Len(s)].ctx,
           f.form \in FunctionForms \cup {"label"},
           "ALLOW_SUPER" \in f.status <=>
              \/ f.form \in {"method", "constructor"}
              \/ f.form = "arrow" /\ "ALLOW_SUPER" \in s[c].status,
           "ALLOW_SUPER_CALL" \in f.status <=>
              \/ f.form = "constructor"
              \/ f.form = "arrow" /\ "ALLOW_SUPER_CALL" \in s[c].status,
           "ALLOW_NEW_TARGET" \in f.status <=>
              \/ f.form \in FunctionForms \ {"arrow"}
              \/ "ALLOW_NEW_TARGET" \in s[c].status,
           "FUNCTION" \in f.status <=>
              f.form \in FunctionForms \/ "FUNCTION" \in s[c].status
    PROVE  FunctionFlagsAt(s3, Len(s) + 1)
<1> DEFINE n == Len(s)
<1>1. n \in Nat /\ c \in 1 .. n /\ s[c].ctx = c
  <2>1. n \in Nat /\ n \in 1 .. n /\ c \in 1 .. n
    BY DEF Shape
  <2>2. c \in c .. n
    BY <2>1
  <2> QED BY <2>1, <2>2 DEF Shape
<1>2. s3[n + 1] = f /\ \A i \in 1 .. n : s3[i].form = s[i].form
  BY DEF Grown, Alike
<1>3. FunctionFlagsAt(s, c)
  BY <1>1 DEF FunctionFlags
<1>4. ASSUME NEW forms \in SUBSET FunctionForms,
             NEW hidden \in SUBSET (FunctionForms \cup {"label"})
      PROVE  Seen(s3, n + 1, forms, hidden) <=>
               \/ f.form \in forms
               \/ f.form \notin hidden /\ Seen(s, c, forms, hidden)
  BY <1>2, SeenFromNew
<1>5. /\ {"method", "constructor"} \in SUBSET FunctionForms
      /\ {"constructor"} \in SUBSET FunctionForms
      /\ FunctionForms \ {"arrow"} \in SUBSET FunctionForms
      /\ FunctionForms \in SUBSET FunctionForms
      /\ HidesSuper \in SUBSET (FunctionForms \cup {"label"})
      /\ {} \in SUBSET (FunctionForms \cup {"label"})
  BY DEF FunctionForms, HidesSuper
<1>6. f.form \notin HidesSuper <=> f.form = "arrow"
  BY DEF HidesSuper, FunctionForms
<1>7. /\ Seen(s3, n + 1, {"method", "constructor"}, HidesSuper) <=>
            \/ f.form \in {"method", "constructor"}
            \/ /\ f.form = "arrow"
               /\ Seen(s, c, {"method", "constructor"}, HidesSuper)
      /\ Seen(s3, n + 1, {"constructor"}, HidesSuper) <=>
            \/ f.form \in {"constructor"}
            \/ f.form = "arrow" /\ Seen(s, c, {"constructor"}, HidesSuper)
      /\ Seen(s3, n + 1, FunctionForms \ {"arrow"}, {}) <=>
            \/ f.form \in FunctionForms \ {"arrow"}
            \/ Seen(s, c, FunctionForms \ {"arrow"}, {})
      /\ Seen(s3, n + 1, FunctionForms, {}) <=>
            f.form \in FunctionForms \/ Seen(s, c, FunctionForms, {})
  BY <1>4, <1>5, <1>6
<1> QED BY <1>2, <1>3, <1>7 DEF FunctionFlagsAt

\* A step that opens a context of its own.
LEMMA ContextOpened ==
    ASSUME Inv, Deeper, ~InHead(Top),
           NEW past \in SUBSET {"loop", "switch", "async"},
           NEW status \in SUBSET Flags,
           Context.past \subseteq past,
           status \ {"ASYNC_FUNCTION"} = Status \ {"ASYNC_FUNCTION"},
           Status \subseteq status,
           "ASYNC_FUNCTION" \in status =>
              "ASYNC_FUNCTION" \in Status \/ "async" \in past,
           NEW f, NEW s3, Grown(open, s3, f, Top.ctx, status, past),
           open' = s3, typescript' = typescript,
           read' = ReadIn(f.status),
           f.form \in FunctionForms \cup {"label"},
           f.ctx = Len(open) + 1,
           f.label # NoLabel <=> f.form = "label",
           InHead(f) => f.form \in FunctionForms \ {"arrow"},
           f.status \cap {"IN_ITERATION", "IN_SWITCH"} = {},
           BodyFlagsOf(f),
           "ALLOW_SUPER" \in f.status <=>
              \/ f.form \in {"method", "constructor"}
              \/ f.form = "arrow" /\ "ALLOW_SUPER" \in Status,
           "ALLOW_SUPER_CALL" \in f.status <=>
              \/ f.form = "constructor"
              \/ f.form = "arrow" /\ "ALLOW_SUPER_CALL" \in Status,
           "ALLOW_NEW_TARGET" \in f.status <=>
              \/ f.form \in FunctionForms \ {"arrow"}
              \/ "ALLOW_NEW_TARGET" \in Status,
           "FUNCTION" \in f.status <=>
              f.form \in FunctionForms \/ "FUNCTION" \in Status
    PROVE  Inv'
<1> DEFINE n == Len(open)
           c == Top.ctx
<1>1. /\ Shape(open) /\ JumpFlags(open)
      /\ BodyFlags(open) /\ FunctionFlags(open)
  BY DEF Inv
<1>2. /\ n \in Nat /\ c \in 1 .. n /\ c = open[n].ctx /\ Top = open[n]
      /\ Status = open[c].status /\ Context.past = open[c].past
  BY Here
<1>3. f.form \notin StatementForms /\ f.form # "program"
  BY FormsApart
<1>4. Shape(s3)
  <2> HIDE DEF n, c
  <2> QED BY <1>1, <1>2, <1>3, GrownShape DEF n, c
<1>5. \A x \in Flags \ {"ASYNC_FUNCTION"} :
        x \in status <=> x \in open[c].status
  BY <1>2
<1>6. JumpFlags(s3)
  <2>1. f.form \notin {"loop", "switch"}
    BY <1>3, FormsApart
  <2>2. /\ "IN_ITERATION" \in status <=> "IN_ITERATION" \in open[c].status
        /\ "IN_SWITCH" \in status <=> "IN_SWITCH" \in open[c].status
    BY <1>5 DEF Flags
  <2> HIDE DEF c
  <2> QED BY <1>1, <1>2, <1>3, <2>1, <2>2, GrownJumpFlags DEF c
<1>7. BodyFlags(s3)
  <2>1. /\ "ALLOW_YIELD" \in status <=> "ALLOW_YIELD" \in open[c].status
        /\ "DISALLOW_AWAIT" \in status <=>
              "DISALLOW_AWAIT" \in open[c].status
    BY <1>5 DEF Flags
  <2> HIDE DEF c
  <2> QED BY <1>1, <1>2, <2>1, GrownBodyFlags DEF c
<1>8. FunctionFlags(s3)
  <2>1. \A x \in SuperFlags : x \in status <=> x \in open[c].status
    BY <1>5 DEF Flags, SuperFlags
  <2>2. FunctionFlagsAt(s3, n + 1)
    <3> HIDE DEF c
    <3> QED BY <1>1, <1>2, NewContextFlags DEF c
  <2> HIDE DEF c
  <2> QED BY <1>1, <1>2, <2>1, <2>2, GrownFunctionFlags DEF c
<1>9. s3[f.ctx].status = f.status
  BY DEF Grown
<1> QED BY <1>4, <1>6, <1>7, <1>8, <1>9, GrownInv

LEMMA StepOpenLabel ==
    ASSUME Inv, NEW l \in Labels, OpenLabel(l)
    PROVE  Inv'
<1> DEFINE n == Len(open)
           c == Top.ctx
           status == Inherited(Status, {})
           f == Frame(Plain("label"), l, "one", {}, status, n + 1)
           s2 == Filled(open)
<1>1. /\ open' = Append(s2, f) /\ read' = ReadIn(status)
      /\ typescript' = typescript /\ Deeper /\ TakesStatement
  BY DEF OpenLabel, Deeper
<1>2. /\ status \in SUBSET Flags
      /\ status = Status \cap {"ALLOW_NEW_TARGET", "FUNCTION"}
  BY Here DEF Inherited
<1>3. /\ f \in Frames /\ f.form = "label" /\ f.label = l
      /\ f.ctx = n + 1 /\ f.status = status /\ ~InHead(f)
  BY <1>2, Here DEF Frame, Plain, Frames, InHead
<1>4. l # NoLabel /\ ~InHead(Top)
  BY <1>1, NestingAssumption DEF TakesStatement, InHead
<1>5. Changed(open, s2, c, Status, Context.past)
  <2>1. /\ s2 \in Seq(Frames)
        /\ Len(s2) = n
        /\ \A i \in 1 .. n : Kept(s2[i], open[i])
    BY Here, FilledKeeps
  <2> QED BY <2>1, Here DEF Changed, Kept
<1> HIDE DEF s2, f
<1>6. Grown(open, Append(s2, f), f, c, Status, Context.past)
  BY <1>3, <1>5, Here, GrownByOne
<1>7. BodyFlagsOf(f)
  BY <1>2, <1>3, FormsApart DEF BodyFlagsOf
<1>8. /\ "ALLOW_SUPER" \notin f.status
      /\ "ALLOW_SUPER_CALL" \notin f.status
      /\ "ALLOW_NEW_TARGET" \in f.status <=> "ALLOW_NEW_TARGET" \in Status
      /\ "FUNCTION" \in f.status <=> "FUNCTION" \in Status
      /\ f.status \cap {"IN_ITERATION", "IN_SWITCH"} = {}
  BY <1>2, <1>3
<1>9. Status \in SUBSET Flags
      /\ Context.past \in SUBSET {"loop", "switch", "async"}
  BY Here
<1>10. f.form \notin FunctionForms
  BY <1>3, FormsApart
<1> HIDE DEF status
<1> QED BY <1>1, <1>3, <1>4, <1>6, <1>7, <1>8, <1>9, <1>10, ContextOpened

\* What a function is given when its context is made.
LEMMA FunctionGiven ==
    ASSUME Inv, NEW kind \in Kinds
    PROVE  LET given == FunctionStatus(kind)
           IN  /\ given \in SUBSET Flags
               /\ given \cap {"IN_ITERATION", "IN_SWITCH", "ALLOW_YIELD",
                              "DISALLOW_AWAIT"} = {}
               /\ "ASYNC_FUNCTION" \in given <=>
                    kind.form # "arrow" /\ kind.async
               /\ "ALLOW_SUPER" \in given <=>
                    \/ kind.form \in {"method", "constructor"}
                    \/ kind.form = "arrow" /\ "ALLOW_SUPER" \in Status
               /\ "ALLOW_SUPER_CALL" \in given <=>
                    \/ kind.form = "constructor"
                    \/ kind.form = "arrow" /\ "ALLOW_SUPER_CALL" \in Status
               /\ "ALLOW_NEW_TARGET" \in given <=>
                    kind.form # "arrow" \/ "ALLOW_NEW_TARGET" \in Status
               /\ "FUNCTION" \in given
<1>1. kind \in FunctionKinds /\ kind.async \in BOOLEAN
  BY NestingAssumption DEF FunctionKinds
<1>2. Status \in SUBSET Flags
  BY Here
<1>3. CASE kind.form = "arrow"
  BY <1>2, <1>3 DEF FunctionStatus, ArrowStatus, Inherited, Flags
<1>4. CASE kind.form # "arrow"
  <2>1. FunctionStatus(kind) =
          (Status \cap {"ALLOW_NEW_TARGET", "FUNCTION"})
            \cup {"FUNCTION", "ALLOW_NEW_TARGET"}
            \cup (IF kind.async THEN {"ASYNC_FUNCTION"} ELSE {})
            \cup MethodStatus(kind.form) \cup ConstructorStatus(kind.form)
    BY <1>4 DEF FunctionStatus, Inherited
  <2> QED BY <1>2, <1>4, <2>1 DEF MethodStatus, ConstructorStatus, Flags
<1> QED BY <1>3, <1>4

LEMMA StepOpenArrow ==
    ASSUME Inv, NEW kind \in Kinds, OpenArrow(kind)
    PROVE  Inv'
<1> DEFINE n == Len(open)
           c == Top.ctx
           given == FunctionStatus(kind)
           status == BodyStatus(kind, given)
           f == Frame(kind, NoLabel, "list", {}, status, n + 1)
           s2 == Filled(open)
<1>1. /\ open' = Append(s2, f) /\ read' = ReadIn(status)
      /\ typescript' = typescript /\ Deeper /\ TakesStatement
      /\ kind.form = "arrow"
  BY DEF OpenArrow, Deeper
<1>2. /\ kind.form \in FunctionForms /\ kind.async \in BOOLEAN
      /\ kind.generator = FALSE
  BY <1>1, NestingAssumption DEF FunctionKinds
<1>3. status = given \cup (IF kind.async THEN {"ASYNC_FUNCTION"} ELSE {})
  BY <1>1 DEF BodyStatus
<1>4. /\ given \in SUBSET Flags
      /\ given \cap {"IN_ITERATION", "IN_SWITCH", "ALLOW_YIELD",
                     "DISALLOW_AWAIT"} = {}
      /\ "ASYNC_FUNCTION" \notin given
      /\ "ALLOW_SUPER" \in given <=> "ALLOW_SUPER" \in Status
      /\ "ALLOW_SUPER_CALL" \in given <=> "ALLOW_SUPER_CALL" \in Status
      /\ "ALLOW_NEW_TARGET" \in given <=> "ALLOW_NEW_TARGET" \in Status
      /\ "FUNCTION" \in given
  BY <1>1, FunctionGiven
<1> HIDE DEF given
<1>5. status \in SUBSET Flags
  BY <1>3, <1>4 DEF Flags
<1>6. /\ "ASYNC_FUNCTION" \in status <=> kind.async
      /\ status \cap {"IN_ITERATION", "IN_SWITCH", "ALLOW_YIELD",
                      "DISALLOW_AWAIT"} = {}
      /\ \A x \in SuperFlags : x \in status <=> x \in given
  BY <1>2, <1>3, <1>4 DEF SuperFlags
<1> HIDE DEF status
<1>7. /\ f \in Frames /\ f.form = "arrow" /\ f.label = NoLabel
      /\ f.async = kind.async /\ f.generator = FALSE
      /\ f.ctx = n + 1 /\ f.status = status /\ ~InHead(f)
  <2>1. /\ f.form = "arrow" /\ f.label = NoLabel
        /\ f.async = kind.async /\ f.generator = FALSE
        /\ f.ctx = n + 1 /\ f.status = status /\ f.takes = "list"
    BY <1>1, <1>2 DEF Frame
  <2>2. f \in Frames
    <3>1. n + 1 \in Nat
      BY Here
    <3> QED BY <1>1, <1>2, <1>5, <3>1 DEF Frame, Frames
  <2> QED BY <2>1, <2>2 DEF InHead
<1>8. ~InHead(Top)
  BY <1>1 DEF TakesStatement, InHead
<1>9. Changed(open, s2, c, Status, Context.past)
  <2>1. /\ s2 \in Seq(Frames)
        /\ Len(s2) = n
        /\ \A i \in 1 .. n : Kept(s2[i], open[i])
    BY Here, FilledKeeps
  <2> QED BY <2>1, Here DEF Changed, Kept
<1> HIDE DEF s2, f
<1>10. Grown(open, Append(s2, f), f, c, Status, Context.past)
  BY <1>7, <1>9, Here, GrownByOne
<1>11. BodyFlagsOf(f)
  <2>1. /\ "ASYNC_FUNCTION" \in f.status <=> f.async
        /\ "ALLOW_YIELD" \notin f.status
        /\ "DISALLOW_AWAIT" \notin f.status
    BY <1>6, <1>7
  <2>2. f.async \in BOOLEAN /\ f.generator = FALSE /\ ~InHead(f)
        /\ f.form \in FunctionForms
    BY <1>1, <1>2, <1>7
  <2> QED BY <2>1, <2>2, Zenon DEF BodyFlagsOf
<1>12. /\ "ALLOW_SUPER" \in f.status <=> "ALLOW_SUPER" \in Status
       /\ "ALLOW_SUPER_CALL" \in f.status <=> "ALLOW_SUPER_CALL" \in Status
       /\ "ALLOW_NEW_TARGET" \in f.status <=> "ALLOW_NEW_TARGET" \in Status
       /\ "FUNCTION" \in f.status
       /\ f.status \cap {"IN_ITERATION", "IN_SWITCH"} = {}
  BY <1>4, <1>6, <1>7 DEF SuperFlags
<1>13. Status \in SUBSET Flags
       /\ Context.past \in SUBSET {"loop", "switch", "async"}
  BY Here
<1>14. /\ f.form \in FunctionForms /\ f.form # "label"
       /\ f.form \notin FunctionForms \ {"arrow"}
       /\ f.form \notin {"method", "constructor"}
       /\ f.form # "constructor"
  BY <1>2, <1>1, <1>7
<1> QED BY <1>1, <1>7, <1>8, <1>10, <1>11, <1>12, <1>13, <1>14,
           ContextOpened

LEMMA StepOpenFunction ==
    ASSUME Inv, NEW kind \in Kinds, OpenFunction(kind)
    PROVE  Inv'
<1> DEFINE n == Len(open)
           c == Top.ctx
           given == FunctionStatus(kind)
           disallow == IF kind.async \/ kind.form = "declaration"
                       THEN {"DISALLOW_AWAIT"} ELSE {}
           status == given \cup disallow
           f == Frame(kind, NoLabel, "parameters", {}, status, n + 1)
           s1 == Filled(open)
           s2 == AfterAsync(s1, kind)
           left == kind.form = "declaration" /\ kind.async
           outer == IF left THEN Status \cup {"ASYNC_FUNCTION"} ELSE Status
           past == IF left THEN Context.past \cup {"async"}
                   ELSE Context.past
<1>1. /\ open' = Append(s2, f) /\ read' = ReadIn(status)
      /\ typescript' = typescript /\ Deeper /\ TakesStatement
      /\ kind.form # "arrow"
  BY DEF OpenFunction, Deeper
<1>2. /\ kind.form \in FunctionForms /\ kind.async \in BOOLEAN
      /\ kind.generator \in BOOLEAN
  BY <1>1, NestingAssumption DEF FunctionKinds
<1>4. /\ given \in SUBSET Flags
      /\ given \cap {"IN_ITERATION", "IN_SWITCH", "ALLOW_YIELD"} = {}
      /\ "ASYNC_FUNCTION" \in given <=> kind.async
      /\ "ALLOW_SUPER" \in given <=> kind.form \in {"method", "constructor"}
      /\ "ALLOW_SUPER_CALL" \in given <=> kind.form = "constructor"
      /\ "ALLOW_NEW_TARGET" \in given
      /\ "FUNCTION" \in given
  BY <1>1, FunctionGiven
<1> HIDE DEF given
<1>5. status \in SUBSET Flags
  BY <1>4 DEF Flags
<1>6. \A x \in Flags \ {"DISALLOW_AWAIT"} : x \in status <=> x \in given
  OBVIOUS
<1> HIDE DEF status
<1>7. /\ f \in Frames /\ f.form = kind.form /\ f.label = NoLabel
      /\ f.async = kind.async /\ f.generator = kind.generator
      /\ f.ctx = n + 1 /\ f.status = status /\ InHead(f)
  BY <1>1, <1>2, <1>5, Here DEF Frame, Frames, InHead
<1>8. ~InHead(Top)
  BY <1>1 DEF TakesStatement, InHead
<1>9. Changed(open, s2, c, outer, past)
  <2>1. /\ s1 \in Seq(Frames)
        /\ Len(s1) = n
        /\ \A i \in 1 .. n : Kept(s1[i], open[i])
    BY Here, FilledKeeps
  <2>2. CASE ~left
    <3>1. s2 = s1 /\ outer = Status /\ past = Context.past
      BY <2>2 DEF AfterAsync
    <3> HIDE DEF s1, s2, outer, past
    <3> QED BY <2>1, <3>1, Here DEF Changed, Kept
  <2>3. CASE left
    <3>1. s1[c] \in Frames /\ s1[c].status = Status
          /\ s1[c].past = Context.past
      BY <2>1, Here DEF Kept
    <3>2. outer \in SUBSET Flags
          /\ past \in SUBSET {"loop", "switch", "async"}
      BY <2>3, Here DEF Flags
    <3>3. s2 = [s1 EXCEPT ![c] = [s1[c] EXCEPT !.status = outer,
                                               !.past = past]]
      <4>1. s2 = [s1 EXCEPT ![c].status = @ \cup {"ASYNC_FUNCTION"},
                            ![c].past = @ \cup {"async"}]
        BY <2>3 DEF AfterAsync
      <4>2. /\ outer = s1[c].status \cup {"ASYNC_FUNCTION"}
            /\ past = s1[c].past \cup {"async"}
        BY <2>3, <3>1
      <4>3. c \in DOMAIN s1
        BY <2>1, Here
      <4> HIDE DEF s1, s2, outer, past, left, c
      <4> QED BY <4>1, <4>2, <4>3, <3>1 DEF Frames
    <3> HIDE DEF s1, s2, outer, past
    <3> QED BY <2>1, <3>2, <3>3, Here, ChangedByOne
  <2> QED BY <2>2, <2>3
<1>10. /\ outer \in SUBSET Flags
       /\ past \in SUBSET {"loop", "switch", "async"}
       /\ Context.past \subseteq past
       /\ outer \ {"ASYNC_FUNCTION"} = Status \ {"ASYNC_FUNCTION"}
       /\ Status \subseteq outer
       /\ "ASYNC_FUNCTION" \in outer =>
            "ASYNC_FUNCTION" \in Status \/ "async" \in past
  BY Here DEF Flags
<1> HIDE DEF s1, s2, f, outer, past, left
<1>11. Grown(open, Append(s2, f), f, c, outer, past)
  BY <1>7, <1>9, Here, GrownByOne
<1>12. BodyFlagsOf(f)
  <2>1. /\ "ASYNC_FUNCTION" \in f.status <=> f.async
        /\ "ALLOW_YIELD" \notin f.status
    BY <1>4, <1>6, <1>7 DEF Flags
  <2> QED BY <1>2, <1>7, <2>1 DEF BodyFlagsOf
<1>13. /\ "ALLOW_SUPER" \in f.status <=> f.form \in {"method", "constructor"}
       /\ "ALLOW_SUPER_CALL" \in f.status <=> f.form = "constructor"
       /\ "ALLOW_NEW_TARGET" \in f.status
       /\ "FUNCTION" \in f.status
       /\ f.status \cap {"IN_ITERATION", "IN_SWITCH"} = {}
  BY <1>4, <1>6, <1>7 DEF Flags
<1>14. /\ f.form \in FunctionForms /\ f.form # "label" /\ f.form # "arrow"
       /\ f.form \in FunctionForms \ {"arrow"}
  BY <1>1, <1>2, <1>7, FormsApart
<1> QED BY <1>1, <1>7, <1>8, <1>10, <1>11, <1>12, <1>13, <1>14,
           ContextOpened

\* A step that changes the last frame only and leaves its form to it.
LEMMA LastTurned ==
    ASSUME Inv, NEW f \in Frames,
           \/ f.form = Top.form
           \/ Top.form = "if" /\ f.form = "else",
           f.label = Top.label, f.ctx = Top.ctx, f.past = Top.past,
           InHead(f) => InHead(Top),
           \A x \in SuperFlags \cup {"IN_ITERATION", "IN_SWITCH"} :
              x \in f.status <=> x \in Top.status,
           BodyFlagsOf(Top) => BodyFlagsOf(f),
           open' = [open EXCEPT ![Len(open)] = f],
           read' = ReadIn(IF Top.ctx = Len(open) THEN f.status ELSE Status),
           typescript' = typescript
    PROVE  Inv'
<1> DEFINE n == Len(open)
           s2 == [open EXCEPT ![n] = f]
<1>1. /\ Shape(open) /\ JumpFlags(open)
      /\ BodyFlags(open) /\ FunctionFlags(open)
      /\ n <= MaxDepth /\ typescript \in BOOLEAN
  BY DEF Inv
<1>2. /\ n \in Nat /\ n \in 1 .. n /\ Top = open[n] /\ open \in Seq(Frames)
      /\ Top.ctx \in 1 .. n /\ Status = open[Top.ctx].status
  BY Here
<1>3. /\ s2 \in Seq(Frames)
      /\ Len(s2) = n
      /\ \A i \in 1 .. n : s2[i] = IF i = n THEN f ELSE open[i]
  BY <1>2
<1> HIDE DEF s2
<1>4. Turned(open, s2)
  <2>1. ASSUME NEW i \in 1 .. n
        PROVE  /\ \/ s2[i].form = open[i].form
                  \/ open[i].form = "if" /\ s2[i].form = "else"
               /\ s2[i].label = open[i].label
               /\ s2[i].ctx = open[i].ctx
               /\ s2[i].past = open[i].past
               /\ InHead(s2[i]) => InHead(open[i])
               /\ \A x \in SuperFlags \cup {"IN_ITERATION", "IN_SWITCH"} :
                     x \in s2[i].status <=> x \in open[i].status
               /\ BodyFlagsOf(open[i]) => BodyFlagsOf(s2[i])
    <3>1. CASE i = n
      <4>1. s2[i] = f /\ open[i] = Top
        BY <1>2, <1>3, <3>1
      <4> QED BY <4>1
    <3>2. CASE i # n
      <4>1. s2[i] = open[i]
        BY <1>3, <3>2
      <4> QED BY <4>1
    <3> QED BY <3>1, <3>2
  <2> QED BY <1>3, <2>1 DEF Turned
<1>5. Shape(s2) /\ JumpFlags(s2) /\ BodyFlags(s2) /\ FunctionFlags(s2)
  BY <1>1, <1>4, TurnedKeeps
<1>6. s2[s2[Len(s2)].ctx].status =
         IF Top.ctx = Len(open) THEN f.status ELSE Status
  <2>1. s2[Len(s2)].ctx = Top.ctx
    BY <1>2, <1>3
  <2> QED BY <1>2, <1>3, <2>1
<1>7. /\ read' \in [flags : SUBSET LexerFlags, ended : BOOLEAN]
      /\ ReadHere'
  <2>1. open' = s2
    BY DEF s2
  <2> QED BY <1>2, <1>3, <1>6, <2>1, ReadAtOnce
<1> QED BY <1>1, <1>3, <1>5, <1>7 DEF Inv, s2

LEMMA StepEnterBody ==
    ASSUME Inv, EnterBody
    PROVE  Inv'
<1> DEFINE n == Len(open)
           status == BodyStatus(Top, Status)
           f == [Top EXCEPT !.takes = "list", !.status = status]
<1>1. /\ n \in Nat /\ n \in 1 .. n /\ Top = open[n] /\ open \in Seq(Frames)
      /\ Top \in Frames /\ Top.ctx \in 1 .. n
      /\ Context = open[Top.ctx] /\ Status = Context.status
      /\ Status \in SUBSET Flags
  BY Here
<1>2. /\ InHead(Top) /\ Top.takes = "parameters"
      /\ open' = [open EXCEPT ![n].takes = "list", ![n].status = status]
      /\ read' = ReadIn(status) /\ typescript' = typescript
  BY DEF EnterBody, InHead
<1>3. Top.form \in FunctionForms \ {"arrow"} /\ Top.ctx = n
  <2>1. Top.form \in FunctionForms \ {"arrow"}
    BY <1>1, <1>2 DEF Inv, Shape
  <2>2. Top.form \notin StatementForms
    BY <2>1, FormsApart
  <2> QED BY <1>1, <2>1, <2>2 DEF Inv, Shape
<1>4. Status = Top.status
  BY <1>1, <1>3
<1>5. status = (IF Top.async THEN Status \ {"DISALLOW_AWAIT"}
                ELSE Status \cup {"DISALLOW_AWAIT"})
               \cup (IF Top.generator THEN {"ALLOW_YIELD"} ELSE {})
  BY <1>3 DEF BodyStatus
<1>6. status \in SUBSET Flags
  BY <1>1, <1>5 DEF Flags
<1>7. \A x \in Flags \ {"DISALLOW_AWAIT", "ALLOW_YIELD"} :
        x \in status <=> x \in Top.status
  BY <1>4, <1>5
<1>8. /\ Top.async => "DISALLOW_AWAIT" \notin status
      /\ "ALLOW_YIELD" \in status <=>
            Top.generator \/ "ALLOW_YIELD" \in Top.status
  BY <1>4, <1>5
<1> HIDE DEF status
<1>9. /\ f \in Frames /\ f.form = Top.form /\ f.label = Top.label
      /\ f.ctx = Top.ctx /\ f.past = Top.past /\ f.async = Top.async
      /\ f.generator = Top.generator /\ f.status = status /\ ~InHead(f)
  BY <1>1, <1>6 DEF Frames, InHead
<1>10. open' = [open EXCEPT ![n] = f]
  BY <1>1, <1>2 DEF Frames
<1> HIDE DEF f
<1>11. \A x \in SuperFlags \cup {"IN_ITERATION", "IN_SWITCH"} :
          x \in f.status <=> x \in Top.status
  BY <1>7, <1>9 DEF SuperFlags, Flags
<1>12. BodyFlagsOf(Top) => BodyFlagsOf(f)
  <2>1. /\ "ASYNC_FUNCTION" \in f.status <=> "ASYNC_FUNCTION" \in Top.status
    BY <1>7, <1>9 DEF Flags
  <2> QED BY <1>2, <1>3, <1>8, <1>9, <2>1 DEF BodyFlagsOf
<1> QED BY <1>2, <1>3, <1>9, <1>10, <1>11, <1>12, LastTurned

LEMMA StepElse ==
    ASSUME Inv, Else
    PROVE  Inv'
<1> DEFINE n == Len(open)
           f == [Top EXCEPT !.form = "else", !.takes = "one"]
<1>1. /\ n \in Nat /\ n \in 1 .. n /\ Top = open[n] /\ open \in Seq(Frames)
      /\ Top \in Frames
  BY Here
<1>2. /\ Top.form = "if"
      /\ open' = [open EXCEPT ![n].form = "else", ![n].takes = "one"]
      /\ read' = ReadIn(Status) /\ typescript' = typescript
  BY DEF Else
<1>3. /\ f \in Frames /\ f.form = "else" /\ f.label = Top.label
      /\ f.ctx = Top.ctx /\ f.past = Top.past /\ f.async = Top.async
      /\ f.generator = Top.generator /\ f.status = Top.status /\ ~InHead(f)
  BY <1>1 DEF Frames, InHead, StatementForms
<1>4. open' = [open EXCEPT ![n] = f]
  BY <1>1, <1>2 DEF Frames
<1> HIDE DEF f
<1>5. {"if", "else"} \subseteq StatementForms
  BY DEF StatementForms
<1>6. BodyFlagsOf(Top) => BodyFlagsOf(f)
  BY <1>2, <1>3, <1>5, FormsApart DEF BodyFlagsOf
<1>7. Top.ctx # n
  BY <1>1, <1>2, <1>5 DEF Inv, Shape
<1> QED BY <1>2, <1>3, <1>4, <1>6, <1>7, LastTurned

\* What is left when the innermost construct is over.
LEMMA PoppedShrunk ==
    ASSUME Inv, Top.form # "program"
    PROVE  /\ Shrunk(open, Popped)
           /\ Popped \in Seq(Frames)
           /\ Len(Popped) = Len(open) - 1
           /\ Len(open) > 1
           /\ Top.form \in StatementForms =>
                 Popped[Popped[Len(Popped)].ctx].status = Status
<1> DEFINE n == Len(open)
           c == Top.ctx
           outer == SubSeq(open, 1, n - 1)
<1>1. /\ n \in Nat /\ n \in 1 .. n /\ Top = open[n] /\ open \in Seq(Frames)
      /\ Top \in Frames /\ c \in 1 .. n
      /\ Context = open[c] /\ Status = Context.status
      /\ Status \in SUBSET Flags
      /\ Context \in Frames
      /\ Context.past \in SUBSET {"loop", "switch", "async"}
  BY Here
<1>2. Shape(open)
  BY DEF Inv
<1>3. n > 1
  BY <1>1, <1>2 DEF Shape
<1>4. /\ outer \in Seq(Frames)
      /\ Len(outer) = n - 1
      /\ \A i \in 1 .. n - 1 : outer[i] = open[i]
  BY <1>1, <1>3
<1>5. Top.form \in StatementForms => c \in 1 .. n - 1
  BY <1>1, <1>2 DEF Shape
<1> HIDE DEF outer
<1>6. CASE Top.form \notin {"loop", "switch"}
  <2>1. Popped = outer
    BY <1>6 DEF Popped, outer
  <2>2. \A i \in 1 .. n - 1 : Alike(outer[i], open[i])
    BY <1>4 DEF Alike
  <2>3. Shrunk(open, outer)
    BY <1>1, <1>3, <1>4, <1>6, <2>2 DEF Shrunk
  <2>4. ASSUME Top.form \in StatementForms
        PROVE  outer[outer[n - 1].ctx].status = Status
    <3>1. open[n - 1].ctx = c
      BY <1>1, <1>2, <2>4 DEF Shape
    <3> QED BY <1>1, <1>3, <1>4, <1>5, <2>4, <3>1
  <2> QED BY <1>3, <1>4, <2>1, <2>3, <2>4
<1>7. CASE Top.form \in {"loop", "switch"}
  <2> DEFINE past == Context.past \cup {Top.form}
             f == [Context EXCEPT !.past = past]
             s2 == [outer EXCEPT ![c] = f]
  <2>1. c \in 1 .. n - 1 /\ Top.form \in StatementForms
    BY <1>5, <1>7, FormsApart
  <2>2. outer[c] = Context /\ Restored(Status, Top.saved) = Status
    BY <1>1, <1>4, <2>1, RestoredNothing
  <2>3. f \in Frames /\ Alike(f, Context) /\ f.status = Status
        /\ f.past = past /\ (InHead(f) <=> InHead(Context))
    BY <1>1, <1>7, SMTT(60) DEF Frames, Alike, InHead
  <2>4. Popped = s2
    <3>1. Popped = [outer EXCEPT ![c].status = Restored(@, Top.saved),
                                 ![c].past = @ \cup {Top.form}]
      BY <1>7 DEF Popped, outer
    <3>2. [outer EXCEPT ![c].status = Restored(@, Top.saved),
                        ![c].past = @ \cup {Top.form}] =
          [outer EXCEPT ![c] =
              [outer[c] EXCEPT !.status = Restored(@, Top.saved),
                               !.past = @ \cup {Top.form}]]
      BY <1>4, <2>1
    <3>3. [Context EXCEPT !.status = Restored(@, Top.saved),
                          !.past = @ \cup {Top.form}] = f
      BY <1>1, <2>2 DEF Frames
    <3> QED BY <2>2, <3>1, <3>2, <3>3
  <2> HIDE DEF f, past
  <2>5. /\ s2 \in Seq(Frames)
        /\ Len(s2) = n - 1
        /\ \A i \in 1 .. n - 1 : s2[i] = IF i = c THEN f ELSE open[i]
    BY <1>1, <1>4, <2>1, <2>3
  <2> HIDE DEF s2
  <2>6. Shrunk(open, s2)
    <3>1. ASSUME NEW i \in 1 .. n - 1
          PROVE  /\ Alike(s2[i], open[i])
                 /\ InHead(s2[i]) <=> InHead(open[i])
                 /\ s2[i].status = open[i].status
                 /\ s2[i].past = IF i = c THEN open[i].past \cup {Top.form}
                                 ELSE open[i].past
      <4>1. CASE i = c
        BY <1>1, <2>3, <2>5, <4>1 DEF past
      <4>2. CASE i # c
        BY <2>5, <4>2 DEF Alike
      <4> QED BY <4>1, <4>2
    <3> QED BY <1>1, <1>3, <1>7, <2>5, <3>1 DEF Shrunk
  <2>7. s2[s2[n - 1].ctx].status = Status
    <3>1. open[n - 1].ctx = c
      BY <1>1, <1>2, <2>1 DEF Shape
    <3>2. s2[n - 1].ctx = c
      <4>1. n - 1 \in 1 .. n - 1
        BY <1>1, <1>3
      <4> QED BY <2>6, <3>1, <4>1 DEF Shrunk, Alike
    <3> QED BY <2>1, <2>3, <2>5, <3>2
  <2> QED BY <1>3, <2>4, <2>5, <2>6, <2>7
<1> QED BY <1>6, <1>7

\* A step that closes a construct, whatever is read after it.
LEMMA Closed ==
    ASSUME Inv, Top.form # "program", open' = Popped,
           typescript' = typescript,
           read' \in [flags : SUBSET LexerFlags, ended : BOOLEAN],
           ReadHere'
    PROVE  Inv'
<1>1. /\ Shape(open) /\ JumpFlags(open)
      /\ BodyFlags(open) /\ FunctionFlags(open)
      /\ Len(open) <= MaxDepth /\ typescript \in BOOLEAN
  BY DEF Inv
<1>2. /\ Shape(Popped) /\ JumpFlags(Popped)
      /\ BodyFlags(Popped) /\ FunctionFlags(Popped)
  BY <1>1, PoppedShrunk, ShrunkKeeps
<1>3. Len(Popped) <= MaxDepth
  BY <1>1, Here, NestingAssumption, PoppedShrunk
<1> QED BY <1>1, <1>2, <1>3 DEF Inv

LEMMA StepCloseBlock ==
    ASSUME Inv, CloseBlock
    PROVE  Inv'
<1>1. /\ open' = Popped /\ read' = ReadIn(Status)
      /\ typescript' = typescript
      /\ Top.form \in {"block", "switch"}
  BY DEF CloseBlock
<1>2. Top.form \in StatementForms /\ Top.form # "program"
  BY <1>1 DEF StatementForms
<1>3. /\ Len(Popped) \in Nat
      /\ Status = Popped[Popped[Len(Popped)].ctx].status
  BY <1>2, PoppedShrunk, Here
<1>4. /\ read' \in [flags : SUBSET LexerFlags, ended : BOOLEAN]
      /\ ReadHere'
  BY <1>1, <1>3, ReadAtOnce
<1> QED BY <1>1, <1>2, <1>4, Closed

LEMMA StepCloseFunction ==
    ASSUME Inv, CloseFunction
    PROVE  Inv'
<1> DEFINE n == Len(open)
           status == open[open[n - 1].ctx].status
<1>1. /\ open' = Popped /\ typescript' = typescript
      /\ Top.form \in FunctionForms
      /\ \/ read' = [flags |-> Now, ended |-> TRUE]
         \/ read' = ReadIn(status)
  BY DEF CloseFunction
<1>2. Top.form # "program"
  BY <1>1, FormsApart
<1>3. /\ Len(Popped) = n - 1 /\ n > 1 /\ n \in Nat
      /\ Shrunk(open, Popped)
  BY <1>2, PoppedShrunk, Here
<1>4. status = Popped[Popped[Len(Popped)].ctx].status
  <2>1. n - 1 \in 1 .. n - 1 /\ n - 1 \in 1 .. n
    BY <1>3
  <2>2. open[n - 1].ctx \in 1 .. n - 1
    BY <2>1 DEF Inv, Shape
  <2>3. Popped[n - 1].ctx = open[n - 1].ctx
    BY <1>3, <2>1 DEF Shrunk, Alike
  <2> QED BY <1>3, <2>2, <2>3 DEF Shrunk
<1>5. /\ read' \in [flags : SUBSET LexerFlags, ended : BOOLEAN]
      /\ ReadHere'
  <2>1. CASE read' = ReadIn(status)
    <3> HIDE DEF status
    <3> QED BY <1>1, <1>3, <1>4, <2>1, ReadAtOnce
  <2>2. CASE read' = [flags |-> Now, ended |-> TRUE]
    BY <2>2 DEF Now, ReadHere
  <2> QED BY <1>1, <2>1, <2>2
<1> QED BY <1>1, <1>2, <1>5, Closed

LEMMA StepCloseSingle ==
    ASSUME Inv, CloseSingle
    PROVE  Inv'
<1>1. /\ open' = Popped /\ typescript' = typescript
      /\ Top.form \in {"loop", "label", "if", "else"}
      /\ \/ read' = [read EXCEPT !.ended = TRUE]
         \/ Top.form # "label" /\ read' = read
         \/ Top.form # "label" /\ read' = ReadIn(Status)
  BY DEF CloseSingle
<1>2. Top.form # "program"
  BY <1>1
<1>3. Top.form # "label" => Top.form \in StatementForms
  BY <1>1 DEF StatementForms
<1>4. Len(Popped) \in Nat
  BY <1>2, PoppedShrunk, Here
<1>5. Top.form # "label" =>
        Status = Popped[Popped[Len(Popped)].ctx].status
  BY <1>2, <1>3, PoppedShrunk
<1>6. read \in [flags : SUBSET LexerFlags, ended : BOOLEAN] /\ ReadHere
  BY DEF Inv
<1>7. /\ read' \in [flags : SUBSET LexerFlags, ended : BOOLEAN]
      /\ ReadHere'
  <2>1. CASE read' = [read EXCEPT !.ended = TRUE]
    BY <1>6, <2>1 DEF ReadHere
  <2>2. CASE Top.form # "label" /\ read' = read
    <3>1. Now' = Now
      BY <1>1, <1>5, <2>2 DEF Now, Status, Context, Top
    <3> QED BY <1>6, <2>2, <3>1 DEF ReadHere
  <2>3. CASE Top.form # "label" /\ read' = ReadIn(Status)
    BY <1>1, <1>4, <1>5, <2>3, ReadAtOnce
  <2> QED BY <1>1, <2>1, <2>2, <2>3
<1> QED BY <1>1, <1>2, <1>7, Closed

-----------------------------------------------------------------------------
(* The theorems.                                                           *)

LEMMA InvInit ==
    ASSUME Init
    PROVE  Inv
<1> DEFINE f == Frame(Plain("program"), NoLabel, "list", {}, {}, 1)
<1>1. typescript \in BOOLEAN /\ open = <<f>> /\ read = ReadIn({})
  BY DEF Init
<1>2. /\ f \in Frames /\ f.form = "program" /\ f.label = NoLabel
      /\ f.ctx = 1 /\ f.status = {} /\ ~InHead(f)
  BY DEF Frame, Plain, Frames, InHead
<1> HIDE DEF f
<1>3. open \in Seq(Frames) /\ Len(open) = 1 /\ open[1] = f
  BY <1>1, <1>2
<1>4. \A i \in 1 .. 1 : i = 1
  OBVIOUS
<1>5. Shape(open)
  BY <1>2, <1>3, <1>4, FormsApart DEF Shape
<1>6. JumpFlags(open)
  BY <1>2, <1>3, <1>4 DEF JumpFlags, JumpFlagsAt
<1>7. BodyFlags(open)
  BY <1>2, <1>3, <1>4, FormsApart DEF BodyFlags, BodyFlagsOf
<1>8. FunctionFlags(open)
  <2>1. \A forms \in SUBSET FunctionForms :
          f.form \notin forms
    BY <1>2, FormsApart
  <2>2. /\ {"method", "constructor"} \in SUBSET FunctionForms
        /\ {"constructor"} \in SUBSET FunctionForms
        /\ FunctionForms \ {"arrow"} \in SUBSET FunctionForms
        /\ FunctionForms \in SUBSET FunctionForms
    BY DEF FunctionForms
  <2>3. \A forms \in SUBSET FunctionForms : \A hidden :
          ~Seen(open, 1, forms, hidden)
    BY <1>3, <1>4, <2>1 DEF Seen
  <2> QED BY <1>2, <1>3, <1>4, <2>2, <2>3
          DEF FunctionFlags, FunctionFlagsAt
<1>9. read \in [flags : SUBSET LexerFlags, ended : BOOLEAN] /\ ReadHere
  BY <1>1, <1>2, <1>3 DEF ReadIn, ReadHere, Now, Status, Context, Top
<1>10. Len(open) <= MaxDepth
  BY <1>3, NestingAssumption
<1> QED BY <1>1, <1>5, <1>6, <1>7, <1>8, <1>9, <1>10 DEF Inv

LEMMA InvStep ==
    ASSUME Inv, [Next]_vars
    PROVE  Inv'
<1>1. CASE Say
  BY <1>1, StepSay
<1>2. ASSUME NEW form \in StatementForms \ {"else"}, OpenStatement(form)
      PROVE  Inv'
  BY <1>2, StepOpenStatement
<1>3. ASSUME NEW l \in Labels, OpenLabel(l)
      PROVE  Inv'
  BY <1>3, StepOpenLabel
<1>4. ASSUME NEW kind \in Kinds, OpenFunction(kind)
      PROVE  Inv'
  BY <1>4, StepOpenFunction
<1>5. ASSUME NEW kind \in Kinds, OpenArrow(kind)
      PROVE  Inv'
  BY <1>5, StepOpenArrow
<1>6. CASE EnterBody
  BY <1>6, StepEnterBody
<1>7. CASE CloseBlock
  BY <1>7, StepCloseBlock
<1>8. CASE CloseFunction
  BY <1>8, StepCloseFunction
<1>9. CASE CloseSingle
  BY <1>9, StepCloseSingle
<1>10. CASE Else
  BY <1>10, StepElse
<1>11. CASE UNCHANGED vars
  <2>1. open' = open /\ read' = read /\ typescript' = typescript
    BY <1>11 DEF vars
  <2>2. ReadHere' <=> ReadHere
    BY <2>1 DEF ReadHere, Now, Status, Context, Top
  <2> QED BY <2>1, <2>2 DEF Inv
<1> QED BY <1>1, <1>2, <1>3, <1>4, <1>5, <1>6, <1>7, <1>8, <1>9, <1>10,
           <1>11 DEF Next

(* The contexts, the flags they carry and the constructs that are open     *)
(* agree at every point of every parse.                                    *)
THEOREM Agreement == Spec => []Inv
<1>1. Init => Inv
  BY InvInit
<1>2. Inv /\ [Next]_vars => Inv'
  BY InvStep
<1> QED BY <1>1, <1>2, PTL DEF Spec

(* The stack of contexts is well formed and no deeper than it may be.      *)
THEOREM TypeCorrect == Spec => []TypeOK
<1>1. Inv => TypeOK
  <2> SUFFICES ASSUME Inv PROVE TypeOK
    OBVIOUS
  <2>1. Len(open) \in 1 .. MaxDepth
    BY Here, NestingAssumption DEF Inv
  <2> QED BY <2>1, Here DEF Inv, TypeOK
<1> QED BY <1>1, Agreement, PTL

(* No jump without its target passes the parser, but for the ones behind a *)
(* loop or a switch that is over.                                          *)
THEOREM AcceptedJumps == Spec => []JumpsHaveTargets
<1>1. Inv => JumpsHaveTargets
  BY InvTargets
<1> QED BY <1>1, Agreement, PTL

(* Every jump with its target passes, but in the places the labels spoil.  *)
THEOREM AcceptsJumps == Spec => []LegalJumpsAccepted
<1>1. Inv => LegalJumpsAccepted
  BY InvLegal
<1> QED BY <1>1, Agreement, PTL

(* A word is read in the context it stands in, but behind what has just    *)
(* ended.                                                                  *)
THEOREM ReadsInContext == Spec => []TokenReadInItsContext
<1>1. Inv => TokenReadInItsContext
  BY InvRead
<1> QED BY <1>1, Agreement, PTL

(* `await` is what the async function around it makes of it.               *)
THEOREM AwaitsFollow == Spec => []AwaitFollowsFunction
<1>1. Inv => AwaitFollowsFunction
  BY InvAwait
<1> QED BY <1>1, Agreement, PTL

(* `yield` is what the generator around it makes of it.                    *)
THEOREM YieldsFollow == Spec => []YieldFollowsFunction
<1>1. Inv => YieldFollowsFunction
  BY InvYield
<1> QED BY <1>1, Agreement, PTL

(* super, new.target and return are seen through arrow functions to the    *)
(* function that gives them; super and super() as long as no label is      *)
(* between.                                                                *)
THEOREM SupersFollow == Spec => []SuperFollowsMethod
<1>1. Inv => SuperFollowsMethod
  BY InvSuper
<1> QED BY <1>1, Agreement, PTL
=============================================================================
