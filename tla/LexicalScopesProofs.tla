------------------------ MODULE LexicalScopesProofs -------------------------
(***************************************************************************)
(* Proofs about LexicalScopes, for programs of any size and any kinds of   *)
(* constructs: every access to a captured variable leads to the            *)
(* environment of its variable, which has the slot, no two variables share *)
(* a slot of an environment, what a function reads from around it has a    *)
(* slot, and the captured variables of a loop are in its environments.     *)
(*                                                                         *)
(* The invariant IInv says that there is a program g that explains the     *)
(* state: where each construct stands, which function it is in, and which  *)
(* constructs are open after each event.  The parser writes it, the binder *)
(* and the compiler walk it again.                                         *)
(***************************************************************************)
EXTENDS LexicalScopes, FiniteSetTheorems, InductionLemmas, TLAPS

(***************************************************************************)
(* What the proof knows of the program besides the state: g.at[c] is where *)
(* the construct c stands, g.fun[c] the function it is in (itself, if it   *)
(* is one), g.within[c] the constructs it is in and itself, g.owner[s] the *)
(* construct of the scope s, and g.walk[i] the path after i events.        *)
(***************************************************************************)
Element == [c : Nat, part : {"head", "update", "body"}]

Constructs == 1 .. Len(constructs)
KindOf(c)  == constructs[c].kind
FirstOf(c) == constructs[c].scope
ScopesOf(c) == IF IsLoop(KindOf(c))
               THEN {FirstOf(c), FirstOf(c) + 1, FirstOf(c) + 2}
               ELSE {FirstOf(c)}

AroundOf(e) == IF \/ Kind(e) = "of" /\ e.part = "head"
                  \/ IsLoop(Kind(e)) /\ e.part = "update"
               THEN LoopScope(e) ELSE ScopeOf(e)

TypeOK ==
  /\ phase \in {"parse", "resolve", "compile", "done"}
  /\ pos \in Nat
  /\ path \in Seq(Element)
  /\ constructs \in Seq([kind : {"function", "block", "let", "const", "of"},
                         scope : Nat])
  /\ scopes \in Seq([parent : Nat, isVariableScope : BOOLEAN, slots : Nat,
                     bindings : SUBSET Nat])
  /\ variables \in Seq([name : Nat \X {"head", "body"},
                        kind : {"let", "const"}, slot : Nat \cup {None}])
  /\ events \in Seq([op : {"open", "part", "close"}, e : Element]
                      \cup [op : {"name"}, name : Nat \X {"head", "body"}])

(* Constructs stand in older ones, the first is a function.                *)
TreeOK(g) ==
  /\ constructs # <<>> => KindOf(1) = "function"
  /\ \A c \in Constructs :
       /\ c # 1 => g.at[c] \in Element /\ g.at[c].c \in 1 .. c - 1
       /\ g.fun[c] \in Constructs /\ KindOf(g.fun[c]) = "function"
       /\ g.fun[c] = IF KindOf(c) = "function" THEN c ELSE g.fun[g.at[c].c]
       /\ g.within[c] \subseteq 1 .. c
       /\ g.within[c] = {c} \cup IF c = 1 THEN {} ELSE g.within[g.at[c].c]

(* The scopes of a construct are its own, one in the other, and in the     *)
(* scope of the place where the construct stands.                          *)
LayoutOK(g) ==
  /\ \A c \in Constructs :
       /\ \A s \in ScopesOf(c) : s \in 1 .. Len(scopes) /\ g.owner[s] = c
       /\ scopes[FirstOf(c)].parent = IF c = 1 THEN 0 ELSE AroundOf(g.at[c])
       /\ IsLoop(KindOf(c)) => /\ scopes[FirstOf(c) + 1].parent = FirstOf(c)
                               /\ scopes[FirstOf(c) + 2].parent = FirstOf(c) + 1
  /\ \A s \in 1 .. Len(scopes) :
       /\ g.owner[s] \in Constructs /\ s \in ScopesOf(g.owner[s])
       /\ scopes[s].parent \in 0 .. s - 1

(* The name of the variables of a scope.                                   *)
NameIn(c, s) ==
  <<c, IF IsLoop(KindOf(c)) /\ s # FirstOf(c) + 2 THEN "head" ELSE "body">>

BindingsOK(g) ==
  /\ \A c \in Constructs :
       /\ \A s \in ScopesOf(c) : \A v \in scopes[s].bindings :
            v \in 1 .. Len(variables) /\ variables[v].name = NameIn(c, s)
       /\ scopes[FirstOf(c)].bindings # {}
       /\ IsLoop(KindOf(c)) =>
            /\ scopes[FirstOf(c) + 2].bindings # {}
            /\ \A v \in scopes[FirstOf(c)].bindings :
                 variables[v].kind = "let" <=> KindOf(c) # "const"
  /\ \A v \in 1 .. Len(variables) :
       /\ variables[v].name[1] \in Constructs
       /\ variables[v].name[2] = "head" => IsLoop(KindOf(variables[v].name[1]))

(* A loop whose scopes became variable scopes.                             *)
Converted(c) == IsLoop(KindOf(c)) /\ scopes[FirstOf(c) + 1].bindings # {}

VariableScopesOK ==
  \A c \in Constructs :
    LET s == FirstOf(c)
    IN  IF ~ IsLoop(KindOf(c))
        THEN scopes[s].isVariableScope = (KindOf(c) = "function")
        ELSE /\ ~ scopes[s + 2].isVariableScope
             /\ scopes[s].isVariableScope = Converted(c)
             /\ scopes[s + 1].isVariableScope =
                  (Converted(c) /\ KindOf(c) # "const")
             /\ Converted(c) => scopes[s].slots > 0
             /\ scopes[s + 1].isVariableScope =>
                  scopes[s + 1].slots = scopes[s].slots

(* A slot is one of the function's environment, and of one name.           *)
SameSlot(v) ==
  \A w \in 1 .. Len(variables) :
    v # w /\ variables[v].name = variables[w].name =>
      variables[v].slot = variables[w].slot /\ variables[v].slot # None

SlotFits(g, v) ==
  variables[v].slot # None =>
    /\ variables[v].slot < scopes[FirstOf(g.fun[variables[v].name[1]])].slots
    /\ \A c \in g.within[variables[v].name[1]] :
         Converted(c) /\ g.fun[c] = g.fun[variables[v].name[1]] =>
           variables[v].slot < scopes[FirstOf(c)].slots

OwnSlot(g, v) ==
  variables[v].slot # None =>
    \A w \in 1 .. Len(variables) :
      /\ variables[v].slot = variables[w].slot
      /\ g.fun[variables[v].name[1]] = g.fun[variables[w].name[1]]
      => variables[v].name = variables[w].name

SlotsOK(g) ==
  \A v \in 1 .. Len(variables) : SameSlot(v) /\ SlotFits(g, v) /\ OwnSlot(g, v)

(* A path leads from construct to construct in it.                         *)
PathOK(g, p) ==
  /\ p \in Seq(Element)
  /\ \A k \in 1 .. Len(p) :
       /\ p[k].c \in Constructs /\ (p[k].c = 1 <=> k = 1)
       /\ k > 1 => g.at[p[k].c] = p[k - 1]

(* The construct of e has the variable, in its head or in the part e says. *)
Shows(e, name) ==
  \/ name = <<e.c, "head">> /\ IsLoop(Kind(e))
  \/ name = <<e.c, "body">> /\ (IsLoop(Kind(e)) => e.part = "body")

VisibleAt(p, name) == \E k \in 1 .. Len(p) : Shows(p[k], name)

OnPath(p, c) == \E k \in 1 .. Len(p) : p[k].c = c

(* The walk through the events: a construct that is closed is not entered  *)
(* again, what is named is visible.                                        *)
ProgramOK(g) ==
  /\ g.walk[0] = <<>>
  /\ \A i \in 0 .. Len(events) : PathOK(g, g.walk[i])
  /\ \A i \in 1 .. Len(events) :
       /\ g.walk[i] = Walked(g.walk[i - 1], events[i])
       /\ events[i].op = "name" => VisibleAt(g.walk[i - 1], events[i].name)
       /\ events[i].op = "close" =>
            /\ g.walk[i - 1] # <<>> /\ events[i].e = Last(g.walk[i - 1])
            /\ \A j \in i .. Len(events) : ~ OnPath(g.walk[j], events[i].e.c)

(* There is a function between the variable and where it is named.         *)
Crosses(p, name) ==
  \E d \in 1 .. Len(p), k \in 1 .. Len(p) :
    p[d].c = name[1] /\ d < k /\ Kind(p[k]) = "function"

CapturedUpTo(g, m) ==
  \A i \in 1 .. m :
    events[i].op = "name" /\ Crosses(g.walk[i - 1], events[i].name) =>
      \A v \in 1 .. Len(variables) :
        variables[v].name = events[i].name => variables[v].slot # None

AccessOK(g, a) ==
  /\ a.function => a.slot # None
  /\ a.slot # None =>
       /\ a.level + a.off \in 0 .. Len(a.chain) - 1
       /\ a.home # <<>> /\ Reached(a) = a.home[1]
       /\ Reached(a) \in 1 .. Len(scopes) /\ a.slot < scopes[Reached(a)].slots
       /\ g.fun[g.owner[Reached(a)]] = g.fun[a.name[1]]
       /\ \E v \in 1 .. Len(variables) :
            variables[v].name = a.name /\ variables[v].slot = a.slot
       /\ a.name[2] = "head" /\ a.part = "body" =>
            Reached(a) = IF KindOf(a.name[1]) = "const" THEN FirstOf(a.name[1])
                         ELSE FirstOf(a.name[1]) + 1

PhaseOK(g) ==
  CASE phase = "parse" ->
         /\ pos = 1 /\ path = g.walk[Len(events)] /\ accesses = {}
         /\ \A c \in Constructs : ~ Converted(c)
         /\ \A v \in 1 .. Len(variables) : variables[v].slot = None
    [] phase = "resolve" ->
         /\ pos \in 1 .. Len(events) /\ path = g.walk[pos - 1] /\ accesses = {}
         /\ g.walk[Len(events)] = <<>>
         /\ CapturedUpTo(g, pos - 1)
         /\ \A c \in Constructs : Converted(c) =>
              \A i \in pos - 1 .. Len(events) : ~ OnPath(g.walk[i], c)
         /\ \A v \in 1 .. Len(variables) :
              variables[v].name[2] = "head" /\ variables[v].slot # None =>
                \/ Converted(variables[v].name[1])
                \/ OnPath(path, variables[v].name[1])
    [] OTHER ->
         /\ pos \in 1 .. Len(events) /\ path = g.walk[pos - 1]
         /\ g.walk[Len(events)] = <<>>
         /\ CapturedUpTo(g, Len(events))
         /\ \A v \in 1 .. Len(variables) :
              variables[v].name[2] = "head" /\ variables[v].slot # None =>
                Converted(variables[v].name[1])
         /\ \A a \in accesses : AccessOK(g, a)

ScopesOK(g) ==
  /\ TreeOK(g) /\ LayoutOK(g) /\ BindingsOK(g) /\ VariableScopesOK /\ SlotsOK(g)
  /\ ProgramOK(g) /\ PhaseOK(g)

IInv == TypeOK /\ \E g : ScopesOK(g)

-----------------------------------------------------------------------------
(* What the recursive definitions say.                                     *)

(* The types of the elements.                                              *)
LEMMA Typed ==
  ASSUME TypeOK
  PROVE  /\ Len(constructs) \in Nat /\ Len(scopes) \in Nat /\ Len(variables) \in Nat
         /\ Len(events) \in Nat /\ Len(path) \in Nat
         /\ \A c \in 1 .. Len(constructs) :
              /\ constructs[c].kind \in {"function", "block", "let", "const", "of"}
              /\ constructs[c].scope \in Nat
         /\ \A s \in 1 .. Len(scopes) :
              /\ scopes[s].parent \in Nat /\ scopes[s].isVariableScope \in BOOLEAN
              /\ scopes[s].slots \in Nat /\ scopes[s].bindings \in SUBSET Nat
         /\ \A v \in 1 .. Len(variables) :
              /\ variables[v].name \in Nat \X {"head", "body"}
              /\ variables[v].kind \in {"let", "const"}
              /\ variables[v].slot \in Nat \cup {None}
         /\ \A k \in 1 .. Len(path) :
              path[k] \in Element /\ path[k].c \in Nat
              /\ path[k].part \in {"head", "update", "body"}
<1>1. /\ Len(constructs) \in Nat /\ Len(scopes) \in Nat /\ Len(variables) \in Nat
      /\ Len(events) \in Nat /\ Len(path) \in Nat
  BY LenProperties DEF TypeOK
<1>2. ASSUME NEW c \in 1 .. Len(constructs)
      PROVE  constructs[c] \in [kind : {"function", "block", "let", "const", "of"},
                                scope : Nat]
  BY ElementOfSeq DEF TypeOK
<1>3. ASSUME NEW s \in 1 .. Len(scopes)
      PROVE  scopes[s] \in [parent : Nat, isVariableScope : BOOLEAN, slots : Nat,
                            bindings : SUBSET Nat]
  BY ElementOfSeq DEF TypeOK
<1>4. ASSUME NEW v \in 1 .. Len(variables)
      PROVE  variables[v] \in [name : Nat \X {"head", "body"},
                               kind : {"let", "const"}, slot : Nat \cup {None}]
  BY ElementOfSeq DEF TypeOK
<1>5. \A k \in 1 .. Len(path) : path[k] \in Element
  BY ElementOfSeq DEF TypeOK
<1>6. \A e \in Element : e.c \in Nat /\ e.part \in {"head", "update", "body"}
  BY DEF Element
<1>7. QED
  BY <1>1, <1>2, <1>3, <1>4, <1>5, <1>6

(* A value for every number up to n, from the one of a smaller number.     *)
Older(older, n) == older \in [1 .. n -> Nat] /\ \A t \in 1 .. n : older[t] < t
Recursive(f, n, b, older, H) ==
  f[0] = b /\ \A t \in 1 .. n : f[t] = H[<<t, f[older[t]]>>]

(* A function on 0 .. n that is given by its value at an older place.      *)
LEMMA Recursion ==
  ASSUME NEW n \in Nat, NEW V, NEW b \in V, NEW older, Older(older, n),
         NEW H \in [(1 .. n) \X V -> V]
  PROVE  \E f \in [0 .. n -> V] : Recursive(f, n, b, older, H)
<1> DEFINE P(f, m) == f[0] = b /\ \A t \in 1 .. m : f[t] = H[<<t, f[older[t]]>>]
           S == {m \in Nat : m <= n => \E f \in [0 .. m -> V] : P(f, m)}
<1>1. 0 \in S
  <2>1. PICK f : f = [t \in 0 .. 0 |-> b]
    OBVIOUS
  <2>2. f \in [0 .. 0 -> V] /\ P(f, 0)
    BY <2>1
  <2>3. QED
    BY <2>2
<1>2. ASSUME NEW m \in Nat, m \in S
      PROVE  m + 1 \in S
  <2>1. SUFFICES ASSUME m + 1 <= n
                 PROVE  \E f \in [0 .. m + 1 -> V] : P(f, m + 1)
    OBVIOUS
  <2>2. PICK f \in [0 .. m -> V] : P(f, m)
    BY <1>2, <2>1
  <2>3. m + 1 \in 1 .. n /\ \A t \in 1 .. m + 1 : older[t] \in 0 .. m
    BY <2>1 DEF Older
  <2>4. PICK x \in V : x = H[<<m + 1, f[older[m + 1]]>>]
    BY <2>3
  <2>5. PICK h : h = [t \in 0 .. m + 1 |-> IF t <= m THEN f[t] ELSE x]
    OBVIOUS
  <2>6. h \in [0 .. m + 1 -> V]
    BY <2>5
  <2>7. \A t \in 0 .. m : h[t] = f[t]
    BY <2>5
  <2>8. h[m + 1] = x
    BY <2>5
  <2>9. ASSUME NEW t \in 1 .. m + 1
        PROVE  h[t] = H[<<t, h[older[t]]>>]
    <3>1. older[t] \in 0 .. m
      BY <2>3
    <3>2. h[older[t]] = f[older[t]]
      BY <2>7, <3>1
    <3>3. CASE t <= m
      BY <2>2, <2>7, <3>2, <3>3
    <3>4. CASE t = m + 1
      BY <2>4, <2>8, <3>2, <3>4
    <3>5. QED
      BY <3>3, <3>4
  <2>10. P(h, m + 1)
    BY <2>2, <2>7, <2>9
  <2>11. QED
    BY <2>6, <2>10
<1> HIDE DEF S
<1>3. S = Nat
  <2>1. S \in SUBSET Nat
    BY DEF S
  <2>2. QED
    BY <1>1, <1>2, <2>1, SetInduction
<1>4. n \in S
  BY <1>3
<1>5. PICK f \in [0 .. n -> V] : P(f, n)
  BY <1>4 DEF S
<1>6. QED
  BY <1>5 DEF Recursive

(* Every scope is in an older one.                                         *)
Parents == \A s \in 1 .. Len(scopes) : scopes[s].parent \in 0 .. s - 1

(* EnclosingVariableScope, one step up.                                    *)
LEMMA EnclosingIs ==
  ASSUME TypeOK, Parents
  PROVE  \A s \in 1 .. Len(scopes) :
           EnclosingVariableScope(s) =
             IF scopes[s].isVariableScope THEN s
             ELSE EnclosingVariableScope(scopes[s].parent)
<1> DEFINE n == Len(scopes)
           W(f, t) == IF t = 0 \/ scopes[t].isVariableScope THEN t
                      ELSE f[scopes[t].parent]
           P(f) == f = [t \in 0 .. n |-> W(f, t)]
<1>1. n \in Nat
  BY DEF TypeOK
<1>2. \E f : P(f)
  <2>1. PICK older : older = [t \in 1 .. n |-> scopes[t].parent]
    OBVIOUS
  <2>2. Older(older, n) /\ \A t \in 1 .. n : older[t] \in 0 .. n
    BY <2>1, <1>1 DEF Parents, Older
  <2>3. PICK H : H = [x \in (1 .. n) \X Nat |->
                        IF scopes[x[1]].isVariableScope THEN x[1] ELSE x[2]]
    OBVIOUS
  <2>4. H \in [(1 .. n) \X Nat -> Nat]
    BY <2>3, <1>1
  <2>5. PICK f \in [0 .. n -> Nat] : Recursive(f, n, 0, older, H)
    BY <1>1, <2>2, <2>4, 0 \in Nat, Recursion
  <2>6. ASSUME NEW t \in 0 .. n
        PROVE  f[t] = W(f, t)
    <3>1. CASE t = 0
      BY <2>5, <3>1 DEF Recursive
    <3>2. CASE t # 0
      <4>1. t \in 1 .. n /\ older[t] = scopes[t].parent /\ older[t] \in 0 .. n
        BY <1>1, <2>1, <2>2, <3>2
      <4>2. f[t] = H[<<t, f[older[t]]>>] /\ f[older[t]] \in Nat
        BY <2>5, <4>1 DEF Recursive
      <4>3. QED
        BY <2>3, <4>1, <4>2, <3>2
    <3>3. QED
      BY <3>1, <3>2
  <2> HIDE DEF W
  <2>7. f = [t \in 0 .. n |-> W(f, t)]
    BY <2>6
  <2>8. QED
    BY <2>7
<1>3. PICK f : f = CHOOSE h : P(h)
  OBVIOUS
<1>4. P(f)
  BY <1>2, <1>3, Zenon
<1>5. \A s : EnclosingVariableScope(s) = f[s]
  BY <1>3 DEF EnclosingVariableScope
<1>6. \A t \in 0 .. n : f[t] = W(f, t)
  <2> HIDE DEF W
  <2>1. QED
    BY <1>4
<1>7. QED
  BY <1>1, <1>5, <1>6

(* Find, scope after scope.                                                *)
Result == [scope : Nat, variable : Nat, level : Nat, lexLevel : Nat]

(* What a scope that has the name answers.                                 *)
LEMMA LocalIs ==
  ASSUME TypeOK, NEW s \in 1 .. Len(scopes), NEW name, Named(s, name) # {}
  PROVE  /\ Local(s, name) \in Result
         /\ Local(s, name).scope = s /\ Local(s, name).variable \in Named(s, name)
         /\ Local(s, name).level = 0 /\ Local(s, name).lexLevel = 0
<1>1. scopes[s].bindings \in SUBSET Nat
  BY Typed
<1>2. PICK v : v = CHOOSE w \in Named(s, name) : TRUE
  OBVIOUS
<1>3. v \in Named(s, name)
  BY <1>2
<1>4. v \in Nat
  BY <1>1, <1>3 DEF Named
<1>5. Local(s, name) = [scope |-> s, variable |-> v, level |-> 0, lexLevel |-> 0]
  BY <1>2 DEF Local
<1>6. QED
  BY <1>3, <1>4, <1>5 DEF Result

(* What a scope adds to the answer of its parent.                          *)
LEMMA BeyondIs ==
  ASSUME TypeOK, NEW s \in 1 .. Len(scopes), NEW res \in Result
  PROVE  /\ Beyond(s, res) \in Result
         /\ Beyond(s, res).scope = res.scope
         /\ Beyond(s, res).variable = res.variable
         /\ Beyond(s, res).level =
              res.level + IF scopes[s].isVariableScope THEN 1 ELSE 0
         /\ Beyond(s, res).lexLevel = res.lexLevel + Len(Frame(s))
<1>1. Len(Frame(s)) = IF NeedLexEnv(s) THEN 1 ELSE 0
  BY DEF Frame
<1>2. CASE scopes[s].isVariableScope
  <2>1. Beyond(s, res) = [res EXCEPT !.level = @ + 1,
                             !.lexLevel = IF NeedLexEnv(s) THEN @ + 1 ELSE @]
    BY <1>2 DEF Beyond
  <2>2. PICK l \in Nat : l = IF NeedLexEnv(s) THEN res.lexLevel + 1 ELSE res.lexLevel
    BY DEF Result
  <2>3. Beyond(s, res) = [scope |-> res.scope, variable |-> res.variable,
                          level |-> res.level + 1, lexLevel |-> l]
    BY <2>1, <2>2 DEF Result
  <2>4. QED
    BY <1>1, <1>2, <2>2, <2>3 DEF Result
<1>3. CASE ~ scopes[s].isVariableScope
  <2>1. Beyond(s, res) = res /\ ~ NeedLexEnv(s)
    BY <1>3 DEF Beyond, NeedLexEnv
  <2>2. QED
    BY <1>1, <1>3, <2>1 DEF Result
<1>4. QED
  BY <1>2, <1>3

(* Find, one step up.                                                      *)
LEMMA FindIs ==
  ASSUME TypeOK, Parents, NEW name
  PROVE  /\ Find(0, name) = Nowhere
         /\ \A s \in 0 .. Len(scopes) : Find(s, name) \in Result
         /\ \A s \in 1 .. Len(scopes) :
              Find(s, name) =
                IF Named(s, name) # {} THEN Local(s, name)
                ELSE Beyond(s, Find(scopes[s].parent, name))
<1> DEFINE n == Len(scopes)
           W(f, t) == IF t = 0 THEN Nowhere
                      ELSE IF Named(t, name) # {} THEN Local(t, name)
                      ELSE Beyond(t, f[scopes[t].parent])
           P(f) == f = [t \in 0 .. n |-> W(f, t)]
<1>1. n \in Nat
  BY DEF TypeOK
<1>2. \E f \in [0 .. n -> Result] : P(f)
  <2>1. PICK older : older = [t \in 1 .. n |-> scopes[t].parent]
    OBVIOUS
  <2>2. Older(older, n) /\ \A t \in 1 .. n : older[t] \in 0 .. n
    BY <2>1, <1>1 DEF Parents, Older
  <2>3. PICK H : H = [x \in (1 .. n) \X Result |->
                        IF Named(x[1], name) # {} THEN Local(x[1], name)
                        ELSE Beyond(x[1], x[2])]
    OBVIOUS
  <2>4. H \in [(1 .. n) \X Result -> Result]
    <3>1. \A x \in (1 .. n) \X Result :
            (IF Named(x[1], name) # {} THEN Local(x[1], name)
             ELSE Beyond(x[1], x[2])) \in Result
      BY LocalIs, BeyondIs
    <3>2. QED
      BY <2>3, <3>1
  <2>5. Nowhere \in Result
    BY DEF Nowhere, Result
  <2>6. PICK f \in [0 .. n -> Result] : Recursive(f, n, Nowhere, older, H)
    BY <1>1, <2>2, <2>4, <2>5, Recursion
  <2>7. ASSUME NEW t \in 0 .. n
        PROVE  f[t] = W(f, t)
    <3>1. CASE t = 0
      BY <2>6, <3>1 DEF Recursive
    <3>2. CASE t # 0
      <4>1. t \in 1 .. n /\ older[t] = scopes[t].parent /\ older[t] \in 0 .. n
        BY <1>1, <2>1, <2>2, <3>2
      <4>2. f[t] = H[<<t, f[older[t]]>>] /\ f[older[t]] \in Result
        BY <2>6, <4>1 DEF Recursive
      <4>3. H[<<t, f[older[t]]>>] = IF Named(t, name) # {} THEN Local(t, name)
                                    ELSE Beyond(t, f[older[t]])
        BY <2>3, <4>1, <4>2
      <4>4. QED
        BY <4>1, <4>2, <4>3, <3>2
    <3>3. QED
      BY <3>1, <3>2
  <2> HIDE DEF W
  <2>8. f = [t \in 0 .. n |-> W(f, t)]
    BY <2>7
  <2>9. QED
    BY <2>8
<1>3. PICK f : f = CHOOSE h : P(h)
  OBVIOUS
<1>4. P(f)
  BY <1>2, <1>3, Zenon
<1>5. \A s : Find(s, name) = f[s]
  BY <1>3 DEF Find
<1>6. \A t \in 0 .. n : f[t] = W(f, t)
  <2> HIDE DEF W
  <2>1. QED
    BY <1>4
<1>7. \A s \in 1 .. n : f[s] = IF Named(s, name) # {} THEN Local(s, name)
                               ELSE Beyond(s, f[scopes[s].parent])
  BY <1>1, <1>6
<1>8. f[0] = Nowhere
  BY <1>1, <1>6
<1> HIDE DEF P
<1> DEFINE S == {m \in Nat : \A s \in 0 .. n : s <= m => f[s] \in Result}
<1>9. 0 \in S
  <2>1. Nowhere \in Result
    BY DEF Nowhere, Result
  <2>2. \A s \in 0 .. n : s <= 0 => s = 0
    BY <1>1
  <2>3. QED
    BY <1>8, <2>1, <2>2
<1>10. ASSUME NEW m \in Nat, m \in S
       PROVE  m + 1 \in S
  <2>1. SUFFICES ASSUME NEW s \in 0 .. n, s = m + 1
                 PROVE  f[s] \in Result
    <3>1. \A s \in 0 .. n : s <= m + 1 => s = m + 1 \/ s <= m
      OBVIOUS
    <3>2. QED
      BY <1>10, <3>1
  <2>2. s \in 1 .. n /\ scopes[s].parent \in 0 .. n /\ scopes[s].parent <= m
    BY <1>1, <2>1 DEF Parents
  <2>3. f[scopes[s].parent] \in Result
    BY <1>10, <2>2
  <2>4. QED
    BY <1>7, <2>2, <2>3, LocalIs, BeyondIs
<1> HIDE DEF S
<1>11. S = Nat
  <2>1. S \in SUBSET Nat
    BY DEF S
  <2>2. QED
    BY <1>9, <1>10, <2>1, SetInduction
<1>12. \A s \in 0 .. n : f[s] \in Result
  BY <1>1, <1>11 DEF S
<1>13. QED
  BY <1>5, <1>7, <1>8, <1>12

(* The names that are visible, scope after scope.                          *)
NamesOf(s) == {variables[v].name : v \in scopes[s].bindings}

(* The visible names are those of the scopes from Here on outwards.        *)
LEMMA VisibleIs ==
  ASSUME TypeOK, Parents
  PROVE  \E names : /\ Visible = names[Here] /\ names[0] = {}
                    /\ \A s \in 1 .. Len(scopes) :
                         names[s] = NamesOf(s) \cup names[scopes[s].parent]
<1> DEFINE n == Len(scopes)
           V == SUBSET {variables[v].name : v \in Nat}
           W(f, t) == IF t = 0 THEN {}
                      ELSE {variables[v].name : v \in scopes[t].bindings}
                             \cup f[scopes[t].parent]
           P(f) == f = [t \in 0 .. n |-> W(f, t)]
<1>1. n \in Nat
  BY DEF TypeOK
<1>2. \E f : P(f)
  <2>1. PICK older : older = [t \in 1 .. n |-> scopes[t].parent]
    OBVIOUS
  <2>2. Older(older, n) /\ \A t \in 1 .. n : older[t] \in 0 .. n
    BY <2>1, <1>1 DEF Parents, Older
  <2>3. PICK H : H = [x \in (1 .. n) \X V |-> NamesOf(x[1]) \cup x[2]]
    OBVIOUS
  <2>4. \A s \in 1 .. n : NamesOf(s) \in V
    <3>1. \A s \in 1 .. n : scopes[s].bindings \subseteq Nat
      BY Typed
    <3>2. QED
      BY <3>1 DEF NamesOf
  <2>5. H \in [(1 .. n) \X V -> V]
    <3>1. \A x \in (1 .. n) \X V : NamesOf(x[1]) \cup x[2] \in V
      <4> HIDE DEF n
      <4>1. \A x \in (1 .. n) \X V : x[1] \in 1 .. n /\ x[2] \in V
        OBVIOUS
      <4>2. \A a, b \in V : a \cup b \in V
        OBVIOUS
      <4> HIDE DEF V
      <4>3. QED
        BY <2>4, <4>1, <4>2
    <3> HIDE DEF V
    <3>2. QED
      BY <2>3, <3>1
  <2>6. {} \in V
    OBVIOUS
  <2> HIDE DEF V
  <2>7. PICK f \in [0 .. n -> V] : Recursive(f, n, {}, older, H)
    BY <1>1, <2>2, <2>5, <2>6, Recursion
  <2>8. ASSUME NEW t \in 0 .. n
        PROVE  f[t] = W(f, t)
    <3>1. CASE t = 0
      BY <2>7, <3>1 DEF Recursive
    <3>2. CASE t # 0
      <4>1. t \in 1 .. n /\ older[t] = scopes[t].parent /\ older[t] \in 0 .. n
        BY <1>1, <2>1, <2>2, <3>2
      <4>2. f[t] = H[<<t, f[older[t]]>>] /\ f[older[t]] \in V
        BY <2>7, <4>1 DEF Recursive
      <4>3. H[<<t, f[older[t]]>>] = NamesOf(t) \cup f[older[t]]
        BY <2>3, <4>1, <4>2
      <4>4. QED
        BY <4>1, <4>2, <4>3, <3>2 DEF NamesOf
    <3>3. QED
      BY <3>1, <3>2
  <2> HIDE DEF W
  <2>9. f = [t \in 0 .. n |-> W(f, t)]
    BY <2>8
  <2>10. QED
    BY <2>9
<1>3. PICK f : f = CHOOSE h : P(h)
  OBVIOUS
<1>4. P(f)
  BY <1>2, <1>3, Zenon
<1>5. Visible = f[Here]
  BY <1>3 DEF Visible
<1>6. \A t \in 0 .. n : f[t] = W(f, t)
  <2> HIDE DEF W
  <2>1. QED
    BY <1>4
<1>7. f[0] = {}
  <2>1. 0 \in 0 .. n /\ W(f, 0) = {}
    BY <1>1
  <2> HIDE DEF W
  <2>2. QED
    BY <1>6, <2>1
<1>8. \A t \in 1 .. n : f[t] = NamesOf(t) \cup f[scopes[t].parent]
  <2>1. \A t \in 1 .. n : t \in 0 .. n /\ t # 0
    BY <1>1
  <2>2. QED
    BY <1>6, <2>1 DEF NamesOf
<1>9. QED
  BY <1>5, <1>7, <1>8

-----------------------------------------------------------------------------
(* The environments along the path, construct after construct.             *)
PathInside == \A k \in 1 .. Len(path) : path[k].c \in Constructs

(* The environments of a construct are scopes.                             *)
LEMMA FramesTyped ==
  ASSUME TypeOK, PathInside
  PROVE  \A k \in 1 .. Len(path) : FramesOf(path[k]) \in Seq(Nat)
<1>1. \A s \in Nat : Frame(s) \in Seq(Nat)
  BY DEF Frame
<1>2. ASSUME NEW k \in 1 .. Len(path)
      PROVE  FramesOf(path[k]) \in Seq(Nat)
  <2>1. First(path[k]) \in Nat
    BY Typed DEF PathInside, Constructs, First
  <2>2. LoopScope(path[k]) \in Nat /\ DeclScope(path[k]) \in Nat
    BY <2>1 DEF LoopScope, DeclScope
  <2>3. Frame(LoopScope(path[k])) \o Frame(DeclScope(path[k])) \in Seq(Nat)
    BY <1>1, <2>2, ConcatProperties
  <2>4. QED
    BY <1>1, <2>1, <2>3 DEF FramesOf
<1>3. QED
  BY <1>2

(* The environments in k constructs, from those in k - 1.                  *)
LEMMA ChainIs ==
  ASSUME TypeOK, PathInside
  PROVE  /\ Chain(0) = <<>>
         /\ \A k \in 0 .. Len(path) : Chain(k) \in Seq(Nat)
         /\ \A k \in 1 .. Len(path) : Chain(k) = FramesOf(path[k]) \o Chain(k - 1)
<1> DEFINE n == Len(path)
           V == Seq(Nat)
           W(f, k) == IF k = 0 THEN <<>> ELSE FramesOf(path[k]) \o f[k - 1]
           P(f) == f = [k \in 0 .. n |-> W(f, k)]
<1>1. n \in Nat
  BY Typed
<1>2. \A k \in 1 .. n : FramesOf(path[k]) \in V
  BY FramesTyped
<1>3. <<>> \in V /\ \A a, b \in V : a \o b \in V
  BY ConcatProperties
<1> HIDE DEF V
<1>4. \E f : P(f)
  <2>1. PICK older : older = [k \in 1 .. n |-> k - 1]
    OBVIOUS
  <2>2. Older(older, n) /\ \A k \in 1 .. n : older[k] \in 0 .. n
    BY <2>1, <1>1 DEF Older
  <2>3. PICK H : H = [x \in (1 .. n) \X V |-> FramesOf(path[x[1]]) \o x[2]]
    OBVIOUS
  <2>4. H \in [(1 .. n) \X V -> V]
    <3>1. \A x \in (1 .. n) \X V : FramesOf(path[x[1]]) \o x[2] \in V
      BY <1>2, <1>3
    <3>2. QED
      BY <2>3, <3>1
  <2>5. PICK f \in [0 .. n -> V] : Recursive(f, n, <<>>, older, H)
    BY <1>1, <1>3, <2>2, <2>4, Recursion
  <2>6. ASSUME NEW k \in 0 .. n
        PROVE  f[k] = W(f, k)
    <3>1. CASE k = 0
      BY <2>5, <3>1 DEF Recursive
    <3>2. CASE k # 0
      <4>1. k \in 1 .. n /\ older[k] = k - 1 /\ older[k] \in 0 .. n
        BY <1>1, <2>1, <2>2, <3>2
      <4>2. f[k] = H[<<k, f[older[k]]>>] /\ f[older[k]] \in V
        BY <2>5, <4>1 DEF Recursive
      <4>3. QED
        BY <2>3, <4>1, <4>2, <3>2
    <3>3. QED
      BY <3>1, <3>2
  <2> HIDE DEF W
  <2>7. f = [k \in 0 .. n |-> W(f, k)]
    BY <2>6
  <2>8. QED
    BY <2>7
<1>5. PICK f : f = CHOOSE h : P(h)
  OBVIOUS
<1>6. P(f)
  BY <1>4, <1>5, Zenon
<1>7. \A k : Chain(k) = f[k]
  BY <1>5 DEF Chain
<1>8. \A k \in 0 .. n : f[k] = W(f, k)
  <2> HIDE DEF W
  <2>1. QED
    BY <1>6
<1>9. f[0] = <<>> /\ \A k \in 1 .. n : f[k] = FramesOf(path[k]) \o f[k - 1]
  <2>1. 0 \in 0 .. n /\ W(f, 0) = <<>>
    BY <1>1
  <2>2. \A k \in 1 .. n : k \in 0 .. n /\ W(f, k) = FramesOf(path[k]) \o f[k - 1]
    <3>1. \A k \in 1 .. n : k \in 0 .. n /\ k # 0
      BY <1>1
    <3>2. QED
      BY <3>1, Zenon
  <2> HIDE DEF W
  <2>3. QED
    BY <1>8, <2>1, <2>2
<1> HIDE DEF P, W
<1> DEFINE S == {k \in Nat : k <= n => f[k] \in V}
<1>10. 0 \in S
  BY <1>3, <1>9
<1>11. ASSUME NEW k \in Nat, k \in S
       PROVE  k + 1 \in S
  <2>1. SUFFICES ASSUME k + 1 <= n
                 PROVE  f[k + 1] \in V
    OBVIOUS
  <2>2. k + 1 \in 1 .. n /\ k + 1 - 1 = k /\ f[k] \in V
    BY <1>1, <1>11, <2>1
  <2>3. f[k + 1] = FramesOf(path[k + 1]) \o f[k] /\ FramesOf(path[k + 1]) \in V
    <3>1. PICK j \in 1 .. n : j = k + 1 /\ j - 1 = k
      BY <2>2
    <3>2. f[j] = FramesOf(path[j]) \o f[j - 1] /\ FramesOf(path[j]) \in V
      BY <1>2, <1>9, Zenon
    <3>3. QED
      BY <3>1, <3>2, Zenon
  <2>4. QED
    BY <1>3, <2>2, <2>3
<1> HIDE DEF S
<1>12. S = Nat
  <2>1. S \in SUBSET Nat
    BY DEF S
  <2>2. QED
    BY <1>10, <1>11, <2>1, SetInduction
<1>13. \A k \in 0 .. n : f[k] \in Seq(Nat)
  BY <1>1, <1>12 DEF S, V
<1>14. QED
  BY <1>7, <1>9, <1>13

(* By how much a construct is off is a number.                             *)
LEMMA OffTyped ==
  ASSUME NEW e \in Element, NEW direct \in BOOLEAN
  PROVE  OffIn(e, direct) \in Int
<1>1. PICK d \in Int, l \in Int : d = Len(Frame(DeclScope(e))) /\ l = Len(Frame(LoopScope(e)))
  BY DEF Frame
<1>2. e.part \in {"head", "update", "body"}
  BY DEF Element
<1>3. CASE ~ IsLoop(Kind(e)) \/ e.part = "body"
  BY <1>3 DEF OffIn
<1>4. CASE IsLoop(Kind(e)) /\ e.part = "update"
  BY <1>1, <1>4 DEF OffIn
<1>5. CASE IsLoop(Kind(e)) /\ e.part = "head"
  BY <1>1, <1>5 DEF OffIn
<1>6. QED
  BY <1>2, <1>3, <1>4, <1>5

(* The sums of OffIn from the construct d on.                              *)
OffFrom(off, d) ==
  /\ \A k \in 0 .. Len(path) : off[k] \in Int
  /\ \A k \in 0 .. d : off[k] = 0
  /\ \A k \in d + 1 .. Len(path) :
       off[k] = off[k - 1] + OffIn(path[k], k = Len(path))

(* By how much an access is off is a sum along the path.                   *)
LEMMA OffIs ==
  ASSUME TypeOK, NEW name, NEW d \in 1 .. Len(path), d = Depth(name)
  PROVE  \E off : Off(name) = off[Len(path)] /\ OffFrom(off, d)
<1> DEFINE n == Len(path)
           W(f, k) == IF k <= Depth(name) THEN 0
                      ELSE f[k - 1] + OffIn(path[k], k = n)
           P(f) == f = [k \in 0 .. n |-> W(f, k)]
<1>1. n \in Nat /\ d \in Nat
  BY Typed
<1>2. \A k \in 1 .. n : OffIn(path[k], k = n) \in Int
  BY Typed, OffTyped
<1>3. \E f \in [0 .. n -> Int] : P(f)
  <2>1. PICK older : older = [k \in 1 .. n |-> k - 1]
    OBVIOUS
  <2>2. Older(older, n) /\ \A k \in 1 .. n : older[k] \in 0 .. n
    BY <2>1, <1>1 DEF Older
  <2>3. PICK H : H = [x \in (1 .. n) \X Int |->
                        IF x[1] <= d THEN 0 ELSE x[2] + OffIn(path[x[1]], x[1] = n)]
    OBVIOUS
  <2>4. H \in [(1 .. n) \X Int -> Int]
    <3>1. \A x \in (1 .. n) \X Int :
            (IF x[1] <= d THEN 0 ELSE x[2] + OffIn(path[x[1]], x[1] = n)) \in Int
      BY <1>2
    <3>2. QED
      BY <2>3, <3>1
  <2>5. PICK f \in [0 .. n -> Int] : Recursive(f, n, 0, older, H)
    BY <1>1, <2>2, <2>4, 0 \in Int, Recursion
  <2>6. ASSUME NEW k \in 0 .. n
        PROVE  f[k] = W(f, k)
    <3>1. CASE k = 0
      BY <2>5, <3>1 DEF Recursive
    <3>2. CASE k # 0
      <4>1. k \in 1 .. n /\ older[k] = k - 1 /\ older[k] \in 0 .. n
        BY <1>1, <2>1, <2>2, <3>2
      <4>2. f[k] = H[<<k, f[older[k]]>>] /\ f[older[k]] \in Int
        BY <2>5, <4>1 DEF Recursive
      <4>3. H[<<k, f[older[k]]>>] =
              IF k <= d THEN 0 ELSE f[older[k]] + OffIn(path[k], k = n)
        BY <2>3, <4>1, <4>2
      <4>4. QED
        BY <4>1, <4>2, <4>3
    <3>3. QED
      BY <3>1, <3>2
  <2> HIDE DEF W
  <2>7. f = [k \in 0 .. n |-> W(f, k)]
    BY <2>6
  <2>8. QED
    BY <2>7
<1>4. PICK f : f = CHOOSE h : P(h)
  OBVIOUS
<1>5. P(f)
  BY <1>3, <1>4, Zenon
<1>6. Off(name) = f[n]
  BY <1>4 DEF Off
<1>7. \A k \in 0 .. n : f[k] = W(f, k)
  <2> HIDE DEF W
  <2>1. QED
    BY <1>5
<1>8. \A k \in 0 .. d : f[k] = 0
  BY <1>1, <1>7
<1>9. \A k \in d + 1 .. n : f[k] = f[k - 1] + OffIn(path[k], k = n)
  BY <1>1, <1>7
<1> HIDE DEF P, W
<1> DEFINE S == {k \in Nat : k <= n => f[k] \in Int}
<1>10. 0 \in S
  BY <1>1, <1>8
<1>11. ASSUME NEW k \in Nat, k \in S
       PROVE  k + 1 \in S
  <2>1. SUFFICES ASSUME k + 1 <= n
                 PROVE  f[k + 1] \in Int
    OBVIOUS
  <2>2. CASE k + 1 <= d
    BY <1>1, <1>8, <2>2
  <2>3. CASE k + 1 > d
    <3>1. k + 1 \in d + 1 .. n /\ k + 1 \in 1 .. n /\ k + 1 - 1 = k /\ f[k] \in Int
      BY <1>1, <1>11, <2>1, <2>3
    <3>2. f[k + 1] = f[k] + OffIn(path[k + 1], k + 1 = n)
      BY <1>9, <3>1
    <3>3. QED
      BY <1>2, <3>1, <3>2
  <2>4. QED
    BY <1>1, <2>2, <2>3
<1> HIDE DEF S
<1>12. S = Nat
  <2>1. S \in SUBSET Nat
    BY DEF S
  <2>2. QED
    BY <1>10, <1>11, <2>1, SetInduction
<1>13. \A k \in 0 .. n : f[k] \in Int
  BY <1>1, <1>12 DEF S
<1>14. OffFrom(f, d)
  BY <1>8, <1>9, <1>13 DEF OffFrom
<1>15. QED
  BY <1>6, <1>14

-----------------------------------------------------------------------------
(* Paths.                                                                  *)

(* The elements of a path.                                                 *)
LEMMA PathTyped ==
  ASSUME NEW g, NEW p, PathOK(g, p)
  PROVE  /\ Len(p) \in Nat
         /\ \A k \in 1 .. Len(p) :
              /\ p[k] \in Element /\ p[k].c \in Nat
              /\ p[k].part \in {"head", "update", "body"}
<1>1. p \in Seq(Element)
  BY DEF PathOK
<1>2. Len(p) \in Nat /\ \A k \in 1 .. Len(p) : p[k] \in Element
  BY <1>1, LenProperties, ElementOfSeq
<1>3. QED
  BY <1>2 DEF Element

(* Each construct of a path is younger than the one it stands in.          *)
LEMMA PathNext ==
  ASSUME NEW g, NEW p, PathOK(g, p), TreeOK(g), NEW k \in 2 .. Len(p)
  PROVE  /\ g.at[p[k].c] = p[k - 1] /\ p[k].c # 1 /\ p[k].c \in Constructs
         /\ p[k - 1].c < p[k].c
<1>1. Len(p) \in Nat /\ k \in 1 .. Len(p) /\ k > 1 /\ k - 1 \in 1 .. Len(p)
  BY PathTyped
<1>2. g.at[p[k].c] = p[k - 1] /\ p[k].c # 1 /\ p[k].c \in Constructs
  BY <1>1 DEF PathOK
<1>3. g.at[p[k].c].c \in 1 .. p[k].c - 1
  BY <1>2 DEF TreeOK
<1>4. p[k].c \in Nat
  BY <1>1, PathTyped
<1>5. QED
  BY <1>2, <1>3, <1>4

(* A construct of a path is younger than all before it.                    *)
LEMMA PathOrdered ==
  ASSUME NEW g, NEW p, PathOK(g, p), TreeOK(g)
  PROVE  \A i, j \in 1 .. Len(p) : i < j => p[i].c < p[j].c
<1> DEFINE S == {j \in Nat : j \in 1 .. Len(p) =>
                   \A i \in 1 .. Len(p) : i < j => p[i].c < p[j].c}
<1>0. Len(p) \in Nat /\ \A k \in 1 .. Len(p) : p[k].c \in Nat
  BY PathTyped
<1>1. 0 \in S
  OBVIOUS
<1>2. ASSUME NEW j \in Nat, j \in S
      PROVE  j + 1 \in S
  <2>1. SUFFICES ASSUME j + 1 \in 1 .. Len(p), NEW i \in 1 .. Len(p), i < j + 1
                 PROVE  p[i].c < p[j + 1].c
    OBVIOUS
  <2>2. j \in 1 .. Len(p) /\ j + 1 \in 2 .. Len(p) /\ j + 1 - 1 = j
    BY <1>0, <2>1
  <2>3. p[j].c < p[j + 1].c
    BY <2>2, PathNext
  <2>4. i = j \/ p[i].c < p[j].c
    BY <1>2, <2>1, <2>2
  <2>5. QED
    BY <1>0, <2>1, <2>2, <2>3, <2>4
<1> HIDE DEF S
<1>3. S = Nat
  <2>1. S \in SUBSET Nat
    BY DEF S
  <2>2. QED
    BY <1>1, <1>2, <2>1, SetInduction
<1>4. QED
  BY <1>0, <1>3 DEF S

(* A construct is on a path once.                                          *)
LEMMA PathApart ==
  ASSUME NEW g, NEW p, PathOK(g, p), TreeOK(g)
  PROVE  \A i, j \in 1 .. Len(p) : p[i].c = p[j].c => i = j
BY PathOrdered, PathTyped

(* What a construct of a path is in are those before it.                   *)
LEMMA PathWithin ==
  ASSUME NEW g, NEW p, PathOK(g, p), TreeOK(g)
  PROVE  \A k \in 1 .. Len(p) : g.within[p[k].c] = {p[i].c : i \in 1 .. k}
<1> DEFINE S == {k \in Nat : k \in 1 .. Len(p) =>
                   g.within[p[k].c] = {p[i].c : i \in 1 .. k}}
<1>0. Len(p) \in Nat
  BY PathTyped
<1>1. 0 \in S
  OBVIOUS
<1>2. ASSUME NEW k \in Nat, k \in S
      PROVE  k + 1 \in S
  <2>1. SUFFICES ASSUME k + 1 \in 1 .. Len(p)
                 PROVE  g.within[p[k + 1].c] = {p[i].c : i \in 1 .. k + 1}
    OBVIOUS
  <2>2. p[k + 1].c \in Constructs
    BY <2>1 DEF PathOK
  <2>3. g.within[p[k + 1].c] = {p[k + 1].c} \cup
          IF p[k + 1].c = 1 THEN {} ELSE g.within[g.at[p[k + 1].c].c]
    BY <2>2 DEF TreeOK
  <2>4. CASE k = 0
    <3>1. p[k + 1].c = 1
      BY <2>1, <2>4 DEF PathOK
    <3>2. \A i \in 1 .. k + 1 : i = k + 1
      BY <2>4
    <3>3. {p[i].c : i \in 1 .. k + 1} = {p[k + 1].c}
      BY <2>1, <3>2
    <3>4. QED
      BY <2>3, <3>1, <3>3
  <2>5. CASE k # 0
    <3>1. k + 1 \in 2 .. Len(p) /\ k + 1 - 1 = k /\ k \in 1 .. Len(p)
      BY <1>0, <2>1, <2>5
    <3>2. g.at[p[k + 1].c] = p[k] /\ p[k + 1].c # 1
      BY <3>1, PathNext
    <3>3. g.within[p[k + 1].c] = {p[k + 1].c} \cup {p[i].c : i \in 1 .. k}
      BY <1>2, <2>3, <3>1, <3>2
    <3>4. \A i : i \in 1 .. k + 1 <=> i = k + 1 \/ i \in 1 .. k
      BY <2>5
    <3>5. QED
      BY <3>3, <3>4
  <2>6. QED
    BY <2>4, <2>5
<1> HIDE DEF S
<1>3. S = Nat
  <2>1. S \in SUBSET Nat
    BY DEF S
  <2>2. QED
    BY <1>1, <1>2, <2>1, SetInduction
<1>4. \A k \in 1 .. Len(p) : k \in S
  BY <1>0, <1>3
<1>5. QED
  BY <1>4, Zenon DEF S

(* The function of a construct of a path.                                  *)
LEMMA PathFun ==
  ASSUME NEW g, NEW p, PathOK(g, p), TreeOK(g), NEW k \in 1 .. Len(p)
  PROVE  /\ k = 1 => Kind(p[k]) = "function"
         /\ Kind(p[k]) = "function" => g.fun[p[k].c] = p[k].c
         /\ k > 1 /\ Kind(p[k]) # "function" => g.fun[p[k].c] = g.fun[p[k - 1].c]
<1>1. Len(p) \in Nat /\ p[k].c \in Constructs /\ Kind(p[k]) = KindOf(p[k].c)
  BY PathTyped DEF PathOK, Kind, KindOf
<1>2. g.fun[p[k].c] = IF KindOf(p[k].c) = "function" THEN p[k].c
                      ELSE g.fun[g.at[p[k].c].c]
  BY <1>1 DEF TreeOK
<1>3. k > 1 => k \in 2 .. Len(p) /\ g.at[p[k].c] = p[k - 1]
  BY <1>1 DEF PathOK
<1>4. k = 1 => Kind(p[k]) = "function"
  <2>1. k = 1 => p[k].c = 1
    BY DEF PathOK
  <2>2. p[k].c = 1 => constructs # <<>>
    BY <1>1 DEF Constructs
  <2>3. QED
    BY <1>1, <2>1, <2>2 DEF TreeOK
<1>5. QED
  BY <1>1, <1>2, <1>3, <1>4

(* Where the construct of a name is on the path.                           *)
LEMMA DepthIs ==
  ASSUME NEW g, PathOK(g, path), TreeOK(g), NEW name,
         NEW d \in 1 .. Len(path), path[d].c = name[1]
  PROVE  Depth(name) = d
<1>1. DOMAIN path = 1 .. Len(path)
  BY LenProperties DEF PathOK
<1>2. \A k \in DOMAIN path : path[k].c = name[1] => k = d
  BY <1>1, PathApart
<1>3. QED
  BY <1>1, <1>2 DEF Depth

-----------------------------------------------------------------------------
(* Scopes of the constructs of a path.                                     *)

(* The parent of a scope is an older one.                                  *)
LEMMA ParentsOlder ==
  ASSUME NEW g, LayoutOK(g)
  PROVE  Parents
BY DEF LayoutOK, Parents

(* The scopes where a construct is entered, compiled and found in.         *)
LEMMA PlacesInside ==
  ASSUME NEW e
  PROVE  /\ First(e) \in ScopesOf(e.c) /\ ScopeOf(e) \in ScopesOf(e.c)
         /\ AroundOf(e) \in ScopesOf(e.c)
         /\ First(e) = FirstOf(e.c) /\ Kind(e) = KindOf(e.c)
<1>1. First(e) = FirstOf(e.c) /\ Kind(e) = KindOf(e.c)
  BY DEF First, FirstOf, Kind, KindOf
<1>2. Kind(e) = "of" => IsLoop(Kind(e))
  BY DEF IsLoop
<1>3. QED
  BY <1>1, <1>2 DEF ScopesOf, ScopeOf, AroundOf, LoopScope, DeclScope

(* The scope of a construct is in that of the one before it.               *)
LEMMA PathParent ==
  ASSUME NEW g, NEW p, PathOK(g, p), TreeOK(g), LayoutOK(g), NEW k \in 1 .. Len(p)
  PROVE  scopes[First(p[k])].parent = IF k = 1 THEN 0 ELSE AroundOf(p[k - 1])
<1>1. Len(p) \in Nat /\ p[k].c \in Constructs /\ (p[k].c = 1 <=> k = 1)
      /\ (k > 1 => g.at[p[k].c] = p[k - 1])
  BY PathTyped DEF PathOK
<1>2. scopes[FirstOf(p[k].c)].parent =
        IF p[k].c = 1 THEN 0 ELSE AroundOf(g.at[p[k].c])
  BY <1>1 DEF LayoutOK
<1>3. First(p[k]) = FirstOf(p[k].c)
  BY PlacesInside
<1>4. QED
  BY <1>1, <1>2, <1>3

(* Here and Around are about the last construct of the path.               *)
LEMMA HereIs ==
  ASSUME path # <<>>
  PROVE  Here = ScopeOf(path[Len(path)]) /\ Around = AroundOf(path[Len(path)])
BY DEF Here, Around, AroundOf, Last

(* As long as no loop of the path is a variable scope, the variable scope  *)
(* around is that of the function.                                         *)
LEMMA EnclosingOnPath ==
  ASSUME NEW g, TypeOK, TreeOK(g), LayoutOK(g), VariableScopesOK, PathOK(g, path),
         \A k \in 1 .. Len(path) : ~ Converted(path[k].c)
  PROVE  \A k \in 1 .. Len(path) : \A s \in ScopesOf(path[k].c) :
           EnclosingVariableScope(s) = FirstOf(g.fun[path[k].c])
<1> DEFINE Good(k) == \A s \in ScopesOf(path[k].c) :
                        EnclosingVariableScope(s) = FirstOf(g.fun[path[k].c])
           S == {k \in Nat : k \in 1 .. Len(path) => Good(k)}
<1>0. Len(path) \in Nat
  BY PathTyped
<1>1. Parents
  BY ParentsOlder
<1>2. 0 \in S
  OBVIOUS
<1>3. ASSUME NEW j \in Nat, j \in S
      PROVE  j + 1 \in S
  <2>1. SUFFICES ASSUME NEW k \in 1 .. Len(path), k = j + 1
                 PROVE  Good(k)
    OBVIOUS
  <2> DEFINE e == path[k]
             c == path[k].c
             f == FirstOf(path[k].c)
  <2>2. c \in Constructs /\ First(e) = f /\ Kind(e) = KindOf(c)
    BY PlacesInside DEF PathOK
  <2>3. \A s \in ScopesOf(c) : s \in 1 .. Len(scopes)
    BY <2>2 DEF LayoutOK
  <2>4. f \in ScopesOf(c) /\ f \in 1 .. Len(scopes)
    BY <2>2, <2>3, PlacesInside
  <2>5. EnclosingVariableScope(f) = FirstOf(g.fun[c])
    <3>1. CASE Kind(e) = "function"
      <4>1. ~ IsLoop(KindOf(c))
        BY <2>2, <3>1 DEF IsLoop
      <4>2. scopes[f].isVariableScope
        BY <2>2, <3>1, <4>1 DEF VariableScopesOK
      <4>3. g.fun[c] = c
        BY <3>1, PathFun
      <4>4. QED
        BY <1>1, <2>4, <4>2, <4>3, EnclosingIs
    <3>2. CASE Kind(e) # "function"
      <4>1. k > 1 /\ k - 1 \in 1 .. Len(path) /\ k - 1 = j
        BY <1>0, <2>1, <3>2, PathFun
      <4>2. ~ scopes[f].isVariableScope
        BY <2>2, <3>2 DEF VariableScopesOK
      <4>3. g.fun[c] = g.fun[path[k - 1].c]
        BY <3>2, <4>1, PathFun
      <4>4. scopes[f].parent = AroundOf(path[k - 1])
        BY <2>2, <4>1, PathParent
      <4>5. EnclosingVariableScope(AroundOf(path[k - 1])) = FirstOf(g.fun[path[k - 1].c])
        <5>1. Good(k - 1)
          BY <1>3, <4>1
        <5>2. QED
          BY <5>1, PlacesInside
      <4>6. QED
        BY <1>1, <2>4, <4>2, <4>3, <4>4, <4>5, EnclosingIs
    <3>3. QED
      BY <3>1, <3>2
  <2>6. CASE ~ IsLoop(KindOf(c))
    BY <2>5, <2>6 DEF ScopesOf
  <2>7. CASE IsLoop(KindOf(c))
    <3>1. f + 1 \in 1 .. Len(scopes) /\ f + 2 \in 1 .. Len(scopes)
      BY <2>3, <2>7 DEF ScopesOf
    <3>2. scopes[f + 1].parent = f /\ scopes[f + 2].parent = f + 1
      BY <2>2, <2>7 DEF LayoutOK
    <3>3. ~ scopes[f + 1].isVariableScope /\ ~ scopes[f + 2].isVariableScope
      BY <2>2, <2>7 DEF VariableScopesOK
    <3>4. EnclosingVariableScope(f + 1) = EnclosingVariableScope(f)
      BY <1>1, <3>1, <3>2, <3>3, EnclosingIs
    <3>5. EnclosingVariableScope(f + 2) = EnclosingVariableScope(f + 1)
      BY <1>1, <3>1, <3>2, <3>3, EnclosingIs
    <3>6. QED
      BY <2>5, <2>7, <3>4, <3>5 DEF ScopesOf
  <2>8. QED
    BY <2>6, <2>7
<1> HIDE DEF S
<1>4. S = Nat
  <2>1. S \in SUBSET Nat
    BY DEF S
  <2>2. QED
    BY <1>2, <1>3, <2>1, SetInduction
<1>5. QED
  BY <1>0, <1>4 DEF S

-----------------------------------------------------------------------------
(* What Find finds.                                                        *)

(* The variables of a name in a scope are all of its variables or none.    *)
LEMMA NamedIs ==
  ASSUME NEW g, TypeOK, LayoutOK(g), BindingsOK(g), NEW c \in Constructs,
         NEW s \in ScopesOf(c), NEW name
  PROVE  Named(s, name) = IF name = NameIn(c, s) THEN scopes[s].bindings ELSE {}
<1>1. \A v \in scopes[s].bindings : variables[v].name = NameIn(c, s)
  BY DEF BindingsOK
<1>2. QED
  BY <1>1 DEF Named

(* A name is declared where the construct of the path shows it.            *)
LEMMA FindInside ==
  ASSUME NEW g, TypeOK, LayoutOK(g), BindingsOK(g), VariableScopesOK,
         NEW e \in Element, e.c \in Constructs, NEW name, Shows(e, name),
         NEW s \in {AroundOf(e), ScopeOf(e)}
  PROVE  /\ Find(s, name).scope \in ScopesOf(e.c)
         /\ Find(s, name).variable \in Named(Find(s, name).scope, name)
         /\ Find(s, name).level = 0 /\ Find(s, name).lexLevel = 0
         /\ IsLoop(Kind(e)) /\ e.part # "body" /\ s = ScopeOf(e) =>
              Find(s, name).scope = s
<1> DEFINE c == e.c
           f == FirstOf(e.c)
<1>1. First(e) = f /\ Kind(e) = KindOf(c)
  BY PlacesInside
<1>2. Parents
  BY ParentsOlder
<1>3. \A t \in ScopesOf(c) : t \in 1 .. Len(scopes)
  BY DEF LayoutOK
<1>4. f \in ScopesOf(c) /\ f \in 1 .. Len(scopes) /\ scopes[f].bindings # {}
  BY <1>1, <1>3, PlacesInside DEF BindingsOK
<1>5. \A t \in ScopesOf(c) : Named(t, name) # {} => Find(t, name) = Local(t, name)
  BY <1>2, <1>3, FindIs
<1>6. \A t \in ScopesOf(c) : Named(t, name) # {} =>
        /\ Find(t, name).scope = t /\ Find(t, name).variable \in Named(t, name)
        /\ Find(t, name).level = 0 /\ Find(t, name).lexLevel = 0
  BY <1>3, <1>5, LocalIs
<1>7. CASE ~ IsLoop(KindOf(c))
  <2>1. s = f
    BY <1>1, <1>7 DEF AroundOf, ScopeOf, IsLoop
  <2>2. name = NameIn(c, f)
    BY <1>1, <1>7 DEF Shows, NameIn
  <2>3. Named(f, name) # {}
    BY <1>4, <2>2, NamedIs
  <2>4. QED
    BY <1>1, <1>4, <1>6, <1>7, <2>1, <2>3
<1>8. CASE IsLoop(KindOf(c))
  <2>1. /\ f + 1 \in ScopesOf(c) /\ f + 2 \in ScopesOf(c)
        /\ f + 1 \in 1 .. Len(scopes) /\ f + 2 \in 1 .. Len(scopes) /\ f \in Nat
    BY <1>3, <1>4, <1>8 DEF ScopesOf
  <2>2. scopes[f + 1].parent = f /\ scopes[f + 2].parent = f + 1
    BY <1>8 DEF LayoutOK
  <2>3. s \in {f, f + 1, f + 2}
    BY <1>1, PlacesInside, <1>8 DEF ScopesOf
  <2>4. CASE name = <<c, "body">>
    <3>1. s = f + 2 /\ e.part = "body"
      BY <1>1, <1>8, <2>4 DEF Shows, AroundOf, ScopeOf
    <3>2. name = NameIn(c, f + 2) /\ scopes[f + 2].bindings # {}
      BY <1>8, <2>4 DEF NameIn, BindingsOK
    <3>3. Named(f + 2, name) # {}
      BY <2>1, <3>2, NamedIs
    <3>4. QED
      BY <1>6, <2>1, <3>1, <3>3
  <2>5. CASE name = <<c, "head">>
    <3>1. f # f + 2 /\ f + 1 # f + 2
      BY <2>1
    <3>2. NameIn(c, f) = name /\ NameIn(c, f + 1) = name /\ NameIn(c, f + 2) # name
      BY <1>8, <2>5, <3>1 DEF NameIn
    <3>3. Named(f, name) # {} /\ Named(f + 2, name) = {}
      BY <1>4, <2>1, <3>2, NamedIs
    <3>4. CASE s = f
      BY <1>4, <1>6, <3>3, <3>4
    <3>5. s = f \/ s # ScopeOf(e) \/ e.part = "body"
      BY <1>1, <1>8 DEF ScopeOf, DeclScope
    <3>6. /\ Find(f + 1, name).scope \in ScopesOf(c)
          /\ Find(f + 1, name).variable \in Named(Find(f + 1, name).scope, name)
          /\ Find(f + 1, name).level = 0 /\ Find(f + 1, name).lexLevel = 0
      <4>1. CASE Named(f + 1, name) # {}
        BY <1>6, <2>1, <4>1
      <4>2. CASE Named(f + 1, name) = {}
        <5>1. ~ Converted(c)
          BY <2>1, <3>2, <4>2, NamedIs DEF Converted
        <5>2. ~ scopes[f + 1].isVariableScope
          BY <1>8, <5>1 DEF VariableScopesOK
        <5>3. Find(f + 1, name) = Beyond(f + 1, Find(f, name))
          BY <1>2, <2>1, <2>2, <4>2, FindIs
        <5>4. Beyond(f + 1, Find(f, name)) = Find(f, name)
          BY <5>2 DEF Beyond
        <5>5. QED
          BY <1>4, <1>6, <3>3, <5>3, <5>4
      <4>3. QED
        BY <4>1, <4>2
    <3>7. CASE s = f + 1
      BY <1>1, <3>1, <3>4, <3>5, <3>6, <3>7
    <3>8. CASE s = f + 2
      <4>1. ~ scopes[f + 2].isVariableScope
        BY <1>8 DEF VariableScopesOK
      <4>2. Find(f + 2, name) = Beyond(f + 2, Find(f + 1, name))
        BY <1>2, <2>1, <2>2, <3>3, FindIs
      <4>3. Beyond(f + 2, Find(f + 1, name)) = Find(f + 1, name)
        BY <4>1 DEF Beyond
      <4>4. QED
        BY <3>4, <3>5, <3>6, <3>8, <4>2, <4>3
    <3>9. QED
      BY <2>3, <3>4, <3>7, <3>8
  <2>6. QED
    BY <2>4, <2>5 DEF Shows
<1>9. QED
  BY <1>7, <1>8

(* A construct that does not declare the name: Find goes on around it.     *)
LEMMA FindOutside ==
  ASSUME NEW g, TypeOK, LayoutOK(g), BindingsOK(g), VariableScopesOK,
         NEW e, e.c \in Constructs, NEW name, name[1] # e.c,
         NEW q, q = Find(scopes[First(e)].parent, name)
  PROVE  /\ q \in Result
         /\ \A s \in ScopesOf(e.c) :
              /\ Find(s, name) \in Result
              /\ Find(s, name).scope = q.scope
              /\ Find(s, name).variable = q.variable
              /\ Find(s, name).level >= q.level
              /\ Kind(e) = "function" => Find(s, name).level > q.level
         /\ Find(First(e), name).lexLevel = q.lexLevel + Len(Frame(First(e)))
         /\ IsLoop(Kind(e)) =>
              /\ Find(First(e) + 1, name).lexLevel =
                   q.lexLevel + Len(Frame(First(e))) + Len(Frame(First(e) + 1))
              /\ Find(First(e) + 2, name).lexLevel =
                   q.lexLevel + Len(Frame(First(e))) + Len(Frame(First(e) + 1))
<1> DEFINE c == e.c
           f == FirstOf(e.c)
<1>1. First(e) = f /\ Kind(e) = KindOf(c) /\ f \in ScopesOf(c)
  BY PlacesInside
<1>2. Parents
  BY ParentsOlder
<1>3. \A t \in ScopesOf(c) : t \in 1 .. Len(scopes) /\ Named(t, name) = {}
  <2>1. \A t \in ScopesOf(c) : t \in 1 .. Len(scopes)
    BY DEF LayoutOK
  <2>2. \A t \in ScopesOf(c) : name # NameIn(c, t)
    BY DEF NameIn
  <2>3. QED
    BY <2>1, <2>2, NamedIs
<1>4. \A t \in ScopesOf(c) : /\ Find(t, name) \in Result
                             /\ Find(t, name) = Beyond(t, Find(scopes[t].parent, name))
  <2>1. \A t \in ScopesOf(c) : t \in 0 .. Len(scopes)
    BY <1>3
  <2>2. QED
    BY <1>2, <1>3, <2>1, FindIs
<1>5. q \in Result
  <2>1. scopes[f].parent \in 0 .. f - 1 /\ f \in 1 .. Len(scopes) /\ Len(scopes) \in Nat
    BY <1>1, <1>2, <1>3, Typed DEF Parents
  <2>2. scopes[f].parent \in 0 .. Len(scopes)
    BY <2>1
  <2>3. QED
    BY <1>1, <1>2, <2>2, FindIs
<1>6. /\ Find(f, name).scope = q.scope /\ Find(f, name).variable = q.variable
      /\ Find(f, name).level = q.level + IF scopes[f].isVariableScope THEN 1 ELSE 0
      /\ Find(f, name).lexLevel = q.lexLevel + Len(Frame(f))
  BY <1>1, <1>3, <1>4, <1>5, BeyondIs
<1>7. \A t : Len(Frame(t)) \in Nat
  BY DEF Frame
<1>8. CASE ~ IsLoop(KindOf(c))
  <2>1. ScopesOf(c) = {f}
    BY <1>8 DEF ScopesOf
  <2>2. KindOf(c) = "function" => scopes[f].isVariableScope
    BY <1>8 DEF VariableScopesOK
  <2>3. QED
    BY <1>1, <1>4, <1>5, <1>6, <1>8, <2>1, <2>2 DEF Result
<1>9. CASE IsLoop(KindOf(c))
  <2>1. ScopesOf(c) = {f, f + 1, f + 2} /\ KindOf(c) # "function"
    BY <1>9 DEF ScopesOf, IsLoop
  <2>2. scopes[f + 1].parent = f /\ scopes[f + 2].parent = f + 1
        /\ ~ scopes[f + 2].isVariableScope
    BY <1>9 DEF LayoutOK, VariableScopesOK
  <2>3. /\ Find(f + 1, name).scope = q.scope /\ Find(f + 1, name).variable = q.variable
        /\ Find(f + 1, name).level = Find(f, name).level
                                       + IF scopes[f + 1].isVariableScope THEN 1 ELSE 0
        /\ Find(f + 1, name).lexLevel = Find(f, name).lexLevel + Len(Frame(f + 1))
    BY <1>3, <1>4, <1>6, <2>1, <2>2, BeyondIs
  <2>4. Find(f + 2, name) = Find(f + 1, name)
    <3>1. Find(f + 2, name) = Beyond(f + 2, Find(f + 1, name))
      BY <1>4, <2>1, <2>2
    <3>2. QED
      BY <2>2, <3>1 DEF Beyond
  <2>5. /\ q.level \in Nat /\ q.lexLevel \in Nat /\ Find(f, name).level \in Nat
        /\ Find(f, name).lexLevel \in Nat
    BY <1>1, <1>4, <1>5 DEF Result
  <2>6. \A s \in ScopesOf(c) : s = f \/ s = f + 1 \/ s = f + 2
    BY <2>1
  <2>7. Find(f, name).level >= q.level /\ Find(f + 1, name).level >= q.level
    BY <1>6, <2>3, <2>5
  <2>8. \A s \in ScopesOf(c) :
              /\ Find(s, name).scope = q.scope
              /\ Find(s, name).variable = q.variable
              /\ Find(s, name).level >= q.level
    BY <1>6, <2>3, <2>4, <2>6, <2>7
  <2>9. Find(f + 1, name).lexLevel = q.lexLevel + Len(Frame(f)) + Len(Frame(f + 1))
    BY <1>6, <2>3
  <2>10. QED
    BY <1>1, <1>4, <1>5, <1>6, <2>1, <2>4, <2>8, <2>9
<1>10. QED
  BY <1>8, <1>9

(* LevelOf does not count the declaration scope of the loop it is in.      *)
Entered(e) == IF IsLoop(Kind(e)) /\ e.part # "body" /\ NeedLexEnv(ScopeOf(e))
              THEN 1 ELSE 0

(* What Find counts in a construct, corrected by Off, are the environments *)
(* that are there: of a construct that others are in, and of the last one. *)
CountedAround(e, name, q) ==
  Find(AroundOf(e), name).lexLevel + OffIn(e, FALSE) =
    q.lexLevel + Len(FramesOf(e))
CountedHere(e, name, q) ==
  Find(ScopeOf(e), name).lexLevel + OffIn(e, TRUE) - Entered(e) =
    q.lexLevel + Len(FramesOf(e))

(* What Find counts in a construct that does not have the name.            *)
LEMMA Counted ==
  ASSUME NEW g, TypeOK, LayoutOK(g), BindingsOK(g), VariableScopesOK,
         NEW e \in Element, e.c \in Constructs, NEW name, name[1] # e.c,
         NEW q, q = Find(scopes[First(e)].parent, name)
  PROVE  CountedAround(e, name, q) /\ CountedHere(e, name, q)
<1> DEFINE f == First(e)
           a == Len(Frame(f))
           b == Len(Frame(f + 1))
<1>1. \A s : Len(Frame(s)) = IF NeedLexEnv(s) THEN 1 ELSE 0
  BY DEF Frame
<1>2. a \in Nat /\ b \in Nat /\ q.lexLevel \in Nat
  BY <1>1, FindOutside DEF Result
<1>3. /\ Find(f, name).lexLevel = q.lexLevel + a
      /\ IsLoop(Kind(e)) => /\ Find(f + 1, name).lexLevel = q.lexLevel + a + b
                            /\ Find(f + 2, name).lexLevel = q.lexLevel + a + b
  BY FindOutside
<1>4. e.part \in {"head", "update", "body"}
  BY DEF Element
<1>5. CASE ~ IsLoop(Kind(e))
  <2>1. AroundOf(e) = f /\ ScopeOf(e) = f
    BY <1>5 DEF AroundOf, ScopeOf, IsLoop
  <2>2. OffIn(e, FALSE) = 0 /\ OffIn(e, TRUE) = 0
    BY <1>5 DEF OffIn
  <2>3. Len(FramesOf(e)) = a
    <3>1. CASE Kind(e) = "function"
      BY <1>5, <3>1 DEF FramesOf
    <3>2. CASE Kind(e) # "function"
      <4>1. FramesOf(e) = <<>>
        BY <1>5, <3>2 DEF FramesOf
      <4>2. ~ scopes[f].isVariableScope
        BY <1>5, <3>2, PlacesInside DEF VariableScopesOK
      <4>3. a = 0
        BY <1>1, <4>2 DEF NeedLexEnv
      <4>4. QED
        BY <4>1, <4>3
    <3>3. QED
      BY <3>1, <3>2
  <2>4. Entered(e) = 0
    BY <1>5 DEF Entered
  <2>5. /\ Find(f, name).lexLevel + 0 = q.lexLevel + a
        /\ Find(f, name).lexLevel + 0 - 0 = q.lexLevel + a
    BY <1>2, <1>3
  <2>6. QED
    BY <2>1, <2>2, <2>3, <2>4, <2>5 DEF CountedAround, CountedHere
<1>6. CASE IsLoop(Kind(e))
  <2>1. Kind(e) # "function" /\ LoopScope(e) = f + 1 /\ DeclScope(e) = f
    BY <1>6 DEF IsLoop, LoopScope, DeclScope
  <2>2. Len(FramesOf(e)) = IF e.part = "head" THEN 0 ELSE a + b
    <3>1. CASE e.part = "head"
      <4>1. FramesOf(e) = <<>>
        BY <2>1, <3>1 DEF FramesOf
      <4>2. QED
        BY <3>1, <4>1
    <3>2. CASE e.part # "head"
      <4>1. FramesOf(e) = Frame(f + 1) \o Frame(f)
        BY <1>6, <2>1, <3>2 DEF FramesOf
      <4>2. Frame(f + 1) \in Seq(Nat) /\ Frame(f) \in Seq(Nat)
        <5>1. f \in Nat
          BY Typed, PlacesInside DEF Constructs, FirstOf
        <5>2. \A s \in Nat : Frame(s) \in Seq(Nat)
          BY DEF Frame
        <5>3. QED
          BY <5>1, <5>2
      <4>3. Len(FramesOf(e)) = b + a
        BY <4>1, <4>2, ConcatProperties
      <4>4. QED
        BY <1>2, <3>2, <4>3
    <3>3. QED
      BY <3>1, <3>2
  <2>3. CASE e.part = "body"
    <3>1. AroundOf(e) = f + 2 /\ ScopeOf(e) = f + 2
      BY <1>6, <2>3 DEF AroundOf, ScopeOf
    <3>2. OffIn(e, FALSE) = 0 /\ OffIn(e, TRUE) = 0
      BY <2>3 DEF OffIn
    <3>3. Entered(e) = 0
      BY <2>3 DEF Entered
    <3>4. /\ Find(f + 2, name).lexLevel + 0 = q.lexLevel + (a + b)
          /\ Find(f + 2, name).lexLevel + 0 - 0 = q.lexLevel + (a + b)
      BY <1>2, <1>3, <1>6
    <3>5. QED
      BY <2>2, <2>3, <3>1, <3>2, <3>3, <3>4 DEF CountedAround, CountedHere
  <2>4. CASE e.part = "update"
    <3>1. AroundOf(e) = f + 1 /\ ScopeOf(e) = f
      BY <1>6, <2>1, <2>4 DEF AroundOf, ScopeOf
    <3>2. OffIn(e, FALSE) = 0 /\ OffIn(e, TRUE) = a + b
      BY <1>6, <2>1, <2>4 DEF OffIn
    <3>3. a = Entered(e)
      BY <1>1, <1>6, <2>4, <3>1 DEF Entered
    <3>4. Find(f + 1, name).lexLevel + 0 = q.lexLevel + (a + b)
          /\ Find(f, name).lexLevel + (a + b) - a = q.lexLevel + (a + b)
      BY <1>2, <1>3, <1>6
    <3>5. QED
      BY <1>6, <2>2, <2>4, <3>1, <3>2, <3>3, <3>4 DEF CountedAround, CountedHere
  <2>5. CASE e.part = "head"
    <3>1. ScopeOf(e) = f /\ AroundOf(e) = IF Kind(e) = "of" THEN f + 1 ELSE f
      BY <1>6, <2>1, <2>5 DEF AroundOf, ScopeOf
    <3>2. OffIn(e, TRUE) = 0 /\ OffIn(e, FALSE) = IF Kind(e) = "of" THEN - a - b ELSE - a
      BY <1>6, <2>1, <2>5 DEF OffIn
    <3>3. a = Entered(e)
      BY <1>1, <1>6, <2>5, <3>1 DEF Entered
    <3>4. /\ Find(f + 1, name).lexLevel + (- a - b) = q.lexLevel + 0
          /\ Find(f, name).lexLevel + (- a) = q.lexLevel + 0
          /\ Find(f, name).lexLevel + 0 - a = q.lexLevel + 0
      BY <1>2, <1>3, <1>6
    <3>5. QED
      BY <1>6, <2>2, <2>5, <3>1, <3>2, <3>3, <3>4 DEF CountedAround, CountedHere
  <2>6. QED
    BY <1>4, <2>3, <2>4, <2>5
<1>7. QED
  BY <1>5, <1>6

-----------------------------------------------------------------------------
(* Along the path.                                                         *)

Program(g) == /\ TypeOK /\ TreeOK(g) /\ LayoutOK(g) /\ BindingsOK(g)
              /\ VariableScopesOK /\ PathOK(g, path)

(* A function between the construct d and the construct k of the path.     *)
Between(d, k) == \E j \in d + 1 .. k : Kind(path[j]) = "function"

(* From the construct d to the construct k of the path.                    *)
Across(d, k, name, off) ==
  LET r == Find(AroundOf(path[k]), name)
  IN  /\ r \in Result /\ r.scope \in ScopesOf(name[1])
      /\ r.variable \in Named(r.scope, name)
      /\ Between(d, k) => r.level > 0
      /\ k # Len(path) => r.lexLevel + off[k] = Len(Chain(k)) - Len(Chain(d))

(* Find, along the path from the construct that has the name.              *)
LEMMA FindAcross ==
  ASSUME NEW g, Program(g), NEW name, NEW d \in 1 .. Len(path),
         Shows(path[d], name), NEW off, OffFrom(off, d)
  PROVE  \A k \in d .. Len(path) : Across(d, k, name, off)
<1> DEFINE n == Len(path)
           R(k) == Find(AroundOf(path[k]), name)
           Q(k) == /\ R(k) \in Result /\ R(k).scope \in ScopesOf(name[1])
                   /\ R(k).variable \in Named(R(k).scope, name)
                   /\ Between(d, k) => R(k).level > 0
                   /\ k # n => R(k).lexLevel + off[k] = Len(Chain(k)) - Len(Chain(d))
           S == {k \in Nat : k \in d .. n => Q(k)}
<1>0. n \in Nat /\ d \in Nat /\ \A k \in 1 .. n : path[k] \in Element /\ path[k].c \in Constructs
  BY PathTyped DEF Program, PathOK
<1>1. PathInside /\ Parents /\ TypeOK
  BY <1>0, ParentsOlder DEF Program, PathInside
<1>2. name[1] = path[d].c
  BY DEF Shows
<1>3. \A k \in 0 .. n : Len(Chain(k)) \in Nat
  BY <1>1, ChainIs, LenProperties
<1>20. /\ \A k \in 0 .. n : off[k] \in Int
       /\ off[d] = 0
       /\ \A k \in d + 1 .. n : off[k] = off[k - 1] + OffIn(path[k], k = n)
  BY <1>0 DEF OffFrom
<1>4. Q(d)
  <2>1. /\ R(d).scope \in ScopesOf(name[1]) /\ R(d).variable \in Named(R(d).scope, name)
        /\ R(d).level = 0 /\ R(d).lexLevel = 0
    BY <1>0, <1>2, FindInside DEF Program
  <2>2. R(d) \in Result
    <3>1. AroundOf(path[d]) \in ScopesOf(path[d].c)
      BY PlacesInside
    <3>2. AroundOf(path[d]) \in 0 .. Len(scopes)
      BY <1>0, <3>1 DEF Program, LayoutOK
    <3>3. QED
      BY <1>1, <3>2, FindIs
  <2>3. ~ Between(d, d)
    BY <1>0 DEF Between
  <2>4. Len(Chain(d)) \in Nat
    BY <1>0, <1>3
  <2> HIDE DEF R
  <2>5. QED
    BY <1>20, <2>1, <2>2, <2>3, <2>4
<1>5. ASSUME NEW j \in d .. n, Q(j), NEW k \in d .. n, k = j + 1
      PROVE  Q(k)
  <2>1. k \in 2 .. n /\ k \in 1 .. n /\ j \in 1 .. n /\ j # n /\ k - 1 = j /\ k # 1
        /\ k # d /\ d < k /\ k \in d + 1 .. n
    BY <1>0, <1>5
  <2>2. scopes[First(path[k])].parent = AroundOf(path[j])
    BY <2>1, PathParent DEF Program
  <2>3. name[1] # path[k].c
    BY <1>0, <1>2, <2>1, PathApart DEF Program
  <2>4. /\ R(k) \in Result /\ R(k).scope = R(j).scope /\ R(k).variable = R(j).variable
        /\ R(k).level >= R(j).level
        /\ Kind(path[k]) = "function" => R(k).level > R(j).level
    <3>1. AroundOf(path[k]) \in ScopesOf(path[k].c)
      BY PlacesInside
    <3>2. PICK q : q = Find(scopes[First(path[k])].parent, name)
      OBVIOUS
    <3>3. path[k].c \in Constructs /\ LayoutOK(g) /\ BindingsOK(g) /\ VariableScopesOK
      BY <1>0, <2>1 DEF Program
    <3>4. /\ R(k) \in Result /\ R(k).scope = q.scope /\ R(k).variable = q.variable
          /\ R(k).level >= q.level
          /\ Kind(path[k]) = "function" => R(k).level > q.level
      BY <1>1, <2>3, <3>1, <3>2, <3>3, FindOutside
    <3>5. QED
      BY <2>2, <3>2, <3>4
  <2>5. R(k).lexLevel + OffIn(path[k], FALSE) = R(j).lexLevel + Len(FramesOf(path[k]))
    <3>1. PICK q : q = Find(scopes[First(path[k])].parent, name)
      OBVIOUS
    <3>2. /\ path[k] \in Element /\ path[k].c \in Constructs
          /\ LayoutOK(g) /\ BindingsOK(g) /\ VariableScopesOK
      BY <1>0, <2>1 DEF Program
    <3>3. CountedAround(path[k], name, q)
      BY <1>1, <2>3, <3>1, <3>2, Counted
    <3>4. QED
      BY <2>2, <3>1, <3>3 DEF CountedAround
  <2>6. Between(d, k) => Between(d, j) \/ Kind(path[k]) = "function"
    <3>1. \A i \in d + 1 .. k : i \in d + 1 .. j \/ i = k
      BY <1>0, <2>1
    <3>2. QED
      BY <3>1 DEF Between
  <2>7. Between(d, k) => R(k).level > 0
    <3>1. R(k).level \in Nat /\ R(j).level \in Nat
      BY <1>5, <2>4 DEF Result
    <3>2. Between(d, j) => R(j).level > 0
      BY <1>5
    <3> HIDE DEF R
    <3>3. QED
      BY <2>4, <2>6, <3>1, <3>2
  <2>8. k # n => R(k).lexLevel + off[k] = Len(Chain(k)) - Len(Chain(d))
    <3>1. SUFFICES ASSUME k # n
                   PROVE  R(k).lexLevel + off[k] = Len(Chain(k)) - Len(Chain(d))
      OBVIOUS
    <3>2. off[k] = off[j] + OffIn(path[k], FALSE)
      <4>1. off[k] = off[k - 1] + OffIn(path[k], k = n)
        BY <1>20, <2>1
      <4>2. (k = n) = FALSE
        BY <3>1
      <4>3. QED
        BY <2>1, <4>1, <4>2
    <3>3. R(j).lexLevel + off[j] = Len(Chain(j)) - Len(Chain(d))
      BY <1>5, <2>1
    <3>4. Len(Chain(k)) = Len(FramesOf(path[k])) + Len(Chain(j))
      <4>1. Chain(k) = FramesOf(path[k]) \o Chain(j)
        BY <1>1, <2>1, ChainIs
      <4>2. FramesOf(path[k]) \in Seq(Nat) /\ Chain(j) \in Seq(Nat)
        BY <1>1, <2>1, FramesTyped, ChainIs
      <4>3. QED
        BY <4>1, <4>2, ConcatProperties
    <3>5. /\ Len(Chain(k)) \in Nat /\ Len(Chain(j)) \in Nat /\ Len(Chain(d)) \in Nat
          /\ off[j] \in Int /\ OffIn(path[k], FALSE) \in Int
          /\ Len(FramesOf(path[k])) \in Nat
      <4>1. FramesOf(path[k]) \in Seq(Nat)
        BY <1>1, <2>1, FramesTyped
      <4>2. j \in 0 .. n /\ k \in 0 .. n /\ d \in 0 .. n
        BY <1>0, <2>1
      <4>3. QED
        BY <1>20, <1>0, <1>3, <2>1, <4>1, <4>2, OffTyped, LenProperties
    <3>6. R(k).lexLevel \in Nat /\ R(j).lexLevel \in Nat
      BY <1>5, <2>4 DEF Result
    <3> DEFINE rk == R(k).lexLevel
               rj == R(j).lexLevel
               o == OffIn(path[k], FALSE)
               f == Len(FramesOf(path[k]))
               ck == Len(Chain(k))
               cj == Len(Chain(j))
               cd == Len(Chain(d))
               ok == off[k]
               oj == off[j]
    <3>7. /\ rk \in Nat /\ rj \in Nat /\ o \in Int /\ f \in Nat /\ ck \in Nat
          /\ cj \in Nat /\ cd \in Nat /\ oj \in Int
          /\ rk + o = rj + f /\ rj + oj = cj - cd /\ ok = oj + o /\ ck = f + cj
      BY <2>5, <3>2, <3>3, <3>4, <3>5, <3>6
    <3> HIDE DEF rk, rj, o, f, ck, cj, cd, ok, oj
    <3>8. rk + ok = ck - cd
      BY <3>7
    <3>9. QED
      BY <3>8 DEF rk, ok, ck, cd
  <2>9. R(k).scope \in ScopesOf(name[1]) /\ R(k).variable \in Named(R(k).scope, name)
    BY <1>5, <2>4
  <2> HIDE DEF R
  <2>10. QED
    BY <2>4, <2>7, <2>8, <2>9
<1> HIDE DEF Q
<1>6. 0 \in S
  BY <1>0
<1>7. ASSUME NEW j \in Nat, j \in S
      PROVE  j + 1 \in S
  <2>1. SUFFICES ASSUME j + 1 \in d .. n
                 PROVE  Q(j + 1)
    OBVIOUS
  <2>2. CASE j + 1 = d
    BY <1>4, <2>2
  <2>3. CASE j + 1 # d
    <3>1. j \in d .. n
      BY <1>0, <2>1, <2>3
    <3>2. QED
      BY <1>5, <1>7, <2>1, <3>1
  <2>4. QED
    BY <2>2, <2>3
<1> HIDE DEF S
<1>8. S = Nat
  <2>1. S \in SUBSET Nat
    BY DEF S
  <2>2. QED
    BY <1>6, <1>7, <2>1, SetInduction
<1>9. \A k \in d .. n : Q(k)
  BY <1>0, <1>8 DEF S
<1>10. QED
  BY <1>9 DEF Q, Across

(* What Find and LevelOf say of a name that the path shows: the level is   *)
(* the number of environments that were entered since.                     *)
LEMMA FindHere ==
  ASSUME NEW g, Program(g), NEW name, NEW d \in 1 .. Len(path), Shows(path[d], name)
  PROVE  LET r == Find(Here, name)
         IN  /\ r \in Result /\ r.scope \in ScopesOf(name[1])
             /\ r.variable \in Named(r.scope, name)
             /\ Between(d, Len(path)) => r.level > 0
             /\ LevelOf(name) + Off(name) = Len(Chain(Len(path))) - Len(Chain(d))
<1> DEFINE n == Len(path)
           e == path[n]
           r == Find(Here, name)
<1>0. /\ n \in Nat /\ d \in Nat /\ n \in 1 .. n
      /\ \A k \in 1 .. n : path[k] \in Element /\ path[k].c \in Constructs
  BY PathTyped DEF Program, PathOK
<1>1. PathInside /\ Parents /\ TypeOK /\ LayoutOK(g) /\ BindingsOK(g) /\ VariableScopesOK
  BY <1>0, ParentsOlder DEF Program, PathInside
<1>2. name[1] = path[d].c
  BY DEF Shows
<1>3. Here = ScopeOf(e) /\ Last(path) = e
  BY <1>0, HereIs DEF Last
<1>4. d = Depth(name)
  BY <1>2, DepthIs DEF Program
<1>5. PICK off : Off(name) = off[n] /\ OffFrom(off, d)
  BY <1>1, <1>4, OffIs
<1>20. /\ \A k \in 0 .. n : off[k] \in Int
       /\ \A k \in 0 .. d : off[k] = 0
       /\ \A k \in d + 1 .. n : off[k] = off[k - 1] + OffIn(path[k], k = n)
  BY <1>5 DEF OffFrom
<1>6. \A k \in 0 .. n : Len(Chain(k)) \in Nat
  BY <1>1, ChainIs, LenProperties
<1>7. Here \in ScopesOf(e.c)
  BY <1>3, PlacesInside
<1>8. r \in Result
  <2>1. Here \in 0 .. Len(scopes)
    BY <1>0, <1>1, <1>7 DEF LayoutOK
  <2>2. QED
    BY <1>1, <2>1, FindIs
<1>9. LevelOf(name) = IF /\ IsLoop(Kind(e)) /\ e.part # "body" /\ r.scope # ScopeOf(e)
                         /\ NeedLexEnv(ScopeOf(e))
                      THEN r.lexLevel - 1 ELSE r.lexLevel
  BY <1>3 DEF LevelOf
<1>10. CASE d = n
  <2>1. /\ r.scope \in ScopesOf(name[1]) /\ r.variable \in Named(r.scope, name)
        /\ r.level = 0 /\ r.lexLevel = 0
        /\ IsLoop(Kind(e)) /\ e.part # "body" => r.scope = ScopeOf(e)
    BY <1>0, <1>1, <1>2, <1>3, <1>10, FindInside
  <2>2. LevelOf(name) = 0
    BY <1>9, <2>1
  <2>3. Off(name) = 0
    BY <1>0, <1>5, <1>20, <1>10
  <2>4. ~ Between(d, n)
    BY <1>0, <1>10 DEF Between
  <2>5. Len(Chain(n)) - Len(Chain(d)) = 0
    BY <1>0, <1>6, <1>10
  <2>6. QED
    BY <1>8, <2>1, <2>2, <2>3, <2>4, <2>5
<1>11. CASE d # n
  <2> DEFINE j == n - 1
             q == Find(AroundOf(path[j]), name)
  <2>1. j \in d .. n /\ j \in 1 .. n /\ j # n /\ n # 1 /\ n \in d + 1 .. n /\ d < n
        /\ j \in 0 .. n
    BY <1>0, <1>11
  <2>2. /\ q \in Result /\ q.scope \in ScopesOf(name[1])
        /\ q.variable \in Named(q.scope, name)
        /\ Between(d, j) => q.level > 0
        /\ q.lexLevel + off[j] = Len(Chain(j)) - Len(Chain(d))
    <3>1. Across(d, j, name, off)
      BY <1>5, <2>1, FindAcross
    <3>2. QED
      BY <2>1, <3>1 DEF Across
  <2>3. scopes[First(e)].parent = AroundOf(path[j])
    BY <1>0, <2>1, PathParent DEF Program
  <2>4. name[1] # e.c
    BY <1>0, <1>2, <1>11, PathApart DEF Program
  <2>5. PICK p : p = Find(scopes[First(e)].parent, name)
    OBVIOUS
  <2>6. /\ r.scope = p.scope /\ r.variable = p.variable /\ r.level >= p.level
        /\ Kind(e) = "function" => r.level > p.level
    BY <1>0, <1>1, <1>7, <2>4, <2>5, FindOutside
  <2>7. CountedHere(e, name, p)
    BY <1>0, <1>1, <2>4, <2>5, Counted
  <2>8. p = q
    BY <2>3, <2>5
  <2>9. r.scope # ScopeOf(e)
    <3>1. g.owner[r.scope] = name[1]
      BY <1>0, <1>1, <1>2, <2>2, <2>6, <2>8 DEF LayoutOK
    <3>2. g.owner[ScopeOf(e)] = e.c
      BY <1>0, <1>1, <1>3, <1>7 DEF LayoutOK
    <3>3. QED
      BY <2>4, <3>1, <3>2
  <2>10. LevelOf(name) = r.lexLevel - Entered(e)
    <3>1. r.lexLevel \in Nat
      BY <1>8 DEF Result
    <3>2. QED
      BY <1>9, <2>9, <3>1 DEF Entered
  <2>11. Between(d, n) => r.level > 0
    <3>1. \A i \in d + 1 .. n : i \in d + 1 .. j \/ i = n
      BY <1>0
    <3>2. Between(d, n) => Between(d, j) \/ Kind(e) = "function"
      BY <3>1 DEF Between
    <3>3. r.level \in Nat /\ q.level \in Nat
      BY <1>8, <2>2 DEF Result
    <3> HIDE DEF r, q
    <3>4. QED
      BY <2>2, <2>6, <2>8, <3>2, <3>3
  <2>12. LevelOf(name) + Off(name) = Len(Chain(n)) - Len(Chain(d))
    <3> DEFINE rl == r.lexLevel
               ql == q.lexLevel
               o == OffIn(e, TRUE)
               f == Len(FramesOf(e))
               ck == Len(Chain(n))
               cj == Len(Chain(j))
               cd == Len(Chain(d))
               ok == off[n]
               oj == off[j]
               x == Entered(e)
    <3>1. rl \in Nat /\ ql \in Nat
      BY <1>8, <2>2 DEF Result
    <3>2. o \in Int /\ f \in Nat
      <4>1. FramesOf(e) \in Seq(Nat)
        BY <1>0, <1>1, FramesTyped
      <4>2. QED
        BY <1>0, <4>1, OffTyped, LenProperties
    <3>3. ck \in Nat /\ cj \in Nat /\ cd \in Nat /\ oj \in Int /\ x \in Int
      BY <1>0, <1>20, <1>6, <2>1 DEF Entered
    <3>4. rl + o - x = ql + f
      BY <1>3, <2>7, <2>8 DEF CountedHere
    <3>5. ql + oj = cj - cd
      BY <2>2
    <3>6. ok = oj + o
      <4>1. off[n] = off[n - 1] + OffIn(path[n], n = n)
        BY <1>20, <2>1
      <4>2. (n = n) = TRUE
        OBVIOUS
      <4>3. QED
        BY <4>1, <4>2
    <3>7. ck = f + cj
      <4>1. Chain(n) = FramesOf(e) \o Chain(j)
        BY <1>0, <1>1, ChainIs
      <4>2. FramesOf(e) \in Seq(Nat) /\ Chain(j) \in Seq(Nat)
        BY <1>0, <1>1, <2>1, FramesTyped, ChainIs
      <4>3. QED
        BY <4>1, <4>2, ConcatProperties
    <3>8. LevelOf(name) = rl - x /\ Off(name) = ok
      BY <1>5, <2>10
    <3> HIDE DEF rl, ql, o, f, ck, cj, cd, ok, oj, x
    <3>9. (rl - x) + ok = ck - cd
      BY <3>1, <3>2, <3>3, <3>4, <3>5, <3>6, <3>7
    <3>10. QED
      BY <3>8, <3>9 DEF ck, cd
  <2> HIDE DEF q, r
  <2>13. QED
    BY <1>8, <2>2, <2>6, <2>8, <2>11, <2>12 DEF r
<1>12. QED
  BY <1>10, <1>11

(* The environments of the first d constructs are the outermost ones.      *)
LEMMA ChainSplit ==
  ASSUME NEW g, Program(g), NEW d \in 1 .. Len(path), Chain(d) # <<>>
  PROVE  \A k \in d .. Len(path) :
           /\ Len(Chain(k)) >= Len(Chain(d))
           /\ Chain(k)[Len(Chain(k)) - Len(Chain(d)) + 1] = Chain(d)[1]
<1> DEFINE n == Len(path)
           Q(k) == /\ Len(Chain(k)) >= Len(Chain(d))
                   /\ Chain(k)[Len(Chain(k)) - Len(Chain(d)) + 1] = Chain(d)[1]
           S == {k \in Nat : k \in d .. n => Q(k)}
<1>0. n \in Nat /\ d \in Nat
  BY PathTyped DEF Program
<1>1. PathInside /\ TypeOK
  BY DEF Program, PathInside, PathOK
<1>2. \A k \in 0 .. n : Chain(k) \in Seq(Nat) /\ Len(Chain(k)) \in Nat
  BY <1>1, ChainIs, LenProperties
<1>3. Q(d)
  <2>1. Len(Chain(d)) \in Nat
    BY <1>0, <1>2
  <2>2. Len(Chain(d)) - Len(Chain(d)) + 1 = 1
    BY <2>1
  <2>3. QED
    BY <2>1, <2>2
<1>4. Len(Chain(d)) > 0
  BY <1>0, <1>2, EmptySeq
<1>5. ASSUME NEW j \in d .. n, Q(j), NEW k \in d .. n, k = j + 1
      PROVE  Q(k)
  <2>1. j \in 0 .. n /\ k \in 1 .. n /\ k - 1 = j
    BY <1>0, <1>5
  <2>2. Chain(k) = FramesOf(path[k]) \o Chain(j)
    BY <1>1, <2>1, ChainIs
  <2>3. PICK f \in Seq(Nat), c \in Seq(Nat), l \in Nat :
          f = FramesOf(path[k]) /\ c = Chain(j) /\ l = Len(Chain(d))
    BY <1>0, <1>1, <1>2, <2>1, FramesTyped
  <2>4. Len(c) >= l /\ c[Len(c) - l + 1] = Chain(d)[1] /\ l > 0
    BY <1>4, <1>5, <2>3
  <2>5. /\ Len(f) \in Nat /\ Len(c) \in Nat /\ Len(f \o c) = Len(f) + Len(c)
        /\ \A i \in 1 .. Len(f) + Len(c) :
             (f \o c)[i] = IF i <= Len(f) THEN f[i] ELSE c[i - Len(f)]
    BY ConcatProperties, LenProperties
  <2>a. PICK fl \in Nat, cl \in Nat : fl = Len(f) /\ cl = Len(c)
    BY <2>5
  <2>b. cl >= l /\ l > 0
    BY <2>4, <2>a
  <2>c. /\ fl + cl - l + 1 \in 1 .. fl + cl /\ fl + cl - l + 1 > fl
        /\ (fl + cl - l + 1) - fl = cl - l + 1
    BY <2>b
  <2>6. PICK i \in 1 .. Len(f) + Len(c) : i = Len(f) + Len(c) - l + 1 /\ i > Len(f)
                                          /\ i - Len(f) = Len(c) - l + 1
    BY <2>a, <2>c
  <2>7. (f \o c)[i] = Chain(d)[1] /\ i = Len(f \o c) - l + 1 /\ Len(f \o c) >= l
    BY <2>4, <2>5, <2>6
  <2>8. Chain(k) = f \o c
    BY <2>2, <2>3
  <2>9. QED
    BY <2>3, <2>7, <2>8
<1> HIDE DEF Q
<1>6. 0 \in S
  BY <1>0
<1>7. ASSUME NEW j \in Nat, j \in S
      PROVE  j + 1 \in S
  <2>1. SUFFICES ASSUME j + 1 \in d .. n
                 PROVE  Q(j + 1)
    OBVIOUS
  <2>2. CASE j + 1 = d
    BY <1>3, <2>2
  <2>3. CASE j + 1 # d
    <3>1. j \in d .. n
      BY <1>0, <2>1, <2>3
    <3>2. QED
      BY <1>5, <1>7, <2>1, <3>1
  <2>4. QED
    BY <2>2, <2>3
<1> HIDE DEF S
<1>8. S = Nat
  <2>1. S \in SUBSET Nat
    BY DEF S
  <2>2. QED
    BY <1>6, <1>7, <2>1, SetInduction
<1>9. \A k \in d .. n : Q(k)
  BY <1>0, <1>8 DEF S
<1>10. QED
  BY <1>9 DEF Q

-----------------------------------------------------------------------------
(* The environment where a variable lives.                                 *)

(* The innermost environment that a construct makes.                       *)
LEMMA FramesFirst ==
  ASSUME NEW g, TypeOK, LayoutOK(g), NEW e, e.c \in Constructs
  PROVE  /\ Kind(e) = "function" =>
              FramesOf(e) = IF NeedLexEnv(First(e)) THEN <<First(e)>> ELSE <<>>
         /\ FramesOf(e) # <<>> =>
              /\ FramesOf(e)[1] \in ScopesOf(e.c) /\ NeedLexEnv(FramesOf(e)[1])
              /\ IsLoop(Kind(e)) \/ Kind(e) = "function"
         /\ IsLoop(Kind(e)) /\ FramesOf(e) # <<>> =>
              FramesOf(e)[1] = IF NeedLexEnv(First(e) + 1) THEN First(e) + 1 ELSE First(e)
         /\ IsLoop(Kind(e)) /\ e.part = "body" /\ NeedLexEnv(First(e)) =>
              FramesOf(e) # <<>>
<1> DEFINE f == First(e)
<1>1. f = FirstOf(e.c) /\ Kind(e) = KindOf(e.c) /\ f \in ScopesOf(e.c)
  BY PlacesInside
<1>2. CASE Kind(e) = "function"
  <2>1. ~ IsLoop(Kind(e))
    BY <1>2 DEF IsLoop
  <2>2. FramesOf(e) = IF NeedLexEnv(f) THEN <<f>> ELSE <<>>
    BY <1>2, <2>1 DEF FramesOf, Frame
  <2>3. QED
    BY <1>1, <1>2, <2>1, <2>2
<1>3. CASE IsLoop(Kind(e))
  <2>1. Kind(e) # "function" /\ LoopScope(e) = f + 1 /\ DeclScope(e) = f
    BY <1>3 DEF IsLoop, LoopScope, DeclScope
  <2>2. f + 1 \in ScopesOf(e.c) /\ f \in Nat
    BY <1>1, <1>3, Typed DEF ScopesOf, Constructs, FirstOf
  <2>3. CASE e.part = "head"
    <3>1. FramesOf(e) = <<>>
      BY <2>1, <2>3 DEF FramesOf
    <3>2. QED
      BY <2>1, <2>3, <3>1
  <2>4. CASE e.part # "head"
    <3>1. FramesOf(e) = Frame(f + 1) \o Frame(f)
      BY <1>3, <2>1, <2>4 DEF FramesOf
    <3>2. CASE NeedLexEnv(f + 1)
      <4>1. Frame(f + 1) = <<f + 1>> /\ Frame(f) \in Seq(Nat)
        BY <2>2, <3>2 DEF Frame
      <4>2. FramesOf(e) # <<>> /\ FramesOf(e)[1] = f + 1
        BY <2>2, <3>1, <4>1
      <4>3. QED
        BY <1>3, <2>1, <2>2, <3>2, <4>2
    <3>3. CASE ~ NeedLexEnv(f + 1)
      <4>1. Frame(f + 1) = <<>> /\ Frame(f) \in Seq(Nat)
        BY <2>2, <3>3 DEF Frame
      <4>2. FramesOf(e) = Frame(f)
        BY <3>1, <4>1, ConcatEmptySeq
      <4>3. Frame(f) = IF NeedLexEnv(f) THEN <<f>> ELSE <<>>
        BY DEF Frame
      <4>4. QED
        BY <1>1, <1>3, <2>1, <3>3, <4>2, <4>3
    <3>4. QED
      BY <3>2, <3>3
  <2>5. QED
    BY <2>3, <2>4
<1>4. CASE Kind(e) # "function" /\ ~ IsLoop(Kind(e))
  <2>1. FramesOf(e) = <<>>
    BY <1>4 DEF FramesOf
  <2>2. QED
    BY <1>4, <2>1
<1>5. QED
  BY <1>2, <1>3, <1>4

(* The environment around a construct has a slot if it is one of a         *)
(* variable in the construct, of the same function.                        *)
LEMMA HomeIs ==
  ASSUME NEW g, Program(g), SlotsOK(g), NEW d \in 1 .. Len(path),
         NEW v \in 1 .. Len(variables), variables[v].name[1] = path[d].c,
         variables[v].slot # None
  PROVE  LET s == Chain(d)[1]
         IN  /\ Chain(d) # <<>> /\ s \in 1 .. Len(scopes)
             /\ g.fun[g.owner[s]] = g.fun[path[d].c]
             /\ variables[v].slot < scopes[s].slots
<1> DEFINE n == Len(path)
           Q(k) == g.fun[path[k].c] = g.fun[path[d].c] =>
                     /\ Chain(k) # <<>> /\ Chain(k)[1] \in 1 .. Len(scopes)
                     /\ g.fun[g.owner[Chain(k)[1]]] = g.fun[path[d].c]
                     /\ variables[v].slot < scopes[Chain(k)[1]].slots
           S == {k \in Nat : k \in 1 .. d => Q(k)}
<1>0. /\ n \in Nat /\ d \in Nat /\ d <= n
      /\ \A k \in 1 .. n : path[k] \in Element /\ path[k].c \in Constructs
  BY PathTyped DEF Program, PathOK
<1>1. PathInside /\ TypeOK /\ LayoutOK(g) /\ VariableScopesOK
  BY <1>0 DEF Program, PathInside
<1>2. variables[v].slot \in Nat
  BY <1>1, Typed
<1>3. variables[v].slot < scopes[FirstOf(g.fun[path[d].c])].slots
  BY DEF SlotsOK, SlotFits
<1>4. \A c \in g.within[path[d].c] :
        Converted(c) /\ g.fun[c] = g.fun[path[d].c] =>
          variables[v].slot < scopes[FirstOf(c)].slots
  BY DEF SlotsOK, SlotFits
<1>5. 0 \in S
  OBVIOUS
<1>6. ASSUME NEW j \in Nat, j \in S, NEW k \in 1 .. d, k = j + 1
      PROVE  Q(k)
  <2> DEFINE e == path[k]
             c == path[k].c
             f == FirstOf(path[k].c)
  <2>1. k \in 1 .. n /\ c \in Constructs /\ k \in 0 .. n /\ k - 1 \in 0 .. n
    BY <1>0
  <2>2. First(e) = f /\ Kind(e) = KindOf(c) /\ f \in ScopesOf(c)
    BY PlacesInside
  <2>3. \A s \in ScopesOf(c) : s \in 1 .. Len(scopes) /\ g.owner[s] = c
    BY <1>1, <2>1 DEF LayoutOK
  <2>4. Chain(k) = FramesOf(e) \o Chain(k - 1)
    BY <1>1, <2>1, ChainIs
  <2>5. FramesOf(e) \in Seq(Nat) /\ Chain(k - 1) \in Seq(Nat)
    BY <1>1, <2>1, FramesTyped, ChainIs
  <2>6. FramesOf(e) # <<>> => Chain(k) # <<>> /\ Chain(k)[1] = FramesOf(e)[1]
    BY <2>4, <2>5, ConcatProperties, EmptySeq
  <2>7. FramesOf(e) = <<>> => Chain(k) = Chain(k - 1)
    BY <2>4, <2>5, ConcatEmptySeq
  <2>8. SUFFICES ASSUME g.fun[c] = g.fun[path[d].c]
                 PROVE  /\ Chain(k) # <<>> /\ Chain(k)[1] \in 1 .. Len(scopes)
                        /\ g.fun[g.owner[Chain(k)[1]]] = g.fun[path[d].c]
                        /\ variables[v].slot < scopes[Chain(k)[1]].slots
    OBVIOUS
  <2>9. CASE Kind(e) = "function"
    <3>1. g.fun[c] = c
      BY <2>1, <2>9, PathFun DEF Program
    <3>2. ~ IsLoop(KindOf(c))
      BY <2>2, <2>9 DEF IsLoop
    <3>3. NeedLexEnv(f)
      <4>1. scopes[f].isVariableScope
        BY <1>1, <2>1, <2>2, <2>9, <3>2 DEF VariableScopesOK
      <4>2. scopes[f].slots \in Nat
        BY <1>1, <2>2, <2>3, Typed
      <4>3. variables[v].slot < scopes[f].slots
        BY <1>3, <2>8, <3>1
      <4>4. scopes[f].slots > 0
        BY <1>2, <4>2, <4>3
      <4>5. QED
        BY <4>1, <4>4 DEF NeedLexEnv
    <3>4. FramesOf(e) = <<f>>
      BY <1>1, <2>1, <2>2, <2>9, <3>3, FramesFirst
    <3>5. Chain(k) # <<>> /\ Chain(k)[1] = f
      BY <2>6, <3>4
    <3>6. QED
      BY <1>3, <2>2, <2>3, <2>8, <3>1, <3>5
  <2>10. CASE Kind(e) # "function" /\ FramesOf(e) # <<>>
    <3> DEFINE s == FramesOf(e)[1]
    <3>1. s \in ScopesOf(c) /\ NeedLexEnv(s) /\ IsLoop(Kind(e))
          /\ s = IF NeedLexEnv(f + 1) THEN f + 1 ELSE f
      BY <1>1, <2>1, <2>2, <2>10, FramesFirst
    <3>2. Converted(c) /\ scopes[s].slots = scopes[f].slots
      <4>1. /\ scopes[f].isVariableScope = Converted(c)
            /\ scopes[f + 1].isVariableScope = (Converted(c) /\ KindOf(c) # "const")
            /\ scopes[f + 1].isVariableScope => scopes[f + 1].slots = scopes[f].slots
        BY <1>1, <2>1, <2>2, <3>1 DEF VariableScopesOK
      <4>2. CASE NeedLexEnv(f + 1)
        BY <3>1, <4>1, <4>2 DEF NeedLexEnv
      <4>3. CASE ~ NeedLexEnv(f + 1)
        BY <3>1, <4>1, <4>3 DEF NeedLexEnv
      <4>4. QED
        BY <4>2, <4>3
    <3>3. c \in g.within[path[d].c]
      <4>1. PathOK(g, path) /\ TreeOK(g)
        BY DEF Program
      <4>2. \A m \in 1 .. Len(path) : g.within[path[m].c] = {path[i].c : i \in 1 .. m}
        BY <4>1, PathWithin
      <4>3. c \in {path[i].c : i \in 1 .. d}
        OBVIOUS
      <4>4. QED
        BY <4>2, <4>3, Zenon
    <3>4. variables[v].slot < scopes[s].slots
      BY <1>4, <2>8, <3>2, <3>3
    <3>5. QED
      BY <2>3, <2>6, <2>8, <2>10, <3>1, <3>4
  <2>11. CASE Kind(e) # "function" /\ FramesOf(e) = <<>>
    <3>1. k > 1 /\ k - 1 = j /\ j \in 1 .. d
      BY <1>0, <1>6, <2>1, <2>11, PathFun DEF Program
    <3>2. g.fun[path[j].c] = g.fun[c]
      BY <2>1, <2>11, <3>1, PathFun DEF Program
    <3>3. Q(j)
      BY <1>6, <3>1
    <3>4. Chain(k) = Chain(j)
      BY <2>7, <2>11, <3>1
    <3>5. QED
      BY <2>8, <3>2, <3>3, <3>4
  <2>12. QED
    BY <2>9, <2>10, <2>11
<1> HIDE DEF Q
<1>7. ASSUME NEW j \in Nat, j \in S
      PROVE  j + 1 \in S
  BY <1>6, <1>7
<1> HIDE DEF S
<1>8. S = Nat
  <2>1. S \in SUBSET Nat
    BY DEF S
  <2>2. QED
    BY <1>5, <1>7, <2>1, SetInduction
<1>9. Q(d)
  BY <1>0, <1>8 DEF S
<1>10. QED
  BY <1>9 DEF Q

-----------------------------------------------------------------------------
(* An access that is compiled.                                             *)

(* The access that Compile adds.                                           *)
Made(name) ==
  [name |-> name, slot |-> variables[Find(Here, name).variable].slot,
   level |-> LevelOf(name), off |-> Off(name), chain |-> Chain(Len(path)),
   home |-> Chain(Depth(name)), part |-> path[Depth(name)].part,
   function |-> \E k \in Depth(name) + 1 .. Len(path) : Kind(path[k]) = "function"]

(* It reaches its variable if every name that a function uses from around  *)
(* it has a slot, and every loop whose variable has one is converted.      *)
LEMMA Accessed ==
  ASSUME NEW g, Program(g), SlotsOK(g), NEW name, NEW d \in 1 .. Len(path),
         Shows(path[d], name),
         \A v \in 1 .. Len(variables) : variables[v].name = name =>
           /\ Crosses(path, name) => variables[v].slot # None
           /\ name[2] = "head" /\ variables[v].slot # None => Converted(name[1])
  PROVE  AccessOK(g, Made(name))
<1> DEFINE n == Len(path)
           r == Find(Here, name)
           v == r.variable
           a == Made(name)
           c == name[1]
           s == Chain(d)[1]
<1>0. /\ n \in Nat /\ d \in Nat /\ n \in 1 .. n /\ n \in 0 .. n /\ n \in d .. n /\ d \in 0 .. n /\ d - 1 \in 0 .. n
      /\ \A k \in 1 .. n : path[k] \in Element /\ path[k].c \in Constructs
  BY PathTyped DEF Program, PathOK
<1>1. PathInside /\ TypeOK /\ LayoutOK(g) /\ BindingsOK(g) /\ VariableScopesOK
  BY <1>0 DEF Program, PathInside
<1>2. c = path[d].c /\ c \in Constructs
  BY <1>0 DEF Shows
<1>3. Depth(name) = d
  BY <1>2, DepthIs DEF Program
<1>4. /\ a.name = name /\ a.slot = variables[v].slot /\ a.level = LevelOf(name)
      /\ a.off = Off(name) /\ a.chain = Chain(n) /\ a.home = Chain(d)
      /\ a.part = path[d].part /\ a.function = Between(d, n)
  BY <1>3 DEF Made, Between
<1>5. /\ r.scope \in ScopesOf(c) /\ v \in Named(r.scope, name)
      /\ LevelOf(name) + Off(name) = Len(Chain(n)) - Len(Chain(d))
  BY FindHere
<1> HIDE DEF v, r, a
<1>6. v \in 1 .. Len(variables) /\ variables[v].name = name
  <2>1. v \in scopes[r.scope].bindings /\ variables[v].name = name
    BY <1>5 DEF Named
  <2>2. QED
    BY <1>1, <1>2, <1>5, <2>1 DEF BindingsOK
<1>7. /\ Crosses(path, name) => variables[v].slot # None
      /\ name[2] = "head" /\ variables[v].slot # None => Converted(c)
  BY <1>6
<1>8. a.function => a.slot # None
  <2>1. ASSUME Between(d, n) PROVE Crosses(path, name)
    <3>1. PICK k \in d + 1 .. n : Kind(path[k]) = "function"
      BY <2>1 DEF Between
    <3>2. k \in 1 .. n /\ d < k
      BY <1>0
    <3>3. QED
      BY <1>2, <3>1, <3>2 DEF Crosses
  <2>2. QED
    BY <1>4, <1>7, <2>1
<1>9. ASSUME a.slot # None
      PROVE  /\ a.level + a.off \in 0 .. Len(a.chain) - 1
             /\ a.home # <<>> /\ Reached(a) = a.home[1]
             /\ Reached(a) \in 1 .. Len(scopes) /\ a.slot < scopes[Reached(a)].slots
             /\ g.fun[g.owner[Reached(a)]] = g.fun[a.name[1]]
             /\ \E w \in 1 .. Len(variables) :
                  variables[w].name = a.name /\ variables[w].slot = a.slot
             /\ a.name[2] = "head" /\ a.part = "body" =>
                  Reached(a) = IF KindOf(a.name[1]) = "const" THEN FirstOf(a.name[1])
                               ELSE FirstOf(a.name[1]) + 1
  <2>1. /\ Chain(d) # <<>> /\ s \in 1 .. Len(scopes) /\ g.fun[g.owner[s]] = g.fun[c]
        /\ variables[v].slot < scopes[s].slots
    BY <1>2, <1>4, <1>6, <1>9, HomeIs
  <2>2. /\ Len(Chain(n)) >= Len(Chain(d))
        /\ Chain(n)[Len(Chain(n)) - Len(Chain(d)) + 1] = s
    BY <1>0, <2>1, ChainSplit
  <2>3. Chain(n) \in Seq(Nat) /\ Chain(d) \in Seq(Nat)
    BY <1>0, <1>1, ChainIs
  <2>4. Len(Chain(n)) \in Nat /\ Len(Chain(d)) \in Nat /\ Len(Chain(d)) > 0
    BY <2>1, <2>3, EmptySeq, LenProperties
  <2>5. a.level + a.off = Len(Chain(n)) - Len(Chain(d))
    BY <1>4, <1>5
  <2>6. a.level + a.off \in 0 .. Len(a.chain) - 1
    BY <1>4, <2>2, <2>4, <2>5
  <2>7. Reached(a) = s
    BY <1>4, <2>2, <2>5 DEF Reached
  <2>8. ASSUME name[2] = "head", path[d].part = "body"
        PROVE  s = IF KindOf(c) = "const" THEN FirstOf(c) ELSE FirstOf(c) + 1
    <3> DEFINE e == path[d]
               f == FirstOf(c)
    <3>1. IsLoop(Kind(e)) /\ First(e) = f /\ Kind(e) = KindOf(c)
      BY <1>2, <2>8, PlacesInside DEF Shows
    <3>2. Converted(c)
      BY <1>4, <1>7, <1>9, <2>8
    <3>3. /\ scopes[f].isVariableScope /\ scopes[f].slots > 0
          /\ scopes[f + 1].isVariableScope = (KindOf(c) # "const")
          /\ scopes[f + 1].isVariableScope => scopes[f + 1].slots = scopes[f].slots
      BY <1>1, <1>2, <3>1, <3>2 DEF VariableScopesOK
    <3>4. NeedLexEnv(f) /\ NeedLexEnv(f + 1) = (KindOf(c) # "const")
      BY <3>3 DEF NeedLexEnv
    <3>5. /\ FramesOf(e) # <<>>
          /\ FramesOf(e)[1] = IF NeedLexEnv(f + 1) THEN f + 1 ELSE f
      <4>1. e.c \in Constructs /\ e.part = "body" /\ NeedLexEnv(First(e))
        BY <1>2, <2>8, <3>1, <3>4
      <4>2. FramesOf(e) # <<>>
        BY <1>1, <3>1, <4>1, FramesFirst
      <4>3. FramesOf(e)[1] = IF NeedLexEnv(First(e) + 1) THEN First(e) + 1 ELSE First(e)
        BY <1>1, <3>1, <4>1, <4>2, FramesFirst
      <4>4. QED
        BY <3>1, <4>2, <4>3
    <3>6. Chain(d) = FramesOf(e) \o Chain(d - 1)
      BY <1>1, ChainIs
    <3>7. FramesOf(e) \in Seq(Nat) /\ Chain(d - 1) \in Seq(Nat)
      BY <1>0, <1>1, FramesTyped, ChainIs
    <3>8. Chain(d)[1] = FramesOf(e)[1]
      BY <3>5, <3>6, <3>7, ConcatProperties, EmptySeq
    <3>9. QED
      BY <3>4, <3>5, <3>8
  <2>9. QED
    BY <1>4, <1>6, <2>1, <2>6, <2>7, <2>8, Zenon
<1>10. QED
  BY <1>8, <1>9 DEF AccessOK, a

-----------------------------------------------------------------------------
(* The names that may be used.                                             *)

(* What the parser takes for visible is shown by a construct of the path.  *)
LEMMA VisibleNames ==
  ASSUME NEW g, Program(g), NEW name \in Visible
  PROVE  path # <<>> /\ VisibleAt(path, name)
<1> DEFINE n == Len(path)
           W(k) == \E j \in 1 .. k : Shows(path[j], name)
<1>0. /\ n \in Nat
      /\ \A k \in 1 .. n : path[k] \in Element /\ path[k].c \in Constructs
  BY PathTyped DEF Program, PathOK
<1>1. Parents /\ TypeOK /\ LayoutOK(g) /\ BindingsOK(g)
  BY ParentsOlder DEF Program
<1>2. PICK names : /\ Visible = names[Here] /\ names[0] = {}
                   /\ \A s \in 1 .. Len(scopes) :
                        names[s] = NamesOf(s) \cup names[scopes[s].parent]
  BY <1>1, VisibleIs
<1> DEFINE Q(k) == \A s \in {AroundOf(path[k]), ScopeOf(path[k])} :
                     name \in names[s] => W(k)
           S == {k \in Nat : k \in 1 .. n => Q(k)}
<1>3. 0 \in S
  OBVIOUS
<1>4. ASSUME NEW j \in Nat, j \in S, NEW k \in 1 .. n, k = j + 1
      PROVE  Q(k)
  <2> DEFINE e == path[k]
             c == path[k].c
             f == First(e)
  <2>1. c \in Constructs /\ f = FirstOf(c) /\ Kind(e) = KindOf(c) /\ f \in ScopesOf(c)
        /\ f \in Nat /\ k \in Nat
    BY <1>0, <1>1, PlacesInside, Typed DEF Constructs, FirstOf
  <2>2. \A s \in ScopesOf(c) :
          /\ s \in 1 .. Len(scopes)
          /\ name \in NamesOf(s) => name = NameIn(c, s)
    BY <1>1, <2>1 DEF LayoutOK, BindingsOK, NamesOf
  <2>3. ASSUME name \in names[scopes[f].parent] PROVE W(k)
    <3>1. scopes[f].parent = IF k = 1 THEN 0 ELSE AroundOf(path[k - 1])
      BY PathParent DEF Program
    <3>2. k # 1
      BY <1>2, <2>3, <3>1
    <3>3. j \in 1 .. n /\ k - 1 = j
      BY <1>0, <1>4, <3>2
    <3>4. W(j)
      BY <1>4, <2>3, <3>1, <3>2, <3>3
    <3>5. QED
      BY <1>4, <3>3, <3>4
  <2>4. ASSUME Shows(e, name) PROVE W(k)
    BY <2>1, <2>4
  <2>5. ASSUME name \in names[f] PROVE W(k)
    <3>1. name \in NamesOf(f) \/ name \in names[scopes[f].parent]
      BY <1>2, <2>1, <2>2, <2>5
    <3>2. ASSUME name \in NamesOf(f) PROVE Shows(e, name)
      <4>1. name = NameIn(c, f)
        BY <2>1, <2>2, <3>2
      <4>2. f # FirstOf(c) + 2
        BY <2>1
      <4>3. QED
        BY <2>1, <4>1, <4>2 DEF NameIn, Shows
    <3>3. QED
      BY <2>3, <2>4, <3>1, <3>2
  <2>6. CASE ~ IsLoop(Kind(e))
    <3>1. ScopeOf(e) = f /\ AroundOf(e) = f
      BY <2>6 DEF ScopeOf, AroundOf, IsLoop
    <3>2. QED
      BY <2>5, <3>1
  <2>7. CASE IsLoop(Kind(e))
    <3>1. /\ f + 1 \in ScopesOf(c) /\ f + 2 \in ScopesOf(c)
          /\ scopes[f + 1].parent = f /\ scopes[f + 2].parent = f + 1
      BY <1>1, <2>1, <2>7 DEF ScopesOf, LayoutOK
    <3>2. ASSUME name \in names[f + 1] PROVE W(k)
      <4>1. name \in NamesOf(f + 1) \/ name \in names[f]
        BY <1>2, <2>2, <3>1, <3>2
      <4>2. ASSUME name \in NamesOf(f + 1) PROVE Shows(e, name)
        <5>1. name = NameIn(c, f + 1) /\ f + 1 # FirstOf(c) + 2
          BY <2>1, <2>2, <3>1, <4>2
        <5>2. QED
          BY <2>1, <2>7, <5>1 DEF NameIn, Shows
      <4>3. QED
        BY <2>4, <2>5, <4>1, <4>2
    <3>3. ASSUME name \in names[f + 2], e.part = "body" PROVE W(k)
      <4>1. name \in NamesOf(f + 2) \/ name \in names[f + 1]
        BY <1>2, <2>2, <3>1, <3>3
      <4>2. ASSUME name \in NamesOf(f + 2) PROVE Shows(e, name)
        <5>1. name = NameIn(c, f + 2)
          BY <2>2, <3>1, <4>2
        <5>2. QED
          BY <2>1, <3>3, <5>1 DEF NameIn, Shows
      <4>3. QED
        BY <2>4, <3>2, <4>1, <4>2
    <3>4. /\ ScopeOf(e) \in {f, f + 1} \/ (ScopeOf(e) = f + 2 /\ e.part = "body")
          /\ AroundOf(e) \in {f, f + 1} \/ (AroundOf(e) = f + 2 /\ e.part = "body")
      BY <2>7 DEF ScopeOf, AroundOf, LoopScope, DeclScope
    <3>5. QED
      BY <2>5, <3>2, <3>3, <3>4
  <2>8. QED
    BY <2>6, <2>7
<1> HIDE DEF Q
<1>5. ASSUME NEW j \in Nat, j \in S
      PROVE  j + 1 \in S
  BY <1>4, <1>5, SMTT(60)
<1> HIDE DEF S
<1>6. S = Nat
  <2>1. S \in SUBSET Nat
    BY DEF S
  <2>2. QED
    BY <1>3, <1>5, <2>1, SetInduction
<1>7. path # <<>>
  BY <1>2 DEF Here
<1>8. n \in 1 .. n
  BY <1>0, <1>1, <1>7, EmptySeq DEF TypeOK
<1>9. Q(n)
  BY <1>0, <1>6, <1>8 DEF S
<1>10. Here = ScopeOf(path[n])
  BY <1>7, HereIs
<1>11. W(n)
  BY <1>2, <1>9, <1>10 DEF Q
<1>12. QED
  BY <1>7, <1>11 DEF VisibleAt

-----------------------------------------------------------------------------
(* What the steps have in common.                                          *)

(* The parts that are about constructs, scopes and variables.              *)
Static(g) == /\ TreeOK(g) /\ LayoutOK(g) /\ BindingsOK(g)
             /\ VariableScopesOK /\ SlotsOK(g)

(* The same constructs as in g, another walk.                              *)
Ghosts(g, walk) == [at |-> g.at, fun |-> g.fun, within |-> g.within,
                    owner |-> g.owner, walk |-> walk]

(* At first there is nothing.                                              *)
LEMMA InitScopes ==
  ASSUME Init
  PROVE  IInv
<1> DEFINE g == [at |-> <<>>, fun |-> <<>>, within |-> <<>>, owner |-> <<>>,
                 walk |-> [i \in 0 .. 0 |-> <<>>]]
<1>1. /\ phase = "parse" /\ events = <<>> /\ pos = 1 /\ path = <<>>
      /\ constructs = <<>> /\ scopes = <<>> /\ variables = <<>> /\ accesses = {}
  BY DEF Init
<1>2. /\ Len(constructs) = 0 /\ Len(scopes) = 0 /\ Len(variables) = 0
      /\ Len(events) = 0 /\ g.walk[0] = <<>>
  BY <1>1
<1>3. TypeOK
  BY <1>1 DEF TypeOK
<1>4. Constructs = {} /\ 1 .. Len(scopes) = {} /\ 1 .. Len(variables) = {}
  BY <1>2 DEF Constructs
<1>5. TreeOK(g) /\ LayoutOK(g) /\ BindingsOK(g) /\ VariableScopesOK /\ SlotsOK(g)
  BY <1>1, <1>4 DEF TreeOK, LayoutOK, BindingsOK, VariableScopesOK, SlotsOK
<1>6. ProgramOK(g)
  <2>1. PathOK(g, <<>>)
    BY DEF PathOK
  <2>2. QED
    BY <1>2, <2>1 DEF ProgramOK
<1>7. PhaseOK(g)
  BY <1>1, <1>2, <1>4 DEF PhaseOK
<1>8. QED
  BY <1>3, <1>5, <1>6, <1>7 DEF IInv, ScopesOK

(* Constructs, scopes and variables that stay are as they were.            *)
LEMMA StaticStays ==
  ASSUME NEW g, NEW walk, Static(g),
         UNCHANGED <<constructs, scopes, variables>>
  PROVE  Static(Ghosts(g, walk))'
<1> DEFINE h == Ghosts(g, walk)
<1>1. h.at = g.at /\ h.fun = g.fun /\ h.within = g.within /\ h.owner = g.owner
  BY DEF Ghosts
<1> HIDE DEF h
<1>2. TreeOK(h)'
  BY <1>1 DEF Static, TreeOK, Constructs, KindOf
<1>3. LayoutOK(h)'
  BY <1>1 DEF Static, LayoutOK, Constructs, KindOf, FirstOf, ScopesOf, AroundOf,
     Kind, LoopScope, ScopeOf, First, DeclScope
<1>4. BindingsOK(h)'
  BY <1>1 DEF Static, BindingsOK, Constructs, KindOf, FirstOf, ScopesOf, NameIn
<1>5. VariableScopesOK'
  BY <1>1 DEF Static, VariableScopesOK, Constructs, KindOf, FirstOf, Converted
<1>6. SlotsOK(h)'
  <2>1. \A c : FirstOf(c)' = FirstOf(c) /\ Converted(c)' = Converted(c)
    BY DEF FirstOf, Converted, KindOf
  <2>2. variables' = variables /\ scopes' = scopes /\ SlotsOK(g)
    BY DEF Static
  <2>3. ASSUME NEW v \in 1 .. Len(variables)
        PROVE  SameSlot(v)' /\ SlotFits(h, v)' /\ OwnSlot(h, v)'
    <3>1. SameSlot(v) /\ SlotFits(g, v) /\ OwnSlot(g, v)
      BY <2>2 DEF SlotsOK
    <3>2. SameSlot(v)'
      BY <2>2, <3>1 DEF SameSlot
    <3>3. SlotFits(h, v)'
      BY <1>1, <2>1, <2>2, <3>1 DEF SlotFits
    <3>4. OwnSlot(h, v)'
      BY <1>1, <2>2, <3>1 DEF OwnSlot
    <3>5. QED
      BY <3>2, <3>3, <3>4
  <2>4. QED
    BY <2>2, <2>3, Zenon DEF SlotsOK
<1>7. QED
  BY <1>2, <1>3, <1>4, <1>5, <1>6 DEF Static, h

(* The program stays.                                                      *)
LEMMA ProgramStays ==
  ASSUME NEW g, ProgramOK(g), UNCHANGED <<events, constructs>>
  PROVE  ProgramOK(g)'
<1>1. \A p : PathOK(g, p)' = PathOK(g, p)
  BY DEF PathOK, Constructs
<1>2. \A p, name : VisibleAt(p, name)' = VisibleAt(p, name)
  BY DEF VisibleAt, Shows, Kind
<1>3. \A p, c : OnPath(p, c)' = OnPath(p, c)
  BY DEF OnPath
<1>4. events' = events
  OBVIOUS
<1>5. QED
  BY <1>1, <1>2, <1>3, <1>4, Zenon DEF ProgramOK

(* Where the binder and the compiler are after the next event.             *)
LEMMA WalkNext ==
  ASSUME NEW g, TypeOK, ProgramOK(g), phase \in {"resolve", "compile"},
         pos \in 1 .. Len(events), path = g.walk[pos - 1],
         g.walk[Len(events)] = <<>>, Walk
  PROVE  /\ UNCHANGED <<events, constructs>>
         /\ pos' \in 1 .. Len(events) /\ path' \in Seq(Element)
         /\ path' = g.walk[pos] /\ path' = g.walk[pos' - 1]
         /\ pos < Len(events) => phase' = phase /\ pos' = pos + 1
         /\ pos = Len(events) =>
              path' = <<>> /\ phase' = IF phase = "resolve" THEN "compile" ELSE "done"
<1>1. Len(events) \in Nat
  BY Typed
<1>2. path' = g.walk[pos]
  BY DEF Walk, ProgramOK, Event
<1>3. PathOK(g, g.walk[pos])
  BY <1>1 DEF ProgramOK
<1>4. path' \in Seq(Element)
  BY <1>2, <1>3 DEF PathOK
<1>5. g.walk[0] = <<>>
  BY DEF ProgramOK
<1>6. CASE pos < Len(events)
  <2>1. pos' = pos + 1 /\ phase' = phase /\ UNCHANGED <<events, constructs>>
    BY <1>6 DEF Walk
  <2>2. pos' - 1 = pos /\ pos' \in 1 .. Len(events) /\ pos # Len(events)
    BY <1>1, <1>6, <2>1
  <2>3. QED
    BY <1>2, <1>4, <2>1, <2>2
<1>7. CASE pos = Len(events)
  <2>1. /\ pos' = 1 /\ UNCHANGED <<events, constructs>>
        /\ phase' = IF phase = "resolve" THEN "compile" ELSE "done"
    BY <1>1, <1>7 DEF Walk
  <2>2. pos' - 1 = 0 /\ pos' \in 1 .. Len(events) /\ ~ (pos < Len(events))
    BY <1>1, <1>7, <2>1
  <2>3. path' = <<>>
    BY <1>2, <1>7
  <2>4. QED
    BY <1>2, <1>4, <1>5, <1>7, <2>1, <2>2, <2>3
<1>8. QED
  BY <1>1, <1>6, <1>7

(* One more event.                                                         *)
LEMMA Extended ==
  ASSUME NEW g, NEW h, NEW ev, NEW p, TypeOK, TreeOK(g), ProgramOK(g),
         path = g.walk[Len(events)], path' = p, p = Walked(path, ev),
         events' = Append(events, ev),
         h.walk = [i \in 0 .. Len(events) + 1 |->
                     IF i <= Len(events) THEN g.walk[i] ELSE p],
         PathOK(h, p)',
         \A c \in Constructs :
           /\ c \in Constructs' /\ KindOf(c)' = KindOf(c) /\ h.at[c] = g.at[c]
           /\ OnPath(p, c) => OnPath(path, c),
         ev.op = "name" => VisibleAt(path, ev.name),
         ev.op = "close" => path # <<>> /\ ev.e = Last(path) /\ ~ OnPath(p, ev.e.c)
  PROVE  ProgramOK(h)'
<1> DEFINE m == Len(events)
<1>0. /\ m \in Nat /\ Len(events') = m + 1 /\ events'[m + 1] = ev
      /\ \A i \in 1 .. m : events'[i] = events[i]
  BY Typed, AppendProperties DEF TypeOK
<1>1. \A i \in 0 .. m : h.walk[i] = g.walk[i]
  BY <1>0
<1>2. h.walk[m + 1] = p
  BY <1>0
<1>3. \A i \in 0 .. m : PathOK(g, g.walk[i])
  BY DEF ProgramOK
<1>4. ASSUME NEW i \in 0 .. m
      PROVE  PathOK(h, g.walk[i])'
  <2> DEFINE q == g.walk[i]
  <2>1. PathOK(g, q)
    BY <1>3
  <2> HIDE DEF q
  <2>2. \A k \in 1 .. Len(q) :
          /\ q[k].c \in Constructs' /\ (q[k].c = 1 <=> k = 1)
          /\ k > 1 => h.at[q[k].c] = q[k - 1]
    <3>1. TAKE k \in 1 .. Len(q)
    <3>2. /\ q[k].c \in Constructs /\ (q[k].c = 1 <=> k = 1)
          /\ k > 1 => g.at[q[k].c] = q[k - 1]
      BY <2>1 DEF PathOK
    <3> DEFINE d == q[k].c
    <3>3. d \in Constructs
      BY <3>2
    <3> HIDE DEF d
    <3>4. d \in Constructs' /\ h.at[d] = g.at[d]
      BY <3>3
    <3>5. QED
      BY <3>2, <3>4 DEF d
  <2>3. PathOK(h, q)'
    BY <2>1, <2>2 DEF PathOK, q
  <2>4. QED
    BY <2>3 DEF q
<1>5. ASSUME NEW i \in 0 .. m, NEW name, VisibleAt(g.walk[i], name)
      PROVE  VisibleAt(g.walk[i], name)'
  <2>1. PathOK(g, g.walk[i])
    BY <1>3
  <2>2. PICK k \in 1 .. Len(g.walk[i]) : Shows(g.walk[i][k], name)
    BY <1>5 DEF VisibleAt
  <2>3. Kind(g.walk[i][k])' = Kind(g.walk[i][k])
    BY <2>1 DEF PathOK, Kind, KindOf
  <2>4. Shows(g.walk[i][k], name)'
    BY <2>2, <2>3 DEF Shows
  <2>5. QED
    BY <2>4 DEF VisibleAt
<1>6. h.walk[0] = <<>>
  BY <1>0, <1>1 DEF ProgramOK
<1>7. \A i \in 0 .. m + 1 : PathOK(h, h.walk[i])'
  <2>1. TAKE i \in 0 .. m + 1
  <2>2. CASE i = m + 1
    BY <1>2, <2>2
  <2>3. CASE i # m + 1
    BY <1>0, <1>1, <1>4, <2>3
  <2>4. QED
    BY <2>2, <2>3
<1>8. ASSUME NEW i \in 1 .. m + 1
      PROVE  /\ h.walk[i] = Walked(h.walk[i - 1], events'[i])
             /\ (events[i].op = "name" => VisibleAt(h.walk[i - 1], events[i].name))'
             /\ events'[i].op = "close" =>
                  /\ h.walk[i - 1] # <<>> /\ events'[i].e = Last(h.walk[i - 1])
                  /\ \A j \in i .. m + 1 : ~ OnPath(h.walk[j], events'[i].e.c)
  <2>1. CASE i = m + 1
    <3>1. /\ events'[i] = ev /\ h.walk[i] = p /\ h.walk[i - 1] = path
          /\ m \in 0 .. m /\ path = g.walk[m]
      BY <1>0, <1>1, <1>2, <2>1
    <3>2. (events[i].op = "name" => VisibleAt(h.walk[i - 1], events[i].name))'
      <4>1. SUFFICES ASSUME ev.op = "name"
                     PROVE  VisibleAt(h.walk[i - 1], events[i].name)'
        BY <3>1
      <4>2. VisibleAt(h.walk[i - 1], ev.name)'
        BY <1>5, <3>1, <4>1
      <4>3. PICK k \in 1 .. Len(h.walk[i - 1]) : Shows(h.walk[i - 1][k], ev.name)'
        BY <4>2 DEF VisibleAt
      <4>4. Shows(h.walk[i - 1][k], events[i].name)'
        BY <3>1, <4>3 DEF Shows
      <4>5. QED
        BY <4>4 DEF VisibleAt
    <3>3. ASSUME ev.op = "close", NEW j \in i .. m + 1
          PROVE  ~ OnPath(h.walk[j], ev.e.c)
      <4>1. j = i
        BY <1>0, <2>1
      <4>2. QED
        BY <3>1, <3>3, <4>1
    <3>4. QED
      BY <3>1, <3>2, <3>3
  <2>2. CASE i # m + 1
    <3>1. /\ i \in 1 .. m /\ i \in 0 .. m /\ i - 1 \in 0 .. m
          /\ events'[i] = events[i] /\ h.walk[i] = g.walk[i] /\ h.walk[i - 1] = g.walk[i - 1]
      BY <1>0, <1>1, <2>2
    <3>2. /\ g.walk[i] = Walked(g.walk[i - 1], events[i])
          /\ events[i].op = "name" => VisibleAt(g.walk[i - 1], events[i].name)
          /\ events[i].op = "close" =>
               /\ g.walk[i - 1] # <<>> /\ events[i].e = Last(g.walk[i - 1])
               /\ \A j \in i .. m : ~ OnPath(g.walk[j], events[i].e.c)
      BY <3>1 DEF ProgramOK
    <3>3. (events[i].op = "name" => VisibleAt(h.walk[i - 1], events[i].name))'
      <4>1. SUFFICES ASSUME events[i].op = "name"
                     PROVE  VisibleAt(h.walk[i - 1], events[i].name)'
        BY <3>1
      <4>2. VisibleAt(h.walk[i - 1], events[i].name) /\ h.walk[i - 1] = g.walk[i - 1]
        BY <3>1, <3>2, <4>1
      <4>3. PICK k \in 1 .. Len(h.walk[i - 1]) : Shows(h.walk[i - 1][k], events[i].name)
        BY <4>2 DEF VisibleAt
      <4>4. PathOK(g, h.walk[i - 1])
        BY <1>3, <3>1
      <4>5. Kind(h.walk[i - 1][k])' = Kind(h.walk[i - 1][k])
        BY <4>4 DEF PathOK, Kind, KindOf
      <4>6. Shows(h.walk[i - 1][k], events[i].name)'
        BY <3>1, <4>3, <4>5 DEF Shows
      <4>7. QED
        BY <4>6 DEF VisibleAt
    <3>4. ASSUME events[i].op = "close", NEW j \in i .. m + 1
          PROVE  ~ OnPath(h.walk[j], events[i].e.c)
      <4> DEFINE c == events[i].e.c
      <4>2. CASE j = m + 1
        <5>1. m \in i .. m
          BY <3>1, <1>0
        <5>2. ~ OnPath(path, c)
          BY <3>2, <3>4, <5>1
        <5>3. c \in Constructs
          <6>1. PathOK(g, g.walk[i - 1])
            BY <1>3, <3>1
          <6>2. Len(g.walk[i - 1]) \in 1 .. Len(g.walk[i - 1])
            BY <3>2, <3>4, <6>1, EmptySeq DEF PathOK
          <6>3. QED
            BY <3>2, <3>4, <6>1, <6>2 DEF PathOK, Last
        <5>4. QED
          BY <1>2, <4>2, <5>2, <5>3
      <4>3. CASE j # m + 1
        <5>1. j \in i .. m /\ h.walk[j] = g.walk[j]
          BY <1>0, <1>1, <3>1, <4>3, SMTT(60)
        <5>2. QED
          BY <3>2, <3>4, <5>1
      <4>4. QED
        BY <4>2, <4>3
    <3>5. QED
      BY <3>1, <3>2, <3>3, <3>4
  <2>3. QED
    BY <2>1, <2>2
<1>9. QED
  BY <1>0, <1>6, <1>7, <1>8 DEF ProgramOK

-----------------------------------------------------------------------------
(* Parsing.                                                                *)

Events == [op : {"open", "part", "close"}, e : Element]
            \cup [op : {"name"}, name : Nat \X {"head", "body"}]

(* What holds while the program is parsed.                                 *)
LEMMA Parsing ==
  ASSUME NEW g, TypeOK, ScopesOK(g), phase = "parse"
  PROVE  /\ pos = 1 /\ path = g.walk[Len(events)] /\ accesses = {}
         /\ \A c \in Constructs : ~ Converted(c)
         /\ \A v \in 1 .. Len(variables) : variables[v].slot = None
         /\ Program(g) /\ Static(g) /\ ProgramOK(g) /\ TreeOK(g)
<1>1. PhaseOK(g) /\ Static(g) /\ ProgramOK(g)
  BY DEF ScopesOK, Static
<1>2. /\ pos = 1 /\ path = g.walk[Len(events)] /\ accesses = {}
      /\ \A c \in Constructs : ~ Converted(c)
      /\ \A v \in 1 .. Len(variables) : variables[v].slot = None
  BY <1>1 DEF PhaseOK
<1>3. PathOK(g, path)
  <2>1. Len(events) \in 0 .. Len(events)
    BY Typed
  <2>2. QED
    BY <1>1, <1>2, <2>1 DEF ProgramOK
<1>4. QED
  BY <1>1, <1>2, <1>3 DEF Static, Program

(* An event that opens nothing.                                            *)
LEMMA ParseStep ==
  ASSUME NEW g, NEW ev, NEW p, TypeOK, ScopesOK(g), phase = "parse",
         ev \in Events, path' = p, p = Walked(path, ev), PathOK(g, p),
         events' = Append(events, ev),
         UNCHANGED <<pos, constructs, scopes, variables, accesses>>,
         phase' = "parse" \/ (phase' = "resolve" /\ p = <<>>),
         \A c \in Constructs : OnPath(p, c) => OnPath(path, c),
         ev.op = "name" => VisibleAt(path, ev.name),
         ev.op = "close" => path # <<>> /\ ev.e = Last(path) /\ ~ OnPath(p, ev.e.c)
  PROVE  TypeOK' /\ \E h : ScopesOK(h)'
<1> DEFINE m == Len(events)
           walk == [i \in 0 .. m + 1 |-> IF i <= m THEN g.walk[i] ELSE p]
<1>1. /\ pos = 1 /\ path = g.walk[m] /\ accesses = {}
      /\ \A c \in Constructs : ~ Converted(c)
      /\ \A v \in 1 .. Len(variables) : variables[v].slot = None
      /\ Static(g) /\ ProgramOK(g) /\ TreeOK(g)
  BY Parsing
<1>2. m \in Nat /\ Len(events') = m + 1
  BY Typed, AppendProperties DEF TypeOK
<1>3. TypeOK'
  <2>1. events \in Seq(Events)
    BY DEF TypeOK, Events
  <2>2. Append(events, ev) \in Seq(Events)
    BY <2>1, AppendProperties
  <2>3. p \in Seq(Element)
    BY DEF PathOK
  <2>4. QED
    BY <2>2, <2>3 DEF TypeOK, Events
<1>4. PICK w : w = walk
  OBVIOUS
<1> DEFINE h == Ghosts(g, w)
<1>5. h.walk = w /\ h.at = g.at /\ w[0] = g.walk[0] /\ w[m + 1] = p
  <2>1. h.walk = w /\ h.at = g.at
    BY DEF Ghosts
  <2>2. w[0] = g.walk[0] /\ w[m + 1] = p
    BY <1>2, <1>4
  <2>3. QED
    BY <2>1, <2>2
<1>6. Static(h)'
  BY <1>1, StaticStays
<1> HIDE DEF h
<1>7. ProgramOK(h)'
  <2>1. PathOK(h, p)'
    BY <1>5 DEF PathOK, Constructs
  <2>2. \A c \in Constructs :
           /\ c \in Constructs' /\ KindOf(c)' = KindOf(c) /\ h.at[c] = g.at[c]
           /\ OnPath(p, c) => OnPath(path, c)
    BY <1>5 DEF Constructs, KindOf
  <2>3. h.walk = [i \in 0 .. Len(events) + 1 |->
                    IF i <= Len(events) THEN g.walk[i] ELSE p]
    BY <1>4, <1>5
  <2>4. QED
    BY <1>1, <2>1, <2>2, <2>3, Extended
<1>8. PhaseOK(h)'
  <2>1. \A c \in Constructs' : ~ Converted(c)'
    BY <1>1 DEF Converted, KindOf, FirstOf, Constructs
  <2>2. g.walk[0] = <<>>
    BY <1>1 DEF ProgramOK
  <2>3. pos' = 1 /\ accesses' = {} /\ path' = p
    BY <1>1
  <2>4. \A v \in 1 .. Len(variables') : variables'[v].slot = None
    BY <1>1
  <2>5. CASE phase' = "parse"
    <3>1. path' = h.walk[Len(events')]
      BY <1>2, <1>5, <2>3
    <3>2. QED
      BY <2>1, <2>3, <2>4, <2>5, <3>1 DEF PhaseOK
  <2>6. CASE phase' = "resolve" /\ p = <<>>
    <3>1. /\ pos' \in 1 .. Len(events') /\ path' = h.walk[pos' - 1]
          /\ h.walk[Len(events')] = <<>>
      BY <1>2, <1>5, <2>2, <2>3, <2>6
    <3>2. CapturedUpTo(h, pos - 1)'
      BY <2>3 DEF CapturedUpTo
    <3>3. QED
      BY <2>1, <2>3, <2>4, <2>6, <3>1, <3>2 DEF PhaseOK
  <2>7. QED
    BY <2>5, <2>6
<1>9. ScopesOK(h)'
  BY <1>6, <1>7, <1>8 DEF Static, ScopesOK
<1>10. QED
  BY <1>3, <1>9

(* Name: only what is visible is named.                                    *)
LEMMA NameStep ==
  ASSUME NEW g, TypeOK, ScopesOK(g), NEW name \in Visible, Name(name)
  PROVE  TypeOK' /\ \E h : ScopesOK(h)'
<1> DEFINE ev == [op |-> "name", name |-> name]
<1>1. /\ phase = "parse" /\ events' = Append(events, ev)
      /\ UNCHANGED <<phase, pos, path, constructs, scopes, variables, accesses>>
  BY DEF Name
<1>2. Program(g)
  BY <1>1, Parsing
<1>3. VisibleAt(path, name) /\ path # <<>>
  BY <1>2, VisibleNames
<1>4. name \in Nat \X {"head", "body"}
  <2>1. PICK k \in 1 .. Len(path) : Shows(path[k], name)
    BY <1>3 DEF VisibleAt
  <2>2. path[k].c \in Nat
    BY Typed
  <2>3. QED
    BY <2>1, <2>2 DEF Shows
<1>5. ev \in Events /\ ev.op = "name" /\ ev.name = name
  BY <1>4 DEF Events
<1>6. PICK p : p = path
  OBVIOUS
<1>7. path' = p /\ p = Walked(path, ev) /\ PathOK(g, p)
  BY <1>1, <1>2, <1>5, <1>6 DEF Walked, Program
<1>8. \A c \in Constructs : OnPath(p, c) => OnPath(path, c)
  BY <1>6
<1> HIDE DEF ev
<1>9. QED
  BY <1>1, <1>3, <1>5, <1>7, <1>8, ParseStep

(* Continue: the innermost construct moves on.                             *)
LEMMA ContinueStep ==
  ASSUME NEW g, TypeOK, ScopesOK(g), Continue
  PROVE  TypeOK' /\ \E h : ScopesOK(h)'
<1> DEFINE n == Len(path)
<1>1. /\ phase = "parse" /\ path # <<>>
      /\ UNCHANGED <<phase, pos, constructs, scopes, variables, accesses>>
  BY DEF Continue
<1>2. PICK part \in NextPart(Last(path)) :
        /\ path' = Moved(path, part)
        /\ events' = Append(events, [op |-> "part", e |-> Last(path')])
  BY DEF Continue
<1>3. Program(g) /\ PathOK(g, path) /\ path \in Seq(Element)
  BY <1>1, Parsing DEF Program, TypeOK
<1>4. n \in Nat /\ n \in 1 .. n /\ path[n] \in Element
  BY <1>1, <1>3, EmptySeq
<1>5. part \in {"head", "update", "body"}
  BY DEF NextPart, Parts
<1>6. PICK p : p = Moved(path, part)
  OBVIOUS
<1>7. /\ p \in Seq(Element) /\ Len(p) = n
      /\ p[n] = [path[n] EXCEPT !.part = part]
      /\ \A k \in 1 .. n : p[k].c = path[k].c /\ (k # n => p[k] = path[k])
  <2>1. [path[n] EXCEPT !.part = part] = [c |-> path[n].c, part |-> part]
    BY <1>4 DEF Element
  <2>2. [path[n] EXCEPT !.part = part] \in Element
    BY <1>4, <1>5, <2>1 DEF Element
  <2>3. p = [path EXCEPT ![n] = [path[n] EXCEPT !.part = part]]
    BY <1>6 DEF Moved
  <2>4. p \in Seq(Element) /\ Len(p) = n
    BY <1>3, <1>4, <2>2, <2>3, ExceptSeq
  <2>5. \A k \in 1 .. n : p[k] = IF k = n THEN [path[n] EXCEPT !.part = part] ELSE path[k]
    BY <1>3, <1>4, <2>3
  <2>6. QED
    BY <1>4, <2>1, <2>4, <2>5
<1>8. PathOK(g, p)
  <2>1. ASSUME NEW k \in 1 .. n
        PROVE  /\ p[k].c \in Constructs /\ (p[k].c = 1 <=> k = 1)
               /\ k > 1 => g.at[p[k].c] = p[k - 1]
    <3>1. k > 1 => k - 1 \in 1 .. n /\ k - 1 # n
      BY <1>4
    <3>2. QED
      BY <1>3, <1>7, <3>1 DEF PathOK
  <2>2. QED
    BY <1>7, <2>1 DEF PathOK
<1>9. \A c \in Constructs : OnPath(p, c) => OnPath(path, c)
  BY <1>7 DEF OnPath
<1> DEFINE ev == [op |-> "part", e |-> Last(p)]
<1>10. Last(p) = p[n] /\ p[n] \in Element /\ Last(p).part = part
  BY <1>4, <1>7 DEF Last, Element
<1>11. ev \in Events /\ ev.op = "part" /\ ev.e = Last(p)
  BY <1>10 DEF Events
<1>12. path' = p /\ events' = Append(events, ev) /\ p = Walked(path, ev)
  BY <1>2, <1>6, <1>10, <1>11 DEF Walked
<1> HIDE DEF ev
<1>13. QED
  BY <1>1, <1>8, <1>9, <1>11, <1>12, ParseStep

(* Close: the innermost construct ends, the program with the outermost.    *)
LEMMA CloseStep ==
  ASSUME NEW g, TypeOK, ScopesOK(g), Close
  PROVE  TypeOK' /\ \E h : ScopesOK(h)'
<1> DEFINE n == Len(path)
           ev == [op |-> "close", e |-> Last(path)]
<1>1. /\ phase = "parse" /\ path # <<>> /\ events' = Append(events, ev)
      /\ path' = Front(path)
      /\ phase' = IF path' = <<>> THEN "resolve" ELSE phase
      /\ UNCHANGED <<pos, constructs, scopes, variables, accesses>>
  BY DEF Close
<1>2. Program(g) /\ PathOK(g, path) /\ TreeOK(g) /\ path \in Seq(Element)
  BY <1>1, Parsing DEF Program, TypeOK
<1>3. n \in Nat /\ n \in 1 .. n /\ path[n] \in Element
  BY <1>1, <1>2, EmptySeq
<1>4. PICK p : p = Front(path)
  OBVIOUS
<1>5. /\ p \in Seq(Element) /\ Len(p) = n - 1
      /\ \A k \in 1 .. n - 1 : p[k] = path[k]
  <2>1. p = SubSeq(path, 1, n - 1) /\ \A i \in 1 .. n - 1 : path[i] \in Element
    BY <1>2, <1>3, <1>4 DEF Front
  <2>2. /\ SubSeq(path, 1, n - 1) \in Seq(Element)
        /\ Len(SubSeq(path, 1, n - 1)) = IF 1 <= n - 1 THEN n - 1 - 1 + 1 ELSE 0
        /\ \A i \in 1 .. n - 1 - 1 + 1 : SubSeq(path, 1, n - 1)[i] = path[1 + i - 1]
    BY <1>3, <2>1, SubSeqProperties
  <2>3. Len(p) = n - 1
    <3> DEFINE x == Len(SubSeq(path, 1, n - 1))
    <3>1. Len(p) = x /\ x = IF 1 <= n - 1 THEN n - 1 - 1 + 1 ELSE 0
      BY <2>1, <2>2
    <3> HIDE DEF x, n
    <3>2. x = n - 1
      BY <1>3, <3>1
    <3>3. QED
      BY <3>1, <3>2
  <2>4. \A k \in 1 .. n - 1 : k \in 1 .. n - 1 - 1 + 1 /\ 1 + k - 1 = k
    BY <1>3
  <2>5. QED
    BY <2>1, <2>2, <2>3, <2>4
<1>6. PathOK(g, p)
  <2>1. ASSUME NEW k \in 1 .. n - 1
        PROVE  /\ p[k].c \in Constructs /\ (p[k].c = 1 <=> k = 1)
               /\ k > 1 => g.at[p[k].c] = p[k - 1]
    <3>1. k \in 1 .. n /\ (k > 1 => k - 1 \in 1 .. n - 1)
      BY <1>3
    <3>2. QED
      BY <1>2, <1>5, <3>1 DEF PathOK
  <2>2. QED
    BY <1>5, <2>1 DEF PathOK
<1>7. \A c \in Constructs : OnPath(p, c) => OnPath(path, c)
  <2>1. \A k \in 1 .. n - 1 : k \in 1 .. n
    BY <1>3
  <2>2. QED
    BY <1>5, <2>1 DEF OnPath
<1>8. Last(path) = path[n] /\ ev \in Events /\ ev.op = "close" /\ ev.e = Last(path)
  BY <1>3 DEF Events, Last
<1>9. ~ OnPath(p, ev.e.c)
  <2>1. SUFFICES ASSUME NEW k \in 1 .. n - 1, path[k].c = path[n].c PROVE FALSE
    BY <1>5, <1>8 DEF OnPath
  <2>2. k \in 1 .. n /\ k # n
    BY <1>3
  <2>3. QED
    BY <1>2, <1>3, <2>1, <2>2, PathApart
<1>10. path' = p /\ p = Walked(path, ev)
  BY <1>1, <1>4, <1>8 DEF Walked
<1>11. phase' = "parse" \/ (phase' = "resolve" /\ p = <<>>)
  BY <1>1, <1>10
<1> HIDE DEF ev
<1>12. QED
  BY <1>1, <1>6, <1>7, <1>8, <1>9, <1>10, <1>11, ParseStep

-----------------------------------------------------------------------------
(* Opening a construct.                                                    *)

(* The next state: the construct c with the scope s and the variable v,    *)
(* and two more scopes and another variable, if it is a loop.              *)
NewParts(kind, c, s, v) ==
  /\ c = Len(constructs) + 1 /\ s = Len(scopes) + 1 /\ v = Len(variables) + 1
  /\ Len(constructs') = c /\ constructs'[c] = [kind |-> kind, scope |-> s]
  /\ \A d \in 1 .. c - 1 : constructs'[d] = constructs[d]
  /\ Len(scopes') = IF IsLoop(kind) THEN s + 2 ELSE s
  /\ \A t \in 1 .. s - 1 : scopes'[t] = scopes[t]
  /\ scopes'[s] = NewScope(Around, kind = "function", {v})
  /\ IsLoop(kind) => /\ scopes'[s + 1] = NewScope(s, FALSE, {})
                     /\ scopes'[s + 2] = NewScope(s + 1, FALSE, {v + 1})
  /\ Len(variables') = IF IsLoop(kind) THEN v + 1 ELSE v
  /\ \A w \in 1 .. v - 1 : variables'[w] = variables[w]
  /\ variables'[v] = NewVariable(<<c, IF IsLoop(kind) THEN "head" ELSE "body">>,
                                 IF kind = "const" THEN "const" ELSE "let")
  /\ IsLoop(kind) => variables'[v + 1] = NewVariable(<<c, "body">>, "let")

ScopeRecord == [parent : Nat, isVariableScope : BOOLEAN, slots : Nat,
                bindings : SUBSET Nat]
VariableRecord == [name : Nat \X {"head", "body"}, kind : {"let", "const"},
                   slot : Nat \cup {None}]

(* Three more elements.                                                    *)
LEMMA ThreeMore ==
  ASSUME NEW S, NEW q \in Seq(S), NEW x \in S, NEW y \in S, NEW z \in S
  PROVE  LET r == q \o <<x, y, z>>
         IN  /\ r \in Seq(S) /\ Len(r) = Len(q) + 3
             /\ \A i \in 1 .. Len(q) : r[i] = q[i]
             /\ r[Len(q) + 1] = x /\ r[Len(q) + 2] = y /\ r[Len(q) + 3] = z
<1> DEFINE t == <<x, y, z>>
           r == q \o t
<1>1. t \in Seq(S) /\ Len(t) = 3 /\ t[1] = x /\ t[2] = y /\ t[3] = z
  OBVIOUS
<1> HIDE DEF t
<1>2. /\ r \in Seq(S) /\ Len(r) = Len(q) + Len(t)
      /\ \A i \in 1 .. Len(q) + Len(t) : r[i] = IF i <= Len(q) THEN q[i] ELSE t[i - Len(q)]
  BY <1>1, ConcatProperties
<1>3. Len(q) \in Nat
  BY LenProperties
<1> HIDE DEF r
<1>4. QED
  BY <1>1, <1>2, <1>3 DEF r, t

(* A sequence to which two elements are added.                             *)
LEMMA TwoMore ==
  ASSUME NEW S, NEW q \in Seq(S), NEW x \in S, NEW y \in S
  PROVE  LET r == q \o <<x, y>>
         IN  /\ r \in Seq(S) /\ Len(r) = Len(q) + 2
             /\ \A i \in 1 .. Len(q) : r[i] = q[i]
             /\ r[Len(q) + 1] = x /\ r[Len(q) + 2] = y
<1> DEFINE t == <<x, y>>
           r == q \o t
<1>1. t \in Seq(S) /\ Len(t) = 2 /\ t[1] = x /\ t[2] = y
  OBVIOUS
<1> HIDE DEF t
<1>2. /\ r \in Seq(S) /\ Len(r) = Len(q) + Len(t)
      /\ \A i \in 1 .. Len(q) + Len(t) : r[i] = IF i <= Len(q) THEN q[i] ELSE t[i - Len(q)]
  BY <1>1, ConcatProperties
<1>3. Len(q) \in Nat
  BY LenProperties
<1> HIDE DEF r
<1>4. QED
  BY <1>1, <1>2, <1>3 DEF r, t

(* The place of the innermost construct, and the scope of the parser.      *)
LEMMA Place ==
  ASSUME NEW g, TypeOK, Program(g)
  PROVE  /\ path = <<>> => Around = 0
         /\ path # <<>> =>
              /\ Len(path) \in 1 .. Len(path) /\ Last(path) = path[Len(path)]
              /\ Last(path) \in Element /\ Last(path).c \in Constructs
              /\ Around = AroundOf(Last(path)) /\ Around \in 1 .. Len(scopes)
         /\ Around \in Nat
<1>1. CASE path = <<>>
  BY <1>1 DEF Around
<1>2. CASE path # <<>>
  <2>1. path \in Seq(Element)
    BY DEF TypeOK
  <2>2. Len(path) \in 1 .. Len(path) /\ Last(path) = path[Len(path)]
    BY <1>2, <2>1, EmptySeq DEF Last
  <2>3. Last(path) \in Element /\ Last(path).c \in Constructs
    BY <2>1, <2>2 DEF Program, PathOK
  <2>4. Around = AroundOf(Last(path))
    BY <1>2, <2>2, HereIs
  <2>5. Around \in ScopesOf(Last(path).c)
    BY <2>4, PlacesInside
  <2>6. Around \in 1 .. Len(scopes)
    BY <2>3, <2>5 DEF Program, LayoutOK
  <2>7. QED
    BY <1>2, <2>2, <2>3, <2>4, <2>6
<1>3. QED
  BY <1>1, <1>2

(* Open, in parts.                                                         *)
LEMMA OpenParts ==
  ASSUME NEW g, TypeOK, ScopesOK(g), NEW kind \in Kinds, Open(kind)
  PROVE  /\ TypeOK'
         /\ NewParts(kind, Len(constructs) + 1, Len(scopes) + 1, Len(variables) + 1)
<1> DEFINE c == Len(constructs) + 1
           s == Len(scopes) + 1
           v == Len(variables) + 1
           e == [c |-> c, part |-> Parts(kind)[1]]
<1>1. /\ phase = "parse" /\ constructs' = Append(constructs, [kind |-> kind, scope |-> s])
      /\ path' = Append(path, e) /\ events' = Append(events, [op |-> "open", e |-> e])
      /\ UNCHANGED <<phase, pos, accesses>>
  BY DEF Open
<1>2. /\ constructs \in Seq([kind : {"function", "block", "let", "const", "of"}, scope : Nat])
      /\ scopes \in Seq(ScopeRecord) /\ variables \in Seq(VariableRecord)
      /\ path \in Seq(Element) /\ events \in Seq(Events)
  BY DEF TypeOK, ScopeRecord, VariableRecord, Events
<1>3. c \in Nat /\ s \in Nat /\ v \in Nat
  BY Typed
<1>4. kind \in {"function", "block", "let", "const", "of"}
  BY LexicalAssumption
<1>5. e \in Element
  <2>1. Parts(kind)[1] \in {"head", "update", "body"}
    BY <1>4 DEF Parts
  <2>2. QED
    BY <1>3, <2>1 DEF Element
<1>6. Around \in Nat
  BY <1>1, Parsing, Place
<1> HIDE DEF e
<1>7. /\ constructs' \in Seq([kind : {"function", "block", "let", "const", "of"}, scope : Nat])
      /\ Len(constructs') = c /\ constructs'[c] = [kind |-> kind, scope |-> s]
      /\ \A d \in 1 .. c - 1 : constructs'[d] = constructs[d]
  <2> DEFINE x == [kind |-> kind, scope |-> s]
  <2>1. x \in [kind : {"function", "block", "let", "const", "of"}, scope : Nat]
    BY <1>3, <1>4
  <2> HIDE DEF x
  <2>2. constructs' = Append(constructs, x)
    BY <1>1 DEF x
  <2>3. /\ constructs' \in Seq([kind : {"function", "block", "let", "const", "of"}, scope : Nat])
        /\ Len(constructs') = c /\ constructs'[c] = x
        /\ \A d \in 1 .. Len(constructs) : constructs'[d] = constructs[d]
    BY <1>2, <2>1, <2>2, AppendProperties
  <2>4. c - 1 = Len(constructs)
    BY Typed
  <2>5. QED
    BY <2>3, <2>4 DEF x
<1>8. path' \in Seq(Element)
  BY <1>1, <1>2, <1>5, AppendProperties
<1>9. events' \in Seq(Events)
  <2>1. [op |-> "open", e |-> e] \in Events
    BY <1>5 DEF Events
  <2>2. QED
    BY <1>1, <1>2, <2>1, AppendProperties
<1>10. /\ NewScope(Around, kind = "function", {v}) \in ScopeRecord
       /\ NewScope(Around, FALSE, {v}) \in ScopeRecord
       /\ NewScope(s, FALSE, {}) \in ScopeRecord
       /\ NewScope(s + 1, FALSE, {v + 1}) \in ScopeRecord
       /\ NewVariable(<<c, "head">>, IF kind = "const" THEN "const" ELSE "let") \in VariableRecord
       /\ NewVariable(<<c, "body">>, "let") \in VariableRecord
  <2>1. {v} \in SUBSET Nat /\ {v + 1} \in SUBSET Nat /\ s + 1 \in Nat
    BY <1>3
  <2>2. QED
    BY <1>3, <1>6, <2>1 DEF NewScope, NewVariable, ScopeRecord, VariableRecord
<1>11. CASE IsLoop(kind)
  <2> DEFINE x == NewScope(Around, FALSE, {v})
             y == NewScope(s, FALSE, {})
             z == NewScope(s + 1, FALSE, {v + 1})
             p == NewVariable(<<c, "head">>, IF kind = "const" THEN "const" ELSE "let")
             q == NewVariable(<<c, "body">>, "let")
  <2>1. scopes' = scopes \o <<x, y, z>> /\ variables' = variables \o <<p, q>>
    BY <1>11 DEF Open
  <2>2. (kind = "function") = FALSE
    BY <1>11 DEF IsLoop
  <2>3. x = NewScope(Around, kind = "function", {v})
    BY <2>2
  <2>4. p = NewVariable(<<c, IF IsLoop(kind) THEN "head" ELSE "body">>,
                        IF kind = "const" THEN "const" ELSE "let")
    BY <1>11
  <2>5. /\ x \in ScopeRecord /\ y \in ScopeRecord /\ z \in ScopeRecord
        /\ p \in VariableRecord /\ q \in VariableRecord
    BY <1>10
  <2> HIDE DEF x, y, z, p, q
  <2>6. /\ scopes' \in Seq(ScopeRecord) /\ Len(scopes') = Len(scopes) + 3
        /\ \A i \in 1 .. Len(scopes) : scopes'[i] = scopes[i]
        /\ scopes'[Len(scopes) + 1] = x /\ scopes'[Len(scopes) + 2] = y
        /\ scopes'[Len(scopes) + 3] = z
    BY <1>2, <2>1, <2>5, ThreeMore
  <2>7. /\ variables' \in Seq(VariableRecord) /\ Len(variables') = Len(variables) + 2
        /\ \A i \in 1 .. Len(variables) : variables'[i] = variables[i]
        /\ variables'[Len(variables) + 1] = p /\ variables'[Len(variables) + 2] = q
    BY <1>2, <2>1, <2>5, TwoMore
  <2>8. /\ s - 1 = Len(scopes) /\ s + 1 = Len(scopes) + 2 /\ s + 2 = Len(scopes) + 3
        /\ v - 1 = Len(variables) /\ v + 1 = Len(variables) + 2
    BY Typed
  <2>9. TypeOK'
    BY <1>1, <1>7, <1>8, <1>9, <2>6, <2>7 DEF TypeOK, ScopeRecord, VariableRecord, Events
  <2>10. NewParts(kind, c, s, v)
    <3>1. /\ Len(scopes') = s + 2 /\ \A t \in 1 .. s - 1 : scopes'[t] = scopes[t]
          /\ scopes'[s] = x /\ scopes'[s + 1] = y /\ scopes'[s + 2] = z
          /\ Len(variables') = v + 1 /\ \A w \in 1 .. v - 1 : variables'[w] = variables[w]
          /\ variables'[v] = p /\ variables'[v + 1] = q
      BY <2>6, <2>7, <2>8
    <3>2. QED
      BY <1>7, <1>11, <2>3, <2>4, <3>1 DEF NewParts, y, z, q
  <2>11. QED
    BY <2>9, <2>10
<1>12. CASE ~ IsLoop(kind)
  <2> DEFINE x == NewScope(Around, kind = "function", {v})
             p == NewVariable(<<c, "body">>, "let")
  <2>1. scopes' = Append(scopes, x) /\ variables' = Append(variables, p)
    BY <1>12 DEF Open
  <2>2. p = NewVariable(<<c, IF IsLoop(kind) THEN "head" ELSE "body">>,
                        IF kind = "const" THEN "const" ELSE "let")
    BY <1>12 DEF IsLoop
  <2>3. x \in ScopeRecord /\ p \in VariableRecord
    BY <1>10
  <2> HIDE DEF x, p
  <2>4. /\ scopes' \in Seq(ScopeRecord) /\ Len(scopes') = s
        /\ \A i \in 1 .. Len(scopes) : scopes'[i] = scopes[i]
        /\ scopes'[s] = x
    BY <1>2, <2>1, <2>3, AppendProperties
  <2>5. /\ variables' \in Seq(VariableRecord) /\ Len(variables') = v
        /\ \A i \in 1 .. Len(variables) : variables'[i] = variables[i]
        /\ variables'[v] = p
    BY <1>2, <2>1, <2>3, AppendProperties
  <2>6. s - 1 = Len(scopes) /\ v - 1 = Len(variables)
    BY Typed
  <2>7. TypeOK'
    BY <1>1, <1>7, <1>8, <1>9, <2>4, <2>5 DEF TypeOK, ScopeRecord, VariableRecord, Events
  <2>8. NewParts(kind, c, s, v)
    <3>1. /\ Len(scopes') = s /\ \A t \in 1 .. s - 1 : scopes'[t] = scopes[t]
          /\ Len(variables') = v /\ \A w \in 1 .. v - 1 : variables'[w] = variables[w]
      BY <2>4, <2>5, <2>6
    <3>2. QED
      BY <1>7, <1>12, <2>2, <2>4, <2>5, <3>1 DEF NewParts, x
  <2>9. QED
    BY <2>7, <2>8
<1>13. QED
  BY <1>11, <1>12

(* What is known of the new construct and of the older ones.               *)
NewPlaces(kind, c, s, v) ==
  /\ c \in Nat /\ c >= 1 /\ s \in Nat /\ s >= 1 /\ v \in Nat /\ v >= 1
  /\ Constructs = 1 .. c - 1 /\ Constructs' = 1 .. c
  /\ \A d \in 1 .. c - 1 :
       KindOf(d)' = KindOf(d) /\ FirstOf(d)' = FirstOf(d) /\ ScopesOf(d)' = ScopesOf(d)
  /\ KindOf(c)' = kind /\ FirstOf(c)' = s
  /\ ScopesOf(c)' = IF IsLoop(kind) THEN {s, s + 1, s + 2} ELSE {s}
  /\ \A e : e.c \in 1 .. c - 1 => AroundOf(e)' = AroundOf(e) /\ Kind(e)' = Kind(e)
  /\ 1 .. Len(scopes) = 1 .. s - 1 /\ 1 .. Len(scopes') = (1 .. s - 1) \cup ScopesOf(c)'
  /\ 1 .. Len(variables) = 1 .. v - 1
  /\ 1 .. Len(variables') = (1 .. v - 1) \cup IF IsLoop(kind) THEN {v, v + 1} ELSE {v}

(* The new scopes and variables are not among the old ones.                *)
LEMMA OpenPlaces ==
  ASSUME TypeOK, NEW kind, NEW c, NEW s, NEW v, NewParts(kind, c, s, v)
  PROVE  NewPlaces(kind, c, s, v)
<1>1. /\ c = Len(constructs) + 1 /\ s = Len(scopes) + 1 /\ v = Len(variables) + 1
      /\ Len(constructs') = c /\ constructs'[c] = [kind |-> kind, scope |-> s]
      /\ \A d \in 1 .. c - 1 : constructs'[d] = constructs[d]
      /\ Len(scopes') = IF IsLoop(kind) THEN s + 2 ELSE s
      /\ Len(variables') = IF IsLoop(kind) THEN v + 1 ELSE v
  BY DEF NewParts
<1>2. /\ c \in Nat /\ c >= 1 /\ s \in Nat /\ s >= 1 /\ v \in Nat /\ v >= 1
      /\ Len(constructs) = c - 1 /\ Len(scopes) = s - 1 /\ Len(variables) = v - 1
  BY <1>1, Typed
<1>3. Constructs = 1 .. c - 1 /\ Constructs' = 1 .. c
  BY <1>1, <1>2 DEF Constructs
<1>4. \A d \in 1 .. c - 1 :
        KindOf(d)' = KindOf(d) /\ FirstOf(d)' = FirstOf(d) /\ ScopesOf(d)' = ScopesOf(d)
  BY <1>1 DEF KindOf, FirstOf, ScopesOf
<1>5. KindOf(c)' = kind /\ FirstOf(c)' = s
  BY <1>1 DEF KindOf, FirstOf
<1>6. ScopesOf(c)' = IF IsLoop(kind) THEN {s, s + 1, s + 2} ELSE {s}
  BY <1>5 DEF ScopesOf
<1>7. ASSUME NEW e, e.c \in 1 .. c - 1
      PROVE  AroundOf(e)' = AroundOf(e) /\ Kind(e)' = Kind(e)
  <2>1. constructs'[e.c] = constructs[e.c]
    BY <1>1, <1>7
  <2>2. Kind(e)' = Kind(e) /\ First(e)' = First(e)
    BY <2>1 DEF Kind, First
  <2>3. ScopeOf(e)' = ScopeOf(e) /\ LoopScope(e)' = LoopScope(e)
    BY <2>2 DEF ScopeOf, LoopScope, DeclScope
  <2>4. QED
    BY <2>2, <2>3 DEF AroundOf
<1>8. 1 .. Len(scopes') = (1 .. s - 1) \cup ScopesOf(c)'
  <2>1. CASE IsLoop(kind)
    <3>1. 1 .. s + 2 = (1 .. s - 1) \cup {s, s + 1, s + 2}
      BY <1>2
    <3>2. QED
      BY <1>1, <1>6, <2>1, <3>1
  <2>2. CASE ~ IsLoop(kind)
    <3>1. 1 .. s = (1 .. s - 1) \cup {s}
      BY <1>2
    <3>2. QED
      BY <1>1, <1>6, <2>2, <3>1
  <2>3. QED
    BY <2>1, <2>2
<1>9. 1 .. Len(variables') = (1 .. v - 1) \cup IF IsLoop(kind) THEN {v, v + 1} ELSE {v}
  <2>1. CASE IsLoop(kind)
    <3>1. 1 .. v + 1 = (1 .. v - 1) \cup {v, v + 1}
      BY <1>2
    <3>2. QED
      BY <1>1, <2>1, <3>1
  <2>2. CASE ~ IsLoop(kind)
    <3>1. 1 .. v = (1 .. v - 1) \cup {v}
      BY <1>2
    <3>2. QED
      BY <1>1, <2>2, <3>1
  <2>3. QED
    BY <2>1, <2>2
<1>10. QED
  BY <1>2, <1>3, <1>4, <1>5, <1>6, <1>7, <1>8, <1>9 DEF NewPlaces

(* The construct stands at e, if it is not the first.                      *)
Grown(g, h, kind, c, s, e) ==
  /\ \A d \in 1 .. c - 1 :
       h.at[d] = g.at[d] /\ h.fun[d] = g.fun[d] /\ h.within[d] = g.within[d]
  /\ h.at[c] = e
  /\ h.fun[c] = IF kind = "function" THEN c ELSE g.fun[e.c]
  /\ h.within[c] = {c} \cup IF c = 1 THEN {} ELSE g.within[e.c]
  /\ \A t \in 1 .. s - 1 : h.owner[t] = g.owner[t]
  /\ \A t \in {s, s + 1, s + 2} : h.owner[t] = c

(* The tree of constructs, with one more.                                  *)
LEMMA TreeGrows ==
  ASSUME NEW g, NEW h, NEW kind, NEW c, NEW s, NEW v, NEW e,
         TreeOK(g), NewPlaces(kind, c, s, v), Grown(g, h, kind, c, s, e),
         c = 1 => kind = "function",
         c # 1 => e \in Element /\ e.c \in 1 .. c - 1
  PROVE  TreeOK(h)'
<1>1. /\ c \in Nat /\ c >= 1 /\ Constructs = 1 .. c - 1 /\ Constructs' = 1 .. c
      /\ \A d \in 1 .. c - 1 : KindOf(d)' = KindOf(d)
      /\ KindOf(c)' = kind
  BY DEF NewPlaces
<1>2. /\ \A d \in 1 .. c - 1 :
           h.at[d] = g.at[d] /\ h.fun[d] = g.fun[d] /\ h.within[d] = g.within[d]
      /\ h.at[c] = e
      /\ h.fun[c] = IF kind = "function" THEN c ELSE g.fun[e.c]
      /\ h.within[c] = {c} \cup IF c = 1 THEN {} ELSE g.within[e.c]
  BY DEF Grown
<1>3. \A d \in 1 .. c - 1 :
        /\ d # 1 => g.at[d] \in Element /\ g.at[d].c \in 1 .. d - 1
        /\ g.fun[d] \in 1 .. c - 1 /\ KindOf(g.fun[d]) = "function"
        /\ g.fun[d] = IF KindOf(d) = "function" THEN d ELSE g.fun[g.at[d].c]
        /\ g.within[d] \subseteq 1 .. d
        /\ g.within[d] = {d} \cup IF d = 1 THEN {} ELSE g.within[g.at[d].c]
  BY <1>1 DEF TreeOK
<1>4. KindOf(1)' = "function"
  <2>1. CASE c = 1
    BY <1>1, <2>1
  <2>2. CASE c # 1
    <3>1. 1 \in 1 .. c - 1 /\ constructs # <<>>
      BY <1>1, <2>2 DEF Constructs
    <3>2. KindOf(1) = "function"
      BY <3>1 DEF TreeOK
    <3>3. QED
      BY <1>1, <3>1, <3>2
  <2>3. QED
    BY <2>1, <2>2
<1>5. ASSUME NEW d \in 1 .. c
      PROVE  /\ d # 1 => h.at[d] \in Element /\ h.at[d].c \in 1 .. d - 1
             /\ h.fun[d] \in 1 .. c /\ KindOf(h.fun[d])' = "function"
             /\ h.fun[d] = IF KindOf(d)' = "function" THEN d ELSE h.fun[h.at[d].c]
             /\ h.within[d] \subseteq 1 .. d
             /\ h.within[d] = {d} \cup IF d = 1 THEN {} ELSE h.within[h.at[d].c]
  <2>1. CASE d # c
    <3>1. d \in 1 .. c - 1
      BY <1>1, <2>1
    <3>2. d = 1 => KindOf(d) = "function"
      <4>1. constructs # <<>>
        BY <1>1, <3>1 DEF Constructs
      <4>2. QED
        BY <4>1 DEF TreeOK
    <3>3. d # 1 => g.at[d].c \in 1 .. c - 1
      BY <1>1, <1>3, <3>1
    <3>4. d # 1 => h.fun[g.at[d].c] = g.fun[g.at[d].c]
                   /\ h.within[g.at[d].c] = g.within[g.at[d].c]
      BY <1>2, <3>3
    <3>5. h.at[d] = g.at[d] /\ h.fun[d] = g.fun[d] /\ h.within[d] = g.within[d]
          /\ KindOf(d)' = KindOf(d) /\ KindOf(g.fun[d])' = "function" /\ g.fun[d] \in 1 .. c
      BY <1>1, <1>2, <1>3, <3>1
    <3>6. h.fun[d] = IF KindOf(d)' = "function" THEN d ELSE h.fun[h.at[d].c]
      BY <1>3, <3>1, <3>2, <3>4, <3>5
    <3>7. h.within[d] = {d} \cup IF d = 1 THEN {} ELSE h.within[h.at[d].c]
      BY <1>3, <3>1, <3>4, <3>5
    <3>8. QED
      BY <1>3, <3>1, <3>5, <3>6, <3>7
  <2>2. CASE d = c
    <3>1. CASE c = 1
      BY <1>1, <1>2, <2>2, <3>1
    <3>2. CASE c # 1
      <4>1. e.c \in 1 .. c - 1 /\ e \in Element
        BY <3>2
      <4>2. /\ h.fun[e.c] = g.fun[e.c] /\ h.within[e.c] = g.within[e.c]
            /\ g.fun[e.c] \in 1 .. c - 1 /\ KindOf(g.fun[e.c])' = "function"
            /\ g.within[e.c] \subseteq 1 .. e.c
        BY <1>1, <1>2, <1>3, <4>1
      <4>3. h.fun[c] \in 1 .. c /\ KindOf(h.fun[c])' = "function"
            /\ h.fun[c] = IF kind = "function" THEN c ELSE h.fun[e.c]
        BY <1>1, <1>2, <4>2
      <4>4. h.within[c] = {c} \cup h.within[e.c]
        BY <1>2, <3>2, <4>2
      <4>5. h.within[c] \subseteq 1 .. c
        BY <1>1, <4>1, <4>2, <4>4
      <4>6. QED
        BY <1>1, <1>2, <2>2, <3>2, <4>1, <4>3, <4>4, <4>5
    <3>3. QED
      BY <3>1, <3>2
  <2>3. QED
    BY <2>1, <2>2
<1>6. QED
  BY <1>1, <1>4, <1>5 DEF TreeOK

(* The scopes, with those of one more construct.                           *)
LEMMA LayoutGrows ==
  ASSUME NEW g, NEW h, NEW kind, NEW c, NEW s, NEW v, NEW e, TypeOK,
         TreeOK(g), LayoutOK(g), NewParts(kind, c, s, v), NewPlaces(kind, c, s, v),
         Grown(g, h, kind, c, s, e),
         Around = IF c = 1 THEN 0 ELSE AroundOf(e), Around \in 0 .. s - 1,
         c # 1 => e.c \in 1 .. c - 1
  PROVE  LayoutOK(h)'
<1>1. /\ c \in Nat /\ c >= 1 /\ s \in Nat /\ s >= 1
      /\ Constructs = 1 .. c - 1 /\ Constructs' = 1 .. c
      /\ \A d \in 1 .. c - 1 :
           KindOf(d)' = KindOf(d) /\ FirstOf(d)' = FirstOf(d) /\ ScopesOf(d)' = ScopesOf(d)
      /\ KindOf(c)' = kind /\ FirstOf(c)' = s
      /\ ScopesOf(c)' = IF IsLoop(kind) THEN {s, s + 1, s + 2} ELSE {s}
      /\ \A x : x.c \in 1 .. c - 1 => AroundOf(x)' = AroundOf(x)
      /\ 1 .. Len(scopes) = 1 .. s - 1
      /\ 1 .. Len(scopes') = (1 .. s - 1) \cup ScopesOf(c)'
  BY DEF NewPlaces
<1>2. /\ \A d \in 1 .. c - 1 : h.at[d] = g.at[d]
      /\ h.at[c] = e
      /\ \A t \in 1 .. s - 1 : h.owner[t] = g.owner[t]
      /\ \A t \in {s, s + 1, s + 2} : h.owner[t] = c
  BY DEF Grown
<1>3. /\ \A t \in 1 .. s - 1 : scopes'[t] = scopes[t]
      /\ scopes'[s].parent = Around
      /\ IsLoop(kind) => scopes'[s + 1].parent = s /\ scopes'[s + 2].parent = s + 1
  BY DEF NewParts, NewScope
<1>4. \A d \in 1 .. c - 1 :
        /\ \A t \in ScopesOf(d) : t \in 1 .. s - 1 /\ g.owner[t] = d
        /\ FirstOf(d) \in ScopesOf(d)
        /\ IsLoop(KindOf(d)) => FirstOf(d) + 1 \in ScopesOf(d) /\ FirstOf(d) + 2 \in ScopesOf(d)
        /\ scopes[FirstOf(d)].parent = IF d = 1 THEN 0 ELSE AroundOf(g.at[d])
        /\ IsLoop(KindOf(d)) => /\ scopes[FirstOf(d) + 1].parent = FirstOf(d)
                                /\ scopes[FirstOf(d) + 2].parent = FirstOf(d) + 1
        /\ d # 1 => g.at[d].c \in 1 .. c - 1
  <2>1. TAKE d \in 1 .. c - 1
  <2>2. d # 1 => g.at[d].c \in 1 .. c - 1
    <3>1. d # 1 => g.at[d].c \in 1 .. d - 1
      BY <1>1 DEF TreeOK
    <3>2. QED
      BY <1>1, <3>1
  <2>3. /\ FirstOf(d) \in ScopesOf(d)
        /\ IsLoop(KindOf(d)) => FirstOf(d) + 1 \in ScopesOf(d) /\ FirstOf(d) + 2 \in ScopesOf(d)
    BY DEF ScopesOf
  <2>4. QED
    BY <1>1, <2>2, <2>3 DEF LayoutOK
<1>5. ASSUME NEW d \in 1 .. c
      PROVE  /\ \A t \in ScopesOf(d)' : t \in 1 .. Len(scopes') /\ h.owner[t] = d
             /\ scopes'[FirstOf(d)'].parent = IF d = 1 THEN 0 ELSE AroundOf(h.at[d])'
             /\ IsLoop(KindOf(d)') => /\ scopes'[FirstOf(d)' + 1].parent = FirstOf(d)'
                                      /\ scopes'[FirstOf(d)' + 2].parent = FirstOf(d)' + 1
  <2>1. CASE d # c
    <3>1. d \in 1 .. c - 1
      BY <1>1, <2>1
    <3>2. \A t \in ScopesOf(d) : t \in 1 .. Len(scopes') /\ h.owner[t] = d
      BY <1>1, <1>2, <1>4, <3>1
    <3>3. scopes'[FirstOf(d)].parent = IF d = 1 THEN 0 ELSE AroundOf(g.at[d])
      BY <1>3, <1>4, <3>1
    <3>4. d # 1 => AroundOf(h.at[d])' = AroundOf(g.at[d])
      <4>1. \A x : x.c \in 1 .. c - 1 => AroundOf(x)' = AroundOf(x)
        BY <1>1
      <4>2. h.at[d] = g.at[d] /\ (d # 1 => g.at[d].c \in 1 .. c - 1)
        BY <1>2, <1>4, <3>1
      <4>3. QED
        BY <4>1, <4>2
    <3>5. IsLoop(KindOf(d)) => /\ scopes'[FirstOf(d) + 1].parent = FirstOf(d)
                               /\ scopes'[FirstOf(d) + 2].parent = FirstOf(d) + 1
      BY <1>3, <1>4, <3>1
    <3>6. QED
      BY <1>1, <3>1, <3>2, <3>3, <3>4, <3>5
  <2>2. CASE d = c
    <3>1. \A t \in ScopesOf(c)' : t \in 1 .. Len(scopes') /\ h.owner[t] = c
      BY <1>1, <1>2
    <3>2. c # 1 => AroundOf(e)' = AroundOf(e)
      BY <1>1
    <3>3. QED
      BY <1>1, <1>2, <1>3, <2>2, <3>1, <3>2
  <2>3. QED
    BY <2>1, <2>2
<1>6. ASSUME NEW t \in 1 .. Len(scopes')
      PROVE  /\ h.owner[t] \in 1 .. c /\ t \in ScopesOf(h.owner[t])'
             /\ scopes'[t].parent \in 0 .. t - 1
  <2>1. CASE t \in 1 .. s - 1
    <3>1. /\ g.owner[t] \in 1 .. c - 1 /\ t \in ScopesOf(g.owner[t])
          /\ scopes[t].parent \in 0 .. t - 1
      BY <1>1, <2>1 DEF LayoutOK
    <3>2. h.owner[t] = g.owner[t] /\ ScopesOf(g.owner[t])' = ScopesOf(g.owner[t])
          /\ scopes'[t] = scopes[t]
      BY <1>1, <1>2, <1>3, <2>1, <3>1
    <3>3. g.owner[t] \in 1 .. c
      BY <1>1, <3>1
    <3>4. QED
      BY <3>1, <3>2, <3>3
  <2>2. CASE t \in ScopesOf(c)'
    <3>1. h.owner[t] = c /\ c \in 1 .. c
      BY <1>1, <1>2, <2>2
    <3>2. scopes'[t].parent \in 0 .. t - 1
      BY <1>1, <1>3, <2>2, SMTT(60)
    <3>3. QED
      BY <2>2, <3>1, <3>2
  <2>3. QED
    BY <1>1, <2>1, <2>2
<1>7. QED
  BY <1>1, <1>5, <1>6 DEF LayoutOK

(* The bindings, with those of one more construct.                         *)
LEMMA BindingsGrow ==
  ASSUME NEW g, NEW h, NEW kind, NEW c, NEW s, NEW v, TypeOK,
         LayoutOK(g), BindingsOK(g), NewParts(kind, c, s, v), NewPlaces(kind, c, s, v)
  PROVE  BindingsOK(h)'
<1>1. /\ c \in Nat /\ c >= 1 /\ s \in Nat /\ s >= 1 /\ v \in Nat /\ v >= 1
      /\ Constructs = 1 .. c - 1 /\ Constructs' = 1 .. c
      /\ \A d \in 1 .. c - 1 :
           KindOf(d)' = KindOf(d) /\ FirstOf(d)' = FirstOf(d) /\ ScopesOf(d)' = ScopesOf(d)
      /\ KindOf(c)' = kind /\ FirstOf(c)' = s
      /\ ScopesOf(c)' = IF IsLoop(kind) THEN {s, s + 1, s + 2} ELSE {s}
      /\ 1 .. Len(scopes) = 1 .. s - 1
      /\ 1 .. Len(variables) = 1 .. v - 1
      /\ 1 .. Len(variables') = (1 .. v - 1) \cup IF IsLoop(kind) THEN {v, v + 1} ELSE {v}
  BY DEF NewPlaces
<1>2. /\ \A t \in 1 .. s - 1 : scopes'[t] = scopes[t]
      /\ scopes'[s].bindings = {v}
      /\ IsLoop(kind) => scopes'[s + 1].bindings = {} /\ scopes'[s + 2].bindings = {v + 1}
      /\ \A w \in 1 .. v - 1 : variables'[w] = variables[w]
      /\ variables'[v].name = <<c, IF IsLoop(kind) THEN "head" ELSE "body">>
      /\ variables'[v].kind = IF kind = "const" THEN "const" ELSE "let"
      /\ IsLoop(kind) => variables'[v + 1].name = <<c, "body">>
  BY DEF NewParts, NewScope, NewVariable
<1>3. ASSUME NEW d \in 1 .. c - 1
      PROVE  /\ \A t \in ScopesOf(d) : /\ t \in 1 .. s - 1
                                       /\ \A w \in scopes[t].bindings :
                                            w \in 1 .. v - 1 /\ variables[w].name = NameIn(d, t)
             /\ scopes[FirstOf(d)].bindings # {}
             /\ IsLoop(KindOf(d)) =>
                  /\ scopes[FirstOf(d) + 2].bindings # {}
                  /\ \A w \in scopes[FirstOf(d)].bindings :
                       variables[w].kind = "let" <=> KindOf(d) # "const"
  <2>1. \A t \in ScopesOf(d) : t \in 1 .. s - 1
    BY <1>1 DEF LayoutOK
  <2>2. QED
    BY <1>1, <2>1 DEF BindingsOK
<1>4. \A t : \A d \in 1 .. c - 1 : NameIn(d, t)' = NameIn(d, t)
  BY <1>1 DEF NameIn
<1>5. ASSUME NEW d \in 1 .. c
      PROVE  /\ \A t \in ScopesOf(d)' : \A w \in scopes'[t].bindings :
                  w \in 1 .. Len(variables') /\ variables'[w].name = NameIn(d, t)'
             /\ scopes'[FirstOf(d)'].bindings # {}
             /\ IsLoop(KindOf(d)') =>
                  /\ scopes'[FirstOf(d)' + 2].bindings # {}
                  /\ \A w \in scopes'[FirstOf(d)'].bindings :
                       variables'[w].kind = "let" <=> KindOf(d)' # "const"
  <2>1. CASE d # c
    <3>1. d \in 1 .. c - 1
      BY <1>1, <2>1
    <3>2. \A t \in ScopesOf(d) : scopes'[t] = scopes[t]
      BY <1>2, <1>3, <3>1
    <3>3. /\ FirstOf(d) \in ScopesOf(d)
          /\ IsLoop(KindOf(d)) => FirstOf(d) + 2 \in ScopesOf(d)
      BY DEF ScopesOf
    <3>4. ASSUME NEW t \in ScopesOf(d), NEW w \in scopes[t].bindings
          PROVE  /\ w \in 1 .. Len(variables') /\ variables'[w] = variables[w]
                 /\ variables[w].name = NameIn(d, t)
      <4>1. w \in 1 .. v - 1 /\ variables[w].name = NameIn(d, t)
        BY <1>3, <3>1
      <4>2. QED
        BY <1>1, <1>2, <4>1
    <3>5. \A t \in ScopesOf(d)' : \A w \in scopes'[t].bindings :
            w \in 1 .. Len(variables') /\ variables'[w].name = NameIn(d, t)'
      <4>1. ScopesOf(d)' = ScopesOf(d) /\ \A t : NameIn(d, t)' = NameIn(d, t)
        BY <1>1, <1>4, <3>1
      <4>2. QED
        BY <3>2, <3>4, <4>1
    <3>6. KindOf(d)' = KindOf(d) /\ FirstOf(d)' = FirstOf(d)
      BY <1>1, <3>1
    <3>7. scopes'[FirstOf(d)].bindings # {}
      BY <1>3, <3>1, <3>2, <3>3
    <3>8. ASSUME IsLoop(KindOf(d))
          PROVE  /\ scopes'[FirstOf(d) + 2].bindings # {}
                 /\ \A w \in scopes'[FirstOf(d)].bindings :
                       variables'[w].kind = "let" <=> KindOf(d) # "const"
      BY <1>3, <3>1, <3>2, <3>3, <3>4, <3>8
    <3>9. QED
      BY <3>5, <3>6, <3>7, <3>8
  <2>2. CASE d = c
    <3>1. v \in 1 .. Len(variables') /\ (IsLoop(kind) => v + 1 \in 1 .. Len(variables'))
      BY <1>1
    <3>2. \A t : NameIn(c, t)' = <<c, IF IsLoop(kind) /\ t # s + 2 THEN "head" ELSE "body">>
      BY <1>1 DEF NameIn
    <3>3. \A t \in ScopesOf(c)' : \A w \in scopes'[t].bindings :
            w \in 1 .. Len(variables') /\ variables'[w].name = NameIn(c, t)'
      <4>1. CASE IsLoop(kind)
        <5>1. s # s + 2 /\ ScopesOf(c)' = {s, s + 1, s + 2}
          BY <1>1, <4>1
        <5>2. /\ NameIn(c, s)' = <<c, "head">> /\ NameIn(c, s + 2)' = <<c, "body">>
              /\ variables'[v].name = <<c, "head">>
          BY <1>2, <3>2, <4>1, <5>1
        <5>3. QED
          BY <1>2, <3>1, <4>1, <5>1, <5>2
      <4>2. CASE ~ IsLoop(kind)
        BY <1>1, <1>2, <3>1, <3>2, <4>2
      <4>3. QED
        BY <4>1, <4>2
    <3>4. QED
      BY <1>1, <1>2, <2>2, <3>3
  <2>3. QED
    BY <2>1, <2>2
<1>6. ASSUME NEW w \in 1 .. Len(variables')
      PROVE  /\ variables'[w].name[1] \in 1 .. c
             /\ variables'[w].name[2] = "head" => IsLoop(KindOf(variables[w].name[1]))'
  <2>1. CASE w \in 1 .. v - 1
    <3>1. variables'[w] = variables[w]
      BY <1>2, <2>1
    <3>2. /\ variables[w].name[1] \in 1 .. c - 1
          /\ variables[w].name[2] = "head" => IsLoop(KindOf(variables[w].name[1]))
      BY <1>1, <2>1 DEF BindingsOK
    <3>3. PICK d \in 1 .. c - 1 : d = variables[w].name[1]
      BY <3>2
    <3>4. KindOf(d)' = KindOf(d)
      BY <1>1
    <3>5. KindOf(variables[w].name[1])' = KindOf(d)'
      BY <3>1, <3>3 DEF KindOf
    <3>6. IsLoop(KindOf(variables[w].name[1]))' = IsLoop(KindOf(variables[w].name[1]))
      BY <3>3, <3>4, <3>5 DEF IsLoop
    <3>7. QED
      BY <1>1, <3>1, <3>2, <3>6
  <2>2. CASE w \notin 1 .. v - 1
    <3>1. variables'[w].name[1] = c
      BY <1>1, <1>2, <2>2, SMTT(60)
    <3>2. variables'[w].name[2] = "head" => IsLoop(kind)
      BY <1>1, <1>2, <2>2
    <3>3. KindOf(variables[w].name[1])' = KindOf(c)'
      BY <3>1 DEF KindOf
    <3>4. IsLoop(KindOf(variables[w].name[1]))' = IsLoop(kind)
      BY <1>1, <3>3 DEF IsLoop
    <3>5. QED
      BY <1>1, <3>1, <3>2, <3>4
  <2>3. QED
    BY <2>1, <2>2
<1>7. QED
  BY <1>1, <1>5, <1>6 DEF BindingsOK

(* The variable scopes, with one more construct.                           *)
LEMMA VariableScopesGrow ==
  ASSUME NEW g, NEW kind, NEW c, NEW s, NEW v, TypeOK,
         LayoutOK(g), VariableScopesOK, NewParts(kind, c, s, v), NewPlaces(kind, c, s, v),
         \A d \in Constructs : ~ Converted(d)
  PROVE  VariableScopesOK' /\ (\A d \in Constructs : ~ Converted(d))'
<1>1. /\ c \in Nat /\ c >= 1 /\ s \in Nat /\ s >= 1
      /\ Constructs = 1 .. c - 1 /\ Constructs' = 1 .. c
      /\ \A d \in 1 .. c - 1 : KindOf(d)' = KindOf(d) /\ FirstOf(d)' = FirstOf(d)
      /\ KindOf(c)' = kind /\ FirstOf(c)' = s
      /\ 1 .. Len(scopes) = 1 .. s - 1
  BY DEF NewPlaces
<1>2. /\ \A t \in 1 .. s - 1 : scopes'[t] = scopes[t]
      /\ scopes'[s].isVariableScope = (kind = "function")
      /\ IsLoop(kind) => /\ scopes'[s + 1].isVariableScope = FALSE
                         /\ scopes'[s + 2].isVariableScope = FALSE
                         /\ scopes'[s + 1].bindings = {}
  BY DEF NewParts, NewScope
<1>3. ASSUME NEW d \in 1 .. c - 1
      PROVE  /\ FirstOf(d) \in 1 .. s - 1
             /\ IsLoop(KindOf(d)) => FirstOf(d) + 1 \in 1 .. s - 1 /\ FirstOf(d) + 2 \in 1 .. s - 1
  <2>1. \A t \in ScopesOf(d) : t \in 1 .. s - 1
    BY <1>1 DEF LayoutOK
  <2>2. QED
    BY <2>1 DEF ScopesOf
<1>4. \A d \in 1 .. c : ~ Converted(d)'
  <2>1. TAKE d \in 1 .. c
  <2>2. CASE d # c
    <3>1. d \in 1 .. c - 1 /\ ~ Converted(d)
      BY <1>1, <2>2
    <3>2. QED
      BY <1>1, <1>2, <1>3, <3>1 DEF Converted
  <2>3. CASE d = c
    BY <1>1, <1>2, <2>3 DEF Converted
  <2>4. QED
    BY <2>2, <2>3
<1>5. ASSUME NEW d \in 1 .. c
      PROVE  /\ ~ IsLoop(KindOf(d)') =>
                  scopes'[FirstOf(d)'].isVariableScope = (KindOf(d)' = "function")
             /\ IsLoop(KindOf(d)') =>
                  /\ ~ scopes'[FirstOf(d)' + 2].isVariableScope
                  /\ ~ scopes'[FirstOf(d)'].isVariableScope
                  /\ ~ scopes'[FirstOf(d)' + 1].isVariableScope
  <2>1. CASE d # c
    <3>1. d \in 1 .. c - 1
      BY <1>1, <2>1
    <3>2. /\ ~ IsLoop(KindOf(d)) => scopes[FirstOf(d)].isVariableScope = (KindOf(d) = "function")
          /\ IsLoop(KindOf(d)) => /\ ~ scopes[FirstOf(d) + 2].isVariableScope
                                  /\ scopes[FirstOf(d)].isVariableScope = Converted(d)
                                  /\ scopes[FirstOf(d) + 1].isVariableScope =
                                       (Converted(d) /\ KindOf(d) # "const")
      BY <1>1, <3>1 DEF VariableScopesOK
    <3>3. ~ Converted(d)
      BY <1>1, <3>1
    <3>4. /\ scopes'[FirstOf(d)] = scopes[FirstOf(d)]
          /\ IsLoop(KindOf(d)) => /\ scopes'[FirstOf(d) + 1] = scopes[FirstOf(d) + 1]
                                  /\ scopes'[FirstOf(d) + 2] = scopes[FirstOf(d) + 2]
      BY <1>2, <1>3, <3>1
    <3>5. KindOf(d)' = KindOf(d) /\ FirstOf(d)' = FirstOf(d)
      BY <1>1, <3>1
    <3>6. QED
      BY <3>2, <3>3, <3>4, <3>5
  <2>2. CASE d = c
    <3>1. IsLoop(kind) => (kind = "function") = FALSE
      BY DEF IsLoop
    <3>2. QED
      BY <1>1, <1>2, <2>2, <3>1
  <2>3. QED
    BY <2>1, <2>2
<1>6. VariableScopesOK'
  <2>1. SUFFICES ASSUME NEW d \in 1 .. c
                 PROVE  (LET f == FirstOf(d)
                         IN  IF ~ IsLoop(KindOf(d))
                             THEN scopes[f].isVariableScope = (KindOf(d) = "function")
                             ELSE /\ ~ scopes[f + 2].isVariableScope
                                  /\ scopes[f].isVariableScope = Converted(d)
                                  /\ scopes[f + 1].isVariableScope =
                                       (Converted(d) /\ KindOf(d) # "const")
                                  /\ Converted(d) => scopes[f].slots > 0
                                  /\ scopes[f + 1].isVariableScope =>
                                       scopes[f + 1].slots = scopes[f].slots)'
    BY <1>1 DEF VariableScopesOK
  <2>2. Converted(d)' \in BOOLEAN
    BY DEF Converted
  <2>3. Converted(d)' = FALSE
    BY <1>4, <2>2
  <2>4. CASE ~ IsLoop(KindOf(d)')
    BY <1>5, <2>4
  <2>5. CASE IsLoop(KindOf(d)')
    <3>1. /\ scopes'[FirstOf(d)'].isVariableScope \in BOOLEAN
          /\ scopes'[FirstOf(d)' + 1].isVariableScope \in BOOLEAN
      <4>1. CASE d # c
        <5>1. d \in 1 .. c - 1
          BY <1>1, <4>1
        <5>2. /\ FirstOf(d)' \in 1 .. Len(scopes) /\ FirstOf(d)' + 1 \in 1 .. Len(scopes)
              /\ scopes'[FirstOf(d)'] = scopes[FirstOf(d)']
              /\ scopes'[FirstOf(d)' + 1] = scopes[FirstOf(d)' + 1]
          BY <1>1, <1>2, <1>3, <2>5, <5>1
        <5>3. QED
          BY <5>2, Typed
      <4>2. CASE d = c
        BY <1>1, <1>2, <2>5, <4>2
      <4>3. QED
        BY <4>1, <4>2
    <3>2. QED
      BY <1>5, <2>3, <2>5, <3>1
  <2>6. QED
    BY <2>4, <2>5
<1>7. QED
  BY <1>1, <1>4, <1>6

(* No slot was given yet, and the new variables have names of their own.   *)
LEMMA SlotsGrow ==
  ASSUME NEW g, NEW h, NEW kind, NEW c, NEW s, NEW v, TypeOK,
         BindingsOK(g), SlotsOK(g), NewParts(kind, c, s, v), NewPlaces(kind, c, s, v),
         \A w \in 1 .. Len(variables) : variables[w].slot = None
  PROVE  SlotsOK(h)' /\ (\A w \in 1 .. Len(variables) : variables[w].slot = None)'
<1>1. /\ c \in Nat /\ v \in Nat /\ v >= 1 /\ Constructs = 1 .. c - 1
      /\ 1 .. Len(variables) = 1 .. v - 1
      /\ 1 .. Len(variables') = (1 .. v - 1) \cup IF IsLoop(kind) THEN {v, v + 1} ELSE {v}
  BY DEF NewPlaces
<1>2. /\ \A w \in 1 .. v - 1 : variables'[w] = variables[w]
      /\ variables'[v].name = <<c, IF IsLoop(kind) THEN "head" ELSE "body">>
      /\ variables'[v].slot = None
      /\ IsLoop(kind) => variables'[v + 1].name = <<c, "body">> /\ variables'[v + 1].slot = None
  BY DEF NewParts, NewVariable
<1>3. \A w \in 1 .. Len(variables') : variables'[w].slot = None
  BY <1>1, <1>2
<1>4. \A w \in 1 .. v - 1 : variables[w].name[1] # c
  BY <1>1 DEF BindingsOK
<1>5. ASSUME NEW w \in 1 .. Len(variables'), NEW x \in 1 .. Len(variables'), w # x
      PROVE  variables'[w].name # variables'[x].name
  <2>1. CASE w \in 1 .. v - 1 /\ x \in 1 .. v - 1
    <3>1. variables[w].slot = None
      BY <1>1, <2>1
    <3>2. SameSlot(w)
      BY <1>1, <2>1 DEF SlotsOK
    <3>3. variables[w].name # variables[x].name
      BY <1>1, <1>5, <2>1, <3>1, <3>2 DEF SameSlot
    <3>4. QED
      BY <1>2, <2>1, <3>3
  <2> DEFINE New(y) == variables'[y].name[1] = c
  <2>2. ASSUME NEW y \in 1 .. Len(variables')
        PROVE  New(y) <=> y \notin 1 .. v - 1
    <3>1. CASE y \in 1 .. v - 1
      BY <1>2, <1>4, <3>1
    <3>2. CASE y \notin 1 .. v - 1
      BY <1>1, <1>2, <3>2, SMTT(60)
    <3>3. QED
      BY <3>1, <3>2
  <2>3. CASE w \in 1 .. v - 1 <=> x \notin 1 .. v - 1
    <3>1. New(w) <=> ~ New(x)
      BY <2>2, <2>3
    <3>2. QED
      BY <3>1
  <2> HIDE DEF New
  <2>4. CASE w \notin 1 .. v - 1 /\ x \notin 1 .. v - 1
    <3>1. /\ IsLoop(kind) /\ v # v + 1
          /\ \/ w = v /\ x = v + 1
             \/ w = v + 1 /\ x = v
      BY <1>1, <1>5, <2>4
    <3>2. variables'[v].name[2] = "head" /\ variables'[v + 1].name[2] = "body"
      BY <1>2, <3>1
    <3>3. QED
      BY <3>1, <3>2
  <2>5. QED
    BY <2>1, <2>3, <2>4
<1>6. \A w \in 1 .. Len(variables') : SameSlot(w)' /\ SlotFits(h, w)' /\ OwnSlot(h, w)'
  BY <1>3, <1>5 DEF SameSlot, SlotFits, OwnSlot
<1>7. QED
  BY <1>3, <1>6 DEF SlotsOK

(* Open: a construct in the innermost one.                                 *)
LEMMA OpenStep ==
  ASSUME NEW g, TypeOK, ScopesOK(g), NEW kind \in Kinds, Open(kind)
  PROVE  TypeOK' /\ \E h : ScopesOK(h)'
<1> DEFINE C == Len(constructs) + 1
           S == Len(scopes) + 1
           V == Len(variables) + 1
           n == Len(path)
<1>1. PICK c, s, v : c = C /\ s = S /\ v = V
  OBVIOUS
<1>2. PICK e, new, ev, p, m :
        /\ e = Last(path) /\ new = [c |-> c, part |-> Parts(kind)[1]]
        /\ ev = [op |-> "open", e |-> new] /\ p = Append(path, new) /\ m = Len(events)
  OBVIOUS
<1>3. TypeOK' /\ NewParts(kind, c, s, v)
  BY <1>1, OpenParts
<1>4. NewPlaces(kind, c, s, v)
  BY <1>3, OpenPlaces
<1>5. /\ phase = "parse" /\ UNCHANGED <<phase, pos, accesses>>
      /\ path' = p /\ events' = Append(events, ev)
      /\ path = <<>> => c = 1 /\ kind = "function"
  BY <1>1, <1>2 DEF Open
<1>6. /\ pos = 1 /\ path = g.walk[m] /\ accesses = {}
      /\ \A d \in Constructs : ~ Converted(d)
      /\ \A w \in 1 .. Len(variables) : variables[w].slot = None
      /\ Program(g) /\ Static(g) /\ ProgramOK(g) /\ TreeOK(g)
  BY <1>2, <1>5, Parsing
<1>7. /\ LayoutOK(g) /\ BindingsOK(g) /\ VariableScopesOK /\ SlotsOK(g)
      /\ PathOK(g, path) /\ path \in Seq(Element)
  BY <1>6 DEF Static, Program, TypeOK
<1>8. /\ c \in Nat /\ c >= 1 /\ s \in Nat /\ s >= 1 /\ m \in Nat
      /\ Constructs = 1 .. c - 1 /\ Constructs' = 1 .. c
      /\ 1 .. Len(scopes) = 1 .. s - 1
  BY <1>2, <1>4, Typed DEF NewPlaces
<1>9. /\ path = <<>> => Around = 0
      /\ path # <<>> => /\ n \in 1 .. n /\ e = path[n] /\ e \in Element
                        /\ e.c \in 1 .. c - 1
                        /\ Around = AroundOf(e) /\ Around \in 1 .. s - 1
  BY <1>2, <1>6, <1>8, Place
<1>10. path = <<>> <=> c = 1
  BY <1>5, <1>8, <1>9
<1>11. PICK w : w = [i \in 0 .. m + 1 |-> IF i <= m THEN g.walk[i] ELSE p]
  OBVIOUS
<1> DEFINE h == [at |-> [d \in Nat |-> IF d = c THEN e ELSE g.at[d]],
                 fun |-> [d \in Nat |-> IF d # c THEN g.fun[d]
                                        ELSE IF kind = "function" THEN c ELSE g.fun[e.c]],
                 within |-> [d \in Nat |-> IF d # c THEN g.within[d]
                                           ELSE {c} \cup IF c = 1 THEN {} ELSE g.within[e.c]],
                 owner |-> [t \in Nat |-> IF t < s THEN g.owner[t] ELSE c],
                 walk |-> w]
<1>12. Grown(g, h, kind, c, s, e) /\ h.walk = w
  <2>1. \A d \in 1 .. c - 1 : d \in Nat /\ d # c
    BY <1>8
  <2>2. \A t \in 1 .. s - 1 : t \in Nat /\ t < s
    BY <1>8
  <2>3. \A t \in {s, s + 1, s + 2} : t \in Nat /\ ~ (t < s)
    BY <1>8
  <2>4. QED
    BY <1>8, <2>1, <2>2, <2>3 DEF Grown
<1> HIDE DEF h
<1>13. TreeOK(h)'
  BY <1>4, <1>5, <1>6, <1>9, <1>10, <1>12, TreeGrows
<1>14. LayoutOK(h)'
  <2>1. Around = IF c = 1 THEN 0 ELSE AroundOf(e)
    BY <1>9, <1>10
  <2>2. Around \in 0 .. s - 1
    BY <1>8, <1>9
  <2>3. c # 1 => e.c \in 1 .. c - 1
    BY <1>9, <1>10
  <2>4. QED
    BY <1>3, <1>4, <1>6, <1>7, <1>12, <2>1, <2>2, <2>3, LayoutGrows
<1>15. BindingsOK(h)'
  BY <1>3, <1>4, <1>7, BindingsGrow
<1>16. VariableScopesOK' /\ (\A d \in Constructs : ~ Converted(d))'
  BY <1>3, <1>4, <1>6, <1>7, VariableScopesGrow
<1>17. SlotsOK(h)' /\ (\A x \in 1 .. Len(variables) : variables[x].slot = None)'
  BY <1>3, <1>4, <1>6, <1>7, SlotsGrow
<1>18. /\ p \in Seq(Element) /\ Len(p) = n + 1 /\ p[n + 1] = new /\ new.c = c /\ n \in Nat
       /\ \A k \in 1 .. n : p[k] = path[k]
  <2>1. new \in Element /\ new.c = c
    <3>1. kind \in {"function", "block", "let", "const", "of"}
      BY LexicalAssumption
    <3>2. Parts(kind)[1] \in {"head", "update", "body"}
      BY <3>1 DEF Parts
    <3>3. QED
      BY <1>2, <1>8, <3>2 DEF Element
  <2>2. p = Append(path, new)
    BY <1>2
  <2>3. QED
    BY <1>7, <2>1, <2>2, AppendProperties, LenProperties
<1>19. PathOK(h, p)'
  <2>1. ASSUME NEW k \in 1 .. n + 1
        PROVE  /\ p[k].c \in 1 .. c /\ (p[k].c = 1 <=> k = 1)
               /\ k > 1 => h.at[p[k].c] = p[k - 1]
    <3>1. CASE k # n + 1
      <4>1. k \in 1 .. n /\ (k > 1 => k - 1 \in 1 .. n)
        BY <1>18, <3>1
      <4>2. /\ path[k].c \in 1 .. c - 1 /\ (path[k].c = 1 <=> k = 1)
            /\ k > 1 => g.at[path[k].c] = path[k - 1]
        BY <1>7, <1>8, <4>1 DEF PathOK
      <4>3. h.at[path[k].c] = g.at[path[k].c]
        BY <1>12, <4>2 DEF Grown
      <4>4. path[k].c \in 1 .. c
        BY <1>8, <4>2
      <4>5. QED
        BY <1>18, <4>1, <4>2, <4>3, <4>4
    <3>2. CASE k = n + 1
      <4>1. p[k].c = c /\ c \in 1 .. c
        BY <1>8, <1>18, <3>2
      <4>2. c = 1 <=> k = 1
        BY <1>7, <1>9, <1>10, <1>18, <3>2, EmptySeq
      <4>3. k > 1 => n \in 1 .. n /\ e = path[n] /\ k - 1 = n
        BY <1>8, <1>9, <1>10, <1>18, <3>2, <4>2
      <4>4. h.at[c] = e
        BY <1>12 DEF Grown
      <4>5. QED
        BY <1>18, <4>1, <4>2, <4>3, <4>4
    <3>3. QED
      BY <3>1, <3>2
  <2>2. QED
    BY <1>8, <1>18, <2>1 DEF PathOK
<1>20. ProgramOK(h)'
  <2>1. ASSUME NEW d \in Constructs
        PROVE  /\ d \in Constructs' /\ KindOf(d)' = KindOf(d) /\ h.at[d] = g.at[d]
               /\ OnPath(p, d) => OnPath(path, d)
    <3>1. d \in 1 .. c - 1 /\ d \in Constructs' /\ d # c
      BY <1>8
    <3>2. KindOf(d)' = KindOf(d) /\ h.at[d] = g.at[d]
      BY <1>4, <1>12, <3>1 DEF NewPlaces, Grown
    <3>3. ASSUME OnPath(p, d) PROVE OnPath(path, d)
      <4>1. PICK k \in 1 .. n + 1 : p[k].c = d
        BY <1>18, <3>3 DEF OnPath
      <4>2. k \in 1 .. n
        BY <1>18, <3>1, <4>1
      <4>3. QED
        BY <1>18, <4>1, <4>2 DEF OnPath
    <3>4. QED
      BY <3>1, <3>2, <3>3
  <2>2. ev.op = "open" /\ ev.e = new
    BY <1>2
  <2>3. p = Walked(path, ev)
    BY <1>2, <2>2 DEF Walked
  <2>4. h.walk = [i \in 0 .. Len(events) + 1 |->
                    IF i <= Len(events) THEN g.walk[i] ELSE p]
    BY <1>2, <1>11, <1>12
  <2>5. path = g.walk[Len(events)]
    BY <1>2, <1>6
  <2>6. QED
    BY <1>5, <1>6, <1>19, <2>1, <2>2, <2>3, <2>4, <2>5, Extended
<1>21. PhaseOK(h)'
  <2>1. Len(events') = m + 1
    BY <1>2, <1>5, AppendProperties DEF TypeOK
  <2>2. path' = h.walk[Len(events')]
    BY <1>5, <1>8, <1>11, <1>12, <2>1
  <2>3. QED
    BY <1>5, <1>6, <1>16, <1>17, <2>2 DEF PhaseOK
<1>22. ScopesOK(h)'
  BY <1>13, <1>14, <1>15, <1>16, <1>17, <1>20, <1>21 DEF ScopesOK
<1>23. QED
  BY <1>3, <1>22

-----------------------------------------------------------------------------
(* Giving a slot.                                                          *)

(* What a new slot of the variable v in the scope f changes.               *)
SlotGiven(v, f) ==
  /\ Len(variables') = Len(variables) /\ Len(scopes') = Len(scopes)
  /\ \A w \in 1 .. Len(variables) :
       /\ variables'[w].name = variables[w].name /\ variables'[w].kind = variables[w].kind
       /\ variables'[w].slot = IF w = v THEN scopes[f].slots ELSE variables[w].slot
  /\ \A t \in 1 .. Len(scopes) :
       /\ scopes'[t].parent = scopes[t].parent /\ scopes'[t].bindings = scopes[t].bindings
       /\ scopes'[t].isVariableScope = scopes[t].isVariableScope
       /\ scopes'[t].slots = IF t = f THEN scopes[t].slots + 1 ELSE scopes[t].slots

(* Resolve, when it gives a slot, in parts.                                *)
LEMMA GivingSlot ==
  ASSUME TypeOK, NEW v \in 1 .. Len(variables), NEW f \in 1 .. Len(scopes),
         variables' = [variables EXCEPT ![v].slot = scopes[f].slots],
         scopes' = [scopes EXCEPT ![f].slots = @ + 1]
  PROVE  /\ variables' \in Seq(VariableRecord) /\ scopes' \in Seq(ScopeRecord)
         /\ SlotGiven(v, f)
<1>1. variables \in Seq(VariableRecord) /\ scopes \in Seq(ScopeRecord)
  BY DEF TypeOK, VariableRecord, ScopeRecord
<1>2. variables[v] \in VariableRecord /\ scopes[f] \in ScopeRecord
  BY <1>1
<1> DEFINE x == [variables[v] EXCEPT !.slot = scopes[f].slots]
           y == [scopes[f] EXCEPT !.slots = @ + 1]
<1>3. /\ x \in VariableRecord /\ x.name = variables[v].name /\ x.kind = variables[v].kind
      /\ x.slot = scopes[f].slots
  <2>1. scopes[f].slots \in Nat
    BY <1>2 DEF ScopeRecord
  <2>2. x = [name |-> variables[v].name, kind |-> variables[v].kind,
             slot |-> scopes[f].slots]
    BY <1>2, SMTT(60) DEF VariableRecord
  <2>3. QED
    BY <1>2, <2>1, <2>2 DEF VariableRecord
<1>4. /\ y \in ScopeRecord /\ y.parent = scopes[f].parent
      /\ y.bindings = scopes[f].bindings
      /\ y.isVariableScope = scopes[f].isVariableScope
      /\ y.slots = scopes[f].slots + 1
  <2>1. y = [parent |-> scopes[f].parent, isVariableScope |-> scopes[f].isVariableScope,
             slots |-> scopes[f].slots + 1, bindings |-> scopes[f].bindings]
    BY <1>2 DEF ScopeRecord
  <2>2. QED
    BY <1>2, <2>1 DEF ScopeRecord
<1>5. variables' = [variables EXCEPT ![v] = x] /\ scopes' = [scopes EXCEPT ![f] = y]
  OBVIOUS
<1> HIDE DEF x, y
<1>6. /\ variables' \in Seq(VariableRecord) /\ Len(variables') = Len(variables)
      /\ \A w \in 1 .. Len(variables) : variables'[w] = IF w = v THEN x ELSE variables[w]
  <2>1. [variables EXCEPT ![v] = x] \in Seq(VariableRecord)
        /\ Len([variables EXCEPT ![v] = x]) = Len(variables)
    BY <1>1, <1>3, ExceptSeq
  <2>2. \A w \in 1 .. Len(variables) :
          [variables EXCEPT ![v] = x][w] = IF w = v THEN x ELSE variables[w]
    BY <1>1
  <2>3. QED
    BY <1>5, <2>1, <2>2
<1>7. /\ scopes' \in Seq(ScopeRecord) /\ Len(scopes') = Len(scopes)
      /\ \A t \in 1 .. Len(scopes) : scopes'[t] = IF t = f THEN y ELSE scopes[t]
  <2>1. [scopes EXCEPT ![f] = y] \in Seq(ScopeRecord)
        /\ Len([scopes EXCEPT ![f] = y]) = Len(scopes)
    BY <1>1, <1>4, ExceptSeq
  <2>2. \A t \in 1 .. Len(scopes) :
          [scopes EXCEPT ![f] = y][t] = IF t = f THEN y ELSE scopes[t]
    BY <1>1
  <2>3. QED
    BY <1>5, <2>1, <2>2
<1>8. QED
  BY <1>3, <1>4, <1>6, <1>7 DEF SlotGiven

(* The slot is one more of the function around the variable.               *)
LEMMA SlotStatic ==
  ASSUME NEW g, NEW v \in 1 .. Len(variables), NEW f, NEW a, TypeOK, Static(g),
         UNCHANGED constructs, SlotGiven(v, f),
         a = g.fun[variables[v].name[1]], f = FirstOf(a),
         variables[v].slot = None,
         \A c \in g.within[variables[v].name[1]] : ~ Converted(c)
  PROVE  Static(g)' /\ \A c \in Constructs : Converted(c)' = Converted(c)
<1>1. TreeOK(g) /\ LayoutOK(g) /\ BindingsOK(g) /\ VariableScopesOK /\ SlotsOK(g)
  BY DEF Static
<1>2. /\ Len(variables') = Len(variables) /\ Len(scopes') = Len(scopes)
      /\ \A w \in 1 .. Len(variables) :
           /\ variables'[w].name = variables[w].name /\ variables'[w].kind = variables[w].kind
           /\ variables'[w].slot = IF w = v THEN scopes[f].slots ELSE variables[w].slot
      /\ \A t \in 1 .. Len(scopes) :
           /\ scopes'[t].parent = scopes[t].parent /\ scopes'[t].bindings = scopes[t].bindings
           /\ scopes'[t].isVariableScope = scopes[t].isVariableScope
           /\ scopes'[t].slots = IF t = f THEN scopes[t].slots + 1 ELSE scopes[t].slots
  BY DEF SlotGiven
<1>3. /\ Constructs' = Constructs
      /\ \A c : KindOf(c)' = KindOf(c) /\ FirstOf(c)' = FirstOf(c)
                /\ ScopesOf(c)' = ScopesOf(c)
      /\ \A c, t : NameIn(c, t)' = NameIn(c, t)
      /\ \A e : AroundOf(e)' = AroundOf(e)
  BY DEF Constructs, KindOf, FirstOf, ScopesOf, NameIn, AroundOf, Kind, LoopScope,
     ScopeOf, First, DeclScope
<1>4. \A c \in Constructs :
        /\ \A t \in ScopesOf(c) : t \in 1 .. Len(scopes) /\ g.owner[t] = c
        /\ FirstOf(c) \in ScopesOf(c)
        /\ IsLoop(KindOf(c)) => FirstOf(c) + 1 \in ScopesOf(c) /\ FirstOf(c) + 2 \in ScopesOf(c)
  BY <1>1 DEF LayoutOK, ScopesOf
<1>5. a \in Constructs /\ KindOf(a) = "function" /\ f \in 1 .. Len(scopes) /\ g.owner[f] = a
  <2>1. variables[v].name[1] \in Constructs
    BY <1>1 DEF BindingsOK
  <2>2. a \in Constructs /\ KindOf(a) = "function"
    BY <1>1, <2>1 DEF TreeOK
  <2>3. \A t \in ScopesOf(a) : t \in 1 .. Len(scopes) /\ g.owner[t] = a
    BY <1>4, <2>2, Zenon
  <2>4. f \in ScopesOf(a)
    BY <1>4, <2>2, Zenon
  <2>5. QED
    BY <2>2, <2>3, <2>4, Zenon
<1>6. ASSUME NEW c \in Constructs, IsLoop(KindOf(c))
      PROVE  /\ scopes'[FirstOf(c)].slots = scopes[FirstOf(c)].slots
             /\ scopes'[FirstOf(c) + 1].slots = scopes[FirstOf(c) + 1].slots
  <2>1. c # a
    BY <1>5, <1>6 DEF IsLoop
  <2>2. FirstOf(c) # f /\ FirstOf(c) + 1 # f
    BY <1>4, <1>5, <1>6, <2>1
  <2>3. QED
    BY <1>2, <1>4, <1>6, <2>2
<1>7. \A c \in Constructs : Converted(c)' = Converted(c)
  <2>1. TAKE c \in Constructs
  <2>2. CASE IsLoop(KindOf(c))
    <3>1. scopes'[FirstOf(c) + 1].bindings = scopes[FirstOf(c) + 1].bindings
      BY <1>2, <1>4, <2>2
    <3>2. QED
      BY <1>3, <2>2, <3>1 DEF Converted
  <2>3. CASE ~ IsLoop(KindOf(c))
    BY <1>3, <2>3 DEF Converted
  <2>4. QED
    BY <2>2, <2>3
<1>8. TreeOK(g)'
  BY <1>1 DEF TreeOK, Constructs, KindOf
<1>9. LayoutOK(g)'
  <2>1. ASSUME NEW c \in Constructs
        PROVE  /\ \A t \in ScopesOf(c) : t \in 1 .. Len(scopes) /\ g.owner[t] = c
               /\ scopes'[FirstOf(c)].parent = IF c = 1 THEN 0 ELSE AroundOf(g.at[c])
               /\ IsLoop(KindOf(c)) => /\ scopes'[FirstOf(c) + 1].parent = FirstOf(c)
                                       /\ scopes'[FirstOf(c) + 2].parent = FirstOf(c) + 1
    <3>1. /\ scopes[FirstOf(c)].parent = IF c = 1 THEN 0 ELSE AroundOf(g.at[c])
          /\ IsLoop(KindOf(c)) => /\ scopes[FirstOf(c) + 1].parent = FirstOf(c)
                                  /\ scopes[FirstOf(c) + 2].parent = FirstOf(c) + 1
      BY <1>1 DEF LayoutOK
    <3>2. QED
      BY <1>2, <1>4, <3>1
  <2>2. ASSUME NEW t \in 1 .. Len(scopes)
        PROVE  /\ g.owner[t] \in Constructs /\ t \in ScopesOf(g.owner[t])
               /\ scopes'[t].parent \in 0 .. t - 1
    BY <1>1, <1>2 DEF LayoutOK
  <2>3. QED
    BY <1>2, <1>3, <2>1, <2>2 DEF LayoutOK
<1>10. BindingsOK(g)'
  <2>1. ASSUME NEW c \in Constructs
        PROVE  /\ \A t \in ScopesOf(c) : \A w \in scopes'[t].bindings :
                    w \in 1 .. Len(variables) /\ variables'[w].name = NameIn(c, t)
               /\ scopes'[FirstOf(c)].bindings # {}
               /\ IsLoop(KindOf(c)) =>
                    /\ scopes'[FirstOf(c) + 2].bindings # {}
                    /\ \A w \in scopes'[FirstOf(c)].bindings :
                         variables'[w].kind = "let" <=> KindOf(c) # "const"
    <3>1. /\ \A t \in ScopesOf(c) : \A w \in scopes[t].bindings :
               w \in 1 .. Len(variables) /\ variables[w].name = NameIn(c, t)
          /\ scopes[FirstOf(c)].bindings # {}
          /\ IsLoop(KindOf(c)) =>
               /\ scopes[FirstOf(c) + 2].bindings # {}
               /\ \A w \in scopes[FirstOf(c)].bindings :
                    variables[w].kind = "let" <=> KindOf(c) # "const"
      BY <1>1 DEF BindingsOK
    <3>2. \A t \in ScopesOf(c) : scopes'[t].bindings = scopes[t].bindings
      BY <1>2, <1>4
    <3>3. \A w \in 1 .. Len(variables) : /\ variables'[w].name = variables[w].name
                                         /\ variables'[w].kind = variables[w].kind
      BY <1>2
    <3>4. \A t \in ScopesOf(c) : \A w \in scopes'[t].bindings :
            w \in 1 .. Len(variables) /\ variables'[w].name = NameIn(c, t)
      BY <3>1, <3>2, <3>3, Zenon
    <3>5. scopes'[FirstOf(c)].bindings = scopes[FirstOf(c)].bindings
      BY <1>4, <3>2
    <3>6. ASSUME IsLoop(KindOf(c))
          PROVE  /\ scopes'[FirstOf(c) + 2].bindings # {}
                 /\ \A w \in scopes'[FirstOf(c)].bindings :
                      variables'[w].kind = "let" <=> KindOf(c) # "const"
      <4>1. scopes'[FirstOf(c) + 2].bindings = scopes[FirstOf(c) + 2].bindings
        BY <1>4, <3>2, <3>6
      <4>2. \A w \in scopes[FirstOf(c)].bindings : variables'[w].kind = variables[w].kind
        BY <1>4, <3>1, <3>3
      <4>3. QED
        BY <3>1, <3>5, <3>6, <4>1, <4>2
    <3>7. QED
      BY <3>1, <3>4, <3>5, <3>6
  <2>2. ASSUME NEW w \in 1 .. Len(variables)
        PROVE  /\ variables'[w].name[1] \in Constructs
               /\ variables'[w].name[2] = "head" => IsLoop(KindOf(variables[w].name[1]))'
    <3>1. /\ variables[w].name[1] \in Constructs
          /\ variables[w].name[2] = "head" => IsLoop(KindOf(variables[w].name[1]))
      BY <1>1 DEF BindingsOK
    <3>2. variables'[w].name = variables[w].name
      BY <1>2
    <3>3. QED
      BY <3>1, <3>2 DEF KindOf, IsLoop
  <2>3. \A c \in Constructs :
          /\ \A t \in ScopesOf(c) : \A w \in scopes'[t].bindings :
               w \in 1 .. Len(variables') /\ variables'[w].name = NameIn(c, t)'
          /\ scopes'[FirstOf(c)'].bindings # {}
          /\ IsLoop(KindOf(c))' =>
               /\ scopes'[FirstOf(c)' + 2].bindings # {}
               /\ \A w \in scopes'[FirstOf(c)'].bindings :
                    variables'[w].kind = "let" <=> KindOf(c)' # "const"
    <3>1. TAKE c \in Constructs
    <3>2. /\ FirstOf(c)' = FirstOf(c) /\ Len(variables') = Len(variables)
          /\ IsLoop(KindOf(c))' = IsLoop(KindOf(c)) /\ KindOf(c)' = KindOf(c)
          /\ \A t : NameIn(c, t)' = NameIn(c, t)
      BY <1>2, <1>3 DEF IsLoop
    <3>3. QED
      BY <2>1, <3>2
  <2>4. \A w \in 1 .. Len(variables) :
          /\ variables'[w].name[1] \in Constructs
          /\ variables'[w].name[2] = "head" => IsLoop(KindOf(variables[w].name[1]))'
    BY <2>2
  <2>5. Constructs' = Constructs /\ Len(variables') = Len(variables)
        /\ \A c : ScopesOf(c)' = ScopesOf(c)
    BY <1>2, <1>3
  <2>6. QED
    BY <2>3, <2>4, <2>5, Zenon DEF BindingsOK
<1>11. VariableScopesOK'
  <2>1. ASSUME NEW c \in Constructs, ~ IsLoop(KindOf(c))
        PROVE  scopes'[FirstOf(c)].isVariableScope = (KindOf(c) = "function")
    BY <1>1, <1>2, <1>4, <2>1 DEF VariableScopesOK
  <2>2. ASSUME NEW c \in Constructs, IsLoop(KindOf(c))
        PROVE  LET s == FirstOf(c)
               IN  /\ ~ scopes'[s + 2].isVariableScope
                   /\ scopes'[s].isVariableScope = Converted(c)
                   /\ scopes'[s + 1].isVariableScope = (Converted(c) /\ KindOf(c) # "const")
                   /\ Converted(c) => scopes'[s].slots > 0
                   /\ scopes'[s + 1].isVariableScope =>
                        scopes'[s + 1].slots = scopes'[s].slots
    <3> DEFINE s == FirstOf(c)
    <3>1. /\ ~ scopes[s + 2].isVariableScope
          /\ scopes[s].isVariableScope = Converted(c)
          /\ scopes[s + 1].isVariableScope = (Converted(c) /\ KindOf(c) # "const")
          /\ Converted(c) => scopes[s].slots > 0
          /\ scopes[s + 1].isVariableScope => scopes[s + 1].slots = scopes[s].slots
      BY <1>1, <2>2 DEF VariableScopesOK
    <3>2. /\ scopes'[s].isVariableScope = scopes[s].isVariableScope
          /\ scopes'[s + 1].isVariableScope = scopes[s + 1].isVariableScope
          /\ scopes'[s + 2].isVariableScope = scopes[s + 2].isVariableScope
      BY <1>2, <1>4, <2>2
    <3>3. scopes'[s].slots = scopes[s].slots /\ scopes'[s + 1].slots = scopes[s + 1].slots
      BY <1>6, <2>2
    <3> HIDE DEF s
    <3>4. QED
      BY <3>1, <3>2, <3>3 DEF s
  <2>3. QED
    BY <1>3, <1>7, <2>1, <2>2, Zenon DEF VariableScopesOK
<1>12. SlotsOK(g)'
  <2> DEFINE Fun(w) == g.fun[variables[w].name[1]]
  <2>1. \A w \in 1 .. Len(variables) :
          /\ variables[w].slot \in Nat \cup {None} /\ variables[w].name[1] \in Constructs
          /\ SameSlot(w) /\ SlotFits(g, w) /\ OwnSlot(g, w)
    BY <1>1, Typed DEF SlotsOK, BindingsOK
  <2>2. scopes[f].slots \in Nat
    BY <1>5, Typed
  <2>3. \A t \in 1 .. Len(scopes) : scopes[t].slots \in Nat /\ scopes'[t].slots >= scopes[t].slots
                                    /\ scopes'[t].slots \in Nat
    <3>1. TAKE t \in 1 .. Len(scopes)
    <3>2. scopes[t].slots \in Nat
      BY Typed
    <3>3. scopes'[t].slots = IF t = f THEN scopes[t].slots + 1 ELSE scopes[t].slots
      BY <1>2
    <3>4. QED
      BY <3>2, <3>3
  <2>4. scopes'[f].slots = scopes[f].slots + 1
    BY <1>2, <1>5
  <2>5. \A c \in Constructs : FirstOf(c) \in 1 .. Len(scopes)
    BY <1>4
  <2>6. \A w \in 1 .. Len(variables) :
          /\ g.fun[variables[w].name[1]] \in Constructs
          /\ g.within[variables[w].name[1]] \subseteq Constructs
    <3>1. \A c \in Constructs : g.fun[c] \in Constructs /\ g.within[c] \subseteq 1 .. c
      BY <1>1 DEF TreeOK
    <3>2. Len(constructs) \in Nat
      BY Typed
    <3>3. \A c \in Constructs : 1 .. c \subseteq Constructs
      BY <3>2 DEF Constructs
    <3>4. QED
      BY <2>1, <3>1, <3>3
  <2>7. None \notin Nat
    BY DEF None
  <2>8. ASSUME NEW w \in 1 .. Len(variables), NEW x \in 1 .. Len(variables),
               w # x, variables'[w].name = variables'[x].name
        PROVE  variables'[w].slot = variables'[x].slot /\ variables'[w].slot # None
    <3>1. variables[w].name = variables[x].name
      BY <1>2, <2>8
    <3>2. variables[w].slot = variables[x].slot /\ variables[w].slot # None
      BY <2>1, <2>8, <3>1 DEF SameSlot
    <3>3. w # v /\ x # v
      BY <3>2
    <3>4. QED
      BY <1>2, <3>2, <3>3
  <2>9. ASSUME NEW w \in 1 .. Len(variables), variables'[w].slot # None
        PROVE  /\ variables'[w].slot < scopes'[FirstOf(Fun(w))].slots
               /\ \A c \in g.within[variables[w].name[1]] :
                    Converted(c) /\ g.fun[c] = Fun(w) =>
                      variables'[w].slot < scopes'[FirstOf(c)].slots
    <3>1. CASE w = v
      <4>1. variables'[w].slot = scopes[f].slots
        BY <1>2, <3>1
      <4>2. scopes[f].slots < scopes'[f].slots
        <5> DEFINE i == scopes[f].slots
                   j == scopes'[f].slots
        <5>1. i \in Nat /\ j = i + 1
          BY <2>2, <2>4
        <5> HIDE DEF i, j
        <5>2. i < j
          BY <5>1
        <5>3. QED
          BY <5>2 DEF i, j
      <4>3. FirstOf(Fun(w)) = f
        BY <3>1
      <4>4. variables'[w].slot < scopes'[FirstOf(Fun(w))].slots
        BY <4>1, <4>2, <4>3
      <4>5. \A c \in g.within[variables[w].name[1]] : ~ Converted(c)
        BY <3>1
      <4>6. QED
        BY <4>4, <4>5
    <3>2. CASE w # v
      <4>1. variables'[w].slot = variables[w].slot /\ variables[w].slot # None
            /\ variables[w].slot \in Nat
        BY <1>2, <2>1, <2>9, <3>2
      <4>2. /\ variables[w].slot < scopes[FirstOf(Fun(w))].slots
            /\ \A c \in g.within[variables[w].name[1]] :
                 Converted(c) /\ g.fun[c] = Fun(w) =>
                   variables[w].slot < scopes[FirstOf(c)].slots
        BY <2>1, <4>1 DEF SlotFits
      <4>3. variables'[w].slot < scopes'[FirstOf(Fun(w))].slots
        <5>1. FirstOf(Fun(w)) \in 1 .. Len(scopes)
          BY <2>5, <2>6
        <5> HIDE DEF Fun
        <5>2. QED
          BY <2>3, <4>1, <4>2, <5>1
      <4>4. ASSUME NEW c \in g.within[variables[w].name[1]],
                   Converted(c), g.fun[c] = Fun(w)
            PROVE  variables'[w].slot < scopes'[FirstOf(c)].slots
        <5>1. FirstOf(c) \in 1 .. Len(scopes)
          BY <2>5, <2>6
        <5>2. variables[w].slot < scopes[FirstOf(c)].slots
          BY <4>2, <4>4
        <5>3. QED
          BY <2>3, <4>1, <5>1, <5>2
      <4>5. QED
        BY <4>3, <4>4
    <3>3. QED
      BY <3>1, <3>2
  <2>10. ASSUME NEW w \in 1 .. Len(variables), variables'[w].slot # None,
                NEW x \in 1 .. Len(variables), variables'[w].slot = variables'[x].slot,
                Fun(w) = Fun(x)
         PROVE  variables[w].name = variables[x].name
    <3>1. \A y \in 1 .. Len(variables) :
            y # v /\ variables[y].slot # None /\ Fun(y) = a => variables[y].slot # scopes[f].slots
      <4>1. TAKE y \in 1 .. Len(variables)
      <4>2. variables[y].slot # None /\ Fun(y) = a => variables[y].slot < scopes[f].slots
        BY <2>1 DEF SlotFits
      <4>3. variables[y].slot # None => variables[y].slot \in Nat
        BY <2>1
      <4>4. ASSUME variables[y].slot # None, Fun(y) = a
            PROVE  variables[y].slot # scopes[f].slots
        <5> DEFINE p == variables[y].slot
                   q == scopes[f].slots
        <5>1. p \in Nat /\ q \in Nat /\ p < q
          BY <2>2, <4>2, <4>3, <4>4
        <5> HIDE DEF p, q
        <5>2. p # q
          BY <5>1
        <5>3. QED
          BY <5>2 DEF p, q
      <4>5. QED
        BY <4>4
    <3>2. Fun(v) = a
      OBVIOUS
    <3>3. CASE w = v /\ x = v
      BY <3>3
    <3>4. CASE w = v /\ x # v
      <4>1. variables[x].slot = scopes[f].slots /\ variables[x].slot # None
        BY <1>2, <2>2, <2>7, <2>10, <3>4
      <4>2. QED
        BY <2>10, <3>1, <3>2, <3>4, <4>1
    <3>5. CASE w # v /\ x = v
      <4>1. variables[w].slot = scopes[f].slots /\ variables[w].slot # None
        BY <1>2, <2>2, <2>7, <2>10, <3>5
      <4>2. QED
        BY <2>10, <3>1, <3>2, <3>5, <4>1
    <3>6. CASE w # v /\ x # v
      <4>1. variables[w].slot = variables[x].slot /\ variables[w].slot # None
        BY <1>2, <2>10, <3>6
      <4>2. OwnSlot(g, w)
        BY <2>1
      <4>3. QED
        BY <2>10, <4>1, <4>2 DEF OwnSlot
    <3>7. QED
      BY <3>3, <3>4, <3>5, <3>6
  <2>11. ASSUME NEW w \in 1 .. Len(variables)
         PROVE  SameSlot(w)' /\ SlotFits(g, w)' /\ OwnSlot(g, w)'
    <3>1. SameSlot(w)'
      BY <1>2, <2>8 DEF SameSlot
    <3>2. variables'[w].name = variables[w].name
      BY <1>2
    <3>3. SlotFits(g, w)'
      <4>1. SUFFICES ASSUME variables'[w].slot # None
                     PROVE  /\ variables'[w].slot <
                                 scopes'[FirstOf(g.fun[variables[w].name[1]])'].slots
                            /\ \A c \in g.within[variables'[w].name[1]] :
                                 Converted(c)' /\ g.fun[c] = g.fun[variables'[w].name[1]] =>
                                   variables'[w].slot < scopes'[FirstOf(c)'].slots
        BY DEF SlotFits
      <4>2. FirstOf(g.fun[variables[w].name[1]])' = FirstOf(Fun(w))
        BY <3>2 DEF FirstOf
      <4>3. \A c \in g.within[variables[w].name[1]] :
              Converted(c)' = Converted(c) /\ FirstOf(c)' = FirstOf(c)
        BY <1>3, <1>7, <2>6
      <4>4. QED
        BY <2>9, <3>2, <4>1, <4>2, <4>3
    <3>4. OwnSlot(g, w)'
      <4>1. SUFFICES ASSUME variables'[w].slot # None, NEW x \in 1 .. Len(variables),
                            variables'[w].slot = variables'[x].slot,
                            g.fun[variables'[w].name[1]] = g.fun[variables'[x].name[1]]
                     PROVE  variables'[w].name = variables'[x].name
        BY <1>2 DEF OwnSlot
      <4>2. variables'[x].name = variables[x].name
        BY <1>2
      <4>3. Fun(w) = Fun(x)
        BY <3>2, <4>1, <4>2
      <4>4. variables[w].name = variables[x].name
        BY <2>10, <4>1, <4>3
      <4>5. QED
        BY <3>2, <4>2, <4>4
    <3>5. QED
      BY <3>1, <3>3, <3>4
  <2>12. QED
    BY <1>2, <2>11, Zenon DEF SlotsOK
<1>13. QED
  BY <1>7, <1>8, <1>9, <1>10, <1>11, <1>12 DEF Static

-----------------------------------------------------------------------------
(* Converting the scopes of a loop.                                        *)

(* What the conversion of the loop c changes, whose variable is v.         *)
Converting(c, v, size) ==
  LET d == FirstOf(c)
  IN  /\ Len(variables') = Len(variables) + 1 /\ Len(scopes') = Len(scopes)
      /\ \A w \in 1 .. Len(variables) : variables'[w] = variables[w]
      /\ variables'[Len(variables) + 1] = variables[v]
      /\ \A t \in 1 .. Len(scopes) :
           /\ scopes'[t].parent = scopes[t].parent
           /\ t \notin {d, d + 1} => scopes'[t] = scopes[t]
      /\ scopes'[d].isVariableScope = TRUE /\ scopes'[d].slots = size
      /\ scopes'[d].bindings = scopes[d].bindings
      /\ scopes'[d + 1].isVariableScope = (variables[v].kind = "let")
      /\ variables[v].kind = "let" => scopes'[d + 1].slots = size
      /\ scopes'[d + 1].bindings = {Len(variables) + 1}

(* The size is that of the function's environment, and not 0.              *)
LEMMA SizeIs ==
  ASSUME NEW n \in Nat
  PROVE  Max({1, n}) \in Nat /\ Max({1, n}) >= n /\ Max({1, n}) > 0
<1>1. \E x \in {1, n} : \A y \in {1, n} : x >= y
  <2>1. CASE n >= 1
    BY <2>1
  <2>2. CASE ~ (n >= 1)
    BY <2>2
  <2>3. QED
    BY <2>1, <2>2
<1>2. Max({1, n}) = CHOOSE x \in {1, n} : \A y \in {1, n} : x >= y
  BY DEF Max
<1>3. Max({1, n}) \in {1, n} /\ \A y \in {1, n} : Max({1, n}) >= y
  BY <1>1, <1>2, Zenon
<1>4. QED
  BY <1>3

(* A scope that is changed keeps its parent.                               *)
LEMMA AsScopeIs ==
  ASSUME NEW s, scopes[s] \in ScopeRecord, NEW b \in BOOLEAN, NEW n \in Nat,
         NEW x \in SUBSET Nat
  PROVE  /\ AsScope(s, b, n, x) \in ScopeRecord
         /\ AsScope(s, b, n, x) = [parent |-> scopes[s].parent, isVariableScope |-> b,
                                   slots |-> n, bindings |-> x]
<1>1. PICK r : r = scopes[s].parent
  OBVIOUS
<1>2. r \in Nat
  BY <1>1 DEF ScopeRecord
<1>3. [parent |-> r, isVariableScope |-> b, slots |-> n, bindings |-> x] \in ScopeRecord
  BY <1>2 DEF ScopeRecord
<1>4. QED
  BY <1>1, <1>3 DEF AsScope

(* What the conversion of a loop does to its scopes.                       *)
LEMMA ConvertIs ==
  ASSUME NEW g, TypeOK, Static(g), NEW e, e.c \in Constructs, IsLoop(Kind(e)),
         Convert(e), NEW v, v = CHOOSE w \in scopes[First(e)].bindings : TRUE,
         variables[v].slot # None, NEW size,
         size = Max({1, scopes[EnclosingVariableScope(scopes[First(e)].parent)].slots}),
         size \in Nat
  PROVE  /\ v \in scopes[First(e)].bindings /\ v \in 1 .. Len(variables)
         /\ variables' \in Seq(VariableRecord) /\ scopes' \in Seq(ScopeRecord)
         /\ Converting(e.c, v, size)
<1>0. PICK d, l : d = First(e) /\ l = d + 1
  OBVIOUS
<1> DEFINE isLet == variables[v].kind = "let"
<1>1. /\ variables \in Seq(VariableRecord) /\ scopes \in Seq(ScopeRecord)
      /\ Len(variables) \in Nat /\ Len(scopes) \in Nat
  BY Typed DEF TypeOK, VariableRecord, ScopeRecord
<1>2. LayoutOK(g) /\ BindingsOK(g)
  BY DEF Static
<1>3. /\ d = FirstOf(e.c) /\ Kind(e) = KindOf(e.c) /\ DeclScope(e) = d /\ LoopScope(e) = l
      /\ d \in ScopesOf(e.c) /\ l \in ScopesOf(e.c)
  BY <1>0, PlacesInside DEF DeclScope, LoopScope, ScopesOf, First, FirstOf, Kind, KindOf
<1>4. d \in 1 .. Len(scopes) /\ l \in 1 .. Len(scopes) /\ d # l
  BY <1>0, <1>1, <1>2, <1>3 DEF LayoutOK
<1>5. v \in scopes[d].bindings /\ v \in 1 .. Len(variables)
  <2>1. scopes[d].bindings # {}
    BY <1>2, <1>3 DEF BindingsOK
  <2>2. v \in scopes[d].bindings
    BY <1>0, <2>1
  <2>3. QED
    BY <1>2, <1>3, <2>2 DEF BindingsOK
<1>6. variables[v] \in VariableRecord /\ scopes[d] \in ScopeRecord /\ scopes[l] \in ScopeRecord
  BY <1>1, <1>4, <1>5
<1>7. PICK bb, nn, x, y, z :
        /\ bb = isLet /\ nn = (IF isLet THEN size ELSE 0)
        /\ x = {Len(variables) + 1}
        /\ y = AsScope(d, TRUE, size, scopes[d].bindings)
        /\ z = AsScope(l, bb, nn, x)
  OBVIOUS
<1>8. /\ bb \in BOOLEAN /\ nn \in Nat /\ x \in SUBSET Nat
      /\ scopes[d].bindings \in SUBSET Nat
  <2>1. nn \in Nat /\ x \in SUBSET Nat
    BY <1>1, <1>7
  <2>2. scopes[d].bindings \in SUBSET Nat
    BY <1>6 DEF ScopeRecord
  <2>3. bb \in BOOLEAN
    BY <1>7, Zenon
  <2>4. QED
    BY <2>1, <2>2, <2>3
<1>9. variables' = Append(variables, variables[v])
      /\ scopes' = [scopes EXCEPT ![d] = y, ![l] = z]
  <2> DEFINE V == CHOOSE w \in scopes[DeclScope(e)].bindings : TRUE
             N == Max({1, scopes[EnclosingVariableScope(scopes[DeclScope(e)].parent)].slots})
             L == variables[V].kind = "let"
  <2>1. IF ~ (variables[V].slot # None) THEN UNCHANGED <<scopes, variables>>
        ELSE /\ variables' = Append(variables, variables[V])
             /\ scopes' = [scopes EXCEPT
                  ![DeclScope(e)] = AsScope(DeclScope(e), TRUE, N, scopes[DeclScope(e)].bindings),
                  ![LoopScope(e)] = AsScope(LoopScope(e), L, IF L THEN N ELSE 0,
                                            {Len(variables) + 1})]
    BY Zenon DEF Convert
  <2>2. V = v /\ N = size /\ DeclScope(e) = d /\ LoopScope(e) = l
    BY <1>0, <1>3
  <2> HIDE DEF V, N
  <2>3. AsScope(LoopScope(e), L, IF L THEN N ELSE 0, {Len(variables) + 1}) = z
    BY <1>7, <2>2
  <2>4. AsScope(DeclScope(e), TRUE, N, scopes[DeclScope(e)].bindings) = y
    BY <1>7, <2>2
  <2>5. QED
    BY <2>1, <2>2, <2>3, <2>4
<1>10. /\ variables' \in Seq(VariableRecord) /\ Len(variables') = Len(variables) + 1
       /\ \A w \in 1 .. Len(variables) : variables'[w] = variables[w]
       /\ variables'[Len(variables) + 1] = variables[v]
  BY <1>1, <1>6, <1>9, AppendProperties
<1>11. /\ scopes' \in Seq(ScopeRecord) /\ Len(scopes') = Len(scopes)
       /\ \A t \in 1 .. Len(scopes) : t \notin {d, l} => scopes'[t] = scopes[t]
       /\ scopes'[d] = [parent |-> scopes[d].parent, isVariableScope |-> TRUE,
                        slots |-> size, bindings |-> scopes[d].bindings]
       /\ scopes'[l] = [parent |-> scopes[l].parent, isVariableScope |-> bb, slots |-> nn,
                        bindings |-> x]
  <2>1. y \in ScopeRecord /\ y = [parent |-> scopes[d].parent, isVariableScope |-> TRUE,
                                  slots |-> size, bindings |-> scopes[d].bindings]
    BY <1>6, <1>7, <1>8, AsScopeIs, ZenonT(60)
  <2>2. z \in ScopeRecord /\ z = [parent |-> scopes[l].parent, isVariableScope |-> bb,
                                  slots |-> nn, bindings |-> x]
    <3>1. z = AsScope(l, bb, nn, x)
      BY <1>7
    <3>2. /\ AsScope(l, bb, nn, x) \in ScopeRecord
          /\ AsScope(l, bb, nn, x) = [parent |-> scopes[l].parent, isVariableScope |-> bb,
                                      slots |-> nn, bindings |-> x]
      BY <1>6, <1>8, AsScopeIs, Zenon
    <3>3. QED
      BY <3>1, <3>2
  <2>3. PICK r : r = [scopes EXCEPT ![d] = y, ![l] = z]
    OBVIOUS
  <2>4. /\ r \in Seq(ScopeRecord) /\ Len(r) = Len(scopes) /\ r[d] = y /\ r[l] = z
        /\ \A t \in 1 .. Len(scopes) : t \notin {d, l} => r[t] = scopes[t]
    <3>1. y \in ScopeRecord /\ z \in ScopeRecord /\ scopes \in Seq(ScopeRecord)
      BY <1>1, <2>1, <2>2
    <3>2. PICK q, p : q = scopes /\ p = [q EXCEPT ![d] = y]
      OBVIOUS
    <3>3. r = [q EXCEPT ![d] = y, ![l] = z]
      BY <2>3, <3>2
    <3>4. r = [p EXCEPT ![l] = z]
      BY <3>2, <3>3
    <3>5. q \in Seq(ScopeRecord) /\ d \in 1 .. Len(q) /\ l \in 1 .. Len(q)
      BY <1>4, <3>1, <3>2
    <3>6. p \in Seq(ScopeRecord) /\ Len(p) = Len(q)
      BY <3>1, <3>2, <3>5, ExceptSeq
    <3>7. r \in Seq(ScopeRecord) /\ Len(r) = Len(q)
      BY <3>1, <3>4, <3>5, <3>6, ExceptSeq
    <3>8. p[d] = y /\ \A t \in 1 .. Len(q) : t # d => p[t] = q[t]
      BY <3>2, <3>5
    <3>9. r[l] = z /\ \A t \in 1 .. Len(q) : t # l => r[t] = p[t]
      BY <3>4, <3>5, <3>6
    <3>10. QED
      BY <1>4, <3>2, <3>5, <3>7, <3>8, <3>9
  <2>5. scopes' = r
    BY <1>9, <2>3
  <2>6. QED
    BY <2>1, <2>2, <2>4, <2>5
<1>12. /\ scopes'[d].parent = scopes[d].parent /\ scopes'[d].isVariableScope = TRUE
       /\ scopes'[d].slots = size /\ scopes'[d].bindings = scopes[d].bindings
       /\ scopes'[l].parent = scopes[l].parent /\ scopes'[l].isVariableScope = bb
       /\ scopes'[l].slots = nn /\ scopes'[l].bindings = x
  BY <1>11
<1>13. Converting(e.c, v, size)
  <2>1. \A t \in 1 .. Len(scopes) :
           /\ scopes'[t].parent = scopes[t].parent
           /\ t \notin {d, d + 1} => scopes'[t] = scopes[t]
    BY <1>0, <1>11, <1>12
  <2>2. bb = (variables[v].kind = "let")
        /\ (variables[v].kind = "let" => nn = size)
    BY <1>7
  <2>3. QED
    BY <1>0, <1>3, <1>7, <1>10, <1>11, <1>12, <2>1, <2>2 DEF Converting
<1>14. QED
  BY <1>0, <1>5, <1>10, <1>11, <1>13

(* A converted loop has environments as large as its function's, and the   *)
(* copy has the slot of the variable.                                      *)
LEMMA ConvertStatic ==
  ASSUME NEW g, NEW c \in Constructs, NEW v \in 1 .. Len(variables), NEW size \in Nat,
         TypeOK, Static(g), UNCHANGED constructs, IsLoop(KindOf(c)), ~ Converted(c),
         v \in scopes[FirstOf(c)].bindings, variables[v].slot # None,
         Converting(c, v, size), size > 0, size >= scopes[FirstOf(g.fun[c])].slots
  PROVE  /\ Static(g)' /\ Converted(c)'
         /\ \A b \in Constructs : b # c => Converted(b)' = Converted(b)
<1>1. TreeOK(g) /\ LayoutOK(g) /\ BindingsOK(g) /\ VariableScopesOK /\ SlotsOK(g)
  BY DEF Static
<1>2. PICK d, n : d = FirstOf(c) /\ n = Len(variables) + 1
  OBVIOUS
<1>3. /\ Len(variables') = n /\ Len(scopes') = Len(scopes)
      /\ \A w \in 1 .. Len(variables) : variables'[w] = variables[w]
      /\ variables'[n] = variables[v]
      /\ \A t \in 1 .. Len(scopes) :
           /\ scopes'[t].parent = scopes[t].parent
           /\ t \notin {d, d + 1} => scopes'[t] = scopes[t]
      /\ scopes'[d].isVariableScope = TRUE /\ scopes'[d].slots = size
      /\ scopes'[d].bindings = scopes[d].bindings
      /\ scopes'[d + 1].isVariableScope = (variables[v].kind = "let")
      /\ variables[v].kind = "let" => scopes'[d + 1].slots = size
      /\ scopes'[d + 1].bindings = {n}
  BY <1>2 DEF Converting
<1>4. /\ Constructs' = Constructs
      /\ \A b : KindOf(b)' = KindOf(b) /\ FirstOf(b)' = FirstOf(b)
                /\ ScopesOf(b)' = ScopesOf(b)
      /\ \A b, t : NameIn(b, t)' = NameIn(b, t)
      /\ \A e : AroundOf(e)' = AroundOf(e)
  BY DEF Constructs, KindOf, FirstOf, ScopesOf, NameIn, AroundOf, Kind, LoopScope,
     ScopeOf, First, DeclScope
<1>5. \A b \in Constructs :
        /\ \A t \in ScopesOf(b) : t \in 1 .. Len(scopes) /\ g.owner[t] = b
        /\ FirstOf(b) \in ScopesOf(b) /\ FirstOf(b) \in Nat
        /\ IsLoop(KindOf(b)) => FirstOf(b) + 1 \in ScopesOf(b) /\ FirstOf(b) + 2 \in ScopesOf(b)
  <2>1. TAKE b \in Constructs
  <2>2. /\ \A t \in ScopesOf(b) : t \in 1 .. Len(scopes) /\ g.owner[t] = b
        /\ FirstOf(b) \in ScopesOf(b)
        /\ IsLoop(KindOf(b)) => FirstOf(b) + 1 \in ScopesOf(b) /\ FirstOf(b) + 2 \in ScopesOf(b)
    BY <1>1 DEF LayoutOK, ScopesOf
  <2>3. FirstOf(b) \in Nat
    BY <2>2
  <2>4. QED
    BY <2>2, <2>3
<1>6. /\ d \in ScopesOf(c) /\ d + 1 \in ScopesOf(c) /\ d + 2 \in ScopesOf(c) /\ d \in Nat
      /\ d # d + 1 /\ d + 2 # d + 1 /\ d + 2 # d
  BY <1>2, <1>5, SMTT(60)
<1>7. ASSUME NEW b \in Constructs, b # c, NEW t \in ScopesOf(b)
      PROVE  scopes'[t] = scopes[t]
  <2>1. t \in 1 .. Len(scopes) /\ g.owner[t] = b /\ g.owner[d] = c /\ g.owner[d + 1] = c
    BY <1>5, <1>6
  <2>2. t \notin {d, d + 1}
    BY <1>7, <2>1
  <2>3. QED
    BY <1>3, <2>1, <2>2
<1>8. scopes'[d + 2] = scopes[d + 2]
  <2>1. d + 2 \in 1 .. Len(scopes) /\ d + 2 \notin {d, d + 1}
    BY <1>5, <1>6
  <2>2. QED
    BY <1>3, <2>1
<1>9. Converted(c)'
  BY <1>2, <1>3, <1>4 DEF Converted
<1>10. \A b \in Constructs : b # c => Converted(b)' = Converted(b)
  <2>1. TAKE b \in Constructs
  <2>2. HAVE b # c
  <2>3. CASE IsLoop(KindOf(b))
    <3>1. scopes'[FirstOf(b) + 1] = scopes[FirstOf(b) + 1]
      BY <1>5, <1>7, <2>2, <2>3
    <3>2. QED
      BY <1>4, <2>3, <3>1 DEF Converted
  <2>4. CASE ~ IsLoop(KindOf(b))
    BY <1>4, <2>4 DEF Converted
  <2>5. QED
    BY <2>3, <2>4
<1>11. TreeOK(g)'
  BY <1>1 DEF TreeOK, Constructs, KindOf
<1>12. LayoutOK(g)'
  <2>1. ASSUME NEW b \in Constructs
        PROVE  /\ \A t \in ScopesOf(b) : t \in 1 .. Len(scopes) /\ g.owner[t] = b
               /\ scopes'[FirstOf(b)].parent = IF b = 1 THEN 0 ELSE AroundOf(g.at[b])
               /\ IsLoop(KindOf(b)) => /\ scopes'[FirstOf(b) + 1].parent = FirstOf(b)
                                       /\ scopes'[FirstOf(b) + 2].parent = FirstOf(b) + 1
    <3>1. /\ scopes[FirstOf(b)].parent = IF b = 1 THEN 0 ELSE AroundOf(g.at[b])
          /\ IsLoop(KindOf(b)) => /\ scopes[FirstOf(b) + 1].parent = FirstOf(b)
                                  /\ scopes[FirstOf(b) + 2].parent = FirstOf(b) + 1
      BY <1>1 DEF LayoutOK
    <3>2. QED
      BY <1>3, <1>5, <3>1
  <2>2. ASSUME NEW t \in 1 .. Len(scopes)
        PROVE  /\ g.owner[t] \in Constructs /\ t \in ScopesOf(g.owner[t])
               /\ scopes'[t].parent \in 0 .. t - 1
    BY <1>1, <1>3 DEF LayoutOK
  <2>3. QED
    BY <1>3, <1>4, <2>1, <2>2 DEF LayoutOK
(* What a variable was before: the copy was v.                             *)
<1>13. PICK u : u = [w \in 1 .. n |-> IF w = n THEN v ELSE w]
  OBVIOUS
<1>14. \A w \in 1 .. n : /\ u[w] \in 1 .. Len(variables)
                         /\ variables'[w] = variables[u[w]]
                         /\ w # n => u[w] = w
  <2>1. Len(variables) \in Nat
    BY Typed
  <2>2. TAKE w \in 1 .. n
  <2>3. CASE w = n
    BY <1>3, <1>13, <2>3
  <2>4. CASE w # n
    <3>1. u[w] = w /\ w \in 1 .. Len(variables)
      BY <1>2, <1>13, <2>1, <2>4
    <3>2. QED
      BY <1>3, <3>1
  <2>5. QED
    BY <2>3, <2>4
<1>15. \A w \in 1 .. Len(variables) : w \in 1 .. n
  <2>1. Len(variables) \in Nat
    BY Typed
  <2>2. QED
    BY <1>2, <2>1
<1>16. BindingsOK(g)'
  <2>1. ASSUME NEW b \in Constructs, NEW t \in ScopesOf(b), NEW w \in scopes'[t].bindings
        PROVE  w \in 1 .. n /\ variables'[w].name = NameIn(b, t)
    <3>1. \A x \in scopes[t].bindings :
            x \in 1 .. Len(variables) /\ variables[x].name = NameIn(b, t)
      BY <1>1 DEF BindingsOK
    <3>2. CASE w \in scopes[t].bindings
      BY <1>3, <1>15, <3>1, <3>2
    <3>3. CASE w \notin scopes[t].bindings
      <4>1. t = d + 1 /\ b = c
        <5>1. b = c
          BY <1>7, <3>3
        <5>2. t \in 1 .. Len(scopes)
          BY <1>5
        <5>3. t # d
          BY <1>3, <3>3
        <5>4. QED
          BY <1>3, <3>3, <5>1, <5>2, <5>3
      <4>2. w = n
        BY <1>3, <4>1
      <4>3. variables[v].name = NameIn(c, d)
        BY <1>1, <1>2, <1>6 DEF BindingsOK
      <4>4. NameIn(c, d) = NameIn(c, d + 1)
        BY <1>2, <1>6 DEF NameIn
      <4>5. n \in 1 .. n
        <5>1. Len(variables) \in Nat
          BY Typed
        <5>2. QED
          BY <1>2, <5>1
      <4>6. QED
        BY <1>3, <4>1, <4>2, <4>3, <4>4, <4>5
    <3>4. QED
      BY <3>2, <3>3
  <2>2. ASSUME NEW b \in Constructs
        PROVE  /\ scopes'[FirstOf(b)].bindings # {}
               /\ IsLoop(KindOf(b)) =>
                    /\ scopes'[FirstOf(b) + 2].bindings # {}
                    /\ \A w \in scopes'[FirstOf(b)].bindings :
                         variables'[w].kind = "let" <=> KindOf(b) # "const"
    <3>1. /\ \A w \in scopes[FirstOf(b)].bindings : w \in 1 .. Len(variables)
          /\ scopes[FirstOf(b)].bindings # {}
          /\ IsLoop(KindOf(b)) =>
               /\ scopes[FirstOf(b) + 2].bindings # {}
               /\ \A w \in scopes[FirstOf(b)].bindings :
                    variables[w].kind = "let" <=> KindOf(b) # "const"
      BY <1>1, <1>5 DEF BindingsOK
    <3>2. scopes'[FirstOf(b)].bindings = scopes[FirstOf(b)].bindings
      BY <1>2, <1>3, <1>5, <1>7
    <3>3. IsLoop(KindOf(b)) => scopes'[FirstOf(b) + 2].bindings = scopes[FirstOf(b) + 2].bindings
      BY <1>2, <1>5, <1>7, <1>8
    <3>4. scopes'[FirstOf(b)].bindings # {}
      BY <3>1, <3>2
    <3>5. ASSUME IsLoop(KindOf(b))
          PROVE  /\ scopes'[FirstOf(b) + 2].bindings # {}
                 /\ \A w \in scopes'[FirstOf(b)].bindings :
                      variables'[w].kind = "let" <=> KindOf(b) # "const"
      <4>1. scopes'[FirstOf(b) + 2].bindings # {}
        BY <3>1, <3>3, <3>5
      <4>2. ASSUME NEW w \in scopes'[FirstOf(b)].bindings
            PROVE  variables'[w].kind = "let" <=> KindOf(b) # "const"
        <5>1. w \in scopes[FirstOf(b)].bindings
          BY <3>2
        <5>2. variables'[w] = variables[w]
          BY <1>3, <3>1, <5>1
        <5>3. variables[w].kind = "let" <=> KindOf(b) # "const"
          BY <3>1, <3>5, <5>1
        <5>4. QED
          BY <5>2, <5>3
      <4>3. QED
        BY <4>1, <4>2
    <3>6. QED
      BY <3>4, <3>5
  <2>3. ASSUME NEW w \in 1 .. n
        PROVE  /\ variables'[w].name[1] \in Constructs
               /\ variables'[w].name[2] = "head" => IsLoop(KindOf(variables[u[w]].name[1]))'
    <3>1. /\ variables[u[w]].name[1] \in Constructs
          /\ variables[u[w]].name[2] = "head" => IsLoop(KindOf(variables[u[w]].name[1]))
      BY <1>1, <1>14 DEF BindingsOK
    <3>2. variables'[w] = variables[u[w]] /\ variables'[u[w]] = variables[u[w]]
      BY <1>3, <1>14
    <3>3. QED
      BY <3>1, <3>2 DEF KindOf, IsLoop
  <2>4. ASSUME NEW w \in 1 .. n
        PROVE  IsLoop(KindOf(variables[u[w]].name[1]))' = IsLoop(KindOf(variables[w].name[1]))'
    <3>1. variables'[w] = variables'[u[w]]
      BY <1>3, <1>14
    <3>2. QED
      BY <3>1 DEF KindOf, IsLoop
  <2>5. QED
    BY <1>3, <1>4, <2>1, <2>2, <2>3, <2>4, SMTT(60) DEF BindingsOK
<1>17. VariableScopesOK'
  <2>1. ASSUME NEW b \in Constructs, ~ IsLoop(KindOf(b))
        PROVE  scopes'[FirstOf(b)].isVariableScope = (KindOf(b) = "function")
    <3>1. scopes'[FirstOf(b)] = scopes[FirstOf(b)]
      BY <1>5, <1>7, <2>1
    <3>2. QED
      BY <1>1, <2>1, <3>1 DEF VariableScopesOK
  <2>2. ASSUME NEW b \in Constructs, IsLoop(KindOf(b))
        PROVE  LET s == FirstOf(b)
               IN  /\ ~ scopes'[s + 2].isVariableScope
                   /\ scopes'[s].isVariableScope = Converted(b)'
                   /\ scopes'[s + 1].isVariableScope = (Converted(b)' /\ KindOf(b) # "const")
                   /\ Converted(b)' => scopes'[s].slots > 0
                   /\ scopes'[s + 1].isVariableScope =>
                        scopes'[s + 1].slots = scopes'[s].slots
    <3> DEFINE s == FirstOf(b)
    <3>1. /\ ~ scopes[s + 2].isVariableScope
          /\ scopes[s].isVariableScope = Converted(b)
          /\ scopes[s + 1].isVariableScope = (Converted(b) /\ KindOf(b) # "const")
          /\ Converted(b) => scopes[s].slots > 0
          /\ scopes[s + 1].isVariableScope => scopes[s + 1].slots = scopes[s].slots
      BY <1>1, <2>2 DEF VariableScopesOK
    <3>2. CASE b # c
      <4>1. /\ scopes'[s] = scopes[s] /\ scopes'[s + 1] = scopes[s + 1]
            /\ scopes'[s + 2] = scopes[s + 2] /\ Converted(b)' = Converted(b)
        BY <1>5, <1>7, <1>10, <2>2, <3>2
      <4>2. QED
        BY <3>1, <4>1
    <3>3. CASE b = c
      <4>1. s = d
        BY <1>2, <3>3
      <4>2. variables[v].kind = "let" <=> KindOf(c) # "const"
        BY <1>1 DEF BindingsOK
      <4>3. (variables[v].kind = "let") = (KindOf(c) # "const")
        BY <4>2, Zenon
      <4>4. ~ scopes'[d + 2].isVariableScope
        BY <1>8, <3>1, <4>1
      <4>5. scopes'[d + 1].isVariableScope = (KindOf(c) # "const")
        BY <1>3, <4>3
      <4>6. scopes'[d].slots > 0
        BY <1>3
      <4>7. scopes'[d + 1].isVariableScope => scopes'[d + 1].slots = scopes'[d].slots
        BY <1>3
      <4>8. Converted(b)' = TRUE /\ scopes'[d].isVariableScope = TRUE
        <5>1. Converted(b)' /\ (Converted(b)' \in BOOLEAN)
          BY <1>9, <3>3 DEF Converted
        <5>2. QED
          BY <1>3, <5>1, Zenon
      <4> HIDE DEF s
      <4>9. QED
        BY <3>3, <4>1, <4>4, <4>5, <4>6, <4>7, <4>8, Zenon DEF s
    <3>4. QED
      BY <3>2, <3>3
  <2>3. QED
    BY <1>4, <2>1, <2>2, Zenon DEF VariableScopesOK
<1>18. SlotsOK(g)'
  <2>1. \A w \in 1 .. Len(variables) :
          /\ variables[w].slot \in Nat \cup {None} /\ variables[w].name[1] \in Constructs
          /\ SameSlot(w) /\ SlotFits(g, w) /\ OwnSlot(g, w)
    BY <1>1, Typed DEF SlotsOK, BindingsOK
  <2>2. /\ \A b \in Constructs : g.fun[b] \in Constructs /\ KindOf(g.fun[b]) = "function"
        /\ \A b \in Constructs : g.within[b] \subseteq Constructs
    <3>1. \A b \in Constructs : /\ g.fun[b] \in Constructs /\ KindOf(g.fun[b]) = "function"
                                /\ g.within[b] \subseteq 1 .. b
      BY <1>1 DEF TreeOK
    <3>2. Len(constructs) \in Nat
      BY Typed
    <3>3. \A b \in Constructs : 1 .. b \subseteq Constructs
      BY <3>2 DEF Constructs
    <3>4. QED
      BY <3>1, <3>3
  <2>3. \A b \in Constructs : KindOf(b) = "function" => scopes'[FirstOf(b)] = scopes[FirstOf(b)]
    <3>1. KindOf(c) # "function"
      BY DEF IsLoop
    <3>2. QED
      BY <1>5, <1>7, <3>1
  <2>4. ASSUME NEW w \in 1 .. n
        PROVE  SameSlot(w)'
    <3>1. SUFFICES ASSUME NEW x \in 1 .. n, w # x, variables'[w].name = variables'[x].name
                   PROVE  variables'[w].slot = variables'[x].slot /\ variables'[w].slot # None
      BY <1>3 DEF SameSlot
    <3>2. /\ variables'[w] = variables[u[w]] /\ variables'[x] = variables[u[x]]
          /\ u[w] \in 1 .. Len(variables) /\ u[x] \in 1 .. Len(variables)
      BY <1>14
    <3>3. CASE u[w] # u[x]
      <4>1. SameSlot(u[w])
        BY <2>1, <3>2
      <4>2. variables[u[w]].name = variables[u[x]].name
        BY <3>1, <3>2
      <4>3. variables[u[w]].slot = variables[u[x]].slot /\ variables[u[w]].slot # None
        BY <3>2, <3>3, <4>1, <4>2 DEF SameSlot
      <4>4. QED
        BY <3>2, <4>3
    <3>4. CASE u[w] = u[x]
      <4>1. w = n \/ x = n
        BY <1>14, <3>1, <3>4
      <4>2. u[w] = v
        BY <1>13, <3>4, <4>1
      <4>3. QED
        BY <3>2, <3>4, <4>2
    <3>5. QED
      BY <3>3, <3>4
  <2>5. ASSUME NEW w \in 1 .. n
        PROVE  SlotFits(g, w)'
    <3>1. PICK a : a = variables[u[w]].name[1]
      OBVIOUS
    <3>2. PICK j : j = variables[u[w]].slot
      OBVIOUS
    <3>3. u[w] \in 1 .. Len(variables) /\ variables'[w].name[1] = a /\ variables'[w].slot = j
      BY <1>14, <3>1, <3>2
    <3>4. SUFFICES ASSUME j # None
                   PROVE  /\ j < scopes'[FirstOf(g.fun[a])'].slots
                          /\ \A b \in g.within[a] :
                               Converted(b)' /\ g.fun[b] = g.fun[a] =>
                                 j < scopes'[FirstOf(b)'].slots
      BY <3>3 DEF SlotFits, FirstOf
    <3>5. /\ j \in Nat /\ a \in Constructs /\ j < scopes[FirstOf(g.fun[a])].slots
          /\ \A b \in g.within[a] : Converted(b) /\ g.fun[b] = g.fun[a] =>
                                      j < scopes[FirstOf(b)].slots
      BY <2>1, <3>1, <3>2, <3>3, <3>4 DEF SlotFits
    <3>6. FirstOf(g.fun[a])' = FirstOf(g.fun[a])
      BY DEF FirstOf
    <3>7. scopes'[FirstOf(g.fun[a])] = scopes[FirstOf(g.fun[a])]
      BY <2>2, <2>3, <3>5
    <3>8. ASSUME NEW b \in g.within[a], Converted(b)', g.fun[b] = g.fun[a]
          PROVE  j < scopes'[FirstOf(b)].slots
      <4>1. b \in Constructs
        BY <2>2, <3>5
      <4>2. CASE b # c
        <5>1. Converted(b) /\ scopes'[FirstOf(b)] = scopes[FirstOf(b)]
          BY <1>5, <1>7, <1>10, <3>8, <4>1, <4>2
        <5>2. QED
          BY <3>5, <3>8, <5>1
      <4>3. CASE b = c
        <5>1. scopes'[FirstOf(b)].slots = size
          BY <1>2, <1>3, <4>3
        <5>2. PICK m \in Nat : m = scopes[FirstOf(g.fun[a])].slots
          <6>1. FirstOf(g.fun[a]) \in 1 .. Len(scopes)
            BY <1>5, <2>2, <3>5
          <6>2. QED
            BY <6>1, Typed
        <5>3. j < m /\ size >= m
          BY <3>5, <3>8, <4>3, <5>2
        <5>4. j < size
          BY <3>5, <5>2, <5>3
        <5>5. QED
          BY <5>1, <5>4
      <4>4. QED
        BY <4>2, <4>3
    <3>9. \A b \in g.within[a] : FirstOf(b)' = FirstOf(b)
      BY <1>4
    <3>10. QED
      BY <3>5, <3>6, <3>7, <3>8, <3>9
  <2>6. ASSUME NEW w \in 1 .. n
        PROVE  OwnSlot(g, w)'
    <3>1. SUFFICES ASSUME NEW x \in 1 .. n, variables'[w].slot # None,
                          variables'[w].slot = variables'[x].slot,
                          g.fun[variables'[w].name[1]] = g.fun[variables'[x].name[1]]
                   PROVE  variables'[w].name = variables'[x].name
      BY <1>3 DEF OwnSlot
    <3>2. /\ variables'[w] = variables[u[w]] /\ variables'[x] = variables[u[x]]
          /\ u[w] \in 1 .. Len(variables) /\ u[x] \in 1 .. Len(variables)
      BY <1>14
    <3>3. OwnSlot(g, u[w])
      BY <2>1, <3>2
    <3>4. QED
      BY <3>1, <3>2, <3>3 DEF OwnSlot
  <2>7. QED
    BY <1>3, <2>4, <2>5, <2>6, Zenon DEF SlotsOK
<1>19. QED
  BY <1>9, <1>10, <1>11, <1>12, <1>16, <1>17, <1>18 DEF Static

-----------------------------------------------------------------------------
(* Resolving.                                                              *)

(* The variables of the open and of the converted loops may have slots.    *)
HeadsDone(p) ==
  \A v \in 1 .. Len(variables) :
    variables[v].name[2] = "head" /\ variables[v].slot # None =>
      \/ Converted(variables[v].name[1])
      \/ OnPath(p, variables[v].name[1])

(* A loop that is converted is not entered again.                          *)
NotAgain(g, m) ==
  \A c \in Constructs :
    Converted(c) => \A i \in m .. Len(events) : ~ OnPath(g.walk[i], c)

(* What holds while the references are resolved.                           *)
LEMMA Resolving ==
  ASSUME NEW g, TypeOK, ScopesOK(g), phase = "resolve"
  PROVE  /\ pos \in 1 .. Len(events) /\ path = g.walk[pos - 1] /\ accesses = {}
         /\ g.walk[Len(events)] = <<>> /\ CapturedUpTo(g, pos - 1)
         /\ HeadsDone(path) /\ NotAgain(g, pos - 1)
         /\ Program(g) /\ Static(g) /\ ProgramOK(g) /\ TreeOK(g) /\ LayoutOK(g)
         /\ \A k \in 1 .. Len(path) : ~ Converted(path[k].c)
<1>1. PhaseOK(g) /\ Static(g) /\ ProgramOK(g)
  BY DEF ScopesOK, Static
<1>2. /\ pos \in 1 .. Len(events) /\ path = g.walk[pos - 1] /\ accesses = {}
      /\ g.walk[Len(events)] = <<>> /\ CapturedUpTo(g, pos - 1)
      /\ HeadsDone(path) /\ NotAgain(g, pos - 1)
  BY <1>1 DEF PhaseOK, HeadsDone, NotAgain
<1>3. pos - 1 \in 0 .. Len(events) /\ pos - 1 \in pos - 1 .. Len(events)
  BY <1>2, Typed
<1>4. PathOK(g, path)
  BY <1>1, <1>2, <1>3 DEF ProgramOK
<1>5. \A k \in 1 .. Len(path) : ~ Converted(path[k].c)
  <2>1. TAKE k \in 1 .. Len(path)
  <2>2. path[k].c \in Constructs /\ OnPath(path, path[k].c)
    BY <1>4 DEF PathOK, OnPath
  <2>3. QED
    BY <1>2, <1>3, <2>2 DEF NotAgain
<1>6. QED
  BY <1>1, <1>2, <1>4, <1>5 DEF Static, Program

(* The invariant after an event was resolved.                              *)
LEMMA ResolveDone ==
  ASSUME NEW g, NEW k, TypeOK, ScopesOK(g), phase = "resolve", k = pos,
         Walk, UNCHANGED accesses,
         variables' \in Seq(VariableRecord), scopes' \in Seq(ScopeRecord),
         Static(g)', CapturedUpTo(g, k)', NotAgain(g, k)', HeadsDone(g.walk[k])'
  PROVE  TypeOK' /\ \E h : ScopesOK(h)'
<1>1. /\ pos \in 1 .. Len(events) /\ path = g.walk[pos - 1] /\ accesses = {}
      /\ g.walk[Len(events)] = <<>> /\ ProgramOK(g)
  BY Resolving
<1>2. /\ UNCHANGED <<events, constructs>>
      /\ pos' \in 1 .. Len(events) /\ path' \in Seq(Element)
      /\ path' = g.walk[pos] /\ path' = g.walk[pos' - 1]
      /\ pos < Len(events) => phase' = phase /\ pos' = pos + 1
      /\ pos = Len(events) =>
           path' = <<>> /\ phase' = IF phase = "resolve" THEN "compile" ELSE "done"
  BY <1>1, WalkNext
<1>3. Len(events) \in Nat /\ k \in Nat
  BY <1>1, Typed
<1>4. phase' \in {"resolve", "compile"} /\ pos' \in Nat
  BY <1>1, <1>2, <1>3
<1>5. TypeOK'
  <2>1. /\ variables' \in Seq([name : Nat \X {"head", "body"},
                               kind : {"let", "const"}, slot : Nat \cup {None}])
        /\ scopes' \in Seq([parent : Nat, isVariableScope : BOOLEAN, slots : Nat,
                            bindings : SUBSET Nat])
    BY DEF VariableRecord, ScopeRecord
  <2>2. /\ constructs' \in Seq([kind : {"function", "block", "let", "const", "of"},
                                scope : Nat])
        /\ events' \in Seq([op : {"open", "part", "close"}, e : Element]
                            \cup [op : {"name"}, name : Nat \X {"head", "body"}])
    BY <1>2 DEF TypeOK
  <2>3. phase' \in {"parse", "resolve", "compile", "done"}
    BY <1>4
  <2>4. QED
    BY <1>2, <1>4, <2>1, <2>2, <2>3 DEF TypeOK
<1>6. ProgramOK(g)'
  BY <1>1, <1>2, ProgramStays
<1>7. PhaseOK(g)'
  <2>1. /\ pos' \in 1 .. Len(events') /\ path' = g.walk[pos' - 1] /\ accesses' = {}
        /\ g.walk[Len(events')] = <<>>
    BY <1>1, <1>2
  <2>2. CASE pos < Len(events)
    <3>1. phase' = "resolve" /\ pos' - 1 = k /\ path' = g.walk[k]
      BY <1>2, <1>3, <2>2
    <3>2. CapturedUpTo(g, pos - 1)'
      BY <3>1 DEF CapturedUpTo
    <3>3. (\A c \in Constructs : Converted(c) =>
             \A i \in pos - 1 .. Len(events) : ~ OnPath(g.walk[i], c))'
      BY <3>1 DEF NotAgain
    <3>4. (\A v \in 1 .. Len(variables) :
             variables[v].name[2] = "head" /\ variables[v].slot # None =>
               \/ Converted(variables[v].name[1])
               \/ OnPath(path, variables[v].name[1]))'
      BY <3>1 DEF HeadsDone, OnPath
    <3>5. QED
      BY <2>1, <3>1, <3>2, <3>3, <3>4, Zenon DEF PhaseOK
  <2>3. CASE pos = Len(events)
    <3>1. phase' = "compile" /\ k = Len(events') /\ g.walk[k] = <<>>
      BY <1>1, <1>2, <2>3
    <3>2. CapturedUpTo(g, Len(events))'
      BY <3>1 DEF CapturedUpTo
    <3>3. (\A v \in 1 .. Len(variables) :
             variables[v].name[2] = "head" /\ variables[v].slot # None =>
               Converted(variables[v].name[1]))'
      <4>1. \A c : ~ OnPath(g.walk[k], c)
        BY <3>1 DEF OnPath
      <4>2. \A c : ~ OnPath(g.walk[k], c)'
        BY <4>1 DEF OnPath
      <4>3. QED
        BY <4>2 DEF HeadsDone
    <3>4. (\A a \in accesses : AccessOK(g, a))'
      BY <2>1
    <3>5. phase' # "parse" /\ phase' # "resolve"
      BY <3>1
    <3>6. QED
      BY <2>1, <3>2, <3>3, <3>4, <3>5 DEF PhaseOK
  <2>4. QED
    BY <1>1, <1>3, <2>2, <2>3
<1>8. ScopesOK(g)'
  BY <1>6, <1>7 DEF Static, ScopesOK
<1>9. QED
  BY <1>5, <1>8

(* What does not change stays right.                                       *)
LEMMA StaticSame ==
  ASSUME NEW g, Static(g), UNCHANGED <<constructs, scopes, variables>>
  PROVE  Static(g)' /\ \A c \in Constructs : Converted(c)' = Converted(c)
<1>1. PICK h : h = Ghosts(g, g.walk)
  OBVIOUS
<1>2. h.at = g.at /\ h.fun = g.fun /\ h.within = g.within /\ h.owner = g.owner
  BY <1>1 DEF Ghosts
<1>3. Static(h)'
  <2>1. Static(Ghosts(g, g.walk))'
    BY StaticStays
  <2>2. QED
    BY <1>1, <2>1
<1>4. (TreeOK(g) /\ LayoutOK(g))'
  BY <1>2, <1>3 DEF Static, TreeOK, LayoutOK
<1>5. (BindingsOK(g) /\ VariableScopesOK)'
  BY <1>3 DEF Static, BindingsOK
<1>6. SlotsOK(g)'
  <2>1. SlotsOK(h)'
    BY <1>3 DEF Static
  <2>2. ASSUME NEW v \in 1 .. Len(variables')
        PROVE  (SameSlot(v) /\ SlotFits(g, v) /\ OwnSlot(g, v))'
    <3>1. SameSlot(v)' /\ SlotFits(h, v)' /\ OwnSlot(h, v)'
      BY <2>1 DEF SlotsOK
    <3>2. SlotFits(g, v)'
      BY <1>2, <3>1 DEF SlotFits
    <3>3. OwnSlot(g, v)'
      BY <1>2, <3>1 DEF OwnSlot
    <3>4. QED
      BY <3>1, <3>2, <3>3
  <2>3. QED
    BY <2>2, Zenon DEF SlotsOK
<1>7. \A c \in Constructs : Converted(c)' = Converted(c)
  BY DEF Converted, KindOf, FirstOf
<1>8. QED
  BY <1>4, <1>5, <1>6, <1>7 DEF Static

(* A name that is used is found in a construct of the path, and the        *)
(* variable scope around its variable is that of the function there.       *)
LEMMA Resolved ==
  ASSUME NEW g, TypeOK, ScopesOK(g), phase = "resolve", Event.op = "name",
         NEW name, name = Event.name, NEW res, res = Find(Here, name)
  PROVE  /\ res.variable \in 1 .. Len(variables)
         /\ variables[res.variable].name = name
         /\ name[1] \in Constructs /\ OnPath(path, name[1])
         /\ EnclosingVariableScope(res.scope) = FirstOf(g.fun[name[1]])
         /\ FirstOf(g.fun[name[1]]) \in 1 .. Len(scopes)
         /\ \A c \in g.within[name[1]] : ~ Converted(c)
         /\ Crosses(path, name) => res.level # 0
<1>1. /\ pos \in 1 .. Len(events) /\ path = g.walk[pos - 1]
      /\ Program(g) /\ Static(g) /\ ProgramOK(g) /\ TreeOK(g) /\ LayoutOK(g)
      /\ \A k \in 1 .. Len(path) : ~ Converted(path[k].c)
  BY Resolving
<1>2. VisibleAt(path, name)
  BY <1>1 DEF ProgramOK, Event
<1>3. PICK d \in 1 .. Len(path) : Shows(path[d], name)
  BY <1>2 DEF VisibleAt
<1>4. /\ BindingsOK(g) /\ VariableScopesOK /\ PathOK(g, path)
  BY <1>1 DEF Program
<1>5. path[d].c = name[1] /\ name[1] \in Constructs /\ OnPath(path, name[1])
  <2>1. path[d].c = name[1]
    BY <1>3 DEF Shows
  <2>2. QED
    BY <1>4, <2>1 DEF PathOK, OnPath
<1>6. /\ res \in Result /\ res.scope \in ScopesOf(name[1])
      /\ res.variable \in Named(res.scope, name)
      /\ Between(d, Len(path)) => res.level > 0
  BY <1>1, <1>3, FindHere
<1>7. /\ res.variable \in 1 .. Len(variables) /\ variables[res.variable].name = name
  BY <1>4, <1>5, <1>6 DEF Named, BindingsOK
<1>8. EnclosingVariableScope(res.scope) = FirstOf(g.fun[name[1]])
  BY <1>1, <1>4, <1>5, <1>6, EnclosingOnPath
<1>9. FirstOf(g.fun[name[1]]) \in 1 .. Len(scopes)
  <2>1. g.fun[name[1]] \in Constructs
    BY <1>1, <1>5 DEF TreeOK
  <2>2. FirstOf(g.fun[name[1]]) \in ScopesOf(g.fun[name[1]])
    BY DEF ScopesOf
  <2>3. QED
    BY <1>1, <2>1, <2>2 DEF LayoutOK
<1>10. \A c \in g.within[name[1]] : ~ Converted(c)
  <2>1. g.within[name[1]] = {path[i].c : i \in 1 .. d}
    <3>1. \A k \in 1 .. Len(path) : g.within[path[k].c] = {path[i].c : i \in 1 .. k}
      <4>1. PathOK(g, path) /\ TreeOK(g)
        BY <1>1, <1>4
      <4>2. \A m \in 1 .. Len(path) : g.within[path[m].c] = {path[i].c : i \in 1 .. m}
        BY <4>1, PathWithin
      <4>3. QED
        BY <4>2
    <3>2. g.within[path[d].c] = {path[i].c : i \in 1 .. d}
      BY <3>1, Zenon
    <3>3. QED
      BY <1>5, <3>2
  <2>2. Len(path) \in Nat /\ \A i \in 1 .. d : i \in 1 .. Len(path)
    BY Typed
  <2>3. QED
    BY <1>1, <2>1, <2>2
<1>11. ASSUME Crosses(path, name)
       PROVE  res.level # 0
  <2>1. PICK x \in 1 .. Len(path), k \in 1 .. Len(path) :
          path[x].c = name[1] /\ x < k /\ Kind(path[k]) = "function"
    BY <1>11 DEF Crosses
  <2>2. x = d
    BY <1>1, <1>4, <1>5, <2>1, PathApart
  <2>3. k \in d + 1 .. Len(path)
    BY <2>1, <2>2, Typed
  <2>4. Between(d, Len(path))
    BY <2>1, <2>3 DEF Between
  <2>5. res.level > 0
    BY <1>6, <2>4
  <2>6. QED
    BY <2>5
<1>12. QED
  BY <1>5, <1>7, <1>8, <1>9, <1>10, <1>11

(* Resolve, whether a slot is given or not.                                *)
LEMMA NameResolved ==
  ASSUME NEW g, TypeOK, ScopesOK(g), phase = "resolve", Event.op = "name",
         NEW name, name = Event.name, NEW v \in 1 .. Len(variables),
         variables[v].name = name, Walk, UNCHANGED accesses,
         variables' \in Seq(VariableRecord), scopes' \in Seq(ScopeRecord), Static(g)',
         \A c \in Constructs : Converted(c)' = Converted(c),
         Len(variables') = Len(variables),
         \A w \in 1 .. Len(variables) :
           /\ variables'[w].name = variables[w].name
           /\ w # v => variables'[w].slot = variables[w].slot
           /\ variables[w].slot # None => variables'[w].slot # None,
         Crosses(path, name) => variables'[v].slot # None,
         OnPath(path, name[1])
  PROVE  TypeOK' /\ \E h : ScopesOK(h)'
<1>1. /\ pos \in 1 .. Len(events) /\ path = g.walk[pos - 1]
      /\ CapturedUpTo(g, pos - 1) /\ HeadsDone(path) /\ NotAgain(g, pos - 1)
      /\ Static(g) /\ ProgramOK(g)
  BY Resolving
<1>2. PICK k \in Nat : k = pos
  BY DEF TypeOK
<1>3. events' = events /\ constructs' = constructs
  BY DEF Walk
<1>4. Len(events) \in Nat /\ k \in 1 .. Len(events)
  BY <1>1, <1>2, Typed
<1>5. g.walk[k] = path
  BY <1>1, <1>2 DEF ProgramOK, Walked, Event
<1>6. \A p, nm : Crosses(p, nm)' = Crosses(p, nm)
  BY <1>3 DEF Crosses, Kind
<1>7. \A p, c : OnPath(p, c)' = OnPath(p, c)
  BY DEF OnPath
<1>8. SlotsOK(g)'
  BY DEF Static
<1>9. CapturedUpTo(g, k)'
  <2>1. ASSUME NEW i \in 1 .. k, events[i].op = "name",
               Crosses(g.walk[i - 1], events[i].name),
               NEW w \in 1 .. Len(variables), variables[w].name = events[i].name
        PROVE  variables'[w].slot # None
    <3>1. CASE i = k
      <4>1. variables[w].name = name /\ g.walk[i - 1] = path /\ events[i].name = name
        BY <1>1, <1>2, <2>1, <3>1 DEF Event
      <4>2. variables'[v].slot # None
        BY <2>1, <4>1
      <4>3. CASE w = v
        BY <4>2, <4>3
      <4>4. CASE w # v
        <5>1. SameSlot(v)'
          BY <1>8 DEF SlotsOK
        <5>2. variables'[v].name = variables'[w].name
          BY <4>1
        <5>3. QED
          BY <4>4, <5>1, <5>2 DEF SameSlot
      <4>5. QED
        BY <4>3, <4>4
    <3>2. CASE i # k
      <4>1. i \in 1 .. pos - 1
        BY <1>2, <3>2
      <4>2. variables[w].slot # None
        BY <1>1, <2>1, <4>1 DEF CapturedUpTo
      <4>3. QED
        BY <4>2
    <3>3. QED
      BY <3>1, <3>2
  <2>2. QED
    BY <1>3, <1>6, <2>1 DEF CapturedUpTo
<1>10. NotAgain(g, k)'
  <2>1. \A i \in k .. Len(events) : i \in pos - 1 .. Len(events)
    BY <1>2, <1>4
  <2>2. \A c \in Constructs : Converted(c) =>
          \A i \in k .. Len(events) : ~ OnPath(g.walk[i], c)
    BY <1>1, <2>1 DEF NotAgain
  <2>3. Constructs' = Constructs
    BY <1>3 DEF Constructs
  <2>4. QED
    BY <1>3, <1>7, <2>2, <2>3 DEF NotAgain
<1>11. HeadsDone(g.walk[k])'
  <2>1. ASSUME NEW w \in 1 .. Len(variables'), variables'[w].name[2] = "head",
               variables'[w].slot # None
        PROVE  (Converted(variables[w].name[1]) \/ OnPath(path, variables[w].name[1]))
    <3>1. CASE w = v
      BY <3>1
    <3>2. CASE w # v
      BY <1>1, <2>1, <3>2 DEF HeadsDone
    <3>3. QED
      BY <3>1, <3>2
  <2>2. ASSUME NEW w \in 1 .. Len(variables'), variables'[w].name[2] = "head",
               variables'[w].slot # None
        PROVE  (Converted(variables[w].name[1]) \/ OnPath(g.walk[k], variables[w].name[1]))'
    <3>1. PICK c : c = variables[w].name[1]
      OBVIOUS
    <3>2. c \in Constructs
      <4>1. BindingsOK(g)
        BY <1>1 DEF Static
      <4>2. QED
        BY <3>1, <4>1 DEF BindingsOK
    <3>3. variables'[w].name = variables[w].name
      OBVIOUS
    <3>4. Converted(c) \/ OnPath(path, c)
      BY <2>1, <2>2, <3>1
    <3>5. Converted(c)' \/ OnPath(g.walk[k], c)'
      BY <1>5, <1>7, <3>2, <3>4
    <3>6. Converted(variables[w].name[1])' = Converted(c)'
      BY <3>1, <3>3 DEF Converted, FirstOf, KindOf
    <3>7. OnPath(g.walk[k], variables[w].name[1])' = OnPath(g.walk[k], c)'
      BY <3>1, <3>3 DEF OnPath
    <3>8. QED
      BY <3>5, <3>6, <3>7
  <2>3. QED
    BY <2>2 DEF HeadsDone
<1>12. QED
  BY <1>2, <1>9, <1>10, <1>11, ResolveDone

(* Resolve keeps the invariant.                                            *)
LEMMA ResolveStep ==
  ASSUME NEW g, TypeOK, ScopesOK(g), Resolve
  PROVE  TypeOK' /\ \E h : ScopesOK(h)'
<1>1. PICK name, res, f : /\ name = Event.name /\ res = Find(Here, name)
                          /\ f = EnclosingVariableScope(res.scope)
  OBVIOUS
<1>2. /\ phase = "resolve" /\ Event.op = "name"
      /\ IF res.level = 0 \/ variables[res.variable].slot # None
         THEN UNCHANGED <<scopes, variables>>
         ELSE /\ variables' = [variables EXCEPT ![res.variable].slot = scopes[f].slots]
              /\ scopes' = [scopes EXCEPT ![f].slots = @ + 1]
      /\ Walk /\ UNCHANGED accesses
  BY <1>1, Zenon DEF Resolve
<1>3. /\ res.variable \in 1 .. Len(variables)
      /\ variables[res.variable].name = name
      /\ name[1] \in Constructs /\ OnPath(path, name[1])
      /\ f = FirstOf(g.fun[name[1]]) /\ f \in 1 .. Len(scopes)
      /\ \A c \in g.within[name[1]] : ~ Converted(c)
      /\ Crosses(path, name) => res.level # 0
  BY <1>1, <1>2, Resolved
<1>4. Static(g)
  BY <1>2, Resolving
<1>5. PICK v \in 1 .. Len(variables) : v = res.variable
  BY <1>3
<1>6. constructs' = constructs
  BY <1>2 DEF Walk
<1>7. CASE res.level = 0 \/ variables[v].slot # None
  <2>1. UNCHANGED <<scopes, variables>>
    BY <1>2, <1>5, <1>7
  <2>2. Static(g)' /\ \A c \in Constructs : Converted(c)' = Converted(c)
    BY <1>4, <1>6, <2>1, StaticSame
  <2>3. variables' \in Seq(VariableRecord) /\ scopes' \in Seq(ScopeRecord)
    BY <2>1 DEF TypeOK, VariableRecord, ScopeRecord
  <2>4. Crosses(path, name) => variables'[v].slot # None
    BY <1>3, <1>5, <1>7, <2>1
  <2>5. /\ Len(variables') = Len(variables)
        /\ \A w \in 1 .. Len(variables) :
             /\ variables'[w].name = variables[w].name
             /\ w # v => variables'[w].slot = variables[w].slot
             /\ variables[w].slot # None => variables'[w].slot # None
    BY <2>1
  <2>6. QED
    BY <1>1, <1>2, <1>3, <1>5, <2>2, <2>3, <2>4, <2>5, NameResolved
<1>8. CASE res.level # 0 /\ variables[v].slot = None
  <2>1. /\ variables' = [variables EXCEPT ![v].slot = scopes[f].slots]
        /\ scopes' = [scopes EXCEPT ![f].slots = @ + 1]
    BY <1>2, <1>5, <1>8
  <2>2. /\ variables' \in Seq(VariableRecord) /\ scopes' \in Seq(ScopeRecord)
        /\ SlotGiven(v, f)
    BY <1>3, <2>1, GivingSlot
  <2>3. PICK a : a = g.fun[variables[v].name[1]]
    OBVIOUS
  <2>4. /\ f = FirstOf(a) /\ variables[v].slot = None
        /\ \A c \in g.within[variables[v].name[1]] : ~ Converted(c)
    BY <1>3, <1>5, <1>8, <2>3
  <2>5. Static(g)' /\ \A c \in Constructs : Converted(c)' = Converted(c)
    BY <1>4, <1>6, <2>2, <2>3, <2>4, SlotStatic
  <2>6. scopes[f].slots # None
    <3>1. scopes[f].slots \in Nat
      BY <1>3, Typed
    <3>2. QED
      BY <3>1 DEF None
  <2>7. /\ Len(variables') = Len(variables)
        /\ \A w \in 1 .. Len(variables) :
             /\ variables'[w].name = variables[w].name
             /\ w # v => variables'[w].slot = variables[w].slot
             /\ variables[w].slot # None => variables'[w].slot # None
    BY <2>2, <2>6 DEF SlotGiven
  <2>8. variables'[v].slot # None
    BY <2>2, <2>6 DEF SlotGiven
  <2>9. QED
    BY <1>1, <1>2, <1>3, <1>5, <2>2, <2>5, <2>7, <2>8, NameResolved
<1>9. QED
  BY <1>7, <1>8

(* What the event that is resolved closes.                                 *)
Closed == IF Event.op = "close" THEN {Event.e.c} ELSE {}

(* A construct stays on the path unless it is closed.                      *)
LEMMA StaysOnPath ==
  ASSUME NEW g, TypeOK, ProgramOK(g), pos \in 1 .. Len(events),
         path = g.walk[pos - 1], Event.op # "name", NEW c, OnPath(path, c),
         c \notin Closed
  PROVE  OnPath(g.walk[pos], c)
<1> DEFINE n == Len(path)
<1>1. path \in Seq(Element) /\ n \in Nat
  BY Typed DEF TypeOK
<1>2. PICK k \in 1 .. n : path[k].c = c
  BY DEF OnPath
<1>3. PICK p, e : p = g.walk[pos] /\ e = Event.e
  OBVIOUS
<1>4. /\ p = Walked(path, Event)
      /\ Event.op = "close" => e = Last(path)
  BY <1>3 DEF ProgramOK, Event
<1>5. Event \in [op : {"open", "part", "close"}, e : Element]
  <2>1. Event \in [op : {"open", "part", "close"}, e : Element]
                    \cup [op : {"name"}, name : Nat \X {"head", "body"}]
    BY DEF TypeOK, Event
  <2>2. QED
    BY <2>1
<1>6. e \in Element /\ Event.op \in {"open", "part", "close"}
  BY <1>3, <1>5
<1>7. k \in 1 .. Len(p) /\ p[k].c = c
  <2>1. CASE Event.op = "open"
    <3>1. p = Append(path, e)
      BY <1>3, <1>4, <2>1 DEF Walked
    <3>2. Len(p) = n + 1 /\ \A i \in 1 .. n : p[i] = path[i]
      BY <1>1, <1>6, <3>1, AppendProperties
    <3>3. QED
      BY <1>1, <1>2, <3>2
  <2>2. CASE Event.op = "part"
    <3>1. p = Moved(path, e.part)
      BY <1>3, <1>4, <2>2 DEF Walked
    <3>2. n \in 1 .. n /\ path[n] \in Element
      BY <1>1, <1>2
    <3>3. [path[n] EXCEPT !.part = e.part] = [c |-> path[n].c, part |-> e.part]
      BY <3>2 DEF Element
    <3>4. p = [path EXCEPT ![n] = [path[n] EXCEPT !.part = e.part]]
      BY <3>1 DEF Moved
    <3>5. Len(p) = n
      BY <1>1, <3>4
    <3>6. p[k] = IF k = n THEN [path[n] EXCEPT !.part = e.part] ELSE path[k]
      BY <1>1, <1>2, <3>4
    <3>7. QED
      BY <1>2, <3>3, <3>5, <3>6
  <2>3. CASE Event.op = "close"
    <3>1. p = Front(path) /\ e = path[n]
      BY <1>3, <1>4, <2>3 DEF Walked, Last
    <3>2. k # n
      BY <1>2, <1>3, <2>3, <3>1 DEF Closed
    <3>3. p = SubSeq(path, 1, n - 1)
      BY <3>1 DEF Front
    <3>4. k \in 1 .. n - 1
      BY <1>1, <1>2, <3>2
    <3>5. \A i \in 1 .. n : path[i] \in Element
      BY <1>1
    <3>6. Len(p) = n - 1 /\ p[k] = path[k]
      BY <1>1, <3>3, <3>4, <3>5
    <3>7. QED
      BY <1>2, <3>4, <3>6
  <2>4. QED
    BY <1>6, <2>1, <2>2, <2>3
<1>8. QED
  BY <1>3, <1>7 DEF OnPath

(* What is closed is not entered again.                                    *)
LEMMA ClosedStays ==
  ASSUME NEW g, TypeOK, ProgramOK(g), pos \in 1 .. Len(events), NEW c \in Closed,
         NEW i \in pos .. Len(events)
  PROVE  ~ OnPath(g.walk[i], c)
<1>1. Event.op = "close" /\ c = Event.e.c
  BY DEF Closed
<1>2. QED
  BY <1>1 DEF ProgramOK, Event

(* The end of a scope, whether it is converted or not.                     *)
LEMMA ScopeResolved ==
  ASSUME NEW g, TypeOK, ScopesOK(g), phase = "resolve", Event.op # "name",
         NEW closed, closed = Closed, Walk, UNCHANGED accesses,
         variables' \in Seq(VariableRecord), scopes' \in Seq(ScopeRecord), Static(g)',
         \A w \in 1 .. Len(variables') : \E u \in 1 .. Len(variables) :
           variables'[w].name = variables[u].name /\ variables'[w].slot = variables[u].slot,
         \A c \in Constructs : Converted(c) => Converted(c)',
         \A c \in Constructs : Converted(c)' => Converted(c) \/ c \in closed,
         \A u \in 1 .. Len(variables) :
           /\ variables[u].name[1] \in closed
           /\ variables[u].name[2] = "head" /\ variables[u].slot # None
           => \A c \in closed : Converted(c)'
  PROVE  TypeOK' /\ \E h : ScopesOK(h)'
<1>1. /\ pos \in 1 .. Len(events) /\ path = g.walk[pos - 1]
      /\ CapturedUpTo(g, pos - 1) /\ HeadsDone(path) /\ NotAgain(g, pos - 1)
      /\ Static(g) /\ ProgramOK(g)
  BY Resolving
<1>2. PICK k \in Nat : k = pos
  BY DEF TypeOK
<1>3. events' = events /\ constructs' = constructs
  BY DEF Walk
<1>4. Len(events) \in Nat /\ k \in 1 .. Len(events)
  BY <1>1, <1>2, Typed
<1>5. \A p, nm : Crosses(p, nm)' = Crosses(p, nm)
  BY <1>3 DEF Crosses, Kind
<1>6. \A p, c : OnPath(p, c)' = OnPath(p, c)
  BY DEF OnPath
<1>7. CapturedUpTo(g, k)'
  <2>1. ASSUME NEW i \in 1 .. k, events[i].op = "name",
               Crosses(g.walk[i - 1], events[i].name),
               NEW w \in 1 .. Len(variables'), variables'[w].name = events[i].name
        PROVE  variables'[w].slot # None
    <3>1. i # k
      BY <1>2, <2>1 DEF Event
    <3>2. i \in 1 .. pos - 1
      BY <1>2, <3>1
    <3>3. PICK u \in 1 .. Len(variables) :
            variables'[w].name = variables[u].name /\ variables'[w].slot = variables[u].slot
      OBVIOUS
    <3>4. variables[u].slot # None
      BY <1>1, <2>1, <3>2, <3>3 DEF CapturedUpTo
    <3>5. QED
      BY <3>3, <3>4
  <2>2. QED
    BY <1>3, <1>5, <2>1 DEF CapturedUpTo
<1>8. NotAgain(g, k)'
  <2>1. ASSUME NEW c \in Constructs, Converted(c)', NEW i \in k .. Len(events)
        PROVE  ~ OnPath(g.walk[i], c)
    <3>1. i \in pos - 1 .. Len(events) /\ i \in pos .. Len(events)
      BY <1>2, <1>4
    <3>2. CASE Converted(c)
      BY <1>1, <3>1, <3>2 DEF NotAgain
    <3>3. CASE c \in closed
      BY <1>1, <3>1, <3>3, ClosedStays
    <3>4. QED
      BY <2>1, <3>2, <3>3
  <2>2. Constructs' = Constructs
    BY <1>3 DEF Constructs
  <2>3. QED
    BY <1>3, <1>6, <2>1, <2>2 DEF NotAgain
<1>9. HeadsDone(g.walk[k])'
  <2>1. ASSUME NEW w \in 1 .. Len(variables'), variables'[w].name[2] = "head",
               variables'[w].slot # None
        PROVE  (Converted(variables[w].name[1]) \/ OnPath(g.walk[k], variables[w].name[1]))'
    <3>1. PICK u \in 1 .. Len(variables) :
            variables'[w].name = variables[u].name /\ variables'[w].slot = variables[u].slot
      OBVIOUS
    <3>2. PICK c : c = variables[u].name[1]
      OBVIOUS
    <3>3. c \in Constructs
      <4>1. BindingsOK(g)
        BY <1>1 DEF Static
      <4>2. QED
        BY <3>2, <4>1 DEF BindingsOK
    <3>4. Converted(c) \/ OnPath(path, c)
      BY <1>1, <2>1, <3>1, <3>2 DEF HeadsDone
    <3>8. Converted(c)' \/ OnPath(g.walk[k], c)'
      <4>1. CASE Converted(c)
        BY <3>3, <4>1
      <4>2. CASE OnPath(path, c) /\ c \notin closed
        <5>1. OnPath(g.walk[pos], c)
          BY <1>1, <4>2, StaysOnPath
        <5>2. QED
          BY <1>2, <1>6, <5>1
      <4>3. CASE c \in closed
        <5>1. \A x \in closed : Converted(x)'
          BY <2>1, <3>1, <3>2, <4>3
        <5>2. QED
          BY <4>3, <5>1
      <4>4. QED
        BY <3>4, <4>1, <4>2, <4>3
    <3>9. Converted(variables[w].name[1])' = Converted(c)'
      BY <3>1, <3>2 DEF Converted, FirstOf, KindOf
    <3>10. OnPath(g.walk[k], variables[w].name[1])' = OnPath(g.walk[k], c)'
      BY <3>1, <3>2 DEF OnPath
    <3>11. QED
      BY <3>8, <3>9, <3>10
  <2>2. QED
    BY <2>1 DEF HeadsDone
<1>10. QED
  BY <1>2, <1>7, <1>8, <1>9, ResolveDone

(* The environments of a loop are as large as that of its function.        *)
LEMMA LoopSize ==
  ASSUME NEW g, TypeOK, ScopesOK(g), phase = "resolve", path # <<>>,
         NEW e, e = Last(path), IsLoop(Kind(e)), NEW size,
         size = Max({1, scopes[EnclosingVariableScope(scopes[First(e)].parent)].slots})
  PROVE  /\ e.c \in Constructs /\ ~ Converted(e.c)
         /\ size \in Nat /\ size > 0 /\ size >= scopes[FirstOf(g.fun[e.c])].slots
<1> DEFINE n == Len(path)
<1>1. /\ Program(g) /\ TreeOK(g) /\ LayoutOK(g) /\ PathOK(g, path) /\ VariableScopesOK
      /\ \A k \in 1 .. Len(path) : ~ Converted(path[k].c)
  BY Resolving DEF Program
<1>2. n \in Nat /\ n \in 1 .. n
  BY EmptySeq DEF TypeOK
<1>3. e = path[n] /\ e.c \in Constructs /\ ~ Converted(e.c)
  BY <1>1, <1>2 DEF Last, PathOK
<1>4. n # 1
  <2>1. Kind(path[1]) = "function" \/ n # 1
    BY <1>1, <1>2, PathFun
  <2>2. QED
    BY <1>3, <2>1 DEF IsLoop
<1>5. n - 1 \in 1 .. n /\ n > 1
  <2>1. \A x \in Nat : x \in 1 .. x /\ x # 1 => x - 1 \in 1 .. x /\ x > 1
    OBVIOUS
  <2>2. QED
    BY <1>2, <1>4, <2>1, Zenon
<1>6. scopes[First(e)].parent = AroundOf(path[n - 1])
  BY <1>1, <1>2, <1>3, <1>4, PathParent
<1>7. g.fun[e.c] = g.fun[path[n - 1].c]
  <2>1. Kind(path[n]) # "function"
    BY <1>3 DEF IsLoop
  <2>2. QED
    BY <1>1, <1>2, <1>3, <1>5, <2>1, PathFun
<1>8. EnclosingVariableScope(scopes[First(e)].parent) = FirstOf(g.fun[e.c])
  <2>1. AroundOf(path[n - 1]) \in ScopesOf(path[n - 1].c)
    BY PlacesInside
  <2>2. EnclosingVariableScope(AroundOf(path[n - 1])) = FirstOf(g.fun[path[n - 1].c])
    BY <1>1, <1>5, <2>1, EnclosingOnPath
  <2>3. QED
    BY <1>6, <1>7, <2>2
<1>9. scopes[FirstOf(g.fun[e.c])].slots \in Nat
  <2>1. g.fun[e.c] \in Constructs
    BY <1>1, <1>3 DEF TreeOK
  <2>2. FirstOf(g.fun[e.c]) \in ScopesOf(g.fun[e.c])
    BY DEF ScopesOf
  <2>3. FirstOf(g.fun[e.c]) \in 1 .. Len(scopes)
    BY <1>1, <2>1, <2>2 DEF LayoutOK
  <2>4. QED
    BY <2>3, Typed
<1>10. PICK x \in Nat : x = scopes[FirstOf(g.fun[e.c])].slots
  BY <1>9
<1>11. size = Max({1, x})
  BY <1>8, <1>10
<1>12. size \in Nat /\ size >= x /\ size > 0
  BY <1>11, SizeIs
<1>13. QED
  BY <1>3, <1>10, <1>12

(* The end of a loop: it is converted if its variable has a slot.          *)
LEMMA LoopResolved ==
  ASSUME NEW g, TypeOK, ScopesOK(g), phase = "resolve", Event.op = "close",
         NEW e, e = Event.e, IsLoop(Kind(e)), Convert(e), Walk, UNCHANGED accesses
  PROVE  TypeOK' /\ \E h : ScopesOK(h)'
<1>1. /\ pos \in 1 .. Len(events) /\ path = g.walk[pos - 1] /\ Static(g) /\ ProgramOK(g)
  BY Resolving
<1>2. path # <<>> /\ e = Last(path) /\ constructs' = constructs
  BY <1>1 DEF ProgramOK, Event, Walk
<1>3. PICK v, size, closed :
        /\ v = CHOOSE w \in scopes[First(e)].bindings : TRUE
        /\ size = Max({1, scopes[EnclosingVariableScope(scopes[First(e)].parent)].slots})
        /\ closed = Closed
  OBVIOUS
<1>4. /\ e.c \in Constructs /\ ~ Converted(e.c)
      /\ size \in Nat /\ size > 0 /\ size >= scopes[FirstOf(g.fun[e.c])].slots
  BY <1>2, <1>3, LoopSize
<1>5. closed = {e.c} /\ Event.op # "name"
  BY <1>3 DEF Closed
<1>6. KindOf(e.c) = Kind(e) /\ FirstOf(e.c) = First(e)
  BY PlacesInside
<1>7. LayoutOK(g) /\ BindingsOK(g) /\ SlotsOK(g)
  BY <1>1 DEF Static
<1>8. FirstOf(e.c) \in ScopesOf(e.c)
  BY DEF ScopesOf
<1>9. /\ v \in scopes[FirstOf(e.c)].bindings /\ v \in 1 .. Len(variables)
      /\ variables[v].name = <<e.c, "head">>
  <2>1. scopes[FirstOf(e.c)].bindings # {}
    BY <1>4, <1>7 DEF BindingsOK
  <2>2. v \in scopes[FirstOf(e.c)].bindings
    BY <1>3, <1>6, <2>1
  <2>3. v \in 1 .. Len(variables) /\ variables[v].name = NameIn(e.c, FirstOf(e.c))
    BY <1>4, <1>7, <1>8, <2>2 DEF BindingsOK
  <2>4. FirstOf(e.c) \in 1 .. Len(scopes)
    BY <1>4, <1>7, <1>8 DEF LayoutOK
  <2>5. FirstOf(e.c) # FirstOf(e.c) + 2
    BY <2>4
  <2>6. NameIn(e.c, FirstOf(e.c)) = <<e.c, "head">>
    BY <1>6, <2>5 DEF NameIn
  <2>7. QED
    BY <2>2, <2>3, <2>6
<1>10. CASE variables[v].slot = None
  <2>1. UNCHANGED <<scopes, variables>>
    <3>1. DeclScope(e) = First(e)
      BY DEF DeclScope
    <3> DEFINE V == CHOOSE w \in scopes[DeclScope(e)].bindings : TRUE
    <3>2. ~ (variables[V].slot # None) => UNCHANGED <<scopes, variables>>
      BY Zenon DEF Convert
    <3>3. V = v
      BY <1>3, <3>1
    <3> HIDE DEF V
    <3>4. QED
      BY <1>10, <3>2, <3>3
  <2>2. Static(g)' /\ \A c \in Constructs : Converted(c)' = Converted(c)
    BY <1>1, <1>2, <2>1, StaticSame
  <2>3. variables' \in Seq(VariableRecord) /\ scopes' \in Seq(ScopeRecord)
    BY <2>1 DEF TypeOK, VariableRecord, ScopeRecord
  <2>4. \A w \in 1 .. Len(variables') : \E u \in 1 .. Len(variables) :
           variables'[w].name = variables[u].name /\ variables'[w].slot = variables[u].slot
    BY <2>1
  <2>5. ASSUME NEW u \in 1 .. Len(variables), variables[u].name[1] \in closed,
               variables[u].name[2] = "head", variables[u].slot # None
        PROVE  FALSE
    <3>1. variables[u].name = variables[v].name
      <4>1. variables[u].name \in Nat \X {"head", "body"}
        BY Typed
      <4>2. variables[u].name = <<variables[u].name[1], variables[u].name[2]>>
        BY <4>1
      <4>3. QED
        BY <1>5, <1>9, <2>5, <4>2
    <3>2. SameSlot(u)
      BY <1>7 DEF SlotsOK
    <3>3. u # v
      BY <1>10, <2>5
    <3>4. variables[u].slot = variables[v].slot
      BY <1>9, <3>1, <3>2, <3>3 DEF SameSlot
    <3>5. QED
      BY <1>10, <2>5, <3>4
  <2>6. QED
    BY <1>3, <1>5, <2>2, <2>3, <2>4, <2>5, ScopeResolved
<1>11. CASE variables[v].slot # None
  <2>1. /\ variables' \in Seq(VariableRecord) /\ scopes' \in Seq(ScopeRecord)
        /\ Converting(e.c, v, size)
    BY <1>1, <1>3, <1>4, <1>11, ConvertIs
  <2>2. IsLoop(KindOf(e.c)) /\ UNCHANGED constructs
    BY <1>2, <1>6
  <2>3. PICK c : c = e.c
    OBVIOUS
  <2>4. /\ Static(g)' /\ Converted(c)'
        /\ \A b \in Constructs : b # c => Converted(b)' = Converted(b)
    BY <1>1, <1>4, <1>9, <1>11, <2>1, <2>2, <2>3, ConvertStatic
  <2>5. \A w \in 1 .. Len(variables') : \E u \in 1 .. Len(variables) :
           variables'[w].name = variables[u].name /\ variables'[w].slot = variables[u].slot
    <3>1. /\ Len(variables') = Len(variables) + 1
          /\ \A w \in 1 .. Len(variables) : variables'[w] = variables[w]
          /\ variables'[Len(variables) + 1] = variables[v]
      BY <2>1 DEF Converting
    <3>2. Len(variables) \in Nat
      BY Typed
    <3>3. TAKE w \in 1 .. Len(variables')
    <3>4. CASE w = Len(variables) + 1
      BY <1>9, <3>1, <3>4
    <3>5. CASE w # Len(variables) + 1
      <4>1. w \in 1 .. Len(variables)
        BY <3>1, <3>2, <3>5
      <4>2. QED
        BY <3>1, <4>1
    <3>6. QED
      BY <3>4, <3>5
  <2>6. \A b \in Constructs : Converted(b) => Converted(b)'
    BY <1>4, <2>3, <2>4
  <2>7. \A b \in Constructs : Converted(b)' => Converted(b) \/ b \in closed
    BY <1>5, <2>3, <2>4
  <2>8. \A b \in closed : Converted(b)'
    BY <1>5, <2>3, <2>4
  <2>9. QED
    BY <1>3, <1>5, <2>1, <2>4, <2>5, <2>6, <2>7, <2>8, ScopeResolved
<1>12. QED
  BY <1>10, <1>11

(* ResolveScopes keeps the invariant.                                      *)
LEMMA ResolveScopesStep ==
  ASSUME NEW g, TypeOK, ScopesOK(g), ResolveScopes
  PROVE  TypeOK' /\ \E h : ScopesOK(h)'
<1>1. PICK e, closed : e = Event.e /\ closed = Closed
  OBVIOUS
<1>2. /\ phase = "resolve" /\ Event.op # "name"
      /\ IF Event.op = "close" /\ IsLoop(Kind(e)) THEN Convert(e)
         ELSE UNCHANGED <<scopes, variables>>
      /\ Walk /\ UNCHANGED accesses
  BY <1>1 DEF ResolveScopes
<1>3. CASE Event.op = "close" /\ IsLoop(Kind(e))
  BY <1>1, <1>2, <1>3, LoopResolved
<1>4. CASE ~ (Event.op = "close" /\ IsLoop(Kind(e)))
  <2>1. UNCHANGED <<scopes, variables>> /\ constructs' = constructs
    BY <1>2, <1>4 DEF Walk
  <2>2. Static(g) /\ BindingsOK(g)
    BY <1>2, Resolving DEF Static
  <2>3. Static(g)' /\ \A c \in Constructs : Converted(c)' = Converted(c)
    BY <2>1, <2>2, StaticSame
  <2>4. variables' \in Seq(VariableRecord) /\ scopes' \in Seq(ScopeRecord)
    BY <2>1 DEF TypeOK, VariableRecord, ScopeRecord
  <2>5. \A w \in 1 .. Len(variables') : \E u \in 1 .. Len(variables) :
           variables'[w].name = variables[u].name /\ variables'[w].slot = variables[u].slot
    BY <2>1
  <2>6. ASSUME NEW u \in 1 .. Len(variables), variables[u].name[1] \in closed,
               variables[u].name[2] = "head"
        PROVE  FALSE
    <3>1. IsLoop(KindOf(variables[u].name[1]))
      BY <2>2, <2>6 DEF BindingsOK
    <3>2. Event.op = "close" /\ variables[u].name[1] = e.c
      BY <1>1, <2>6 DEF Closed
    <3>3. KindOf(e.c) = Kind(e)
      BY PlacesInside
    <3>4. QED
      BY <1>4, <3>1, <3>2, <3>3
  <2>7. QED
    BY <1>1, <1>2, <2>3, <2>4, <2>5, <2>6, ScopeResolved
<1>5. QED
  BY <1>3, <1>4

-----------------------------------------------------------------------------
(* Compiling.                                                              *)

(* What holds while the accesses are compiled.                             *)
LEMMA Compiling ==
  ASSUME NEW g, TypeOK, ScopesOK(g), phase = "compile"
  PROVE  /\ pos \in 1 .. Len(events) /\ path = g.walk[pos - 1]
         /\ g.walk[Len(events)] = <<>> /\ CapturedUpTo(g, Len(events))
         /\ \A v \in 1 .. Len(variables) :
              variables[v].name[2] = "head" /\ variables[v].slot # None =>
                Converted(variables[v].name[1])
         /\ \A a \in accesses : AccessOK(g, a)
         /\ Program(g) /\ Static(g) /\ ProgramOK(g)
<1>1. PhaseOK(g) /\ Static(g) /\ ProgramOK(g)
  BY DEF ScopesOK, Static
<1>2. /\ pos \in 1 .. Len(events) /\ path = g.walk[pos - 1]
      /\ g.walk[Len(events)] = <<>> /\ CapturedUpTo(g, Len(events))
      /\ \A v \in 1 .. Len(variables) :
           variables[v].name[2] = "head" /\ variables[v].slot # None =>
             Converted(variables[v].name[1])
      /\ \A a \in accesses : AccessOK(g, a)
  BY <1>1 DEF PhaseOK
<1>3. pos - 1 \in 0 .. Len(events)
  BY <1>2, Typed
<1>4. PathOK(g, path)
  BY <1>1, <1>2, <1>3 DEF ProgramOK
<1>5. QED
  BY <1>1, <1>2, <1>4 DEF Static, Program

(* The invariant after an event was compiled.                              *)
LEMMA CompileDone ==
  ASSUME NEW g, TypeOK, ScopesOK(g), phase = "compile", Walk,
         UNCHANGED <<scopes, variables>>, NEW new, accesses' = accesses \cup new,
         \A a \in new : AccessOK(g, a)
  PROVE  TypeOK' /\ \E h : ScopesOK(h)'
<1>1. /\ pos \in 1 .. Len(events) /\ path = g.walk[pos - 1]
      /\ g.walk[Len(events)] = <<>> /\ CapturedUpTo(g, Len(events))
      /\ \A v \in 1 .. Len(variables) :
           variables[v].name[2] = "head" /\ variables[v].slot # None =>
             Converted(variables[v].name[1])
      /\ \A a \in accesses : AccessOK(g, a)
      /\ Static(g) /\ ProgramOK(g)
  BY Compiling
<1>2. /\ UNCHANGED <<events, constructs>>
      /\ pos' \in 1 .. Len(events) /\ path' \in Seq(Element)
      /\ path' = g.walk[pos] /\ path' = g.walk[pos' - 1]
      /\ pos < Len(events) => phase' = phase /\ pos' = pos + 1
      /\ pos = Len(events) =>
           path' = <<>> /\ phase' = IF phase = "resolve" THEN "compile" ELSE "done"
  BY <1>1, WalkNext
<1>3. phase' \in {"compile", "done"} /\ pos' \in Nat
  <2>1. Len(events) \in Nat
    BY Typed
  <2>2. pos < Len(events) \/ pos = Len(events)
    BY <1>1, <2>1
  <2>3. QED
    BY <1>2, <2>1, <2>2
<1>4. TypeOK'
  <2>1. phase' \in {"parse", "resolve", "compile", "done"}
    BY <1>3
  <2>2. QED
    BY <1>2, <1>3, <2>1 DEF TypeOK
<1>5. ProgramOK(g)'
  BY <1>1, <1>2, ProgramStays
<1>6. Static(g)' /\ \A c : Converted(c)' = Converted(c)
  <2>1. Static(g)'
    BY <1>1, <1>2, StaticSame
  <2>2. QED
    BY <1>2, <2>1 DEF Converted, KindOf, FirstOf
<1>7. PhaseOK(g)'
  <2>1. /\ pos' \in 1 .. Len(events') /\ path' = g.walk[pos' - 1]
        /\ g.walk[Len(events')] = <<>>
    BY <1>1, <1>2
  <2>2. CapturedUpTo(g, Len(events))'
    BY <1>1, <1>2 DEF CapturedUpTo, Crosses, Kind
  <2>3. (\A v \in 1 .. Len(variables) :
           variables[v].name[2] = "head" /\ variables[v].slot # None =>
             Converted(variables[v].name[1]))'
    BY <1>1, <1>6 DEF Converted, KindOf, FirstOf
  <2>4. \A a : AccessOK(g, a)' = AccessOK(g, a)
    BY <1>2 DEF AccessOK, Reached, KindOf, FirstOf
  <2>5. (\A a \in accesses : AccessOK(g, a))'
    BY <1>1, <2>4
  <2>6. phase' # "parse" /\ phase' # "resolve"
    BY <1>3
  <2>7. QED
    BY <2>1, <2>2, <2>3, <2>5, <2>6 DEF PhaseOK
<1>8. ScopesOK(g)'
  BY <1>5, <1>6, <1>7 DEF Static, ScopesOK
<1>9. QED
  BY <1>4, <1>8

(* Compile keeps the invariant: the access that is compiled is right.      *)
LEMMA CompileStep ==
  ASSUME NEW g, TypeOK, ScopesOK(g), Compile
  PROVE  TypeOK' /\ \E h : ScopesOK(h)'
<1>1. PICK name : name = Event.name
  OBVIOUS
<1>2. /\ phase = "compile" /\ Event.op = "name"
      /\ accesses' = accesses \cup {Made(name)}
      /\ Walk /\ UNCHANGED <<scopes, variables>>
  BY <1>1 DEF Compile, Made
<1>3. /\ pos \in 1 .. Len(events) /\ path = g.walk[pos - 1]
      /\ CapturedUpTo(g, Len(events))
      /\ \A v \in 1 .. Len(variables) :
           variables[v].name[2] = "head" /\ variables[v].slot # None =>
             Converted(variables[v].name[1])
      /\ Program(g) /\ Static(g) /\ ProgramOK(g)
  BY <1>2, Compiling
<1>4. VisibleAt(path, name)
  BY <1>1, <1>2, <1>3 DEF ProgramOK, Event
<1>5. PICK d \in 1 .. Len(path) : Shows(path[d], name)
  BY <1>4 DEF VisibleAt
<1>6. \A v \in 1 .. Len(variables) : variables[v].name = name =>
        /\ Crosses(path, name) => variables[v].slot # None
        /\ name[2] = "head" /\ variables[v].slot # None => Converted(name[1])
  <2>1. events[pos].op = "name" /\ events[pos].name = name
    BY <1>1, <1>2 DEF Event
  <2>2. QED
    BY <1>3, <2>1 DEF CapturedUpTo
<1>7. SlotsOK(g)
  BY <1>3 DEF Static
<1>8. AccessOK(g, Made(name))
  BY <1>3, <1>5, <1>6, <1>7, Accessed
<1>9. PICK new : new = {Made(name)}
  OBVIOUS
<1>10. QED
  BY <1>2, <1>8, <1>9, CompileDone, SMTT(60)

(* CompileScope keeps the invariant.                                       *)
LEMMA CompileScopeStep ==
  ASSUME NEW g, TypeOK, ScopesOK(g), CompileScope
  PROVE  TypeOK' /\ \E h : ScopesOK(h)'
<1>1. phase = "compile" /\ Walk /\ UNCHANGED <<scopes, variables, accesses>>
  BY DEF CompileScope
<1>2. PICK new : new = {}
  OBVIOUS
<1>3. accesses' = accesses \cup new /\ \A a \in new : AccessOK(g, a)
  BY <1>1, <1>2
<1>4. QED
  BY <1>1, <1>3, CompileDone

(* A step that changes nothing keeps the invariant.                        *)
LEMMA StutterStep ==
  ASSUME NEW g, TypeOK, ScopesOK(g), UNCHANGED vars
  PROVE  TypeOK' /\ ScopesOK(g)'
<1>1. /\ phase' = phase /\ events' = events /\ pos' = pos /\ path' = path
      /\ constructs' = constructs /\ scopes' = scopes /\ variables' = variables
      /\ accesses' = accesses
  BY DEF vars
<1>2. TypeOK'
  BY <1>1 DEF TypeOK
<1>3. Static(g) /\ ProgramOK(g) /\ PhaseOK(g)
  BY DEF Static, ScopesOK
<1>4. Static(g)' /\ ProgramOK(g)'
  BY <1>1, <1>3, StaticSame, ProgramStays
<1>5. PhaseOK(g)'
  <2>1. \A c : Converted(c)' = Converted(c)
    BY <1>1 DEF Converted, KindOf, FirstOf
  <2>2. \A p, c : OnPath(p, c)' = OnPath(p, c)
    BY DEF OnPath
  <2>3. \A m : CapturedUpTo(g, m)' = CapturedUpTo(g, m)
    BY <1>1 DEF CapturedUpTo, Crosses, Kind
  <2>4. \A a : AccessOK(g, a)' = AccessOK(g, a)
    BY <1>1 DEF AccessOK, Reached, KindOf, FirstOf
  <2>5. Constructs' = Constructs
    BY <1>1 DEF Constructs
  <2>6. CapturedUpTo(g, pos - 1)' = CapturedUpTo(g, pos - 1)
    BY <1>1 DEF CapturedUpTo, Crosses, Kind
  <2>7. CapturedUpTo(g, Len(events))' = CapturedUpTo(g, Len(events))
    BY <1>1 DEF CapturedUpTo, Crosses, Kind
  <2>8. \A v : /\ Converted(variables[v].name[1])' = Converted(variables[v].name[1])
               /\ OnPath(path, variables[v].name[1])' = OnPath(path, variables[v].name[1])
    BY <1>1 DEF Converted, KindOf, FirstOf, OnPath
  <2>9. QED
    BY <1>1, <1>3, <2>1, <2>2, <2>4, <2>5, <2>6, <2>7, <2>8 DEF PhaseOK
<1>6. QED
  BY <1>2, <1>4, <1>5 DEF Static, ScopesOK

-----------------------------------------------------------------------------
(* The theorems.                                                           *)

(* Every step of the parser, of the binder and of the compiler keeps it.   *)
LEMMA StepScopes ==
  ASSUME IInv, [Next]_vars
  PROVE  IInv'
<1>1. PICK g : TypeOK /\ ScopesOK(g)
  BY DEF IInv
<1>2. TypeOK' /\ \E h : ScopesOK(h)'
  <2>1. ASSUME NEW kind \in Kinds, Open(kind)
        PROVE  TypeOK' /\ \E h : ScopesOK(h)'
    BY <1>1, <2>1, OpenStep
  <2>2. ASSUME NEW name \in Visible, Name(name)
        PROVE  TypeOK' /\ \E h : ScopesOK(h)'
    BY <1>1, <2>2, NameStep
  <2>3. CASE Continue
    BY <1>1, <2>3, ContinueStep
  <2>4. CASE Close
    BY <1>1, <2>4, CloseStep
  <2>5. CASE Resolve
    BY <1>1, <2>5, ResolveStep
  <2>6. CASE ResolveScopes
    BY <1>1, <2>6, ResolveScopesStep
  <2>7. CASE Compile
    BY <1>1, <2>7, CompileStep
  <2>8. CASE CompileScope
    BY <1>1, <2>8, CompileScopeStep
  <2>9. CASE UNCHANGED vars
    BY <1>1, <2>9, StutterStep
  <2>10. QED
    BY <2>1, <2>2, <2>3, <2>4, <2>5, <2>6, <2>7, <2>8, <2>9 DEF Next
<1>3. QED
  BY <1>2 DEF IInv

(* The scopes, the variables and their slots, and the accesses stay as the *)
(* program has them, in all phases.                                        *)
THEOREM ScopesInvariant == Spec => []IInv
<1>1. Init => IInv
  BY InitScopes
<1>2. IInv /\ [Next]_vars => IInv'
  BY StepScopes
<1>3. QED
  BY <1>1, <1>2, PTL DEF Spec

(* What the invariant says of the accesses that were compiled.             *)
LEMMA AccessesRight ==
  ASSUME IInv
  PROVE  \E g : TypeOK /\ SlotsOK(g) /\ \A a \in accesses : AccessOK(g, a)
<1>1. PICK g : TypeOK /\ ScopesOK(g)
  BY DEF IInv
<1>2. \A a \in accesses : AccessOK(g, a)
  <2>1. PhaseOK(g)
    BY <1>1 DEF ScopesOK
  <2>2. CASE phase \in {"parse", "resolve"}
    <3>1. accesses = {}
      BY <2>1, <2>2 DEF PhaseOK
    <3>2. QED
      BY <3>1
  <2>3. CASE phase \notin {"parse", "resolve"}
    <3>1. phase # "parse" /\ phase # "resolve"
      BY <2>3
    <3>2. QED
      BY <2>1, <3>1 DEF PhaseOK
  <2>4. QED
    BY <2>2, <2>3
<1>3. QED
  BY <1>1, <1>2 DEF ScopesOK

(* lexenv.cpp, Scope::Find: the level of an access leads to the            *)
(* environment where its variable was declared, which has the slot.        *)
THEOREM AccessesReach == Spec => []AccessReachesVariable
<1>1. IInv => AccessReachesVariable
  <2>1. SUFFICES ASSUME IInv, NEW a \in Lexical
                 PROVE  /\ a.level + a.off \in 0 .. Len(a.chain) - 1
                        /\ a.home # <<>> /\ Reached(a) = Head(a.home)
                        /\ a.slot < scopes[Reached(a)].slots
    BY DEF AccessReachesVariable
  <2>2. PICK g : \A b \in accesses : AccessOK(g, b)
    BY <2>1, AccessesRight
  <2>3. a \in accesses /\ a.slot # None
    BY DEF Lexical
  <2>4. /\ a.level + a.off \in 0 .. Len(a.chain) - 1
        /\ a.home # <<>> /\ Reached(a) = a.home[1]
        /\ a.slot < scopes[Reached(a)].slots
    BY <2>2, <2>3 DEF AccessOK
  <2>5. Head(a.home) = a.home[1]
    OBVIOUS
  <2>6. QED
    BY <2>4, <2>5
<1>2. QED
  BY <1>1, ScopesInvariant, PTL

(* VariableScope::NextSlot: two variables never meet in one slot of one    *)
(* environment.                                                            *)
THEOREM SlotsNeverShared == Spec => []SlotsApart
<1>1. IInv => SlotsApart
  <2>1. SUFFICES ASSUME IInv, NEW a \in Lexical, NEW b \in Lexical,
                        Reached(a) = Reached(b), a.slot = b.slot
                 PROVE  a.name = b.name
    BY DEF SlotsApart
  <2>2. PICK g : TypeOK /\ SlotsOK(g) /\ \A x \in accesses : AccessOK(g, x)
    BY <2>1, AccessesRight
  <2>3. a \in accesses /\ b \in accesses /\ a.slot # None /\ b.slot # None
    BY DEF Lexical
  <2>4. /\ g.fun[g.owner[Reached(a)]] = g.fun[a.name[1]]
        /\ g.fun[g.owner[Reached(b)]] = g.fun[b.name[1]]
    BY <2>2, <2>3 DEF AccessOK
  <2>5. PICK v \in 1 .. Len(variables) :
          variables[v].name = a.name /\ variables[v].slot = a.slot
    BY <2>2, <2>3 DEF AccessOK
  <2>6. PICK w \in 1 .. Len(variables) :
          variables[w].name = b.name /\ variables[w].slot = b.slot
    BY <2>2, <2>3 DEF AccessOK
  <2>7. OwnSlot(g, v)
    BY <2>2 DEF SlotsOK
  <2>8. QED
    BY <2>1, <2>3, <2>4, <2>5, <2>6, <2>7 DEF OwnSlot
<1>2. QED
  BY <1>1, ScopesInvariant, PTL

(* Binder::LookupIdentReference: what a function reads from around it has  *)
(* a slot of an environment.                                               *)
THEOREM CapturedHaveSlots == Spec => []CapturedInEnvironment
<1>1. IInv => CapturedInEnvironment
  <2>1. SUFFICES ASSUME IInv, NEW a \in accesses, a.function
                 PROVE  a.slot # None
    BY DEF CapturedInEnvironment
  <2>2. PICK g : \A b \in accesses : AccessOK(g, b)
    BY <2>1, AccessesRight
  <2>3. QED
    BY <2>1, <2>2 DEF AccessOK
<1>2. QED
  BY <1>1, ScopesInvariant, PTL

(* ConvertToVariableScope, CopyBindings: a captured variable of a loop     *)
(* lives, in the body of the loop, in an environment of that loop.         *)
THEOREM LoopsFresh == Spec => []FreshInLoop
<1>1. IInv => FreshInLoop
  <2>1. SUFFICES ASSUME IInv, NEW a \in Lexical, a.name[2] = "head", a.part = "body"
                 PROVE  Reached(a) = IF constructs[a.name[1]].kind = "const"
                                     THEN constructs[a.name[1]].scope
                                     ELSE constructs[a.name[1]].scope + 1
    BY DEF FreshInLoop
  <2>2. PICK g : \A b \in accesses : AccessOK(g, b)
    BY <2>1, AccessesRight
  <2>3. a \in accesses /\ a.slot # None
    BY DEF Lexical
  <2>4. QED
    BY <2>1, <2>2, <2>3 DEF AccessOK, KindOf, FirstOf
<1>2. QED
  BY <1>1, ScopesInvariant, PTL
=============================================================================
