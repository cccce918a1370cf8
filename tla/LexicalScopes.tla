---------------------------- MODULE LexicalScopes ----------------------------
(***************************************************************************)
(* Where a captured variable lives.  The parser builds scopes, the binder  *)
(* (binder/binder.cpp) decides which variables need a slot of a lexical    *)
(* environment, and PandaGen (compiler/base/lexenv.cpp, core/envScope.cpp) *)
(* emits the environments and, for every access, a level and a slot.  The  *)
(* three walk the same program, but not with the same scopes: loops become *)
(* variable scopes when their analysis ends, and some parts of a loop are  *)
(* compiled in another scope than they run in.                             *)
(*                                                                         *)
(* A program is a sequence of events: a construct is opened, moves on to   *)
(* its next part, is closed, or a variable is named.  A construct has one  *)
(* or two variables: <<c, "head">> (a parameter or what a loop declares)   *)
(* and <<c, "body">>.  path is the sequence of the open constructs, each   *)
(* with the part of it that is being looked at.                            *)
(***************************************************************************)
EXTENDS Integers, Sequences, FiniteSets, SequencesExt

CONSTANTS Kinds,          \* of the constructs of a program
          Rare,           \* of them, those of which a program has only one
          MaxConstructs,  \* with the outermost function
          MaxReferences

ASSUME LexicalAssumption ==
  Kinds \subseteq {"function", "block", "let", "const", "of"}

None == -1   \* no slot

VARIABLES
  phase,        \* "parse", "resolve", "compile", "done"
  events,       \* the program
  pos,          \* the next event of the phase
  path,         \* the open constructs
  constructs,   \* their kinds and first scopes
  scopes,       \* the scopes
  variables,    \* the variables
  accesses      \* the accesses that were compiled

vars == <<phase, events, pos, path, constructs, scopes, variables, accesses>>

-----------------------------------------------------------------------------
(* Scopes.                                                                 *)

(* A scope that is not a function is not a variable scope yet.             *)
NewScope(parent, isVariableScope, bindings) ==
  [parent |-> parent, isVariableScope |-> isVariableScope, slots |-> 0,
   bindings |-> bindings]

IsLoop(kind) == kind \in {"let", "const", "of"}

NeedLexEnv(s) == scopes[s].isVariableScope /\ scopes[s].slots > 0

(* Scope::EnclosingVariableScope: the parent of a scope is an older one.   *)
EnclosingVariableScope(s) ==
  LET enclosing[t \in 0 .. Len(scopes)] ==
        IF t = 0 \/ scopes[t].isVariableScope THEN t
        ELSE enclosing[scopes[t].parent]
  IN  enclosing[s]

Named(s, name) == {v \in scopes[s].bindings : variables[v].name = name}

(* What a scope knows of a name, and what its parent does.                 *)
Nowhere == [scope |-> 0, variable |-> 0, level |-> 0, lexLevel |-> 0]

Local(s, name) ==
  [scope |-> s, variable |-> CHOOSE v \in Named(s, name) : TRUE,
   level |-> 0, lexLevel |-> 0]

(* A mistake: every variable scope counts, also one without environment.   *)
Beyond_AnyScope(s, res) ==
  IF ~ scopes[s].isVariableScope THEN res
  ELSE [res EXCEPT !.level = @ + 1, !.lexLevel = @ + 1]

Beyond(s, res) ==
  IF ~ scopes[s].isVariableScope THEN res
  ELSE [res EXCEPT !.level = @ + 1,
                   !.lexLevel = IF NeedLexEnv(s) THEN @ + 1 ELSE @]

(* Scope::Find, of a name that is declared.                                *)
Find(s, name) ==
  LET find[t \in 0 .. Len(scopes)] ==
        IF t = 0 THEN Nowhere
        ELSE IF Named(t, name) # {} THEN Local(t, name)
        ELSE Beyond(t, find[scopes[t].parent])
  IN  find[s]

-----------------------------------------------------------------------------
(* The open constructs.                                                    *)

Kind(e)  == constructs[e.c].kind
First(e) == constructs[e.c].scope
DeclScope(e) == First(e)
LoopScope(e) == First(e) + 1

(* The scope of the binder and of PandaGen: the declaration scope of a     *)
(* loop up to its body, the block of its body then.                        *)
ScopeOf(e) ==
  IF ~ IsLoop(Kind(e)) THEN First(e)
  ELSE IF e.part = "body" THEN First(e) + 2 ELSE DeclScope(e)

Here == IF path = <<>> THEN 0 ELSE ScopeOf(Last(path))

(* The scope of the parser, which is in the loop scope after what declares *)
(* the variables of the loop.                                              *)
Around ==
  IF path = <<>> THEN 0
  ELSE LET e == Last(path)
       IN  IF \/ Kind(e) = "of" /\ e.part = "head"
              \/ IsLoop(Kind(e)) /\ e.part = "update"
           THEN LoopScope(e) ELSE ScopeOf(e)

(* The names that may be used here.                                        *)
Visible ==
  LET names[t \in 0 .. Len(scopes)] ==
        IF t = 0 THEN {}
        ELSE {variables[v].name : v \in scopes[t].bindings}
               \cup names[scopes[t].parent]
  IN  names[Here]

Parts(kind) == CASE kind \in {"let", "const"} -> <<"head", "update", "body">>
                 [] kind = "of"               -> <<"head", "body">>
                 [] OTHER                     -> <<"body">>

NextPart(e) ==
  LET parts == Parts(Kind(e))
  IN  {parts[i + 1] : i \in {i \in 1 .. Len(parts) - 1 : parts[i] = e.part}}

Moved(p, part) == [p EXCEPT ![Len(p)].part = part]

-----------------------------------------------------------------------------
(* Parsing.                                                                *)

Init ==
  /\ phase = "parse" /\ events = <<>> /\ pos = 1 /\ path = <<>>
  /\ constructs = <<>> /\ scopes = <<>> /\ variables = <<>> /\ accesses = {}

NewVariable(name, kind) == [name |-> name, kind |-> kind, slot |-> None]

(* The scopes of a statement or function: a function has one variable      *)
(* scope, a loop with declarations has a declaration scope, a loop scope   *)
(* and the block of its body, other statements have their block.           *)
Open(kind) ==
  LET c == Len(constructs) + 1
      s == Len(scopes) + 1
      v == Len(variables) + 1
      e == [c |-> c, part |-> Parts(kind)[1]]
  IN  /\ phase = "parse"
      /\ c <= MaxConstructs
      /\ kind \in Rare => \A d \in Range(constructs) : d.kind \notin Rare
      /\ IF path = <<>> THEN c = 1 /\ kind = "function"
         ELSE Last(path).part # "body" => kind = "function"
      /\ constructs' = Append(constructs, [kind |-> kind, scope |-> s])
      /\ path' = Append(path, e)
      /\ events' = Append(events, [op |-> "open", e |-> e])
      /\ IF IsLoop(kind)
         THEN /\ scopes' = scopes \o
                   <<NewScope(Around, FALSE, {v}), NewScope(s, FALSE, {}),
                     NewScope(s + 1, FALSE, {v + 1})>>
              /\ variables' = variables \o
                   <<NewVariable(<<c, "head">>, IF kind = "const" THEN "const"
                                                ELSE "let"),
                     NewVariable(<<c, "body">>, "let")>>
         ELSE /\ scopes' = Append(scopes,
                                  NewScope(Around, kind = "function", {v}))
              /\ variables' = Append(variables,
                                     NewVariable(<<c, "body">>, "let"))
      /\ UNCHANGED <<phase, pos, accesses>>

Continue ==
  /\ phase = "parse" /\ path # <<>>
  /\ \E part \in NextPart(Last(path)) :
       /\ path' = Moved(path, part)
       /\ events' = Append(events, [op |-> "part", e |-> Last(path')])
  /\ UNCHANGED <<phase, pos, constructs, scopes, variables, accesses>>

Name(name) ==
  /\ phase = "parse" /\ name \in Visible
  /\ Cardinality({i \in DOMAIN events : events[i].op = "name"}) < MaxReferences
  /\ events' = Append(events, [op |-> "name", name |-> name])
  /\ UNCHANGED <<phase, pos, path, constructs, scopes, variables, accesses>>

Close ==
  /\ phase = "parse" /\ path # <<>> /\ NextPart(Last(path)) = {}
  /\ events' = Append(events, [op |-> "close", e |-> Last(path)])
  /\ path' = Front(path)
  /\ phase' = IF path' = <<>> THEN "resolve" ELSE phase
  /\ UNCHANGED <<pos, constructs, scopes, variables, accesses>>

-----------------------------------------------------------------------------
(* Binder::ResolveReference, one event after the other.                    *)

Event == events[pos]

Walked(p, event) == CASE event.op = "open"  -> Append(p, event.e)
                      [] event.op = "part"  -> Moved(p, event.e.part)
                      [] event.op = "close" -> Front(p)
                      [] event.op = "name"  -> p

Walk ==
  /\ path' = Walked(path, Event)
  /\ IF pos < Len(events) THEN pos' = pos + 1 /\ UNCHANGED phase
     ELSE /\ pos' = 1
          /\ phase' = IF phase = "resolve" THEN "compile" ELSE "done"
  /\ UNCHANGED <<events, constructs>>

(* A mistake: the slot is not counted.                                     *)
Resolve_SameSlot ==
  LET res      == Find(Here, Event.name)
      varScope == EnclosingVariableScope(res.scope)
  IN  /\ phase = "resolve" /\ Event.op = "name"
      /\ IF res.level = 0 \/ variables[res.variable].slot # None
         THEN UNCHANGED <<scopes, variables>>
         ELSE /\ variables' = [variables EXCEPT ![res.variable].slot = 0]
              /\ scopes' = [scopes EXCEPT ![varScope].slots = 1]
      /\ Walk /\ UNCHANGED accesses

(* A mistake: only a variable beyond an environment is captured.           *)
Resolve_LexLevel ==
  LET res      == Find(Here, Event.name)
      varScope == EnclosingVariableScope(res.scope)
  IN  /\ phase = "resolve" /\ Event.op = "name"
      /\ IF res.lexLevel = 0 \/ variables[res.variable].slot # None
         THEN UNCHANGED <<scopes, variables>>
         ELSE /\ variables' = [variables EXCEPT ![res.variable].slot =
                                 scopes[varScope].slots]
              /\ scopes' = [scopes EXCEPT ![varScope].slots = @ + 1]
      /\ Walk /\ UNCHANGED accesses

(* LookupIdentReference and SetLexical: a variable found beyond a variable *)
(* scope gets a slot of the variable scope around it, as it is now.        *)
Resolve ==
  LET res      == Find(Here, Event.name)
      varScope == EnclosingVariableScope(res.scope)
  IN  /\ phase = "resolve" /\ Event.op = "name"
      /\ IF res.level = 0 \/ variables[res.variable].slot # None
         THEN UNCHANGED <<scopes, variables>>
         ELSE /\ variables' = [variables EXCEPT ![res.variable].slot =
                                 scopes[varScope].slots]
              /\ scopes' = [scopes EXCEPT ![varScope].slots = @ + 1]
      /\ Walk /\ UNCHANGED accesses

AsScope(s, isVariableScope, slots, bindings) ==
  [parent |-> scopes[s].parent, isVariableScope |-> isVariableScope,
   slots |-> slots, bindings |-> bindings]

(* A mistake: the loop scope gets no copies.                               *)
Convert_NoCopy(e) ==
  LET d == DeclScope(e)
      v == CHOOSE v \in scopes[d].bindings : TRUE
      size == Max({1, scopes[EnclosingVariableScope(scopes[d].parent)].slots})
  IN  IF variables[v].slot = None THEN UNCHANGED <<scopes, variables>>
      ELSE /\ scopes' = [scopes EXCEPT ![d] =
                           AsScope(d, TRUE, size, scopes[d].bindings)]
           /\ UNCHANGED variables

(* ConvertToVariableScope of the declaration scope and the loop scope: the *)
(* captured variables of the declaration get a copy in the loop scope.     *)
(* Slots were taken from the variable scope around, so that the            *)
(* environments of the loop are as large as its.                           *)
Convert(e) ==
  LET d  == DeclScope(e)
      l  == LoopScope(e)
      v  == CHOOSE v \in scopes[d].bindings : TRUE
      captured == variables[v].slot # None
      size == Max({1, scopes[EnclosingVariableScope(scopes[d].parent)].slots})
      isLet == variables[v].kind = "let"
  IN  IF ~ captured THEN UNCHANGED <<scopes, variables>>
      ELSE /\ variables' = Append(variables, variables[v])
           /\ scopes' = [scopes EXCEPT
                ![d] = AsScope(d, TRUE, size, scopes[d].bindings),
                ![l] = AsScope(l, isLet, IF isLet THEN size ELSE 0,
                               {Len(variables) + 1})]

(* BuildForUpdateLoop, BuildForInOfLoop and the ends of other scopes.      *)
ResolveScopes ==
  /\ phase = "resolve" /\ Event.op # "name"
  /\ IF Event.op = "close" /\ IsLoop(Kind(Event.e)) THEN Convert(Event.e)
     ELSE UNCHANGED <<scopes, variables>>
  /\ Walk /\ UNCHANGED accesses

-----------------------------------------------------------------------------
(* Compiling: the environments at run time and the accesses.               *)

Frame(s) == IF NeedLexEnv(s) THEN <<s>> ELSE <<>>

(* LoopEnvScope: the body and the update of a loop run in the environment  *)
(* of the loop, in that of its declaration.                                *)
FramesOf(e) ==
  CASE Kind(e) = "function" -> Frame(First(e))
    [] IsLoop(Kind(e)) /\ e.part # "head" ->
         Frame(LoopScope(e)) \o Frame(DeclScope(e))
    [] OTHER -> <<>>

(* The environments in the first m constructs, innermost first: a function *)
(* is created where it stands.                                             *)
Chain(m) ==
  LET chain[k \in 0 .. Len(path)] ==
        IF k = 0 THEN <<>> ELSE FramesOf(path[k]) \o chain[k - 1]
  IN  chain[m]

(* LoopDeclarationScope::InitScope takes the place of a declaration scope  *)
(* that became a variable scope: head and update are compiled in it, the   *)
(* functions in them have the declaration scope around them.  The level    *)
(* that VirtualLoadVar and VirtualStoreVar emit.                           *)
LevelOf(name) ==
  LET res == Find(Here, name)
      inInit == IsLoop(Kind(Last(path))) /\ Last(path).part # "body"
  IN  IF inInit /\ res.scope # Here /\ NeedLexEnv(Here) THEN res.lexLevel - 1
      ELSE res.lexLevel

(* By how much that is known to be off, for a variable from outside of the *)
(* loop: the update of a loop runs in environments that it does not count, *)
(* a function in the head of a loop counts those that are not there yet.   *)
OffIn(e, direct) ==
  LET decl == Len(Frame(DeclScope(e)))
      loop == Len(Frame(LoopScope(e)))
  IN  IF ~ IsLoop(Kind(e)) \/ e.part = "body" THEN 0
      ELSE CASE e.part = "update" -> IF direct THEN decl + loop ELSE 0
             [] e.part = "head"   -> IF direct THEN 0
                                     ELSE IF Kind(e) = "of" THEN - decl - loop
                                     ELSE - decl

Depth(name) == CHOOSE k \in DOMAIN path : path[k].c = name[1]

Off(name) ==
  LET off[k \in 0 .. Len(path)] ==
        IF k <= Depth(name) THEN 0
        ELSE off[k - 1] + OffIn(path[k], k = Len(path))
  IN  off[Len(path)]

Compile ==
  LET name == Event.name
      v    == variables[Find(Here, name).variable]
  IN  /\ phase = "compile" /\ Event.op = "name"
      /\ accesses' = accesses \cup
           {[name |-> name, slot |-> v.slot, level |-> LevelOf(name),
             off |-> Off(name), chain |-> Chain(Len(path)),
             home |-> Chain(Depth(name)),
             part |-> path[Depth(name)].part,
             function |-> \E k \in Depth(name) + 1 .. Len(path) :
                            Kind(path[k]) = "function"]}
      /\ Walk /\ UNCHANGED <<scopes, variables>>

CompileScope ==
  /\ phase = "compile" /\ Event.op # "name"
  /\ Walk /\ UNCHANGED <<scopes, variables, accesses>>

Next ==
  \/ \E kind \in Kinds : Open(kind)
  \/ \E name \in Visible : Name(name)
  \/ Continue \/ Close
  \/ Resolve \/ ResolveScopes \/ Compile \/ CompileScope

Spec == Init /\ [][Next]_vars

-----------------------------------------------------------------------------
Lexical == {a \in accesses : a.slot # None}
Reached(a) == a.chain[a.level + a.off + 1]

(* lexenv.cpp, Scope::Find: the level of an access leads to the            *)
(* environment that was innermost where its variable was declared, and     *)
(* that environment has the slot - after Off, which says by how much the   *)
(* levels of accesses in the update and in the head of a loop are known to *)
(* be wrong; from anywhere else Off is zero.                               *)
AccessReachesVariable ==
  \A a \in Lexical :
    /\ a.level + a.off \in 0 .. Len(a.chain) - 1
    /\ a.home # <<>> /\ Reached(a) = Head(a.home)
    /\ a.slot < scopes[Reached(a)].slots

(* VariableScope::NextSlot: two variables never meet in one slot of one    *)
(* environment.                                                            *)
SlotsApart ==
  \A a, b \in Lexical :
    Reached(a) = Reached(b) /\ a.slot = b.slot => a.name = b.name

(* Binder::LookupIdentReference: what a function reads from around it is   *)
(* not in a register.                                                      *)
CapturedInEnvironment == \A a \in accesses : a.function => a.slot # None

(* ConvertToVariableScope, CopyBindings: a captured variable of a loop     *)
(* lives, in the body of the loop, in an environment of that loop.         *)
FreshInLoop ==
  \A a \in Lexical :
    a.name[2] = "head" /\ a.part = "body" =>
      LET s == constructs[a.name[1]].scope
          k == constructs[a.name[1]].kind
      IN  Reached(a) = IF k = "const" THEN s ELSE s + 1
=============================================================================
