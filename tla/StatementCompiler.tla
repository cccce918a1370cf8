------------------------- MODULE StatementCompiler -------------------------
(***************************************************************************)
(* How es2panda compiles the statements that change the control flow: the  *)
(* Compile functions of ir/statements, the contexts of                     *)
(* compiler/core/dynamicContext.cpp, the iterators of                      *)
(* compiler/base/iterators.cpp and the jumps of compiler/core/pandagen.cpp *)
(* as operators from a statement and a generator to a generator.           *)
(*                                                                         *)
(* A statement is a record with the field op and those of its form.  A     *)
(* body stands for the block { use; s; use }, where "use" is an expression *)
(* that may throw.  A generator holds the code, the catch tables and the   *)
(* stack of dynamic contexts as PandaGen does; "at" is the place in the    *)
(* source that the code comes from, which PandaGen does not know and which *)
(* the statements set from the source alone:                               *)
(*   live    the contexts around that place                                *)
(*   env     the number of lexical environments around it                  *)
(*   owed    the finally blocks and iterators that leaving it must see to  *)
(*   beyond  those of them around the innermost loop or switch             *)
(*   brk     where a break must lead, for each label and for none          *)
(*   cont    the same for continue.                                        *)
(* completion is the jump that code is compiled in place for, or "normal", *)
(* and again the context that jump aborts without being in it, or None.    *)
(* An instruction keeps these.                                             *)
(***************************************************************************)
EXTENDS Integers, Sequences, FiniteSets, SequencesExt

CONSTANT Labels   \* the labels of the program

None == 0     \* no label: a null pointer

(* LabelTarget::BREAK_LABEL, LabelTarget::CONTINUE_LABEL                   *)
BREAK_LABEL    == "#b"
CONTINUE_LABEL == "#c"
Names == Labels \cup {BREAK_LABEL, CONTINUE_LABEL}

Nowhere == [n \in Names |-> None]

NewGenerator ==
  [code |-> <<>>, catchList |-> {}, dynamicContext |-> <<>>, next |-> 1,
   at |-> [live |-> {}, env |-> 0, owed |-> {}, beyond |-> {},
           brk |-> Nowhere, cont |-> Nowhere],
   named |-> {}, completion |-> "normal", again |-> None, jumps |-> {}]

Insn(g, op, arg, drift) ==
  [op |-> op, arg |-> arg, drift |-> drift, completion |-> g.completion,
   again |-> g.again,
   at |-> [live |-> g.at.live, env |-> g.at.env,
           owed |-> g.at.owed, beyond |-> g.at.beyond]]
EmitDrift(g, op, arg, drift) ==
  [g EXCEPT !.code = Append(@, Insn(g, op, arg, drift))]
Emit(g, op, arg) == EmitDrift(g, op, arg, 0)
EmitAll(g, insns) ==
  [g EXCEPT !.code = @ \o [k \in DOMAIN insns |->
                              Insn(g, insns[k][1], insns[k][2], 0)]]

AllocLabels(g, n) == [g EXCEPT !.next = @ + n]
SetLabel(g, l)    == Emit(g, "label", l)
Branch(g, l)      == Emit(g, "jmp", l)
Use(g)            == Emit(g, "use", None)

-----------------------------------------------------------------------------
(* Dynamic contexts.  The labels of the catch table of context c are       *)
(* c.id + 1 .. c.id + 4, further ones are for its registers.               *)

Context(id, type) ==
  [type |-> type, id |-> id, breakLabel |-> "", continueLabel |-> "",
   breakTarget |-> None, continueTarget |-> None, hasEnv |-> FALSE,
   continueEnv |-> 0, endsAfter |-> FALSE, async |-> FALSE,
   finalizer |-> [op |-> "none"], inFinalizer |-> FALSE, at |-> <<>>]

(* A context with the LabelTarget of a loop.                               *)
Targeted(c, brk, cont, continueEnv) ==
  [c EXCEPT !.breakLabel = BREAK_LABEL, !.continueLabel = CONTINUE_LABEL,
            !.breakTarget = brk, !.continueTarget = cont,
            !.continueEnv = continueEnv]

HasTryCatch(c) == c.type \in {"iterator", "try"} \/ c.hasEnv

Enter(g, c) ==
  [g EXCEPT !.dynamicContext = Append(@, [c EXCEPT !.at = g.at]),
            !.at.live = @ \cup {c.id}]

(* What follows lies outside the innermost context, which still exists.    *)
Outside(g) == [g EXCEPT !.at = Last(g.dynamicContext).at]
Leave(g)   == [Outside(g) EXCEPT !.dynamicContext = Front(@)]

TryBegin(id)   == id + 1
TryEnd(id)     == id + 2
CatchBegin(id) == id + 3
CatchEnd(id)   == id + 4
Register(id)   == id + 5

TryDepth(g) ==
  Cardinality({i \in DOMAIN g.dynamicContext :
                 HasTryCatch(g.dynamicContext[i])})

CreateCatchTable(g) ==
  [g EXCEPT !.catchList = @ \cup {[id |-> Last(g.dynamicContext).id,
                                   depth |-> TryDepth(g)]}]

OpenTry(g) ==
  LET id == Last(g.dynamicContext).id
  IN  SetLabel(CreateCatchTable(g), TryBegin(id))
CloseTry(g) ==
  LET id == Last(g.dynamicContext).id
  IN  SetLabel(Outside(Branch(SetLabel(g, TryEnd(id)), CatchEnd(id))),
               CatchBegin(id))
EndCatch(g) ==
  LET id == Last(g.dynamicContext).id IN Leave(SetLabel(g, CatchEnd(id)))

(* LoopEnvScope with its LexEnvContext c, and CopyBindings.                *)
EnterEnv(g, c) ==
  IF c.hasEnv
  THEN [Emit(OpenTry(Enter(g, c)), "newenv", c.id) EXCEPT
          !.at.env = @ + 1]
  ELSE Enter(g, c)

LeaveEnv_NoPopOnThrow(g) ==
  IF Last(g.dynamicContext).hasEnv
  THEN Emit(EndCatch(Emit(CloseTry(g), "throw", 0)), "popenv", 0)
  ELSE Leave(g)
LeaveEnv(g) ==
  IF Last(g.dynamicContext).hasEnv
  THEN LET g1 == EmitAll(CloseTry(g), <<<<"popenv", 0>>, <<"throw", 0>>>>)
       IN  Emit(EndCatch(g1), "popenv", 0)
  ELSE Leave(g)

-----------------------------------------------------------------------------
(* Iterators.                                                              *)

TryContext(g) == Enter(AllocLabels(g, 6), Context(g.next, "try"))

(* The catch clause that both tries of Iterator::Close have.               *)
KeepInner(g, result, type) ==
  EndCatch(EmitAll(CloseTry(g), <<<<"sta", result>>, <<"sta", type>>>>))

CloseAsync(g, id, abrupt) ==
  LET completion == g.next
      result     == g.next + 1
      type       == g.next + 2
      exits      == g.next + 3
      g1 == EmitAll(AllocLabels(g, 4),
                    <<<<"sta", completion>>, <<"sthole", type>>>>)
      g2 == EmitAll(OpenTry(TryContext(g1)),
                    <<<<"getreturn", id>>, <<"ifdef", exits>>,
                      <<"lda", completion>>,
                      IF abrupt THEN <<"throw", 0>> ELSE <<"return", 0>>,
                      <<"label", exits>>>>)
      g3 == EmitAll(OpenTry(TryContext(g2)),
                    <<<<"call", 0>>, <<"sta", result>>>>)
      g4 == KeepInner(KeepInner(g3, result, type), result, type)
  IN  IF abrupt
      THEN EmitAll(g4, <<<<"lda", completion>>, <<"throw", 0>>,
                         <<"lda", result>>, <<"call", 0>>>>)
      ELSE EmitAll(g4, <<<<"lda", type>>, <<"rethrow", 0>>,
                         <<"lda", result>>, <<"call", 0>>>>)

Close(g, c, abrupt) ==
  IF c.async THEN CloseAsync(g, c.id, abrupt)
  ELSE IF abrupt THEN Emit(g, "close", c.id)
  ELSE EmitAll(g, <<<<"hole", 0>>, <<"close", c.id>>>>)

-----------------------------------------------------------------------------
(* Jumps.                                                                  *)

RECURSIVE Compile(_, _)

Body(s, g) == Use(Compile(s, Use([g EXCEPT !.named = {}])))

EmitFinalizer(g, i) ==
  LET c  == g.dynamicContext[i]
      g1 == [g EXCEPT !.dynamicContext[i].inFinalizer = TRUE]
      g2 == Body(c.finalizer, Emit(g1, "finally", c.id))
  IN  IF c.finalizer.op = "none" \/ c.inFinalizer THEN g
      ELSE [g2 EXCEPT !.dynamicContext[i].inFinalizer = FALSE]

(* AbortContext of the i-th context.  Its code belongs outside the context,*)
(* unless the jump is in a finally block that is itself compiled in place; *)
(* a continue leaves the environments as they are.  Where Close returns,   *)
(* the function is left at the jump.                                       *)
Aborted(g, i, cfc, closes) ==
  LET c  == g.dynamicContext[i]
      at == IF cfc = "break" THEN c.at ELSE [c.at EXCEPT !.env = g.at.env]
      g1 == IF c.id \in g.at.live THEN [g EXCEPT !.at = at, !.again = None]
            ELSE [g EXCEPT !.again = c.id]
      g2 == CASE c.hasEnv /\ cfc = "break" -> Emit(g1, "popenv", 0)
              [] c.type = "iterator" /\ closes ->
                   Close([g1 EXCEPT !.at.beyond = g.at.beyond], c, FALSE)
              [] c.type = "try" -> EmitFinalizer(g1, i)
              [] OTHER -> g1
  IN  [g2 EXCEPT !.at = g.at, !.again = g.again]

AbortContext_Always(g, i, cfc, name) == Aborted(g, i, cfc, TRUE)
AbortContext_BreakOnly(g, i, cfc, name) == Aborted(g, i, cfc, cfc = "break")
AbortContext(g, i, cfc, name) ==
  Aborted(g, i, cfc, ~ (cfc = "continue"
                          /\ g.dynamicContext[i].continueLabel = name))

LabelOf(c, cfc)  == IF cfc = "break" THEN c.breakLabel ELSE c.continueLabel
TargetOf(c, cfc) == IF cfc = "break" THEN c.breakTarget ELSE c.continueTarget

(* ControlFlowChangeBreak and ControlFlowChangeContinue from the i-th      *)
(* context outwards: by is the context whose target is taken, to the one   *)
(* where the walk ends.                                                    *)
Target_First(g, i, cfc, by) ==
  IF TargetOf(g.dynamicContext[i], cfc) # None /\ by = 0 THEN i ELSE by
Target(g, i, cfc, by) ==
  IF TargetOf(g.dynamicContext[i], cfc) # None THEN i ELSE by

RECURSIVE ControlFlowChange(_, _, _, _, _)
ControlFlowChange(g, i, cfc, name, by) ==
  IF i = 0 THEN [g |-> g, to |-> 0, by |-> by]
  ELSE LET c  == g.dynamicContext[i]
           g1 == AbortContext(g, i, cfc, name)
           b  == Target(g, i, cfc, by)
       IN  IF LabelOf(c, cfc) = name THEN [g |-> g1, to |-> i, by |-> b]
           ELSE ControlFlowChange(g1, i - 1, cfc, name, b)

(* What the number of environments is off by after a jump: a continue pops *)
(* none, and a break has popped those that the code at the end of the loop *)
(* pops again.                                                             *)
Off(g, cfc, walk) ==
  LET ctx == g.dynamicContext
  IN  IF walk.by = 0 THEN 0
      ELSE IF cfc = "continue"
           THEN g.at.env - ctx[walk.by].continueEnv
           ELSE - Cardinality({j \in walk.to .. walk.by :
                                 ctx[j].hasEnv /\ ctx[j].endsAfter})

(* A labelled continue closes the iterator of its own loop.                *)
Lost(g, cfc, walk, name) ==
  LET c == g.dynamicContext[walk.by]
  IN  IF /\ walk.by > 0 /\ cfc = "continue" /\ name # CONTINUE_LABEL
         /\ c.type = "iterator"
      THEN <<<<"lose", c.id>>>> ELSE <<>>

(* jumps records where jumps lead and where the source says they lead: -1  *)
(* is a statement that can be left but has no label at its end.  A context *)
(* that the jump is no longer in, because it is part of a finally block    *)
(* compiled in place, hides the one that is meant.                         *)
Leads(g, cfc, name, target) ==
  [target |-> target,
   wanted |-> IF cfc = "break" THEN g.at.brk[name] ELSE g.at.cont[name],
   hidden |-> \E c \in Range(g.dynamicContext) :
                LabelOf(c, cfc) = name /\ c.id \notin g.at.live]

Walk(g, cfc, name, completion) ==
  LET g1 == [g EXCEPT !.completion = completion]
      w  == ControlFlowChange(g1, Len(g.dynamicContext), cfc, name, 0)
  IN  [w EXCEPT !.g.completion = g.completion]

JumpBy(walk, g, cfc, name) ==
  LET target == IF walk.by = 0 THEN None
                ELSE TargetOf(g.dynamicContext[walk.by], cfc)
      g1     == [walk.g EXCEPT !.jumps = @ \cup {Leads(g, cfc, name, target)}]
  IN  EmitDrift(EmitAll(g1, Lost(g, cfc, walk, name)),
                "jmp", target, Off(g, cfc, walk))

Jump(g, cfc, label) ==
  LET name == IF label # "" THEN label
              ELSE IF cfc = "break" THEN BREAK_LABEL ELSE CONTINUE_LABEL
  IN  JumpBy(Walk(g, cfc, name, cfc), g, cfc, name)

(* ReturnStatement: ControlFlowChangeBreak without a label, which is to    *)
(* end where a break would (the function, where there is nothing to break).*)
ReturnBy(walk, g) ==
  LET end  == Leads(g, "break", BREAK_LABEL,
                    IF walk.to = 0 THEN None
                    ELSE g.dynamicContext[walk.to].breakTarget)
      g1   == [walk.g EXCEPT !.completion = "return",
                             !.jumps = IF end.target = end.wanted THEN @
                                       ELSE @ \cup {end}]
  IN  [Emit(g1, "return", 0) EXCEPT !.completion = g.completion]
Return(g) == ReturnBy(Walk(g, "break", BREAK_LABEL, "return"), g)

-----------------------------------------------------------------------------
(* Statements.                                                             *)

(* What break and continue mean in the body of a loop or switch and of the *)
(* statement with the labels in named, which stands at place.              *)
Meaning(g, place, brk, cont) ==
  [g EXCEPT !.at.beyond = place.owed,
            !.at.brk  = [n \in Names |->
                           IF n \in g.named \/ n = BREAK_LABEL
                           THEN brk ELSE @[n]],
            !.at.cont = [n \in Names |->
                           IF n \in g.named \/ n = CONTINUE_LABEL
                           THEN cont ELSE @[n]],
            !.named = {}]

Labelled(s, g) ==
  LET id    == g.next
      block == s.body.op = "block"
      c     == [Context(id, "label") EXCEPT
                  !.breakLabel = s.label, !.continueLabel = s.label,
                  !.breakTarget = IF block THEN id ELSE None]
      g1    == Enter(AllocLabels(g, 1), c)
      g2    == [g1 EXCEPT !.named = @ \cup {s.label},
                          !.at.brk[s.label] = IF block THEN id ELSE -1]
      g3    == Leave(Compile(s.body, IF block THEN [g2 EXCEPT !.named = {}]
                                     ELSE g2))
  IN  IF block THEN SetLabel(g3, id) ELSE g3

If(s, g) ==
  LET end == g.next
  IN  SetLabel(Body(s.body, Emit(AllocLabels(g, 1), "branch", end)), end)

(* WhileStatement and DoWhileStatement                                     *)
While(s, g) ==
  LET brk   == g.next
      cont  == g.next + 1
      start == g.next + 2
      c     == Targeted(Context(g.next + 3, "label"), brk, cont, g.at.env)
      g1    == AllocLabels(g, 4)
      g2    == IF s.op = "do" THEN SetLabel(g1, start)
               ELSE EmitAll(g1, <<<<"label", cont>>, <<"use", 0>>,
                                  <<"branch", brk>>>>)
      g3    == Leave(Body(s.body, Enter(Meaning(g2, g.at, brk, cont), c)))
      g4    == IF s.op = "while" THEN Branch(g3, cont)
               ELSE EmitAll(g3, <<<<"label", cont>>, <<"use", 0>>,
                                  <<"branch", brk>>, <<"jmp", start>>>>)
  IN  SetLabel([g4 EXCEPT !.at = g.at], brk)

DeclEnv(g, s) == [Context(g.next, "env") EXCEPT !.hasEnv = s.env # "none"]
LoopEnv(g, s) == [Context(g.next, "env") EXCEPT !.hasEnv = s.env = "let"]

ForUpdate(s, g) ==
  LET start == g.next
      brk   == g.next + 1
      cont  == g.next + 2
      g1    == AllocLabels(Use(g), 3)
      g2    == EnterEnv(AllocLabels(g1, 6),
                        [DeclEnv(g1, s) EXCEPT !.endsAfter = TRUE])
      c     == [Targeted(LoopEnv(g2, s), brk, cont,
                         g2.at.env + IF s.env = "let" THEN 1 ELSE 0)
                EXCEPT !.endsAfter = TRUE]
      g3    == EnterEnv(AllocLabels(g2, 6), c)
      g4    == EmitAll(g3, <<<<"label", start>>, <<"use", 0>>,
                             <<"branch", brk>>>>)
      g5    == [Body(s.body, Meaning(g4, g.at, brk, cont)) EXCEPT !.at = g3.at]
      g6    == SetLabel(g5, cont)
      g7    == IF c.hasEnv THEN Emit(g6, "copyenv", c.id) ELSE g6
  IN  LeaveEnv(LeaveEnv(EmitAll(g7, <<<<"use", 0>>, <<"jmp", start>>,
                                      <<"label", brk>>>>)))

(* The environment of the declaration is made in the loop and popped after *)
(* it: the way around leaves one behind, leaving by the test pops one too  *)
(* many.                                                                   *)
ForIn(s, g) ==
  LET brk  == g.next
      cont == g.next + 1
      leak == IF s.env = "none" THEN 0 ELSE 1
      g1   == EmitAll(AllocLabels(g, 2), <<<<"use", 0>>, <<"label", cont>>,
                                           <<"use", 0>>>>)
      g2   == Use(EmitDrift(g1, "branch", brk, -leak))
      g3   == EnterEnv(AllocLabels(g2, 6),
                       [DeclEnv(g2, s) EXCEPT !.endsAfter = TRUE])
      c    == Targeted(LoopEnv(g3, s), brk, cont, g.at.env)
      g4   == EnterEnv(AllocLabels(g3, 6), c)
      g5   == [Body(s.body, Meaning(g4, g.at, brk, cont)) EXCEPT !.at = g4.at]
      g6   == EmitDrift(LeaveEnv(g5), "jmp", cont, leak)
  IN  LeaveEnv(SetLabel(g6, brk))

ForOf(s, g) ==
  LET brk  == g.next
      cont == g.next + 1
      id   == g.next + 2
      c    == [Targeted(Context(id, "iterator"), brk, cont, g.at.env)
               EXCEPT !.async = s.async]
      g1   == EmitAll(AllocLabels(g, 8),
                      <<<<"use", 0>>, <<"iterate", id>>,
                        <<"label", cont>>, <<"next", id>>,
                        <<"iffalse", brk>>, <<"value", id>>>>)
      g2   == Use([OpenTry(Enter(g1, c)) EXCEPT !.at.owed = @ \cup {id}])
      g3   == EnterEnv(AllocLabels(g2, 6), DeclEnv(g2, s))
      g4   == EnterEnv(AllocLabels(g3, 6), LoopEnv(g3, s))
      g5   == [Body(s.body, Meaning(g4, g.at, brk, cont)) EXCEPT !.at = g4.at]
      g6   == CloseTry(LeaveEnv(LeaveEnv(g5)))
      g7   == EndCatch(Close(g6, c, TRUE))
  IN  EmitAll(g7, <<<<"jmp", cont>>, <<"label", brk>>>>)

(* SwitchStatement with SwitchBuilder.  The body is that of the first      *)
(* clause; a default clause that comes first is never jumped to.           *)
Switch(s, g) ==
  LET end    == g.next
      clause == [i \in DOMAIN s.clauses |-> g.next + 1 + i]
      c      == [Context(g.next + 1, "label") EXCEPT
                   !.breakLabel = BREAK_LABEL, !.continueLabel = BREAK_LABEL,
                   !.breakTarget = end]
      g1     == Use(Enter(AllocLabels(g, 2 + Len(s.clauses)), c))
      g2     == FoldLeft(LAMBDA h, i : IF s.clauses[i] = "default" THEN h
                                       ELSE Emit(Use(h), "branch", clause[i]),
                         g1, [i \in DOMAIN s.clauses |-> i])
      default == {i \in DOMAIN s.clauses : i > 1 /\ s.clauses[i] = "default"}
      g3     == Branch(g2, IF default = {} THEN end
                           ELSE clause[CHOOSE i \in default : TRUE])
      g4     == [g3 EXCEPT !.at.brk[BREAK_LABEL] = end, !.named = {},
                           !.at.beyond = g.at.owed]
      g5     == Body(s.body, SetLabel(g4, clause[1]))
      g6     == FoldLeft(LAMBDA h, i : IF i = 1 THEN h
                                       ELSE Use(SetLabel(h, clause[i])),
                         g5, [i \in DOMAIN s.clauses |-> i])
  IN  SetLabel(Leave(g6), end)

TryCatch_CoversHandler(s, g) ==
  LET g1 == OpenTry(TryContext(g))
      id == Last(g1.dynamicContext).id
      g2 == Branch(Body(s.body, g1), CatchEnd(id))
      g3 == Body(s.handler, SetLabel(Outside(g2), CatchBegin(id)))
  IN  EndCatch(SetLabel(g3, TryEnd(id)))
TryCatch(s, g) ==
  LET g1 == OpenTry(TryContext(g))
  IN  EndCatch(Body(s.handler, CloseTry(Body(s.body, g1))))

(* CompileTryFinally, and CompileTryCatchFinally if there is a handler.    *)
TryFinally(s, g) ==
  LET id        == g.next
      exception == g.next + 6
      ran       == g.next + 7
      done      == g.next + 8
      outer     == [Context(id, "try") EXCEPT !.finalizer = s.finalizer]
      g1 == Emit(Enter(AllocLabels(g, 9), outer), "stundef", ran)
      g2 == [Emit(OpenTry(g1), "owe", id) EXCEPT !.at.owed = @ \cup {id}]
      g3 == CloseTry(Body(s.body, OpenTry(TryContext(g2))))
      g4 == EndCatch(IF s.handler.op = "none" THEN Emit(g3, "throw", 0)
                     ELSE Body(s.handler, g3))
      g5 == Outside(EmitAll(g4, <<<<"label", TryEnd(id)>>,
                                  <<"sthole", exception>>,
                                  <<"jmp", CatchEnd(id)>>,
                                  <<"label", CatchBegin(id)>>,
                                  <<"sta", exception>>,
                                  <<"label", CatchEnd(id)>>>>))
      g6 == EmitAll(g5, <<<<"lda", ran>>, <<"ifdef", done>>, <<"sta", ran>>>>)
      g7 == EmitFinalizer(g6, Len(g6.dynamicContext))
  IN  Leave(EmitAll(g7, <<<<"label", done>>, <<"lda", exception>>,
                          <<"rethrow", 0>>>>))

Compile(s, g) ==
  CASE s.op = "empty"    -> g
    [] s.op = "break"    -> Jump(g, "break", s.label)
    [] s.op = "continue" -> Jump(g, "continue", s.label)
    [] s.op = "return"   -> Return(g)
    [] s.op = "throw"    -> Emit(g, "throw", 0)
    [] s.op = "block"    -> Body(s.body, g)
    [] s.op = "labelled" -> Labelled(s, g)
    [] s.op = "if"       -> If(s, g)
    [] s.op \in {"while", "do"} -> While(s, g)
    [] s.op = "for"      -> ForUpdate(s, g)
    [] s.op = "forin"    -> ForIn(s, g)
    [] s.op = "forof"    -> ForOf(s, g)
    [] s.op = "switch"   -> Switch(s, g)
    [] s.op = "try" /\ s.finalizer.op = "none" -> TryCatch(s, g)
    [] s.op = "try" /\ s.finalizer.op # "none" -> TryFinally(s, g)

(* The code of a function with the body s, which returns at its end.       *)
CompileFunction(s) == Emit(Body(s, NewGenerator), "return", 0)
=============================================================================
