---------------------------- MODULE ControlFlow -----------------------------
(***************************************************************************)
(* How ts2panda compiles the statements that change the control flow:      *)
(* break, continue, return and throw inside loops, switches, labelled      *)
(* blocks and try statements (compiler.ts, statement/labelTarget.ts,       *)
(* statement/tryStatement.ts, statement/loopStatement.ts,                  *)
(* statement/forOfStatement.ts, statement/switchStatement.ts).             *)
(*                                                                         *)
(* A loop whose variables a closure captures has a lexical environment of  *)
(* its own, pushed when the loop is entered and popped when it is left.  A *)
(* jump must pop those it leaves, run the finally blocks and close the     *)
(* iterators it leaves, and no handler that it leaves may catch what they  *)
(* throw.  The compiler knows what is left from the LabelTarget of the     *)
(* jump and from the chain of TryStatements.                               *)
(*                                                                         *)
(* The model compiles one function, statement by statement.  "open" is the *)
(* source around the statement that is compiled; the compiler does not see *)
(* it as such and the properties compare its tables with it.               *)
(***************************************************************************)
EXTENDS Integers, Sequences, FiniteSets, FiniteSetsExt, SequencesExt

CONSTANTS LoopKinds,  \* the kinds of loops of the program
          Labels,     \* its labels
          MaxOpen,    \* nested statements, bounds the model
          MaxTables,  \* catch tables, bounds the model
          MaxCode     \* emitted statements, bounds the model

None == "none"

ASSUME ControlFlowAssumption ==
  /\ LoopKinds \subseteq {"do", "for", "while", "forin", "forof"}
  /\ None \notin Labels
  /\ MaxOpen \in Nat
  /\ MaxTables \in Nat
  /\ MaxCode \in Nat

VARIABLES
  open,              \* the statements around: kind, own environment, label
  labelTarget,       \* the LabelTarget object of each open statement
  labelTargetStack,  \* those that are pushed, as positions in open
  name2LabelTarget,  \* labels to positions in open
  tries,             \* currentTryStatement and its outer ones, innermost last
  catchTables,       \* the label pairs of every catch table
  code,              \* per statement emitted, the tables that must cover it
  jump,              \* the jump just compiled: where it leads, the number of
                     \* environments it leaves, the statements it finalized
  failed             \* a DiagnosticError was thrown

vars == <<open, labelTarget, labelTargetStack, name2LabelTarget, tries,
          catchTables, code, jump, failed>>

NoJump == [kind |-> None, label |-> None, to |-> 0, depth |-> 0,
           finalized |-> <<>>]

Init ==
  /\ open = <<>>
  /\ labelTarget = <<>>
  /\ labelTargetStack = <<>>
  /\ name2LabelTarget = <<>>
  /\ tries = <<>>
  /\ catchTables = <<>>
  /\ code = <<>>
  /\ jump = NoJump
  /\ failed = FALSE

-----------------------------------------------------------------------------
(* The source.                                                             *)

IsLoop(i)      == open[i].kind \in {"do", "for", "while", "forin", "forof"}
IsBreakable(i) == IsLoop(i) \/ open[i].kind = "switch"
IsLabelled(i, label) == label # None /\ open[i].label = label

(* The statements from i to n that have an environment on the stack, and   *)
(* the depth of the stack inside the first i statements.                   *)
Envs(i, n) == {j \in i .. n : open[j].env}
Depth(i) == Cardinality(Envs(1, i))

(* The depth the code at a break target, or a continue target, expects:    *)
(* the end of a loop still has to pop the environment of the loop, the     *)
(* start of a while, for-in or for-of loop has still to push it.           *)
BreakDepth(i) == Depth(i)
ContinueDepth(i) ==
  IF open[i].kind \in {"do", "for"} THEN Depth(i) ELSE Depth(i - 1)

-----------------------------------------------------------------------------
(* LabelTarget.                                                            *)

Top(s) == s[Len(s)]
Pushed == Range(labelTargetStack)

(* Mutant of CloseContinueTarget: a switch has no continue target.         *)
CloseContinueTargetNone == 0

(* getCloseContinueTarget                                                  *)
CloseContinueTarget ==
  IF labelTargetStack = <<>> THEN 0
  ELSE labelTarget[Top(labelTargetStack)].continueTarget

NewLabelTarget(kind, env, continueTarget) ==
  [kind |-> kind, loopEnvLevel |-> IF env THEN 1 ELSE 0,
   continueTarget |-> continueTarget, try |-> Len(tries)]

(* increaseLoopEnvLevel and decreaseLoopEnvLevel of all pushed targets.    *)
Leveled(by) ==
  [i \in DOMAIN labelTarget |->
     IF i \in Pushed
     THEN [labelTarget[i] EXCEPT !.loopEnvLevel = @ + by] ELSE labelTarget[i]]

(* Mutant of TriesLeveled: the end of a loop is not counted.               *)
TriesLeveledUp(chain, by) ==
  IF chain = <<>> \/ by < 0 THEN chain
  ELSE [chain EXCEPT ![Len(chain)].loopEnvLevel = @ + by]

(* The same for the current try statement only.                            *)
TriesLeveled(chain, by) ==
  IF chain = <<>> THEN chain
  ELSE [chain EXCEPT ![Len(chain)].loopEnvLevel = @ + by]

(* updateName2LabelTarget refuses a label that is in use.                  *)
Known(label) == label \in DOMAIN name2LabelTarget
Named(label, i) ==
  IF label = None THEN name2LabelTarget
  ELSE [l \in DOMAIN name2LabelTarget \cup {label} |->
          IF l = label THEN i ELSE name2LabelTarget[l]]
(* deleteName2LabelTarget                                                  *)
Unnamed(label) ==
  [l \in DOMAIN name2LabelTarget \ {label} |-> name2LabelTarget[l]]

-----------------------------------------------------------------------------
(* Catch tables: label pairs are ranges of code, 0 is a label not yet set. *)

Here == Len(code) + 1
Covers(table, p) ==
  \E i \in DOMAIN table :
    table[i][1] <= p /\ (table[i][2] = 0 \/ p < table[i][2])
TablesOf(chain) == {chain[i].table : i \in DOMAIN chain}

(* splitLabelPair                                                          *)
Split(table, from, to) ==
  SubSeq(table, 1, Len(table) - 1)
    \o << <<Top(table)[1], from>>, <<to, Top(table)[2]>> >>

NewTry(builder) ==
  [builder |-> builder, stmt |-> Len(open) + 1, loopEnvLevel |-> 0,
   table |-> Len(catchTables) + 1]

(* Mutant of Finalizes: a for-of loop is closed by its own continue.       *)
FinalizesAlways(t, kind, continueTarget) == t.builder # "catch"

(* compileFinalizer: does t emit code before a jump to this target?        *)
(* for-of: not before a continue of the loop itself.                       *)
Finalizes(t, kind, continueTarget) ==
  \/ t.builder = "finally"
  \/ t.builder = "forof" /\ (kind = "break" \/ continueTarget # t.stmt)

(* Mutant of Cut: only the table of the finalized try statement.           *)
CutOwn(i) == {tries[i].table}

(* updateCatchTables: those that what finalizes the i-th is cut out of.    *)
Cut(i) == {tries[k].table : k \in i .. Len(tries)}

(* The i-th try statement is left: its finalizer is compiled in place and  *)
(* cut out of the range of the try statement and of all inside it; s is    *)
(* what has been emitted for those.  A finally block is one statement      *)
(* without jumps.                                                          *)
Finalized(s, i, kind, continueTarget) ==
  LET t == tries[i]
      emits == Finalizes(t, kind, continueTarget)
      after == IF emits THEN Append(s.code, TablesOf(SubSeq(tries, 1, i - 1)))
               ELSE s.code
  IN IF t.builder = "catch" THEN s
     ELSE [code |-> after,
           tables |-> [k \in DOMAIN s.tables |->
                         IF k \in Cut(i)
                         THEN Split(s.tables[k], Len(s.code) + 1, Len(after) + 1)
                         ELSE s.tables[k]],
           finalized |-> IF emits THEN Append(s.finalized, t.stmt)
                         ELSE s.finalized]

(* compileFinallyBeforeCFC: from the innermost try statement to the one    *)
(* that encloses the target.                                               *)
Inlined(end, kind, continueTarget) ==
  LET F[i \in end .. Len(tries)] ==
        IF i = Len(tries)
        THEN [code |-> code, tables |-> catchTables, finalized |-> <<>>]
        ELSE Finalized(F[i + 1], i + 1, kind, continueTarget)
  IN F[end]

-----------------------------------------------------------------------------
(* Statements that open a region.                                          *)

Open(kind, env, label) ==
  open' = Append(open, [kind |-> kind, env |-> env, label |-> label])

Compiling == ~failed /\ jump = NoJump

(* A label that is already in use: DiagnosticError.                        *)
Refuse(label) ==
  /\ Compiling
  /\ Len(open) < MaxOpen
  /\ Known(label)
  /\ failed' = TRUE
  /\ UNCHANGED <<open, labelTarget, labelTargetStack, name2LabelTarget, tries,
                 catchTables, code, jump>>

(* A loop up to its body; that of a for-of loop is the block of a try      *)
(* statement of its own, inside the region of the label target.            *)
EnterLoop(kind, env, label) ==
  /\ Compiling
  /\ Len(open) < MaxOpen
  /\ ~Known(label)
  /\ LET at == Len(open) + 1
         counted == IF env THEN TriesLeveled(tries, 1) ELSE tries
     IN  /\ Open(kind, env, label)
         /\ labelTarget' =
              Append(IF env THEN Leveled(1) ELSE labelTarget,
                     NewLabelTarget(kind, env, at))
         /\ labelTargetStack' = Append(labelTargetStack, at)
         /\ name2LabelTarget' = Named(label, at)
         /\ IF kind = "forof"
            THEN /\ Len(catchTables) < MaxTables
                 /\ tries' = Append(counted, NewTry("forof"))
                 /\ catchTables' = Append(catchTables, << <<Here, 0>> >>)
            ELSE tries' = counted /\ UNCHANGED catchTables
  /\ UNCHANGED <<code, jump, failed>>

EnterSwitch(label) ==
  /\ Compiling
  /\ Len(open) < MaxOpen
  /\ ~Known(label)
  /\ Open("switch", FALSE, label)
  /\ labelTarget' = Append(labelTarget,
       NewLabelTarget("switch", FALSE, CloseContinueTarget))
  /\ labelTargetStack' = Append(labelTargetStack, Len(open) + 1)
  /\ name2LabelTarget' = Named(label, Len(open) + 1)
  /\ UNCHANGED <<tries, catchTables, code, jump, failed>>

(* A labelled block or if statement: its target has a name but is not      *)
(* pushed.                                                                 *)
EnterBlock(label) ==
  /\ Compiling
  /\ Len(open) < MaxOpen
  /\ ~Known(label)
  /\ Open("block", FALSE, label)
  /\ labelTarget' = Append(labelTarget, NewLabelTarget("block", FALSE, 0))
  /\ name2LabelTarget' = Named(label, Len(open) + 1)
  /\ UNCHANGED <<labelTargetStack, tries, catchTables, code, jump, failed>>

(* try with a finally block or with a catch clause; one with both is       *)
(* transformed into two nested ones.  It has no target of its own.         *)
EnterTry(builder) ==
  /\ Compiling
  /\ Len(open) < MaxOpen
  /\ Len(catchTables) < MaxTables
  /\ Open(builder, FALSE, None)
  /\ labelTarget' = Append(labelTarget, NewLabelTarget(None, FALSE, 0))
  /\ tries' = Append(tries, NewTry(builder))
  /\ catchTables' = Append(catchTables, << <<Here, 0>> >>)
  /\ UNCHANGED <<labelTargetStack, name2LabelTarget, code, jump, failed>>

-----------------------------------------------------------------------------
(* The ends of the regions.                                                *)

(* The end label of the innermost try statement is set; its destroy.       *)
EndTry(table) ==
  [catchTables EXCEPT ![table] =
     SubSeq(@, 1, Len(@) - 1) \o << <<Top(@)[1], Here>> >>]

(* After the try block: the finally block or the catch clause, where        *)
(* statements are no longer inside the try statement.                      *)
LeaveTryBlock ==
  /\ Compiling
  /\ open # <<>>
  /\ Top(open).kind \in {"finally", "catch"}
  /\ open' = [open EXCEPT ![Len(open)].kind = "handler"]
  /\ catchTables' = EndTry(Top(tries).table)
  /\ tries' = Front(tries)
  /\ UNCHANGED <<labelTarget, labelTargetStack, name2LabelTarget, code, jump,
                 failed>>

(* The end of a loop, a switch, a labelled block or a handler:             *)
(* popLabelTarget, deleteName2LabelTarget.                                 *)
Leave ==
  /\ Compiling
  /\ open # <<>>
  /\ Top(open).kind \notin {"finally", "catch"}
  /\ LET last    == Top(open)
         pushed  == Len(open) \in Pushed
         ended   == IF last.kind = "forof" THEN Front(tries) ELSE tries
         stack   == IF pushed THEN Front(labelTargetStack) ELSE labelTargetStack
     IN  /\ open' = Front(open)
         /\ catchTables' = IF last.kind = "forof" THEN EndTry(Top(tries).table)
                           ELSE catchTables
         /\ labelTargetStack' = stack
         /\ labelTarget' = Front(IF last.env THEN Leveled(-1) ELSE labelTarget)
         /\ tries' = IF last.env THEN TriesLeveled(ended, -1) ELSE ended
         /\ name2LabelTarget' = Unnamed(last.label)
  /\ UNCHANGED <<code, jump, failed>>

-----------------------------------------------------------------------------
(* Statements.                                                             *)

(* A statement that may throw.                                             *)
Statement ==
  /\ Compiling
  /\ Len(code) < MaxCode
  /\ code' = Append(code, TablesOf(tries))
  /\ UNCHANGED <<open, labelTarget, labelTargetStack, name2LabelTarget, tries,
                 catchTables, jump, failed>>

(* Mutant of PopTimes: every target pops the environment of its loop.      *)
PopTimesAll(target, isContinue) == target.loopEnvLevel

(* popLoopEnvWhenContinueOrBreak                                           *)
PopTimes(target, isContinue) ==
  IF target.loopEnvLevel = 0 THEN 0
  ELSE CASE target.kind \in {"do", "for"} -> target.loopEnvLevel - 1
         [] target.kind \in {"while", "forin", "forof"} ->
              target.loopEnvLevel - (IF isContinue THEN 0 ELSE 1)
         [] OTHER -> target.loopEnvLevel

(* getLabelTarget                                                          *)
LabelTargetOf(label) ==
  IF label = None THEN Top(labelTargetStack) ELSE name2LabelTarget[label]

(* What a jump emits: the finalizers, pops of environments, the branch.    *)
Emit(kind, label, to, end, continueTarget, pops) ==
  LET s == Inlined(end, kind, continueTarget)
  IN  /\ Len(code) < MaxCode
      /\ code' = Append(s.code, TablesOf(tries))
      /\ catchTables' = s.tables
      /\ jump' = [kind |-> kind, label |-> label, to |-> to,
                  depth |-> Depth(Len(open)) - pops, finalized |-> s.finalized]
  /\ UNCHANGED <<open, labelTarget, labelTargetStack, name2LabelTarget, tries,
                 failed>>

(* checkBreakOrContinueStatement has refused a jump without a target.      *)
Break(label) ==
  /\ Compiling
  /\ \E i \in DOMAIN open :
       IF label = None THEN IsBreakable(i) ELSE IsLabelled(i, label)
  /\ LET target == labelTarget[LabelTargetOf(label)]
     IN  Emit("break", label, LabelTargetOf(label), target.try, 0,
              PopTimes(target, FALSE))

Continue(label) ==
  /\ Compiling
  /\ \E i \in DOMAIN open : IsLoop(i) /\ (label = None \/ IsLabelled(i, label))
  /\ LET target == labelTarget[LabelTargetOf(label)]
     IN  Emit("continue", label, target.continueTarget, target.try,
              target.continueTarget, PopTimes(target, TRUE))

(* All finalizers of the function, as before a break out of it.            *)
Return ==
  /\ Compiling
  /\ Emit("break", None, 0, 0, 0, 0)

(* compileThrowStatement: the environments of the loops inside the current *)
(* try statement are popped; its handler is where the exception goes.      *)
Throw ==
  /\ Compiling
  /\ Len(code) < MaxCode
  /\ code' = Append(code, TablesOf(tries))
  /\ jump' = [kind |-> "throw", label |-> None, to |-> 0, finalized |-> <<>>,
              depth |-> Depth(Len(open))
                        - (IF tries = <<>> THEN 0 ELSE Top(tries).loopEnvLevel)]
  /\ UNCHANGED <<open, labelTarget, labelTargetStack, name2LabelTarget, tries,
                 catchTables, failed>>

(* The next statement is compiled.                                         *)
Proceed ==
  /\ jump # NoJump
  /\ jump' = NoJump
  /\ UNCHANGED <<open, labelTarget, labelTargetStack, name2LabelTarget, tries,
                 catchTables, code, failed>>

Next ==
  \/ \E kind \in LoopKinds, env \in BOOLEAN, label \in Labels \cup {None} :
       EnterLoop(kind, env, label)
  \/ \E label \in Labels \cup {None} : EnterSwitch(label)
  \/ \E label \in Labels : EnterBlock(label) \/ Refuse(label)
  \/ \E builder \in {"finally", "catch"} : EnterTry(builder)
  \/ LeaveTryBlock
  \/ Leave
  \/ Statement
  \/ \E label \in Labels \cup {None} : Break(label) \/ Continue(label)
  \/ Return
  \/ Throw
  \/ Proceed

Spec == Init /\ [][Next]_vars

-----------------------------------------------------------------------------
(* Properties.                                                             *)

(* What may be open.  *)
Kinds == LoopKinds \cup {"switch", "block", "finally", "catch", "handler"}

(* Every pushed LabelTarget knows how many environments lie between it and *)
(* the code being compiled, and every TryStatement how many were pushed    *)
(* since its block began and before that of the next one.                  *)
Levels ==
  /\ \A i \in Pushed :
       labelTarget[i].loopEnvLevel = Cardinality(Envs(i, Len(open)))
  /\ \A k \in DOMAIN tries :
       LET last == IF k = Len(tries) THEN Len(open) ELSE tries[k + 1].stmt
       IN  tries[k].loopEnvLevel =
             Cardinality(Envs(tries[k].stmt + 1, last))

(* However often finally blocks and iterator closings are inlined and the  *)
(* label pairs split, a catch table covers exactly the code of its try     *)
(* block: what is inlined is covered by the try statements around the one  *)
(* it finalizes and by none from there inwards.                            *)
CatchRangesExact ==
  \A p \in DOMAIN code :
    {t \in DOMAIN catchTables : Covers(catchTables[t], p)} = code[p]

(* The statement the source jumps to.                                      *)
SourceTarget ==
  LET targets ==
        {i \in DOMAIN open :
           IF jump.label # None THEN IsLabelled(i, jump.label)
           ELSE IF jump.kind = "break" THEN IsBreakable(i) ELSE IsLoop(i)}
  IN  Max(targets)

IsReturn == jump.kind = "break" /\ jump.to = 0

(* A break or a continue leads to the statement that the source names or,  *)
(* without a label, to the innermost loop or, for a break, switch: also    *)
(* for a continue inside a switch, which has no target of its own.         *)
JumpsToItsTarget ==
  jump.kind \in {"break", "continue"} /\ ~IsReturn => jump.to = SourceTarget

(* A continue inside a switch uses the LabelTarget of the switch.          *)
ContinueOfSwitch ==
  /\ jump.kind = "continue" /\ jump.label = None
  /\ \E i \in jump.to + 1 .. Len(open) : open[i].kind = "switch"

(* The statements to finalize.                                             *)
ToFinalize ==
  {i \in DOMAIN open :
     \/ i > jump.to /\ open[i].kind \in {"finally", "forof"}
     \/ i = jump.to /\ open[i].kind = "forof" /\ jump.kind = "break"}

InnermostFirst(s) == \A m \in DOMAIN s : \A k \in 1 .. m - 1 : s[m] < s[k]

(* A jump runs the finally blocks and closes the iterators of exactly the  *)
(* statements that it leaves, each once, the innermost first; a continue   *)
(* does not leave its loop, a return leaves all.  A continue inside a      *)
(* switch may leave out some, those further out.                           *)
FinalizesWhatItLeaves ==
  jump.kind \in {"break", "continue"} =>
    LET done == Range(jump.finalized)
    IN  /\ InnermostFirst(jump.finalized)
        /\ done \subseteq ToFinalize
        /\ \A i \in ToFinalize \ done :
             ContinueOfSwitch /\ \A k \in done : i < k

(* Where the environments that a jump leaves on the stack do not agree     *)
(* with those its target expects.                                          *)
Expected == IF jump.kind = "break" THEN BreakDepth(jump.to)
            ELSE ContinueDepth(jump.to)
LeavesEnvs == Depth(Len(open)) > Depth(jump.to)

(* A loop without an environment of its own, left from one with.           *)
TargetWithoutEnv == IsLoop(jump.to) /\ ~open[jump.to].env /\ LeavesEnvs
(* A labelled block, whose target is not pushed; see BreaksPopInnerEnvs.   *)
BreakOfBlock == open[jump.to].kind = "block" /\ LeavesEnvs

(* Apart from three situations, a break or a continue arrives with the     *)
(* environments on the stack that the code at its target pops: neither too *)
(* few nor too many are popped before it.  That a labelled block is one of *)
(* them is not what the code means to do: BreaksPopInnerEnvs is violated.  *)
JumpsAligned ==
  jump.kind \in {"break", "continue"} /\ ~IsReturn =>
    \/ jump.depth = Expected
    \/ TargetWithoutEnv
    \/ ContinueOfSwitch
    \/ BreakOfBlock

(* compiler.ts:612, "SwitchStatement & BlockStatement could also have      *)
(* break labelTarget which changes the control flow out of their inner env *)
(* loop.  We should pop Loop env with such cases either": a break out of a *)
(* switch or a labelled block has popped the environments of the loops     *)
(* inside.                                                                 *)
BreaksPopInnerEnvs ==
  /\ jump.kind = "break" /\ ~IsReturn
  /\ open[jump.to].kind \in {"switch", "block"}
  => jump.depth = Expected

(* A throw arrives at the handler of the innermost try statement with the  *)
(* environments that were on the stack where its try block began.          *)
ThrowsAligned ==
  jump.kind = "throw" /\ tries # <<>> =>
    jump.depth = Depth(Top(tries).stmt)

=============================================================================
