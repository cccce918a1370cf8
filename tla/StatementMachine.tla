-------------------------- MODULE StatementMachine --------------------------
(***************************************************************************)
(* The execution of the code that StatementCompiler makes, one instruction *)
(* a step: any expression may throw and any condition may hold.  What the  *)
(* source promises of a place (the environments around it, the finally     *)
(* blocks and iterators still to be seen to) travels with every            *)
(* instruction as i.at; the machine has what is really there.              *)
(***************************************************************************)
EXTENDS StatementCompiler

CONSTANTS Programs,  \* statements, the bodies of functions
          MaxDrift   \* by how many environments an execution may be off

(* The code of each program with the positions of its labels.              *)
Build(s) ==
  LET g == CompileFunction(s)
  IN  [source |-> s,
       code  |-> g.code,
       table |-> g.catchList,
       jumps |-> g.jumps,
       pos   |-> [l \in {g.code[k].arg : k \in {k \in DOMAIN g.code :
                                                  g.code[k].op = "label"}} |->
                    CHOOSE k \in DOMAIN g.code :
                      g.code[k].op = "label" /\ g.code[k].arg = l]]

(* A jump to no label, or to one that the source does not mean, is known   *)
(* from the code alone (JumpsReach): what it does is not executed.         *)
Misdirected(j) == j.target = None \/ j.target # j.wanted

VARIABLES code,    \* a function and its code
          pc,      \* the next instruction, 0 at the end
          acc,     \* the accumulator
          regs,    \* the registers that were written
          env,     \* how many lexical environments the function has made
          owed,    \* finally blocks and iterators still to be seen to
          closed,  \* iterators that have been closed
          drift,   \* by how many environments jumps went wrong
          stray    \* the exception reached a context already left

vars == <<code, pc, acc, regs, env, owed, closed, drift, stray>>

Insns == code.code
I     == Insns[pc]
At(l) == code.pos[l]

Init ==
  /\ code \in {Build(s) : s \in Programs}
  /\ pc = IF \E j \in code.jumps : Misdirected(j) THEN 0 ELSE 1
  /\ acc = "undefined" /\ regs = <<>>
  /\ env = 0 /\ owed = {} /\ closed = {} /\ drift = 0 /\ stray = "no"

Go(k)   == pc' = k
Fall    == Go(pc + 1)
Goto(l) == Go(At(l))

(* The catch tables that cover the instruction, and those that come first  *)
(* in the sorted list.                                                     *)
Covering ==
  {t \in code.table : At(TryBegin(t.id)) <= pc /\ pc < At(TryEnd(t.id))}
(* SortCatchTables                                                         *)
SortCatchTables(tables) ==
  {t \in tables : \A u \in tables : u.depth <= t.depth}

Raise ==
  /\ acc' = "exception"
  /\ IF Covering = {} THEN Go(0) /\ stray' = stray
     ELSE \E t \in SortCatchTables(Covering) :
            /\ Go(At(CatchBegin(t.id)))
            /\ stray' = IF t.id \in I.at.live THEN "no"
                        ELSE IF I.completion # "normal" THEN "known" ELSE "wrong"
  /\ UNCHANGED <<code, regs, env, drift>>

Quiet == UNCHANGED <<code, regs, env, owed, closed, drift, stray>>

Is(ops) == pc > 0 /\ stray = "no" /\ I.op \in ops

(* An expression of the source, or a call and an await for an iterator.    *)
Expression ==
  /\ Is({"use", "call"})
  /\ \/ acc' = "value" /\ Fall /\ Quiet
     \/ Raise /\ UNCHANGED <<owed, closed>>

Skip ==
  /\ Is({"label"})
  /\ Fall /\ UNCHANGED acc /\ Quiet

(* i.drift is what StatementCompiler says this jump is off by.             *)
Take ==
  /\ drift' = drift + I.drift /\ drift' \in - MaxDrift .. MaxDrift
  /\ Goto(I.arg)

Jumping ==
  /\ Is({"jmp"})
  /\ Take
  /\ UNCHANGED <<code, acc, regs, env, owed, closed, stray>>

Branching ==
  /\ Is({"branch", "ifdef"})
  /\ \/ /\ I.op = "ifdef" => acc # "undefined"
        /\ Take
     \/ /\ I.op = "ifdef" => acc = "undefined"
        /\ Fall /\ UNCHANGED drift
  /\ UNCHANGED <<code, acc, regs, env, owed, closed, stray>>

Environment ==
  /\ Is({"newenv", "popenv", "copyenv"})
  /\ env' = CASE I.op = "newenv"  -> env + 1
              [] I.op = "popenv"  -> env - 1
              [] I.op = "copyenv" -> env
  /\ Fall /\ UNCHANGED <<code, acc, regs, owed, closed, drift, stray>>

Move ==
  /\ Is({"hole", "lda", "sta", "sthole", "stundef"})
  /\ acc' = CASE I.op = "hole" -> "hole"
              [] I.op = "lda"  -> regs[I.arg]
              [] OTHER         -> acc
  /\ regs' = CASE I.op = "sta"     -> (I.arg :> acc) @@ regs
               [] I.op = "sthole"  -> (I.arg :> "hole") @@ regs
               [] I.op = "stundef" -> (I.arg :> "undefined") @@ regs
               [] OTHER            -> regs
  /\ Fall /\ UNCHANGED <<code, env, owed, closed, drift, stray>>

Throwing ==
  /\ Is({"throw", "rethrow"})
  /\ \/ Raise /\ UNCHANGED <<owed, closed>>
        /\ (I.op = "rethrow" => acc # "hole")
     \/ I.op = "rethrow" /\ acc = "hole" /\ Fall /\ UNCHANGED acc /\ Quiet

(* Iterator::Iterator gets a new iterator.                                 *)
GetIterator ==
  /\ Is({"iterate"})
  /\ closed' = closed \ {I.arg} /\ acc' = "value"
  /\ Fall /\ UNCHANGED <<code, regs, env, owed, drift, stray>>

(* Iterator::Next and Complete: the iterator owes its closing once it gave *)
(* a value.                                                                *)
NextValue ==
  /\ Is({"next"})
  /\ acc' \in {"value", "undefined"}
  /\ owed' = IF acc' = "value" THEN owed \cup {I.arg} ELSE owed \ {I.arg}
  /\ Fall /\ UNCHANGED <<code, regs, env, closed, drift, stray>>

Complete ==
  /\ Is({"iffalse"})
  /\ IF acc = "undefined" THEN Goto(I.arg) ELSE Fall
  /\ UNCHANGED acc /\ Quiet

(* Iterator::Value                                                         *)
Value ==
  /\ Is({"value"})
  /\ acc' = "value" /\ Fall /\ Quiet

(* An iterator that throws is not closed.                                  *)
IteratorThrows ==
  /\ Is({"next", "value"})
  /\ owed' = owed \ {I.arg} /\ Raise /\ UNCHANGED closed

(* closeiterator ends with the exception it was given; GetMethod("return") *)
(* of an asynchronous iterator is followed by the call of what it found.   *)
Closing ==
  /\ Is({"close", "getreturn"})
  /\ owed' = owed \ {I.arg} /\ closed' = closed \cup {I.arg}
  /\ \/ Raise
     \/ /\ I.op = "close" => acc = "hole"
        /\ acc' \in {"value", "undefined"}
        /\ I.op = "close" => acc' = "value"
        /\ Fall /\ UNCHANGED <<code, regs, env, drift, stray>>

(* What is not an instruction: the source enters a try statement with a    *)
(* finally block, or that block, or continues a loop whose iterator the    *)
(* code has closed.                                                        *)
Mark ==
  /\ Is({"owe", "finally", "lose"})
  /\ owed' = CASE I.op = "owe"     -> owed \cup {I.arg}
               [] I.op = "finally" -> owed \ {I.arg}
               [] I.op = "lose"    -> owed
  /\ closed' = IF I.op = "lose" THEN closed \ {I.arg} ELSE closed
  /\ Fall /\ UNCHANGED <<code, acc, regs, env, drift, stray>>

Returning ==
  /\ Is({"return"})
  /\ Go(0) /\ acc' = "returned"
  /\ Quiet

Next ==
  \/ Expression \/ Skip \/ Jumping \/ Branching \/ Environment \/ Move
  \/ Throwing \/ GetIterator \/ NextValue \/ Complete \/ Value
  \/ IteratorThrows \/ Closing \/ Mark \/ Returning

Spec == Init /\ [][Next]_vars

-----------------------------------------------------------------------------
(* dynamicContext.cpp, envScope.cpp: wherever an expression is evaluated,  *)
(* the lexical environments are those the source has around it, up to what *)
(* the jumps taken are known to be off by.                                 *)
EnvironmentsFollowSource ==
  Is({"use"}) => env = I.at.env + drift

(* A finally block or an iterator is seen to when it is left, before       *)
(* anything else runs, and only then.  When an exception leaves the        *)
(* function, nothing is owed.  A return must see to everything around it   *)
(* but does not: ControlFlowChangeBreak ends at the innermost loop or      *)
(* switch (pandagen.cpp:546), and what lies beyond is skipped - exactly    *)
(* that.  The return that Close makes of a break is CompletionKept's.      *)
CleanedWhenLeft ==
  /\ Is({"use", "call"}) => owed = I.at.owed
  /\ Is({"return"}) /\ I.completion \in {"normal", "return"} =>
       owed = I.at.beyond
  /\ pc = 0 /\ acc = "exception" => owed = {}

(* An iterator is closed, and a finally block run, once: not again for the *)
(* same execution of its statement.  One case is known where they are: a   *)
(* jump in a finally block that is compiled in place walks through the     *)
(* contexts that the jump before it has left (TryContext::inFinalizer_ is  *)
(* only the one of that block).                                            *)
CleanedOnce ==
  /\ Is({"close", "getreturn", "finally"}) => I.arg \in owed \cup {I.again}
  /\ Is({"next"}) => I.arg \notin closed

(* Code that belongs to a place is handled by the handlers around that     *)
(* place: only code compiled in place for a jump is covered by those of    *)
(* what the jump leaves.                                                   *)
HandledInside == stray # "wrong"

(* ControlFlowChangeBreak and ControlFlowChangeContinue take the label of  *)
(* the statement that the jump names.  Two cases are known not to: a label *)
(* on a statement that is neither block nor loop has no place to jump to,  *)
(* and a finally block compiled in place finds the contexts of the jump it *)
(* is compiled for.                                                        *)
JumpsReach ==
  \A j \in code.jumps : j.target = j.wanted \/ j.wanted = -1 \/ j.hidden

(* iterators.cpp:110, "return Completion(completion)": the completion of   *)
(* the jump that closes an iterator is that jump: a break out of the loop  *)
(* returns from no function.                                               *)
CompletionKept == Is({"return"}) => I.completion \in {"normal", "return"}
=============================================================================
