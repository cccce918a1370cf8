---------------------------- MODULE RegisterPool ----------------------------
(***************************************************************************)
(* The virtual registers of one function while ts2panda generates its      *)
(* code: the locals, the pool of temporary registers (PandaGen.getTemp and *)
(* freeTemps), the registers of the cached constants, and the expressions  *)
(* that take registers and give them back.  An expression that is being    *)
(* compiled is a record of "open"; between its steps any expression may be *)
(* compiled inside it.                                                     *)
(*                                                                         *)
(* A virtual register has no number yet.  RegAllocator numbers the locals, *)
(* then the temporary registers in the order in which the pool holds them  *)
(* at the end, then the caches.  A call with a range of arguments needs    *)
(* registers with consecutive numbers, so what matters is the order in     *)
(* which registers are taken and given back, everywhere in the function.   *)
(*                                                                         *)
(* Instructions are reduced to the registers they name; what only moves    *)
(* between the accumulator and a constant or a property name is left out.  *)
(***************************************************************************)
EXTENDS Integers, Sequences, FiniteSets, SequencesExt

CONSTANTS
  Caches,       \* cached constants: "undefined", "hole", ...
  Hidden,       \* hidden parameters: 4funcObj, newTarget, this
  MaxParams,    \* bound: parameters, hidden ones included
  MaxLocals,    \* bound: locals, parameters included
  MaxTemps,     \* bound: temporary registers
  MaxOpen,      \* bound: expressions inside one another
  MaxInsns,     \* bound: instructions
  MaxPlain,     \* bound: instructions before the last variable or constant
  MaxSuperArgs, \* bound: arguments of a super call
  Constructs,   \* bound: what is generated
  RestTargets   \* targets of a rest property: "binding", "member"

ASSUME PoolAssumption ==
  /\ Hidden \in Nat /\ MaxParams \in Nat /\ Hidden <= MaxParams
  /\ MaxLocals \in Nat /\ MaxParams <= MaxLocals
  /\ {MaxTemps, MaxOpen, MaxInsns, MaxPlain, MaxSuperArgs} \subseteq Nat
  /\ RestTargets \subseteq {"binding", "member"}
  /\ {"lexEnv", "null", "undefined"} \subseteq Caches
  /\ Constructs \subseteq {"variable", "declare", "constant", "binary", "call",
                          "method", "new", "super", "compound", "pattern"}

VARIABLES
  locals,       \* locals of PandaGen, in order
  params,       \* parametersCount
  callOpt,      \* hidden parameters the function is known to use
  pool,         \* temps: the free registers, and how many were ever made
  needed,       \* caches that were asked for
  open,         \* expressions being compiled
  insns,        \* the instructions of the function
  generated     \* compile() has returned

poolVars ==
  <<locals, params, callOpt, pool, needed, open, insns, generated>>

-----------------------------------------------------------------------------
(* Registers and instructions.                                             *)

Local(i) == <<"local", i>>
Temp(i)  == <<"temp", i>>
Cache(c) == <<"cache", c>>

Smallest(S, i) == CHOOSE r \in S : Cardinality({q \in S : q <= r}) = i

Temps(ts) == [i \in DOMAIN ts |-> Temp(ts[i])]

(* sta stores the accumulator, lda loads it; use reads its registers; mov  *)
(* copies the second into the first.  The registers of a range, and those  *)
(* of keys from the second on, must follow one another.  A super call only *)
(* names the first of its arguments.                                       *)
Insn(op, regs) == [op |-> op, regs |-> regs, args |-> regs]
Sta(v)    == Insn("sta", <<v>>)
Lda(v)    == Insn("lda", <<v>>)
Use(regs) == Insn("use", regs)
Mov(d, s) == Insn("mov", <<d, s>>)
Super(start, args) == [op |-> "super", regs |-> <<start>>, args |-> args]

(* call of bcGenUtil.ts: up to three arguments without this are named.     *)
Call(regs, passThis) ==
  Insn(IF ~passThis /\ Len(regs) <= 4 THEN "use" ELSE "range", regs)

-----------------------------------------------------------------------------
(* The pool.                                                               *)

(* n calls of getTemp: the registers they return, and the pool after them. *)
Taken(p, n) ==
  [i \in 1 .. n |->
     IF i <= Len(p.free) THEN p.free[i] ELSE p.made + i - Len(p.free)]

After(p, n) ==
  [free |-> SubSeq(p.free, n + 1, Len(p.free)),
   made |-> IF n > Len(p.free) THEN p.made + n - Len(p.free) ELSE p.made]

(* Mutant of Freed: given back at the other end.                           *)
FreedBehind(p, ts) == [free |-> p.free \o ts, made |-> p.made]

(* freeTemps                                                               *)
Freed(p, ts) == [free |-> ts \o p.free, made |-> p.made]

-----------------------------------------------------------------------------
(* Expressions without registers of their own: a variable or a constant.   *)

Top == open[Len(open)]
InTop(kinds, step) == open # <<>> /\ Top.kind \in kinds /\ Top.step = step

Emit(code) ==
  /\ ~generated
  /\ Len(insns) + Len(code) <= MaxInsns
  /\ insns' = insns \o code

(* The pool changes to p.                                                  *)
Pool(p) == p.made <= MaxTemps /\ pool' = p

Begin(kind, regs) ==
  /\ Len(open) < MaxOpen
  /\ open' = Append(open, [kind |-> kind, regs |-> regs, step |-> 0,
                          keys |-> 0])
Becomes(step, regs, keys) ==
  open' = Append(Front(open), [kind |-> Top.kind, regs |-> regs,
                              step |-> step, keys |-> keys])
Step(step) == Becomes(step, Top.regs, Top.keys)
End == open' = Front(open)

(* Mutant of Noted: the uses of hidden parameters go unnoticed.            *)
NotedNever(i) == callOpt

(* setCallOpt                                                              *)
Noted(i) == IF i <= Hidden THEN callOpt \cup {i} ELSE callOpt

(* loadLocalVar, storeLocalVar; a hidden parameter is noted in callOpt.    *)
Variable ==
  /\ "variable" \in Constructs /\ Len(insns) <= MaxPlain
  /\ \E i \in DOMAIN locals :
       /\ \/ Emit(<<Lda(Local(i))>>)
          \/ Emit(<<Sta(Local(i))>>)
       /\ callOpt' = Noted(i)
  /\ UNCHANGED <<locals, params, pool, needed, open, generated>>

(* getVregForVariable of a variable without a register.                    *)
Declare ==
  /\ "declare" \in Constructs
  /\ Len(locals) < MaxLocals
  /\ locals' = Append(locals, Len(locals) + 1)
  /\ Emit(<<Sta(Local(Len(locals) + 1))>>)
  /\ UNCHANGED <<params, callOpt, pool, needed, open, generated>>

(* getVregisterCache                                                       *)
Constant(c) ==
  /\ "constant" \in Constructs /\ Len(insns) <= MaxPlain
  /\ needed' = needed \cup {c}
  /\ Emit(<<Lda(Cache(c))>>)
  /\ UNCHANGED <<locals, params, callOpt, pool, open, generated>>

-----------------------------------------------------------------------------
(* left op right: compileBinaryExpression.                                 *)

StartBinary ==
  /\ "binary" \in Constructs
  /\ Begin("binary", Taken(pool, 1))
  /\ Pool(After(pool, 1))
  /\ Emit(<<>>)
  /\ UNCHANGED <<locals, params, callOpt, needed, generated>>

BinaryLeft ==
  /\ InTop({"binary"}, 0)
  /\ Emit(<<Sta(Temp(Top.regs[1]))>>)
  /\ Step(1)
  /\ UNCHANGED <<locals, params, callOpt, pool, needed, generated>>

EndBinary ==
  /\ InTop({"binary"}, 1)
  /\ Emit(<<Use(Temps(Top.regs))>>)
  /\ Pool(Freed(pool, Top.regs))
  /\ End
  /\ UNCHANGED <<locals, params, callOpt, needed, generated>>

-----------------------------------------------------------------------------
(* Calls: getHiddenParameters, emitCallArguments, emitCall;                *)
(* compileNewExpression; compileSuperCall.  Step 0: the callee (for a      *)
(* method: its object); 1: the property of a method; 2: the arguments; 3:  *)
(* one argument.                                                           *)

StartCall(passThis) ==
  /\ LET kind == IF passThis THEN "method" ELSE "call"
         n    == IF passThis THEN 3 ELSE 1
     IN  /\ kind \in Constructs
         /\ Begin(kind, Taken(pool, n))
         /\ Pool(After(pool, n))
  /\ Emit(<<>>)
  /\ UNCHANGED <<locals, params, callOpt, needed, generated>>

StartNew ==
  /\ "new" \in Constructs
  /\ Begin("new", Taken(pool, 2))
  /\ Pool(After(pool, 2))
  /\ Emit(<<>>)
  /\ UNCHANGED <<locals, params, callOpt, needed, generated>>

StartSuper ==
  /\ "super" \in Constructs
  /\ Len(open) < MaxOpen
  /\ open' = Append(open, [kind |-> "super", regs |-> <<>>, step |-> 2,
                          keys |-> 0])
  /\ Emit(<<>>)
  /\ UNCHANGED <<locals, params, callOpt, pool, needed, generated>>

(* The object of a method is stored.                                       *)
Receiver ==
  /\ InTop({"method"}, 0)
  /\ Emit(<<Sta(Temp(Top.regs[2]))>>)
  /\ Step(1)
  /\ UNCHANGED <<locals, params, callOpt, pool, needed, generated>>

(* The method is loaded, by a name or by the value of an expression; the   *)
(* register of the property is given back.                                 *)
Method(computed) ==
  /\ InTop({"method"}, 1)
  /\ LET r == Temps(Top.regs)
     IN  Emit((IF computed THEN <<Sta(r[3]), Use(<<r[2], r[3]>>)>>
               ELSE <<Use(<<r[2]>>)>>) \o <<Sta(r[1])>>)
  /\ Pool(Freed(pool, <<Top.regs[3]>>))
  /\ Becomes(2, Front(Top.regs), Top.keys)
  /\ UNCHANGED <<locals, params, callOpt, needed, generated>>

Callee ==
  /\ InTop({"call", "new"}, 0)
  /\ LET r == Temps(Top.regs)
     IN  Emit(IF Top.kind = "call" THEN <<Sta(r[1])>>
              ELSE <<Sta(r[1]), Mov(r[2], r[1])>>)
  /\ Step(2)
  /\ UNCHANGED <<locals, params, callOpt, pool, needed, generated>>

Argument ==
  /\ InTop({"call", "method", "new", "super"}, 2)
  /\ Top.kind = "super" => Len(Top.regs) < MaxSuperArgs
  /\ Becomes(3, Top.regs \o Taken(pool, 1), Top.keys)
  /\ Pool(After(pool, 1))
  /\ Emit(<<>>)
  /\ UNCHANGED <<locals, params, callOpt, needed, generated>>

ArgumentValue ==
  /\ InTop({"call", "method", "new", "super"}, 3)
  /\ Emit(<<Sta(Temp(Last(Top.regs)))>>)
  /\ Step(2)
  /\ UNCHANGED <<locals, params, callOpt, pool, needed, generated>>

EndCall ==
  /\ InTop({"call", "method", "new"}, 2)
  /\ Emit(<<IF Top.kind = "new" THEN Insn("range", Temps(Top.regs))
            ELSE Call(Temps(Top.regs), Top.kind = "method")>>)
  /\ Pool(Freed(pool, Top.regs))
  /\ End
  /\ UNCHANGED <<locals, params, callOpt, needed, generated>>

(* The result is kept in a register while this is checked and set.         *)
EndSuper ==
  /\ InTop({"super"}, 2)
  /\ LET args == Temps(Top.regs)
         tmp  == Temp(Taken(pool, 1)[1])
     IN  /\ Emit(<<Super(IF args = <<>> THEN Cache("undefined") ELSE args[1],
                         args), Sta(tmp), Lda(tmp)>>)
         /\ needed' = IF args = <<>> THEN needed \cup {"undefined"} ELSE needed
  /\ Pool(Freed(Freed(After(pool, 1), Taken(pool, 1)), Top.regs))
  /\ End
  /\ UNCHANGED <<locals, params, callOpt, generated>>

-----------------------------------------------------------------------------
(* object.property op= right: LReference, compileAssignmentExpression.     *)
(* Registers: the object and the property of the reference, and two more   *)
(* in which they are computed.                                             *)

StartCompound ==
  /\ "compound" \in Constructs
  /\ Begin("compound", Taken(pool, 4))
  /\ Pool(After(pool, 4))
  /\ Emit(<<>>)
  /\ UNCHANGED <<locals, params, callOpt, needed, generated>>

CompoundObject ==
  /\ InTop({"compound"}, 0)
  /\ Emit(<<Sta(Temp(Top.regs[3]))>>)
  /\ Step(1)
  /\ UNCHANGED <<locals, params, callOpt, pool, needed, generated>>

(* The computing registers are given back, one is taken for the old value. *)
CompoundProperty ==
  /\ InTop({"compound"}, 1)
  /\ LET r     == Temps(Top.regs)
         freed == Freed(pool, SubSeq(Top.regs, 3, 4))
         lhs   == Taken(freed, 1)
     IN  /\ Emit(<<Sta(r[4]), Mov(r[1], r[3]), Mov(r[2], r[4]),
                   Use(<<r[1], r[2]>>), Sta(Temp(lhs[1]))>>)
         /\ Pool(After(freed, 1))
         /\ Becomes(2, SubSeq(Top.regs, 1, 2) \o lhs, Top.keys)
  /\ UNCHANGED <<locals, params, callOpt, needed, generated>>

EndCompound ==
  /\ InTop({"compound"}, 2)
  /\ LET r == Temps(Top.regs)
     IN  Emit(<<Use(<<r[3]>>), Use(<<r[1], r[2]>>)>>)
  /\ Pool(Freed(Freed(pool, <<Top.regs[3]>>), SubSeq(Top.regs, 1, 2)))
  /\ End
  /\ UNCHANGED <<locals, params, callOpt, needed, generated>>

-----------------------------------------------------------------------------
(* {k1: t1, ..., kn: tn, ...target} = value: compileDestructuring,         *)
(* compileObjectDestructuring, emitRestProperty.  The ti are bindings; the *)
(* rest goes to a binding or to a property of a variable.  The registers:  *)
(* the value twice, one per property, and while a key is compiled one for  *)
(* what it loads.  Step 0: before a property; 1: its key; 2: its           *)
(* initializer.                                                            *)

StartPattern(n) ==
  /\ "pattern" \in Constructs
  /\ Begin("pattern", Taken(pool, 2 + n))
  /\ Pool(After(pool, 2 + n))
  /\ LET r == Temps(Taken(pool, 2 + n)) IN Emit(<<Sta(r[1]), Sta(r[2])>>)
  /\ UNCHANGED <<locals, params, callOpt, needed, generated>>

PatternKey ==
  /\ InTop({"pattern"}, 0)
  /\ 2 + Top.keys < Len(Top.regs)
  /\ Emit(<<>>)
  /\ Becomes(1, Top.regs \o Taken(pool, 1), Top.keys + 1)
  /\ Pool(After(pool, 1))
  /\ UNCHANGED <<locals, params, callOpt, needed, generated>>

PatternLoad ==
  /\ InTop({"pattern"}, 1)
  /\ LET r    == Temps(Top.regs)
         prop == r[2 + Top.keys]
     IN  Emit(<<Sta(prop), Use(<<r[2], prop>>), Sta(Last(r))>>)
  /\ Step(2)
  /\ UNCHANGED <<locals, params, callOpt, pool, needed, generated>>

PatternStore ==
  /\ InTop({"pattern"}, 2)
  /\ Emit(<<>>)
  /\ Pool(Freed(pool, <<Last(Top.regs)>>))
  /\ Becomes(0, Front(Top.regs), Top.keys)
  /\ UNCHANGED <<locals, params, callOpt, needed, generated>>

EndPattern ==
  /\ InTop({"pattern"}, 0)
  /\ 2 + Top.keys = Len(Top.regs)
  /\ Emit(<<Lda(Temp(Top.regs[1]))>>)
  /\ Pool(Freed(pool, Top.regs))
  /\ End
  /\ UNCHANGED <<locals, params, callOpt, needed, generated>>

(* The last property is the rest.  The property of a variable takes four   *)
(* registers, two of them until it is stored to.  Without other properties *)
(* the value is tested for null and undefined, and undefined stands for    *)
(* the keys.                                                               *)
EndPatternRest(target) ==
  /\ InTop({"pattern"}, 0)
  /\ 2 + Top.keys + 1 = Len(Top.regs)
  /\ LET r      == Temps(Top.regs)
         member == target = "member"
         ref    == Taken(pool, 4)
         refd   == IF member THEN Freed(After(pool, 4), SubSeq(ref, 3, 4))
                   ELSE pool
         undef  == Taken(refd, 1)
         keys   == IF Top.keys = 0 THEN Temps(undef)
                   ELSE SubSeq(r, 3, 2 + Top.keys)
         set    == IF member THEN Freed(After(refd, 1), SubSeq(ref, 1, 2))
                   ELSE After(refd, 1)
     IN  /\ Emit((IF member
                  THEN <<Sta(Temp(ref[3])), Mov(Temp(ref[1]), Temp(ref[3]))>>
                  ELSE <<>>)
                 \o (IF Top.keys = 0 THEN <<Sta(keys[1])>> ELSE <<>>)
                 \o <<Insn("keys", <<r[2]>> \o keys)>>
                 \o (IF member THEN <<Use(<<Temp(ref[1])>>)>> ELSE <<>>)
                 \o <<Lda(r[1])>>)
         /\ needed' = IF Top.keys = 0 THEN needed \cup {"null", "undefined"}
                      ELSE needed
         /\ Pool(Freed(Freed(set, undef), Top.regs))
  /\ End
  /\ UNCHANGED <<locals, params, callOpt, generated>>

-----------------------------------------------------------------------------
(* The end of compile().  callOpt() drops the hidden parameters that are   *)
(* not used, and their registers, unless it is compiled for the debugger.  *)

Compiled(debug) ==
  /\ ~generated
  /\ open = <<>>
  /\ generated' = TRUE
  /\ LET used == {i \in 1 .. Hidden : debug \/ i \in callOpt}
         n    == Cardinality(used)
     IN  /\ locals' = [i \in 1 .. n |-> locals[Smallest(used, i)]]
                        \o SubSeq(locals, Hidden + 1, Len(locals))
         /\ params' = params - (Hidden - n)
  /\ UNCHANGED <<callOpt, pool, needed, open, insns>>

PoolInit ==
  /\ params \in Hidden .. MaxParams
  /\ locals = [i \in 1 .. params |-> i]
  /\ callOpt = {}
  /\ pool = [free |-> <<>>, made |-> 0]
  /\ needed = {"lexEnv"}
  /\ open = <<>>
  /\ insns = <<>>
  /\ generated = FALSE

Generate ==
  \/ Variable \/ Declare
  \/ \E c \in Caches : Constant(c)
  \/ StartBinary \/ BinaryLeft \/ EndBinary
  \/ \E b \in BOOLEAN : StartCall(b) \/ Method(b)
  \/ StartNew \/ StartSuper
  \/ Receiver \/ Callee \/ Argument \/ ArgumentValue
  \/ EndCall \/ EndSuper
  \/ StartCompound \/ CompoundObject \/ CompoundProperty \/ EndCompound
  \/ \E n \in 0 .. MaxTemps : StartPattern(n)
  \/ PatternKey \/ PatternLoad \/ PatternStore \/ EndPattern
  \/ \E target \in RestTargets : EndPatternRest(target)
  \/ \E debug \in BOOLEAN : Compiled(debug)

=============================================================================
