---------------------------- MODULE RegAllocator ----------------------------
(***************************************************************************)
(* The register allocation of ts2panda (regAllocator.ts), after the code   *)
(* of a function has been generated (RegisterPool).  Every virtual         *)
(* register gets a number of its own; an instruction whose format has too  *)
(* few bits for one of its registers is surrounded by moves through a low  *)
(* register that is saved in a spill register meanwhile; the parameters    *)
(* are moved out of the last registers, where the caller puts them.        *)
(*                                                                         *)
(* LevelB and LevelC are 256 and 65536, the registers that 8 and 16 bits   *)
(* can name; only mov has a choice of formats.  How many bits the start of *)
(* a range has is the instruction set's business: RangeLevel, KeysLevel.   *)
(***************************************************************************)
EXTENDS RegisterPool

CONSTANTS LevelB, LevelC, RangeLevel, KeysLevel

ASSUME LevelAssumption ==
  /\ {LevelB, LevelC} \subseteq Nat
  /\ LevelB < LevelC
  /\ {RangeLevel, KeysLevel} \subseteq {LevelB, LevelC}

VARIABLES
  phase,        \* "generate", "adjust", "done" or the reason of a failure
  code,         \* the instructions with numbers, as given to the allocator
  index,        \* next instruction of it
  vRegsId,      \* numbers in use: 0 .. vRegsId - 1
  spills,       \* free spill registers
  newInsns      \* the instructions that come out

allocVars == <<phase, code, index, vRegsId, spills, newInsns>>
vars == <<poolVars, allocVars>>

NotContinuous == "VReg sequence of DynRange is not continuous"
NoTmp         == "no available tmp vReg"
RunningOut    == "vreg has been running out"

-----------------------------------------------------------------------------
(* Numbers: locals, temps, caches (allocIndexForVreg).  A register that is *)
(* in none of the lists keeps the number -1.                               *)

Position(s, x) ==
  IF \E i \in DOMAIN s : s[i] = x THEN CHOOSE i \in DOMAIN s : s[i] = x ELSE 0

NeededCaches == SetToSeq(needed)

Allocated ==
  [i \in DOMAIN locals |-> Local(locals[i])]
    \o Temps(pool.free)
    \o [i \in DOMAIN NeededCaches |-> Cache(NeededCaches[i])]

Num(v) == Position(Allocated, v) - 1

(* CacheExpander: the constants are loaded where the function begins, the  *)
(* last one first.                                                         *)
Expanded ==
  Reverse([i \in DOMAIN NeededCaches |-> Sta(Cache(NeededCaches[i]))]) \o insns

Numbered(insn) ==
  [op |-> insn.op, regs |-> [j \in DOMAIN insn.regs |-> Num(insn.regs[j])],
   count |-> Len(insn.args)]

Move(d, s) == [op |-> "mov", regs |-> <<d, s>>, count |-> 2]

(* RegAllocator.run up to adjustInstructionsIfNeeded.                      *)
Allocate ==
  /\ generated
  /\ phase = "generate"
  /\ code' = [k \in DOMAIN Expanded |-> Numbered(Expanded[k])]
  /\ index' = 1
  /\ vRegsId' = Len(Allocated)
  /\ phase' = IF Len(Allocated) <= LevelC THEN "adjust" ELSE RunningOut
  /\ UNCHANGED <<poolVars, spills, newInsns>>

-----------------------------------------------------------------------------
(* Formats: for each register, how many registers its bits can name.       *)

Formats(insn) ==
  IF insn.op = "mov"
  THEN << <<LevelB, LevelB>>, <<LevelC, LevelC>> >>
  ELSE << [j \in DOMAIN insn.regs |-> LevelB] >>

(* Mutant of Invalid: the first number that does not fit is let through.   *)
InvalidOff(insn, format) == {j \in DOMAIN insn.regs : insn.regs[j] > format[j]}

(* getNumOfInvalidVregs                                                    *)
Invalid(insn, format) ==
  {j \in DOMAIN insn.regs : insn.regs[j] >= format[j]}

NumOfInvalid(insn, f) == Cardinality(Invalid(insn, Formats(insn)[f]))

(* The first of the formats with the fewest registers that do not fit.     *)
MinFormat(insn) ==
  CHOOSE f \in DOMAIN Formats(insn) :
    \A g \in DOMAIN Formats(insn) :
      \/ NumOfInvalid(insn, f) < NumOfInvalid(insn, g)
      \/ NumOfInvalid(insn, f) = NumOfInvalid(insn, g) /\ f <= g

(* In which order allocSpill hands out n registers: the free ones from the *)
(* last on, then new ones.                                                 *)
Spill(n) ==
  [i \in 1 .. n |-> IF i <= Len(spills) THEN spills[Len(spills) + 1 - i]
                    ELSE vRegsId + i - Len(spills) - 1]

(* freeSpill of these, last to first.                                      *)
FreeSpills(n) == SubSeq(spills, 1, Len(spills) - n) \o Reverse(Spill(n))

VRegsAfter(n) ==
  IF n > Len(spills) THEN vRegsId + n - Len(spills) ELSE vRegsId

(* Registers findTmpVreg looks through, without the marked ones.           *)
TmpVregs(marked) ==
  {r \in 0 .. vRegsId - 1 : r < LevelB} \ marked

(* Mutant of Marked: everything up to the registers of the instruction.    *)
MarkedUpTo(insn) == {n \in 0 .. LevelC : \E j \in DOMAIN insn.regs : n <= insn.regs[j]}

(* markVregNotAvailableAsTmp                                               *)
Marked(insn) == Range(insn.regs)

(* The roles of the registers: only sta and the first of mov are written.  *)
IsDst(insn, j) == insn.op = "sta" \/ (insn.op = "mov" /\ j = 1)

Adjusting == phase = "adjust" /\ index <= Len(code)
Current   == code[index]

Push(head, insn, tail) ==
  /\ newInsns' = newInsns \o head \o <<insn>> \o tail
  /\ index' = index + 1

(* Nothing to adjust.                                                      *)
Keep ==
  /\ Adjusting
  /\ Current.op \notin {"range", "keys"}
  /\ NumOfInvalid(Current, MinFormat(Current)) = 0
  /\ Push(<<>>, Current, <<>>)
  /\ UNCHANGED <<poolVars, phase, code, vRegsId, spills>>

(* Mutant of TailMoves: the low register is not given back its value.      *)
TailMovesNone(insn, j, tmp, spill) ==
  IF IsDst(insn, j) THEN <<Move(insn.regs[j], tmp)>> ELSE <<>>

(* What is put before and after the instruction for its j-th register.     *)
HeadMoves(insn, j, tmp, spill) ==
  <<Move(spill, tmp)>>
    \o (IF IsDst(insn, j) THEN <<>> ELSE <<Move(tmp, insn.regs[j])>>)
TailMoves(insn, j, tmp, spill) ==
  (IF IsDst(insn, j) THEN <<Move(insn.regs[j], tmp)>> ELSE <<>>)
    \o <<Move(tmp, spill)>>

(* doRealAdjustment                                                        *)
Adjust ==
  /\ Adjusting
  /\ Current.op \notin {"range", "keys"}
  /\ LET insn    == Current
         format  == Formats(insn)[MinFormat(insn)]
         invalid == Invalid(insn, format)
         n       == Cardinality(invalid)
         at(i)   == Smallest(invalid, i)
         tmps    == TmpVregs(Marked(insn))
         found   == n <= Cardinality(tmps)
         tmp(i)  == Smallest(tmps, i)
         adjusted ==
           [insn EXCEPT !.regs =
              [j \in DOMAIN @ |->
                 IF j \in invalid THEN tmp(Cardinality(invalid \cap (1 .. j)))
                 ELSE @[j]]]
     IN  /\ n > 0
         /\ IF VRegsAfter(n) > LevelC \/ ~found
            THEN /\ phase' = IF ~found /\ VRegsAfter(Cardinality(tmps) + 1) <= LevelC
                            THEN NoTmp ELSE RunningOut
                 /\ UNCHANGED <<index, newInsns, vRegsId, spills>>
            ELSE /\ Push(FlattenSeq([i \in 1 .. n |->
                           HeadMoves(insn, at(i), tmp(i), Spill(n)[i])]),
                         adjusted,
                         FlattenSeq([i \in 1 .. n |->
                           TailMoves(insn, at(i), tmp(i), Spill(n)[i])]))
                 /\ vRegsId' = VRegsAfter(n)
                 /\ spills' = FreeSpills(n)
                 /\ UNCHANGED phase
  /\ UNCHANGED <<poolVars, code>>

-----------------------------------------------------------------------------
(* Ranges: the position of the first register of the range, and its level. *)

Start(insn) == IF insn.op = "keys" THEN 2 ELSE 1
Level(insn) == IF insn.op = "keys" THEN KeysLevel ELSE RangeLevel

Continuous(insn) ==
  \A j \in Start(insn) + 1 .. Len(insn.regs) :
    insn.regs[j] = insn.regs[j - 1] + 1

(* checkDynRangeInstruction: its first register decides, and a range whose *)
(* registers do not follow one another ends the compilation.               *)
KeepRange ==
  /\ Adjusting
  /\ Current.op \in {"range", "keys"}
  /\ Current.regs[1] < Level(Current)
  /\ IF Continuous(Current)
     THEN Push(<<>>, Current, <<>>) /\ UNCHANGED phase
     ELSE phase' = NotContinuous /\ UNCHANGED <<newInsns, index>>
  /\ UNCHANGED <<poolVars, code, vRegsId, spills>>

(* adjustDynRangeInstruction: the values of the lowest registers make room *)
(* for the whole range.                                                    *)
AdjustRange ==
  /\ Adjusting
  /\ Current.op \in {"range", "keys"}
  /\ Current.regs[1] >= Level(Current)
  /\ LET insn   == Current
         first  == Start(insn)
         n      == Len(insn.regs) - first + 1
         tmp(i) == Smallest(TmpVregs({}), 1) + i - 1
     IN  IF VRegsAfter(n) > LevelC
         THEN /\ phase' = RunningOut
              /\ UNCHANGED <<index, newInsns, vRegsId, spills>>
         ELSE /\ Push(FlattenSeq([i \in 1 .. n |->
                        <<Move(Spill(n)[i], tmp(i)),
                          Move(tmp(i), insn.regs[first + i - 1])>>]),
                      [insn EXCEPT !.regs =
                         [j \in DOMAIN @ |->
                            IF j < first THEN @[j] ELSE tmp(j - first + 1)]],
                      [i \in 1 .. n |-> Move(tmp(i), Spill(n)[i])])
              /\ vRegsId' = VRegsAfter(n)
              /\ spills' = FreeSpills(n)
              /\ UNCHANGED phase
  /\ UNCHANGED <<poolVars, code>>

-----------------------------------------------------------------------------
(* The end of run: the last registers are those of the parameters.         *)
Parameters ==
  /\ phase = "adjust"
  /\ index > Len(code)
  /\ IF vRegsId + params > LevelC
     THEN phase' = RunningOut /\ UNCHANGED <<vRegsId, newInsns>>
     ELSE /\ newInsns' =
               Reverse([i \in 1 .. params |-> Move(i - 1, vRegsId + i - 1)])
                 \o newInsns
          /\ vRegsId' = vRegsId + params
          /\ phase' = "done"
  /\ UNCHANGED <<poolVars, code, index, spills>>

Stopped == phase \notin {"generate", "adjust"}

Init ==
  /\ PoolInit
  /\ phase = "generate"
  /\ code = <<>>
  /\ index = 0
  /\ vRegsId = 0
  /\ spills = <<>>
  /\ newInsns = <<>>

Next ==
  \/ Generate /\ UNCHANGED allocVars
  \/ Allocate \/ Keep \/ Adjust \/ KeepRange \/ AdjustRange \/ Parameters
  \/ Stopped /\ UNCHANGED vars

Spec == Init /\ [][Next]_vars

-----------------------------------------------------------------------------
(* Properties.                                                             *)

(* regAllocator.ts:226: "We need to make sure that the register input in   *)
(* the .range instruction is continuous(small to big)".  The arguments of  *)
(* every call, wherever in the function and whatever the order in which    *)
(* registers were given back before and after it, and those of a super     *)
(* call, which are not looked at again, get consecutive numbers.           *)
ArgumentsContinuous ==
  generated =>
    \A k \in DOMAIN insns :
      insns[k].op \in {"range", "keys", "super"} =>
        \A j \in Start(insns[k]) + 1 .. Len(insns[k].args) :
          Num(insns[k].args[j]) = Num(insns[k].args[j - 1]) + 1

(* No instruction names a register without a number: every register that   *)
(* was taken is given back, and the hidden parameters that are dropped are *)
(* not used.                                                               *)
EveryRegisterNumbered ==
  \A k \in DOMAIN code : Range(code[k].regs) \subseteq Nat

(* checkDynRangeInstruction looks at the second operand, which is the      *)
(* first register of a range but the object of keys: next to the last of   *)
(* the registers that fit, the object fits and the keys do not.            *)
AtTheEdge(insn) ==
  insn.op = "keys" /\ insn.regs[1] \in KeysLevel - 2 .. KeysLevel - 1

(* Every register that comes out can be named by its instruction; but keys *)
(* at that edge cannot, and what becomes of their object is left out.      *)
Fits(insn) ==
  IF insn.op \in {"range", "keys"}
  THEN insn.regs[Start(insn)] < Level(insn) \/ AtTheEdge(insn)
  ELSE \E f \in DOMAIN Formats(insn) :
         \A j \in DOMAIN insn.regs : insn.regs[j] < Formats(insn)[f][j]

EmittedFits == \A k \in DOMAIN newInsns : Fits(newInsns[k])

(* regAllocator.ts:180: "all register less than 255 has been already used, *)
(* they should have been pushed into usedVreg": there is always a register *)
(* to adjust an instruction with.                                          *)
TmpVregFound == phase # NoTmp

(* What an instruction does, which reads these values.  Each value that is *)
(* stored is a new one.                                                    *)
Executed(s, insn, values) ==
  CASE insn.op = "mov" ->
         [s EXCEPT !.reg[insn.regs[1]] = s.reg[insn.regs[2]]]
    [] insn.op = "sta" ->
         [reg |-> [s.reg EXCEPT ![insn.regs[1]] = <<"value", Len(s.trace)>>],
          trace |-> Append(s.trace, <<>>)]
    [] OTHER ->
         [s EXCEPT !.trace = Append(@, values)]

(* What a program does with its registers: what each instruction reads,    *)
(* and what is in the registers at the end.                                *)
RunOf(program, start, Reads(_, _)) ==
  LET step[i \in 0 .. Len(program)] ==
        IF i = 0 THEN [reg |-> start, trace |-> <<>>]
        ELSE Executed(step[i - 1], program[i],
                      Reads(program[i], step[i - 1].reg))
  IN  step[Len(program)]

VRegs == Range(Allocated)

ReadsVirtual(insn, reg) ==
  [j \in DOMAIN insn.args |-> reg[insn.args[j]]]
ReadsNumbered(insn, reg) ==
  [j \in 1 .. insn.count |->
     IF insn.op = "super" THEN reg[insn.regs[1] + j - 1] ELSE reg[insn.regs[j]]]

(* The object of keys is not adjusted with them; it is overwritten when    *)
(* there are so many that they are lent its register too.  A super call is *)
(* not a range instruction, only its first argument is moved.              *)
Overlooked(insn) ==
  \/ insn.op = "keys" /\ insn.regs[1] \in KeysLevel .. Len(insn.regs) - 2
  \/ insn.op = "super" /\ insn.count > 1 /\ insn.regs[1] >= LevelB

(* The code that comes out does with the numbered registers, called with   *)
(* its arguments in the last of them, what the generated code does with    *)
(* the virtual ones, called with its arguments in the first locals: every  *)
(* instruction, the calls and super calls among them, reads the values it  *)
(* was meant to read, and no register is left with a wrong value; unless   *)
(* an instruction is one of those that the allocator overlooks.            *)
FunctionUnchanged ==
  phase = "done" /\ (\A k \in DOMAIN code : ~Overlooked(code[k])) =>
    LET virtual ==
          RunOf(Expanded,
                [v \in VRegs |->
                   IF Num(v) < params THEN <<"argument", Num(v) + 1>>
                   ELSE <<"unset", 0>>],
                ReadsVirtual)
        first == vRegsId - params
        numbered ==
          RunOf(newInsns,
                [n \in 0 .. vRegsId - 1 |->
                   IF n >= first THEN <<"argument", n - first + 1>>
                   ELSE <<"unset", 0>>],
                ReadsNumbered)
    IN  /\ virtual.trace = numbered.trace
        /\ \A v \in VRegs : virtual.reg[v] = numbered.reg[Num(v)]

=============================================================================
