# ark_ts2abc in TLA+

Two compilers of JavaScript and TypeScript to ARK bytecode live in this repository:

* **es2panda** (C++, `src/es2panda/`), one process with a pool of compiling threads;
* **ts2panda** (TypeScript, `src/ts2panda/src/`), which runs on node and sends what it
  compiles, function by function, through a pipe to its child process **ts2abc**
  (C++, `src/ts2panda/ts2abc/`), which writes the `.abc` file.

Much of both is a translation of syntax trees, a function of its input. What is hard to get
right, and hard to test, lies where state is shared or lives long: the threads of the compile
queue, the stream between two processes, the tables that grow over a whole function (labels,
try statements, catch ranges, registers), the contexts of the parser, which the lexer reads one
token ahead, the scopes that parser, binder and code generator walk one after the other, and the
caches of the type checker, which one statement fills and another one reads. That is what is
modelled here.

Contents: [inventory](#1-inventory) - [modules](#2-the-modules) - [runs](#3-runs-and-bounds) -
[findings](#4-findings) - [proofs](#5-proofs) - [limits](#6-what-is-not-shown) -
[plan](#7-plan)

---

## 1. Inventory

Paths are relative to `src/`. "Hard" names the behaviour no unit test of the repository pins
down; the hazards of `PROJECT.json` give the lines.

### es2panda

| part | state it keeps | operations | talks to | hard | correct when |
|---|---|---|---|---|---|
| compile queue, emitter (`compiler/core/compileQueue.cpp`, `compilerImpl.cpp`, `emitter.cpp`, `compilerContext.h`) **modelled** | `jobs_`, `jobsCount_`, `activeWorkers_`, `terminate_`, `errors_`; the emitter's program; `literalBufferIdx_` | `Schedule`, `Consume`, `Wait`, destructor; `CompileJob::Run`, `NewLiteralIndex`, `AddFunction` | threads, over two mutexes and two condition variables | interleavings, lost wakeups, failure of one job among many, a second call on the same object | every function compiled once, nothing used after it is freed, a program is whole or not handed over, calls return |
| control flow (`compiler/core/dynamicContext.cpp`, `envScope.cpp`, `labelTarget.cpp`, `base/iterators.cpp`, `base/catchTable.cpp`, `ir/statements/`) **modelled** | a chain of `DynamicContext`s, catch tables | `Compile` of the statements, `AbortContext`, `CleanUp`, `ControlFlowChange*` | PandaGen | every jump unwinds contexts from the inside: environments, iterators, finalizers; each of them may throw | what a jump leaves is finalized once, innermost first, with the environments it expects |
| binder and scopes (`binder/`, `compiler/base/lexenv.cpp`, `envScope.cpp`) **modelled** | scope tree, bindings, lexical slots | declare, resolve, `ConvertToVariableScope`, `AddLexicalSlot`, `Find` | parser, PandaGen | captured variables of loops, whose parts are parsed, resolved, compiled and run in different scopes | level and slot of an access name the slot of the declaration |
| parser contexts (`parser/context/`, `statementParser.cpp`, the functions of `parserImpl.cpp` and `expressionParser.cpp`) **modelled** | `context_`: flags and a label | open and leave functions, labels, loops, switches; the checks of `break`, `continue`, `await`, `yield`, `super`, `return` | lexer, which reads one token ahead | flags set and not cleared, dropped by a label, read before they are changed | what is accepted is what the constructs around it allow |
| type relation of the TypeScript checker (`typescript/types/`, `typescript/core/typeRelation.cpp`, `typeElaboration.cpp`) **modelled** | `result_`, the caches by pair of types, flags on the types | `IsIdenticalTo`, `IsAssignableTo`, `IsComparableTo`, elaboration | every checked expression | one result serves nested questions; answers stay while the flags they depend on change | a kept answer is the one the types give |
| rest of the TypeScript checker (`typescript/`) | resolution stack | `Check*`, inference | type relation | recursive types | the stack ends where it began |
| register allocation (`compiler/core/regAllocator.cpp`, `regScope.cpp`) | `regIndex_`, `spillIndex_`, spill maps | `Emit`, `Spill`, `Restore` | every emitted instruction | registers that do not fit an operand | registers keep their values around a spilled instruction |
| generators and async functions (`compiler/function/`) | completion mode | suspend, resume | iterators, control flow | return and throw into a suspended function | a resumed function continues as asked |
| inline caches, debug information (`compiler/core/inlineCache.cpp`, `compiler/debugger/`) | a saturating counter; positions | - | emitter | the counter at its limit | slots are not shared by accident |
| code generation (`compiler/core/pandagen.cpp`, `compiler/base/`, `ir/`) | instruction list | one method per construct | all of the above | - | a translation |
| lexer, regexp, grammar (`lexer/`, `parser/`) | position | tokens, trees | parser contexts, binder | looking ahead and back | a grammar |
| command line (`aot/`, `util/`) | options | - | compiler | - | input and output |

### ts2panda and ts2abc

| part | state it keeps | operations | talks to | hard | correct when |
|---|---|---|---|---|---|
| output stream and ts2abc reader (`compilerDriver.ts`, `ts2panda.ts`, `ts2abc/ts2abc.cpp`) **modelled** | static `literalArrayBuffer`, `moduleRecordlist`, strings; the pipe; the reader's buffer | dump of options, functions, strings, literal arrays, module records, type info; `ReadFromPipe` | a pipe between two processes | reads cut the stream anywhere; exceptions and deaths in the middle; static state over several files | objects arrive whole and in order; indices agree on both sides |
| control flow statements (`compiler.ts`, `statement/`) **modelled** | `LabelTarget` stack and names, chain of `TryStatement`s, catch tables | loops, `switch`, blocks, `try`; `break`, `continue`, `return`, `throw` | PandaGen | finalizers inlined at jumps, environments of loops, all in tables of the compiler | as for es2panda |
| temporary registers (`pandagen.ts`, `expression/`, `base/lreference.ts`, `compilerUtils.ts`) **modelled** | locals, free list `temps`, caches asked for | `getTemp`, `freeTemps`, every expression that uses them | register allocation | the numbers of the arguments of a call depend on the order of all frees of the function | arguments are consecutive, no register unnumbered |
| register allocation and caches (`regAllocator.ts`, `base/vregisterCache.ts`, `pass/cacheExpander.ts`) **modelled** | numbers, spill registers, marks | `run`, `adjustInstructionsIfNeeded`, ... | instruction list | a low register is lent and must come back | what comes out fits its encoding and does what went in |
| watch mode (`index.ts`) | two processes, a `.js` and an `.abc` file | polls, timeouts | file system | partial writes, a timeout against a late answer, a lock file left behind | one answer per request |
| scopes, recorder, lexical environments (`scope.ts`, `recorder.ts`, `hoisting.ts`, `lexenv.ts`) | scope tree, slots | declare, hoist, capture | compiler | as for the binder | as for the binder |
| generators, modules, type recorder, debug information (`function/`, `ecmaModule.ts`, `typeRecorder.ts`, `debuginfo.ts`) | - | - | compiler | numbering that is read elsewhere | numbers agree |
| driver, syntax checks (`cmdOptions.ts`, `syntaxChecker.ts`) | - | checks of one node | compiler | - | a predicate on a tree |

How they interact: es2panda parses a file into a tree with scopes, the binder resolves the names
in them, the checker (for `.ts`) walks the tree, and `CompilerImpl::Compile` schedules one job
per function, helps to run them and waits; a job walks the tree of its function with a `PandaGen`
of its own, and jobs share only the emitter and the literal counter. In ts2panda
`CompilerDriver` compiles the functions of a file one after the other; a function goes through
`Compiler` (control flow and registers, in one pass over its tree), `CacheExpander`,
`RegAllocator` and `Ts2Panda.dumpPandaGen`, which writes it to the pipe at once, before the
literal arrays to which it refers by number.

## 2. The modules

### CompileQueue, and what it implements: CompileBatch

One action is one section of code under `m_` (or under the emitter's or the context's mutex),
or a notification between two sections; `pc[t]` names the section that thread `t` enters next.
Main and the workers run the same `Consume`. A predicate and going to sleep are one action,
because the condition variable releases the mutex atomically; waking is a return to the test
of the predicate, and may happen for no reason.

| code | model |
|---|---|
| `CompileQueue::Schedule` up to the unlock, then `notify_all` | `Schedule(n)`, `NotifyJobs` |
| `Worker`: `jobsAvailable_.wait`, `Consume`, `jobsFinished_.notify_one` | `WorkerWait`, `EnterConsume` ..., `NotifyFinished` |
| `Consume`: take a job, run it, its handler | `TakeJob` (in `EnterConsume`, `NextJob`), `NewLiteralIndex`, `AddFunction`, `Throw`, `RecordError` |
| `Wait` and the end of `CompilerImpl::Compile` | `Block`, `Return` |
| `~CompileQueue` | `Terminate`, `NotifyTerminate`, `Join` |

`CompileBatch` is the same without threads: a call takes a set of functions, each gets a
result, and the call returns the program or the first error that was ever recorded (the code
never empties `errors_`, and the abstract specification says so).

`CompileJob::DependsOn`/`Signal` are never called in the repository, so the wait at the head
of `Run` never blocks and is not modelled.

### AbcPipe, and what it implements: FrameChannel

`Parent` actions are the steps of `CompilerDriver.compile` that write to the child's
descriptor 3 or change the static buffers; `Child(f)` is `ReadFromPipe` of the ts2abc process
of file `f`. The pipe is a sequence of characters and a read takes any number of them, up to
`BufSize`. `Escape`, `Unescape`, `IsBoundary` and `HandleBuffer` do what
`ts2panda.ts` and `ts2abc.cpp` do to `$`, because that is what may go wrong; the JSON text
itself is its kind, a few characters and a closing brace. `Throw` is an exception of the compiler; `Die`
the end of the whole process, after which a stream ends anywhere. `FrameChannel` says what the
pipes promise, all of them at once because one process writes to all: objects arrive unchanged
and in order (`Send(p, o)`, `Deliver(p)`), a reader stops after the end of its stream (`Stop(p)`),
and the writer may end one stream, or, when it is killed, every one (`End(ended)`).

The model has the type recorder off, the default: with it on, the literal buffer is cleared
at another place. A failing `read` (`ret < 0`) and the `.json` file input are left out.

### ControlFlow

One function is compiled, statement by statement. `open` is the source around the current
statement, which the compiler does not see as such; the compiler's own tables are
`labelTarget` with `labelTargetStack` and `name2LabelTarget` (`LabelTarget`), `tries`
(`TryStatement`, its outer ones) and `catchTables` (label pairs as ranges of code positions).
`code[p]` keeps, for each emitted statement, the catch tables that the source says must cover
it. `jump` is the jump just compiled, with what it finalized and with how many environments it
arrives; the properties compare it with `open`.

| code | model |
|---|---|
| loop, `switch`, labelled block, `try` | `EnterLoop`, `EnterSwitch`, `EnterBlock`, `EnterTry`, `LeaveTryBlock`, `Leave` |
| a label in use | `Refuse` |
| `compileFinallyBeforeCFC`, `updateCatchTables`, `splitLabelPair` | `Inlined`, `Finalized`, `Cut`, `Split` |
| `popLoopEnvWhenContinueOrBreak`, `popLoopEnv` of throw | `PopTimes`, `Throw` |
| `break`, `continue`, `return`, `throw` | `Break`, `Continue`, `Return`, `Throw` |

`try` with both a catch clause and a finally block is two nested ones, as
`transformTryCatchFinally` makes it. A finally block is one statement without jumps or labels.

### RegisterPool and RegAllocator

`RegisterPool` is the generation of code of one function, seen from its registers: an
expression that has taken registers and not given them back is a record of `open`, and
between its steps any expression may be compiled inside it. It keeps what `PandaGen` keeps:
the locals, the free temporaries in their order (`pool.free`) and how many were made, and the
constants asked for. Instructions are the registers they name.

`RegAllocator` extends it with the pass over the finished code: `Allocate` numbers the
registers in the order locals, temporaries, caches (`allocIndexForVreg`), with the code of
`CacheExpander` in front; then one action per instruction: `Keep`, `Adjust`
(`doRealAdjustment`), `KeepRange` (`checkDynRangeInstruction`), `AdjustRange`; then
`Parameters`. The virtual machine is one operator, `RunOf`, which executes a list of
instructions with registers (`Executed` is one of them); `FunctionUnchanged` compares the
executions of what goes in and of what comes out.

The instruction set (`isa.yaml`) is not part of the repository. From it the model takes the
number of bits of an operand (the constants `LevelB`, `LevelC`, `RangeLevel`, `KeysLevel`) and
that only `mov` has a choice of formats; `Formats` is therefore the one external definition.

### StatementCompiler and StatementMachine

`StatementCompiler` is a pure translation: each `Compile` function of `ir/statements`, each
context of `dynamicContext.cpp`, the iterators and the catch tables is an operator from a
statement and a generator to a generator, and calls the others as the code does, finalizers
compiled in place included. A generator is what `PandaGen` holds (code, `catchList_`, the stack
of dynamic contexts) and `at`, the place in the source, which the operators of the statements set
from the source alone: which contexts are live there, how many environments, which finally
blocks and iterators leaving it must see to (`owed`), and which of them lie beyond the innermost loop or
switch (`beyond`), where each jump must lead. Every instruction keeps the place it
was compiled for, the jump for which it was compiled in place, if it was (`completion`), and the
context that this jump has already left, if there is one (`again`).

`StatementMachine` picks a program and executes its code, one instruction a step, with nothing
but what the bytecode has: registers, accumulator, environments, and for an exception the catch
tables in their order. Any expression may throw, any condition may hold, any iterator may end or throw, so
that the states are all executions of all programs. The properties compare the machine with `at`.

| code | model |
|---|---|
| `ir/statements/*::Compile` | `Labelled`, `If`, `While`, `ForUpdate`, `ForIn`, `ForOf`, `Switch`, `TryCatch`, `TryFinally`, `Compile` in `StatementCompiler` |
| the `DynamicContext` classes, their `AbortContext` and `CleanUp` | `Context`, `Enter`, `Leave`, `TryContext`; `AbortContext`, `EmitFinalizer`, `Close` |
| `CatchTable`, `TryLabelSet` | `CreateCatchTable`, `OpenTry`, `CloseTry`, `EndCatch` |
| `ControlFlowChangeBreak`, `ControlFlowChangeContinue`, `DirectReturn` and the walk through the contexts | `Walk`, `Target`, `ControlFlowChange`, `Jump`, `Return`; `Leads` notes where the walk ended and where the source says it must |
| `LoopEnvScope`, `LexEnvContext` | `DeclEnv`, `LoopEnv`, `EnterEnv`, `LeaveEnv` |
| an iterator at run time | `GetIterator`, `NextValue`, `Complete`, `Value`, `IteratorThrows`, `Closing` in `StatementMachine` |
| instructions | `Expression`, `Skip`, `Jumping`, `Branching`, `Environment`, `Move`, `Throwing`, `GetIterator`, `Returning` |
| the source goes on (no instruction) | `Mark` |

### LexicalScopes

A program is a sequence of events (a construct is opened, goes on to its next part, is closed; a
variable is named), and one state machine walks it three times, as the code does: the parser
builds scopes (`Open`, `Name`, `Continue`, `Close`), the binder resolves names and turns the
scopes of loops into variable scopes (`Resolve`, `ResolveScopes`), PandaGen emits environments
and, for each access, level and slot (`Compile`, `CompileScope`). The events are chosen in the
first walk. The constructs are functions, blocks and the loops `for (let ...)`,
`for (const ...)` and `for (... of ...)`. `Chain` is the run time: the environments that exist at a
place, innermost first.

### SyntaxContexts

The parser's walk over a text, statement by statement. `open` are the constructs it is inside of,
each with the `ParserContext` it made, if it made one; `read` are the flags under which the lexer
read the current token, which is one ahead. `Say` is a statement without others in it;
`OpenStatement`, `OpenLabel`, `OpenFunction`, `OpenArrow`, `EnterBody`, `CloseBlock`,
`CloseFunction`, `CloseSingle` and `Else` are the calls and returns of the recursive descent at which
contexts, flags or the token change. What is accepted at a place (`BreakAccepted`, `ContinueAccepted`,
`AwaitIs`, `YieldIs`, `SuperAccepted`, ...) are the conditions of the code; a `SyntaxError` ends the
parse and is no step. What the language asks (`BreakTarget`, `InAsync`, `Within`, ...) is told
from the constructs.

### TypeRelation

The variables are the members of `TypeRelation` (`result`, `cached` with one cache for each of
identity, assignability and comparability) and what it reads and statements change: the types
with `RELATION_CHECKED` (`checked`) and the object types that have lost `CHECK_EXCESS_PROPS`
(`excused`); `everChecked` is kept for the properties. A question (`IsIdenticalTo`,
`IsAssignableTo`, `IsComparableTo`) with all it asks in turn (`Identical`, `AssignmentSource` and
`AssignmentTarget` of the types) is an operator from a relation to a relation, as the code passes
one relation through all calls. An action is one statement: `Assign`, `Redeclare`, `Equal`, `Plus`,
`As`, `Elaborate` (an object literal whose properties are compared one by one), about variables and about
`Values`, expressions of a literal type. `Same` and
`Meets` say what the answers should be: functions of the two types, without caches or a result; what they
are told to allow are the two answers that are wrong for the types alone (section 4).

## 3. Runs and bounds

Every property of a passing run has a mutant in `PROJECT.json`: a change to one definition, of
the kind a bug in that code would be (written as an operator next to the definition), under
which TLC finds the property violated.

| run | instance | distinct states | shows |
|---|---|---|---|
| `queue` | main and 2 workers (not symmetric, because of liveness), up to 2 functions, 1 literal each, 2 calls, fair | 45 thousand | `NoUseAfterFree`, `CompiledOnce`, `QuietBetweenCalls`, `ProgramComplete`, `LiteralOwned`, `ImplementsBatch`, `CompileReturns`, `DestructorReturns` |
| `pipe` | 2 files of one function, a text with `#$` and a `#` at its end, reads of 1..3 characters, fair | 127 thousand | `ReceivedIsPrefix`, `IndicesAgree` over static buffers, `ImplementsChannel`, `ChildrenEnd` |
| `control_flow` | 3 nested statements, kinds for/while/for-of, one label, 2 emitted statements, 3 catch tables | 2.4 million | `CatchRangesExact`, `JumpsToItsTarget`, `FinalizesWhatItLeaves`, `JumpsAligned`, `ThrowsAligned` |
| `block_envs` | 2 nested statements | - | violated, see findings |
| `registers` | 6 temporaries, 3 parameters, 3 locals, 2 nested expressions, 7 instructions, variables and constants at the beginning (`MaxPlain`); 8 bits name 4 registers, 16 bits 12 | 2.4 million | `ArgumentsContinuous`, `EveryRegisterNumbered`, `EmittedFits`, `TmpVregFound`, `FunctionUnchanged` |
| `rest_permutes` | 7 temporaries, 13 instructions, all formats large, a rest property stored to a member | - | violated, see findings |
| `statements` | ten forms of statements in one another; three deep for/for-of/try, and while/labelled/try with finally blocks that jump; label `L`, every jump; `MaxDrift` 2 | 1.2 million | `EnvironmentsFollowSource`, `CleanedWhenLeft`, `CleanedOnce`, `HandledInside`, `JumpsReach` |
| `await_completion` | `while` and `for await` in one another | - | violated, see findings |
| `lexical_scopes` | 4 constructs, one block, one `const` and one `of` loop among them at most; 2 references | 3.8 million | `AccessReachesVariable`, `SlotsApart`, `CapturedInEnvironment`, `FreshInLoop` |
| `syntax_contexts` | constructs nested up to 4 with the program, 6 kinds of functions, 2 symmetric labels | 1.4 million | `JumpsHaveTargets`, `LegalJumpsAccepted`, `TokenReadInItsContext`, `AwaitFollowsFunction`, `YieldFollowsFunction`, `SuperFollowsMethod` |
| `jumps_enclosed` | one construct in the program | - | violated, see findings |
| `type_relation` | 3 statements over variables of 7 types, `true`, `false` and one object literal; 24 types in all | 92 thousand | `TypeOK`, `AnswersFitTypes`, `RelationsNested` |

Why the bounds are enough to be of use:

* **Queue.** Three threads and two functions have the patterns that matter: a thread
  holding a job while another finds the array empty and a third has not entered; a worker
  that arrives after everything is done, also in the next call. Literals are shared by all
  jobs, one each suffices for two jobs to interleave. The safety properties named in section 5
  do not depend on the bounds at all.
* **Pipe.** The reader looks one character back, so that a cut before, inside and after an
  escape, a boundary and the closing brace are all there are; with reads of up to three
  characters each of them occurs in each state of the reader. The text `#$#` has an escape behind
  what looks like one, and a `#` before the closing brace. `BufSize` 4096 in the code only
  makes most cuts rare. The second file meets what the first has left in the static buffers.
* **Control flow (ts2panda).** What goes wrong here needs two or three nested statements; three
  of them put any kind of statement between a jump and its target, and between that and a try
  statement. Two emitted statements let a catch range be split twice. What levels and targets are is
  proved for any nesting.
* **Registers.** Two nested expressions and one after them are what it takes to permute the
  free list and then to see it; `ArgumentsContinuous` is proved for any. For the adjustment,
  levels of 4 and 12 instead of 256 and 65536 make functions of seven instructions meet every
  case: an instruction with one or with several registers too high, a move with either, a range
  that begins above the level or ends there, all low registers but one in use. An instruction names up to four
  registers, so that a smaller level would leave none to lend (`4 <= LevelB` in section 5).
  `MaxPlain` lets variables and constants be used before the first instruction only: they take no
  temporaries, and elsewhere would only multiply the states.
* **Statements (es2panda).** The walk of a jump treats each context by its own type and by the
  target alone, never by two contexts together; a finalizer compiled in place brings one more
  jump or loop with it. Two statements around a jump are therefore all pairs of "left" and
  "reached", and three deep the forms that own an environment, an iterator or a finalizer stand
  between the two. The second set of forms three deep has the jumps in finally blocks that are themselves
  compiled in place at a jump. A body is `{ use; s; use }`, so that every place before, between and after is executed.
  `MaxDrift` cuts executions that are off by more than two environments: they take the same wrong
  jump again.
* **Scopes.** Level counting is a sum over the scopes between access and declaration. Four
  constructs are the outermost function, a declaration, and two constructs between it and
  the access, of any kinds (with at most one of the rare ones); two references let one variable
  become captured after another, or the same one twice, in either order.
* **Parser contexts.** A context is replaced by functions and labels only: a loop or switch, a
  label or function and a further construct under the program are every way in which a flag can be
  lost or kept between what sets it and what asks for it. Since statements follow one another without
  bound, what a closed construct leaves behind is seen by every one that may come after it. For
  any depth the six properties are proved.
* **Type relation.** One statement leaves a mark or takes a flag away, the next uses it and fills
  a cache, the third meets the cached answer. The types are chosen to have, one level down, a
  pair for each rule: unions, number and boolean literals, optional properties, objects without properties,
  index signatures, tuples, arrays, functions of different parameters, an interface with a base.

`CHECK_DEADLOCK FALSE` stands where the system may stop: `ControlFlow` after a
`DiagnosticError`, `RegAllocator` where the generation ends at the bounds, `StatementMachine`
where a function ends, `LexicalScopes` where the compilation does.

**Fairness.** `CompileQueue`: weak fairness of each thread, main inside a call included. Weak
is enough, and is what the operating system gives: as long as a thread is not asleep it has some step to
take (the predicate it tests may change, the test is always possible), since mutexes are only
held inside an action. Nothing is assumed of the
caller, and nothing of spurious wakeups, so that a lost notification cannot be healed by one.
`AbcPipe`: both processes run; a child whose pipe is not empty or is at its end reads. The
parent never waits for the child. The other modules are one pass of a sequential program, or the
execution of code whose loops need not end: no liveness is stated.

## 4. Findings

Four runs have `expect: violation`; the counterexample of each is a program.

1. **A rest property stored to a member permutes the register pool** (`rest_permutes`,
   `ts2panda/src/compilerUtils.ts:403`). In `new F(a, b); ({...o.p} = v)` `undefinedReg` is freed
   behind the registers of the reference, the free list ends permuted, and the compilation ends with
   "VReg sequence of DynRange is not continuous".
2. **A `break` out of `for await` returns from the function** (`await_completion`,
   `es2panda/compiler/base/iterators.cpp:118`). When the iterator has no `return` method,
   `Iterator::Close` emits `DirectReturn` for every completion that is not a throw. It is called
   for the completion of a `break` too, where line 110 says `return Completion(completion)`. The
   run shows `while (...) { for await (let ...) { break } }`.
3. **A `break` out of a labelled block keeps the environments of the loops it leaves** (`block_envs`,
   `ts2panda/src/compiler.ts:663`). The label target of a block is known by its name but never pushed on
   `labelTargetStack`, so that nothing counts in its `loopEnvLevel`: `L: { for (let ...) { break L } }`
   pops nothing. Lines 612-613 say that such a `break` "changes the control flow out of their
   inner env loop. We should pop Loop env with such cases either".
4. **A jump is accepted after the loop or switch it would need** (`jumps_enclosed`,
   `es2panda/parser/parserImpl.h:496`). `~SavedStatusContext` clears nothing, and `while (0); break` passes.
   `statementParser.cpp:803` and `:868` say that a break "can only be used within an enclosing iteration
   or switch statement", a continue "within an enclosing iteration statement".

`JumpsAligned` and `JumpsHaveTargets` state what is true of all other jumps, each with the situation of
finding 3 or 4 among the exceptions it names; both pass and are proved.

### What the code is known to do

The properties hold with exceptions that they name. Each exception is behaviour of the code, met
while modelling; none is contradicted by a text of the repository as directly as the four above.

*ts2panda*

* A `continue` in a `switch` skips finally blocks and iterator closings: the switch has the continue label of
  the loop around it, but the *current* try statement (`statement/switchStatement.ts:48`;
  exception of `FinalizesWhatItLeaves`; those skipped are further out than all it runs).
* Jumps leave environments on the stack (`compiler.ts:596`): to a loop without an environment
  of its own from inside one that has one; `continue` inside a switch whose loop pushes one; and
  finding 3. `JumpsAligned` states, and the proof confirms, that these three are all.
* A throw pops the environments inside the current try statement only; the handlers of for-of
  loops and finally blocks rethrow without popping theirs (`statement/tryStatement.ts:322`,
  `ThrowsAligned`).
* `checkDynRangeInstruction` looks at the second operand of an instruction: the first register of the
  range for calls, but the object for `createobjectwithexcludedkeys`. When the object is the last
  register but one, or the last, that fits, it is kept and keys behind it do not fit
  (`AtTheEdge`, exception of `EmittedFits`); when it does not fit the keys are moved, the object
  is not, and may even be lent to the keys (`Overlooked`, exception of `FunctionUnchanged`;
  `regAllocator.ts:223`).
* A super call is not a range instruction for `regAllocator.ts`: when its first argument does not
  fit, that one alone is moved. With more than one argument the interpreter then looks for
  the others where they are not (`Overlooked`).
* After an exception of the compiler the stream ends as after success, and ts2abc writes an
  `.abc` file without the rest (`compilerDriver.ts:203`).

*es2panda, queue*: `errors_` outlives the call that filled it, so that a compiler that failed once fails for ever
(`CompileBatch` says so and `ImplementsBatch` confirms it).

*es2panda, statements* (`Off`, `stray = "known"`, `CleanedWhenLeft`, `CleanedOnce`, `JumpsReach`)

* `continue` never pops an environment of the contexts it leaves (`dynamicContext.cpp:98`); the
  break of a `for` with an update pops that of the loop twice; `for-in` leaks or over-pops its
  declaration environment.
* A `return` aborts the contexts up to the innermost loop or switch only (`pandagen.cpp:546`): the finally
  blocks further out are not run and the iterators not closed. `CleanedWhenLeft` asks for what the
  source says is owed, with this as its exception: what is left undone is exactly what lies beyond
  (`at.beyond`). No text of the repository says otherwise, so that this is no run of its own.
* `continue` with the label of its own for-of loop closes the iterator and goes on with it.
* A label on a statement that is neither block nor loop has no place to jump to.
* Finalizers and closings compiled in place lie in the ranges of their own handler and of those
  inside it; a jump inside such a finalizer begins its walk at the innermost context of the jump it is compiled
  for, and may find there a label that hides the one it means (`hidden` of `JumpsReach`), or compile a finally
  block again that the first jump has already run (`again` of `CleanedOnce`).
* A `default` that is the first clause of a switch is never jumped to.

*es2panda, scopes* (`Off` of `LexicalScopes`): the update of a loop is compiled in the declaration's scope
and runs inside environments it does not count; a closure in the head of a loop counts
environments that are made later. Accesses from there to variables of functions further out are
off by what `OffIn` says.

*es2panda, parser*

* `IN_ITERATION` and `IN_SWITCH` are never cleared (finding 4); also `continue l` passes when a
  loop under `l` is over.
* A label drops `IN_ITERATION`, `IN_SWITCH`, `ASYNC_FUNCTION`, `ALLOW_YIELD` and `ALLOW_SUPER`:
  `while (1) { l: { break } }` and `await` or `yield` under a label are refused.
* The token after the `}` of a function is read in the function's context
  (`statementParser.cpp:775`); `ASYNC_FUNCTION` stays after an async declaration (`:1017`).
* `a: b: while (1) { continue a }` is refused, in TypeScript also a labelled `break` in a function
  outside of loops.

*es2panda, type relation*

* `RELATION_CHECKED` is put on the type of a property, which may be the one global `number`, and
  stays there when the literal is compared property by property (`objectType.cpp:242`,
  `typeElaboration.cpp:276`). After `let a: {p: number} = {p: 1}` the assignment of a
  `{x: number}` to a `{x: string}` is accepted.
* `as` removes `CHECK_EXCESS_PROPS` from a type for the rest of the program
  (`ir/ts/tsAsExpression.cpp:96`); a comparable answer may then contradict the assignable one that is cached.
* `BooleanLiteralType::Identical` (`booleanLiteralType.cpp:42`) returns the value of the other literal:
  `true` is found identical to `false` ("booleans alike" of `AnswersFitTypes`).
* `ObjectType::Identical` sets no result for objects without any part, so that two of them are not identical
  ("empties differ").

## 5. Proofs

About 26000 obligations in eight modules, for every value of the constants that satisfies the
modules' assumptions (`QueueAssumption`, `ControlFlowAssumption`, `PoolAssumption`,
`LevelAssumption`, `NestingAssumption`, `LexicalAssumption`: numbers are numbers, bounds are ordered,
`Main` is no worker, the kinds of functions and of constructs are those of the grammar).

**CompileQueueProofs.** `TypeCorrect`, `JobsStayAlive`, `EachCompiledOnce`, `QueueQuiet`: the
type invariant and the three safety properties about the jobs, for any number of workers,
functions and calls. None of them is inductive. What makes them so is `IInv` (in
`CompileQueue`, next to the properties): `activeWorkers_` is the number of threads between
taking a job and leaving `Consume` (`ActiveCounted`), the array is allocated while that set
or the array is not empty, and gone outside a call (`JobsLifetime`), and what is compiled or
in hand has left the array (`JobsPartitioned`). Then `Wait`'s predicate, a statement about two
counters, means that no thread is in a job. It is also why the unsigned counters never wrap.

The second part of the module is about what the caller of `Compile` gets: `ResultsKept`,
`ProgramsAreComplete`, `LiteralsOwned` and the refinement, `QueueIsBatch`. `IInv` says where the jobs are, `RInv` where their results are.
`Results`: a job that has left the array is in a thread's hand, in the function table or among the errors of
this call, and nowhere else once it has failed. `Indices`: every literal index given out is in one hand or
in the table, unless a job that took some has failed, in this call or before. `Delivered`: what has been
handed over stays, because there is no array and so no thread in a job. When `Wait` returns, nothing is in hand, so that
every function is in the table or an error is recorded: a program that is handed over is whole. For
the refinement every action is a step of the batch (`Schedule` is `Submit`, `AddFunction` is `Succeed`,
`RecordError` is `Fail`, the end of `Wait` is `Return`, the start of the destructor is `Close`) or leaves all variables of
the batch as they are (`MovesRefine`, `Stutter`). That `errors_` is never cleared is
part of both specifications: the first error stays the one that is thrown.

**ControlFlowProofs.** `LevelsExact`, `JumpsLead`, `JumpsArrive`, `ThrowsLand`, `RangesExact`,
`JumpsFinalize`, for any nesting and any labels: all that `control_flow` checks. `IInv` describes the tables: every open statement has its target, whose
continue target is the innermost loop around it (`TargetsOK`); loops and switches, and only
they, are pushed, in the order of their nesting (`StackOK`); a label is known exactly while
its statement is open (`NamesOK`); the chain of try statements is the one of the source
(`TriesOK`). The lemmas on `Envs` count environments over intervals: opening and closing a
statement changes all counts by the same amount. The difference between what a
jump pops and what it should pop is then arithmetic on `Levels`, case by case of the kind of
its target, and the cases where it does not vanish are those listed in section 4.

`JInv`, on top of it (`JumpInvariance`), is about jumps and catch tables. `TryDepths`: the try
statement that a target has kept is the innermost one around it, so that the walk of
`compileFinallyBeforeCFC` ends in the right place. `TablesOK`: a closed table has closed label
pairs, an open one (of a try block that is open) closed pairs and one last pair that is open, and
each covers the code it must cover. `TablesCut` is the heart of it: what is emitted while a try
statement is left extends the tables further out and is split out of those from there inwards,
so the last pairs stay open and nothing that was covered is lost. `InlinedRight` carries this
along the walk, whose recursive function exists by induction on the distance from the innermost
try statement (`UnwindingExists`). What the walk finalizes are the statements from the target of the *continue or break*
inwards; `ContinueKeeps` compares that with the loop, which for a `continue` in a `switch` is further out.

**RegisterPoolProofs.** `Invariance` and `RangesContinuous`: arguments are consecutive for any
number of registers and any nesting, provided that rest properties are bindings - the
assumption that finding 1 shows to be needed. The invariant (`Ordered`): the registers of the
open expressions, from the outermost to the innermost, are `1 .. t` in order, the free ones
are `t + 1 .. made` in order. So `getTemp` always returns the next number (`TakenNext`), what is
given back must be the last part of what the innermost expression holds (`FreedBack`), and
every expression, step by step, does that. Instructions keep their arguments (`InsnsOK`). When
the function has been generated no expression is open, the free list is `1 .. made`, and
`TempsNumbered` turns the order of the list into numbers. Where the list is permuted
once it stays permuted, which is why the invariant has to speak of every construct of the
function and not of the call alone.

**RegAllocatorProofs**, on top of it. `NamesInvariance` (`NInv`): whatever the generator holds or
has written into an instruction is a local, a temporary of the pool or a cached constant that was
asked for. `CodeInvariance` (`CInv`): `Allocate` gives each of them one number and no two the same.
With the free list in order, as above, `Num` is a bijection from the registers to `0 .. vRegsId - 1`; hence
`RegistersNumbered` (`EveryRegisterNumbered`). `AllocationInvariance` (`AInv`) follows the pass over
the instructions: spill registers are distinct, above the numbered ones and below `vRegsId`, an
instruction names at most four registers unless it is a range, and what has been emitted
fits. Hence `TmpAlwaysFound` (`TmpVregFound`), by counting: of the registers that an instruction names,
those that fit are marked, those that do not fit need one each, four together at most; and when one does not
fit there are as many low registers as the format can name; and `OutputFits` (`EmittedFits`), for which `Smallest`,
the i-th element of a set in order, has to exist and to increase with i.

`FunctionKept` (`FunctionUnchanged`) is a simulation between two executions. `Simulated`, the invariant
of the pass over the instructions: from *any* values of the numbered registers, and with any number of registers
above those in use, what has been emitted so far leaves the same trace as the instructions it was made from,
and each virtual register's value in the register of its number (`Agree`). It has to speak of any values and of more
registers than are in use, because the parameters are moved in front of everything at the end and
because a later adjustment takes spill registers that an earlier one knew nothing of. The proof has two
halves. `StepAgrees`: a virtual instruction and the same with numbers read the same
values and store in corresponding registers, since the numbers are one for each. `Does`: what an action
emits is, as far as the numbered registers go, one execution of its instruction (`KeptDoes`, `AdjustedDoes`,
`StoredDoes`, `RangeDoes`). For the last three, `LendAll` and `GiveAll` follow a list of moves of any length:
after the first m, m low registers hold what they are lent for and m spill registers hold what they held
(`LentTo`); the instruction reads through them what it would have read; then the low registers are given back
(`GivenBack`). That the order of the moves does not matter follows from `OnLoan`: lent registers are different ones, the spill
registers too and above all numbered ones, and no register is lent before it is read. Of a range it
fails when its object lies among the lent registers, and of a super call when it has more than one
argument: these are the instructions that `Overlooked` names (section 4), and the theorem, like the property, excepts
functions with one of them. `ParametersMoved` is `GiveAll` once more.

Two hypotheses: `RestTargets \subseteq {"binding"}`, for the reason of finding 1, and for
`AllocationInvariance` and what follows from it `4 <= LevelB`, which is 256 in the code: with two or
three there are instructions whose registers take all the low ones.

**LexicalScopesProofs.** `AccessesReach`, `SlotsNeverShared`, `CapturedHaveSlots`, `LoopsFresh`: all that
`lexical_scopes` checks, for programs of any size (`MaxConstructs` and `MaxReferences` are not even assumed
to be numbers). What an access does depends on the whole program before it, which the state
keeps only as a list of events. So the invariant (`ScopesInvariant`) says that there is a program `g` that
explains the state: where each construct stands (`TreeOK`, `LayoutOK`), and which constructs are open after each
event (`ProgramOK`); the parser extends it and the other two phases walk it. `BindingsOK`, `VariableScopesOK`
and `SlotsOK` relate scopes, variables and slots to it. The heart of the last is that a slot is given by the function
around a variable, is of one name in that function, and is smaller than the environment of the function *and* of
every converted loop around the variable: `SlotStatic` needs for that that no loop around a variable is
converted while it can be named, and `ConvertStatic` that the converted scopes are at least as large as
the function's environment at that moment. `PhaseOK` says what is done when: a loop whose variable has a slot is open or
converted, what was named across a function has a slot from then on (`CapturedUpTo`).

An access is then right by two counts along the path of open constructs. `FindAcross` and `FindHere`, by induction on
the distance: the environments that `Find` counts along scopes, corrected by `LevelOf` and `Off`, are those by which the
chain of environments at run time grew since the declaration (`ChainSplit`). `HomeIs`: the innermost one
at the declaration is of the same function and has the slot.

**AbcPipeProofs.** `UnescapeEscape`: for any sequence of characters, what `Unescape` makes of what
`Escape` made of it is the sequence. `PrefixReceived` (`ReceivedIsPrefix`): objects arrive whole and in order, for
any texts without a boundary of their own, any number of files and reads of any length up to any `BufSize`. What
`HandleBuffer` keeps between reads is fixed by what it has read of the stream, not by how it was cut: `StreamInv`
says so, and is shown to survive one read by induction over its characters. `ParentInvariance` and
`IndicesInvariant` (`IndicesAgree`): the parent's static buffers hold exactly what the child of the
current file has yet to be sent, so that an index counted here is the position there, also in the
second file and after a function was sent alone. `PipesAreChannels` (`ImplementsChannel`): each
step of parent or child is a step of `FrameChannel` or leaves its variables alone.

**InductionLemmas.** The library's induction theorems take an operator and cannot be used with the
provers at hand. The lemmas here take a set or a function in its place: a non-empty set of naturals has a
least element (`LeastNatural`), a set that holds 0 and with each number the next holds all
(`SetInduction`), a set of sequences that holds the empty one and with each one its extensions holds
all (`SeqInduction`). With them recursive functions are shown to exist and to satisfy their equations, and
what they compute can be proved.

**SyntaxContextsProofs.** `Agreement` and the six properties of the run (`AcceptedJumps`,
`AcceptsJumps`, `ReadsInContext`, `AwaitsFollow`, `YieldsFollow`, `SupersFollow`), for any labels,
any kinds of functions and any depth. The invariant `Inv` relates three descriptions of one place:
the flags of the context in force, what has been parsed since it was made, and the constructs
that are open. `Shape`: each construct finds its context below it, labels and functions own
theirs. `JumpFlags`: `IN_ITERATION` and `IN_SWITCH` are set while a loop or a switch is
open in this context, and otherwise only if one is over in it. `BodyFlags` and `FunctionFlags` say the same of what a
function gives its body and what arrows hand on. `ReadHere`: the token was read with the flags of
now, unless something has just ended. The properties, which are about constructs, follow without
a further induction: what a label drops, and what nothing clears, are the only places where flags and constructs
differ.

**Only model-checked**, and why:

* Liveness (`CompileReturns`, `DestructorReturns`, `ChildrenEnd`) is out of the prover's reach.
* Everything about `statements` (the compilation of a statement compiles those in it) and
  `type_relation` (types are made of types): their modules have RECURSIVE operators, for which the
  prover loses its arithmetic.

## 6. What is not shown

* **The translation itself**: that the instructions of an expression compute its value.
* **Keys and super calls that the allocator overlooks** (section 4). `FunctionUnchanged` says nothing
  of a function with one of them whose registers do not fit.
* **Exceptions between the moves around an adjusted instruction**, and jumps: `RunOf` executes
  straight-line code (`regAllocator.ts:165`, a hazard without a property).
* **Constructs with temporaries that are left out**: array patterns, templates, classes, spread
  arguments, loops and try statements; they take and give back registers nested in the
  same way, but were not translated.
* **ts2panda finally blocks with jumps or labels, static state left behind by a `DiagnosticError`
  (`labelTarget.ts:23`), the choice of a switch clause, the registers of a for-of loop at run time
  (`tryStatement.ts:271`).** The first is modelled for es2panda.
* **Data races in the sense of the memory model**: sections under a mutex are atomic actions;
  what is read without one (`jobsCount_` in `Schedule`'s `ASSERT`) is covered by
  `QuietBetweenCalls`, which says that nobody can be writing it.
* **What a misdirected jump does** (es2panda): `JumpsReach` finds it in the code, the machine does
  not execute such a function. Executions off by more than `MaxDrift` environments end.
* **`yield` and the completion of generators** in the statements of es2panda.
* **Scopes**: closures in default values of parameters, classes, catch clauses, `arguments`, the
  temporal dead zone. The body of a `while` and of a `for` without declaration is in the
  function's environment and is a block here.
* **Parser**: the grammar of expressions, patterns, classes, types and modules; overloads of
  TypeScript; `import(...)` as a statement.
* **Type relation**: inference and destructuring, calls, classes, enums, type references and
  parameters, rest parameters, unions made during checking and as targets of literals, nested
  literals and array literals in the elaboration; the test of a property with a computed name against
  a number index (`COMPUTED_INDEX`, `objectType.cpp:260-263`). Types that contain themselves: the relation of the code does not
  end on them.

### Not modelled, and why

* **es2panda register allocation** (`regAllocator.cpp`). `Restore` (line 75) copies the low register to the
  spill register instead of back; a model would state that once more and then need the instruction
  set, which is not part of the repository, for everything else.
* **Watch mode** (`ts2panda/src/index.ts`). Two processes communicate through polled
  files; what happens depends on when node's `watchFile` looks and what a partial write leaves, both of
  which the code leaves open, so that a model would mostly be a model of the operating system. Its hazard
  (line 206) has no property.
* **Generators and async functions, ts2panda scopes, modules, type recorder, code generation**:
  translations of trees to instructions or tables, one method per construct and (nearly)
  without state between calls; a model would be a copy.
* **Lexer, grammar, command line, driver, debug information, statistics, scripts**: functions of
  their input, or input and output.

## 7. Plan

Done: `CompileBatch`, `CompileQueue`; `FrameChannel`, `AbcPipe`; `ControlFlow`; `RegisterPool`,
`RegAllocator`; `StatementCompiler`, `StatementMachine`; `LexicalScopes`; `SyntaxContexts`;
`TypeRelation`.

Left, in the order of what it would add:

1. Proofs about the modules with RECURSIVE operators, once these are functions: what a jump of
   `StatementMachine` cleans.
2. **SpillAllocator** (es2panda `regAllocator.cpp`): the counterpart of `RegAllocator`, with
   the same `RunOf` as its specification, once the formats are known.
3. Completions of generators in `StatementMachine`: return and throw into a suspended function
   are two more ways to leave a place.
4. Scopes of ts2panda, with `LexicalScopes`' run time as the specification.
5. **WatchMode**, module records and the type recorder's clearing of the literal buffer.
