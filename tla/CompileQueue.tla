---------------------------- MODULE CompileQueue ----------------------------
(***************************************************************************)
(* The compile queue of es2panda: the thread that calls Compiler::Compile  *)
(* and the worker threads of the queue compile the functions of a program  *)
(* together (compiler/core/compileQueue.cpp, compilerImpl.cpp), sharing    *)
(* the job array, the emitter's program and the literal-index counter.     *)
(*                                                                         *)
(* A section of code that runs under one mutex is one action; the code     *)
(* between two sections is where threads interleave, and pc[t] says which  *)
(* section thread t enters next:                                           *)
(*                                                                         *)
(*   "check"     a worker is about to test the predicate of jobsAvailable_ *)
(*   "asleep"    a worker is blocked on jobsAvailable_, or main on         *)
(*               jobsFinished_                                             *)
(*   "enter"     about to enter Consume                                    *)
(*   "run"       inside CompileJob::Run, holding job[t]                    *)
(*   "failed"    an Error has left Run, its record is not yet taken        *)
(*   "next"      a job is done, about to look for another one              *)
(*   "notify"    a worker is about to notify jobsFinished_                 *)
(*   "broadcast" main has filled the job array, or set terminate_ (then    *)
(*               terminate is TRUE), and has not yet notified              *)
(*   "wait"      main is about to test the predicate of jobsFinished_      *)
(*   "idle", "join", "done"  main outside Compile, joining, finished       *)
(*   "exited"    a worker has returned                                     *)
(***************************************************************************)
EXTENDS Integers, Sequences, FiniteSets

CONSTANTS Workers,       \* the worker threads, possibly none
          Main,          \* the thread that calls Compile
          MaxFunctions,  \* functions of one program, bounds the model
          MaxLiterals,   \* literal buffers of one function, bounds the model
          MaxCompiles    \* calls of Compile on one compiler, bounds the model

ASSUME QueueAssumption ==
  /\ IsFiniteSet(Workers)
  /\ Main \notin Workers
  /\ MaxFunctions \in Nat
  /\ MaxLiterals \in Nat
  /\ MaxCompiles \in Nat

Threads == Workers \cup {Main}

VARIABLES pc, job,
          size,           \* functions of the current program
          jobsCount,      \* jobs_[0 .. jobsCount-1] have not been taken
          jobsAlive,      \* jobs_ and the context it points to are allocated
          activeWorkers,
          terminate,
          errors,         \* errors_, never emptied by the code
          taken,          \* literal indices taken by the job a thread runs
          literalBufferIdx,
          functionTable,  \* functions in the emitter's program
          literalTable,   \* literal index -> the function that emitted it
          calls, outcome

queue   == <<size, jobsCount, jobsAlive, activeWorkers, terminate>>
program == <<literalBufferIdx, functionTable, literalTable>>
caller  == <<calls, outcome>>
vars    == <<pc, job, queue, errors, taken, program, caller>>

WorkerPCs == {"check", "asleep", "enter", "run", "failed", "next", "notify",
              "exited"}
MainPCs   == {"idle", "broadcast", "enter", "run", "failed", "next", "wait",
              "asleep", "join", "done"}

(* Between taking a job and looking for the next one.                      *)
InJob     == {"run", "failed"}
(* Counted by activeWorkers_.                                              *)
Consuming == InJob \cup {"next"}

NoOutcome == [status |-> "none", functions |-> {}, error |-> <<>>]

Init ==
  /\ pc = [t \in Threads |-> IF t = Main THEN "idle" ELSE "check"]
  /\ job = [t \in Threads |-> 0]
  /\ size = 0
  /\ jobsCount = 0
  /\ jobsAlive = FALSE
  /\ activeWorkers = 0
  /\ terminate = FALSE
  /\ errors = <<>>
  /\ taken = [t \in Threads |-> {}]
  /\ literalBufferIdx = 0
  /\ functionTable = {}
  /\ literalTable = <<>>
  /\ calls = 0
  /\ outcome = NoOutcome

Goto(t, to) == pc' = [pc EXCEPT ![t] = to]

(* notify_all on jobsAvailable_, by main on its way to its next section.   *)
WakeWorkers(to) ==
  pc' = [t \in Threads |-> IF t = Main THEN to
                           ELSE IF pc[t] = "asleep" THEN "check" ELSE pc[t]]

-----------------------------------------------------------------------------
(* The calling thread: Schedule, Wait and the destructor.                  *)

(* CompileQueue::Schedule, first half: a new context, one job a function.  *)
Schedule(n) ==
  /\ pc[Main] = "idle"
  /\ calls < MaxCompiles
  /\ size' = n
  /\ jobsCount' = n
  /\ jobsAlive' = TRUE
  /\ literalBufferIdx' = 0
  /\ functionTable' = {}
  /\ literalTable' = <<>>
  /\ calls' = calls + 1
  /\ outcome' = NoOutcome
  /\ Goto(Main, "broadcast")
  /\ UNCHANGED <<job, activeWorkers, terminate, errors, taken>>

(* Schedule, second half: the notification, after the unlock.              *)
NotifyJobs ==
  /\ pc[Main] = "broadcast"
  /\ ~terminate
  /\ WakeWorkers("enter")
  /\ UNCHANGED <<job, queue, errors, taken, program, caller>>

(* Mutant of Finished: Wait looks at the jobs not taken only.              *)
FinishedWhenTaken == jobsCount = 0

Finished == activeWorkers = 0 /\ jobsCount = 0

(* CompileQueue::Wait, the predicate does not hold.                        *)
Block ==
  /\ pc[Main] = "wait"
  /\ ~Finished
  /\ Goto(Main, "asleep")
  /\ UNCHANGED <<job, queue, errors, taken, program, caller>>

(* CompileQueue::Wait returns or throws, and CompilerImpl::Compile with    *)
(* it: the jobs are deleted, the program is handed over by Finalize or     *)
(* goes with the context.                                                  *)
Return ==
  /\ pc[Main] = "wait"
  /\ Finished
  /\ jobsAlive' = FALSE
  /\ outcome' =
       IF errors = <<>>
       THEN [status |-> "program", functions |-> functionTable,
             error |-> <<>>]
       ELSE [status |-> "error", functions |-> {},
             error |-> <<errors[1]>>]
  /\ Goto(Main, "idle")
  /\ UNCHANGED <<job, size, jobsCount, activeWorkers, terminate, errors,
                 taken, program, calls>>

(* CompileQueue::~CompileQueue: the flag, the notification, the joins.     *)
Terminate ==
  /\ pc[Main] = "idle"
  /\ terminate' = TRUE
  /\ Goto(Main, "broadcast")
  /\ UNCHANGED <<job, size, jobsCount, jobsAlive, activeWorkers, errors,
                 taken, program, caller>>

(* Mutant of NotifyTerminate: the destructor sets the flag and joins.      *)
TerminateSilently ==
  /\ pc[Main] = "broadcast"
  /\ terminate
  /\ Goto(Main, "join")
  /\ UNCHANGED <<job, queue, errors, taken, program, caller>>

NotifyTerminate ==
  /\ pc[Main] = "broadcast"
  /\ terminate
  /\ WakeWorkers("join")
  /\ UNCHANGED <<job, queue, errors, taken, program, caller>>

Join ==
  /\ pc[Main] = "join"
  /\ \A w \in Workers : pc[w] = "exited"
  /\ Goto(Main, "done")
  /\ UNCHANGED <<job, queue, errors, taken, program, caller>>

(* A condition variable may wake its waiter for no reason.                 *)
SpuriousWakeup(t) ==
  /\ pc[t] = "asleep"
  /\ Goto(t, IF t = Main THEN "wait" ELSE "check")
  /\ UNCHANGED <<job, queue, errors, taken, program, caller>>

-----------------------------------------------------------------------------
(* A worker's loop around Consume.                                         *)

WorkerWait(w) ==
  /\ pc[w] = "check"
  /\ \/ terminate /\ Goto(w, "exited")
     \/ ~terminate /\ jobsCount # 0 /\ Goto(w, "enter")
     \/ ~terminate /\ jobsCount = 0 /\ Goto(w, "asleep")
  /\ UNCHANGED <<job, queue, errors, taken, program, caller>>

(* Mutant of NotifyFinished: a worker leaves without notifying.            *)
LeaveSilently(w) ==
  /\ pc[w] = "notify"
  /\ Goto(w, "check")
  /\ UNCHANGED <<job, queue, errors, taken, program, caller>>

(* notify_one on jobsFinished_: main is the only thread that waits on it.  *)
NotifyFinished(w) ==
  /\ pc[w] = "notify"
  /\ pc' = [pc EXCEPT ![w] = "check",
                      ![Main] = IF @ = "asleep" THEN "wait" ELSE @]
  /\ UNCHANGED <<job, queue, errors, taken, program, caller>>

-----------------------------------------------------------------------------
(* CompileQueue::Consume, by any thread.                                   *)

(* Mutant of TakeJob: the count is not lowered in the section that reads   *)
(* it.                                                                     *)
TakeJobShared(t, active) ==
  \/ /\ jobsCount > 0
     /\ job' = [job EXCEPT ![t] = jobsCount - 1]
     /\ activeWorkers' = active
     /\ Goto(t, "run")
     /\ UNCHANGED jobsCount
  \/ /\ jobsCount = 0
     /\ activeWorkers' = active - 1
     /\ Goto(t, IF t = Main THEN "wait" ELSE "notify")
     /\ UNCHANGED <<jobsCount, job>>

(* The head of the loop, under the lock, with activeWorkers_ = active: the *)
(* thread takes the last job, or leaves when there is none.                *)
TakeJob(t, active) ==
  \/ /\ jobsCount > 0
     /\ jobsCount' = jobsCount - 1
     /\ job' = [job EXCEPT ![t] = jobsCount - 1]
     /\ activeWorkers' = active
     /\ Goto(t, "run")
  \/ /\ jobsCount = 0
     /\ activeWorkers' = active - 1
     /\ Goto(t, IF t = Main THEN "wait" ELSE "notify")
     /\ UNCHANGED <<jobsCount, job>>

EnterConsume(t) ==
  /\ pc[t] = "enter"
  /\ TakeJob(t, activeWorkers + 1)
  /\ UNCHANGED <<size, jobsAlive, terminate, errors, taken, program, caller>>

NextJob(t) ==
  /\ pc[t] = "next"
  /\ TakeJob(t, activeWorkers)
  /\ UNCHANGED <<size, jobsAlive, terminate, errors, taken, program, caller>>

(* Mutant of NewLiteralIndex: an increment is lost.                        *)
NewLiteralIndexRacy(t) ==
  /\ pc[t] = "run"
  /\ Cardinality(taken[t]) < MaxLiterals
  /\ taken' = [taken EXCEPT ![t] = @ \cup {literalBufferIdx}]
  /\ literalBufferIdx' \in {literalBufferIdx, literalBufferIdx + 1}
  /\ UNCHANGED <<pc, job, queue, errors, functionTable, literalTable, caller>>

(* CompilerContext::NewLiteralIndex, called while the function compiles.   *)
NewLiteralIndex(t) ==
  /\ pc[t] = "run"
  /\ Cardinality(taken[t]) < MaxLiterals
  /\ taken' = [taken EXCEPT ![t] = @ \cup {literalBufferIdx}]
  /\ literalBufferIdx' = literalBufferIdx + 1
  /\ UNCHANGED <<pc, job, queue, errors, functionTable, literalTable, caller>>

(* Emitter::AddFunction, the last thing CompileJob::Run does: emplace      *)
(* keeps an entry that is already there.                                   *)
AddFunction(t) ==
  /\ pc[t] = "run"
  /\ functionTable' = functionTable \cup {job[t]}
  /\ literalTable' =
       [i \in DOMAIN literalTable \cup taken[t] |->
          IF i \in DOMAIN literalTable THEN literalTable[i] ELSE job[t]]
  /\ job' = [job EXCEPT ![t] = 0]
  /\ taken' = [taken EXCEPT ![t] = {}]
  /\ Goto(t, "next")
  /\ UNCHANGED <<queue, errors, literalBufferIdx, caller>>

(* An Error leaves CompileJob::Run: nothing of the function is emitted.    *)
Throw(t) ==
  /\ pc[t] = "run"
  /\ taken' = [taken EXCEPT ![t] = {}]
  /\ Goto(t, "failed")
  /\ UNCHANGED <<job, queue, errors, program, caller>>

(* Mutant of RecordError: the exception is swallowed.                      *)
SwallowError(t) ==
  /\ pc[t] = "failed"
  /\ job' = [job EXCEPT ![t] = 0]
  /\ Goto(t, "next")
  /\ UNCHANGED <<errors, queue, taken, program, caller>>

(* Mutant of RecordError: the latest error comes first.                    *)
RecordErrorInFront(t) ==
  /\ pc[t] = "failed"
  /\ errors' = <<[call |-> calls, job |-> job[t]]>> \o errors
  /\ job' = [job EXCEPT ![t] = 0]
  /\ Goto(t, "next")
  /\ UNCHANGED <<queue, taken, program, caller>>

(* The handler around Run appends the error, under the lock.               *)
RecordError(t) ==
  /\ pc[t] = "failed"
  /\ errors' = Append(errors, [call |-> calls, job |-> job[t]])
  /\ job' = [job EXCEPT ![t] = 0]
  /\ Goto(t, "next")
  /\ UNCHANGED <<queue, taken, program, caller>>

-----------------------------------------------------------------------------

Consume(t) ==
  \/ EnterConsume(t)
  \/ NextJob(t)
  \/ NewLiteralIndex(t)
  \/ AddFunction(t)
  \/ Throw(t)
  \/ RecordError(t)

Worker(w) == WorkerWait(w) \/ NotifyFinished(w) \/ Consume(w)

(* The steps main takes inside Compile and inside the destructor.          *)
MainStep == NotifyJobs \/ Block \/ Return \/ NotifyTerminate \/ Join
            \/ Consume(Main)

(* What the caller decides to do.                                          *)
Caller == Terminate \/ \E n \in 1 .. MaxFunctions : Schedule(n)

Stopped == pc[Main] = "done" /\ UNCHANGED vars

Next ==
  \/ Caller
  \/ MainStep
  \/ \E w \in Workers : Worker(w)
  \/ \E t \in Threads : SpuriousWakeup(t)
  \/ Stopped

Spec == Init /\ [][Next]_vars

(* Every thread that can run is scheduled, a mutex is acquired in the end, *)
(* a function is compiled in a finite number of steps.  Nothing is assumed *)
(* of the caller, nor of spurious wakeups.                                 *)
Fairness == WF_vars(MainStep) /\ \A w \in Workers : WF_vars(Worker(w))
FairSpec == Spec /\ Fairness

-----------------------------------------------------------------------------
(* Properties.                                                             *)

Functions == 0 .. size - 1
Errors == [call : Nat, job : Nat]
Outcomes == [status : {"none", "program", "error"}, functions : SUBSET Nat,
             error : Seq(Errors)]

(* The type invariant: of the threads, the queue and the shared program.   *)
TypeOK ==
  /\ pc \in [Threads -> WorkerPCs \cup MainPCs]
  /\ pc[Main] \in MainPCs
  /\ \A w \in Workers : pc[w] \in WorkerPCs
  /\ job \in [Threads -> Nat]
  /\ size \in Nat
  /\ jobsCount \in Nat
  /\ jobsAlive \in BOOLEAN
  /\ activeWorkers \in Nat
  /\ terminate \in BOOLEAN
  /\ errors \in Seq(Errors)
  /\ taken \in [Threads -> SUBSET Nat]
  /\ literalBufferIdx \in Nat
  /\ functionTable \in SUBSET Nat
  /\ DOMAIN literalTable \in SUBSET Nat
  /\ \A i \in DOMAIN literalTable : literalTable[i] \in Nat
  /\ calls \in Nat
  /\ outcome \in Outcomes

(* No thread runs a job, or reports its failure, once Wait has deleted the *)
(* job array and Compile has destroyed the context on its stack.           *)
NoUseAfterFree ==
  \A t \in Threads : pc[t] \in InJob => jobsAlive

(* A function is compiled by one thread, once: the jobs in hand differ,    *)
(* have left the array, and have no result yet.                            *)
CompiledOnce ==
  \A t \in Threads : pc[t] \in InJob =>
    /\ job[t] \in jobsCount .. size - 1
    /\ job[t] \notin functionTable
    /\ \A u \in Threads \ {t} : pc[u] \in InJob => job[u] # job[t]

(* The ASSERT at the head of Schedule, and what it stands for: no job is   *)
(* left and no thread is in a job when a program can be scheduled.         *)
QuietBetweenCalls ==
  pc[Main] = "idle" =>
    /\ jobsCount = 0
    /\ \A t \in Threads : pc[t] \notin Consuming

(* A program handed to the caller is whole: every function is in it, and   *)
(* the literal table has no holes, so every index that an instruction of   *)
(* the program names is an entry of the table.                             *)
ProgramComplete ==
  outcome.status = "program" =>
    /\ outcome.functions = Functions
    /\ DOMAIN literalTable = 0 .. literalBufferIdx - 1

(* A literal index is in the hands of one function, so that emplace never  *)
(* meets an index that another function has filled.                        *)
LiteralOwned ==
  \A t \in Threads :
    /\ taken[t] \subseteq 0 .. literalBufferIdx - 1
    /\ taken[t] \cap DOMAIN literalTable = {}
    /\ \A u \in Threads \ {t} : taken[t] \cap taken[u] = {}

(* Compile returns: no wakeup of main is lost, no worker is waited for     *)
(* that does not leave Consume.                                            *)
CompileReturns ==
  pc[Main] = "broadcast" /\ ~terminate ~> pc[Main] = "idle"

(* The destructor returns: every worker sees terminate_ and is joined.     *)
DestructorReturns ==
  terminate ~> pc[Main] = "done"

-----------------------------------------------------------------------------
(* The inductive invariant behind the safety properties.                   *)

(* The threads that activeWorkers_ counts.                                 *)
Active == {t \in Threads : pc[t] \in Consuming}

ActiveCounted == activeWorkers = Cardinality(Active)

(* The jobs are allocated while there is one to take or a thread in        *)
(* Consume, and gone when the caller is outside Compile.                   *)
JobsLifetime ==
  /\ jobsCount > 0 \/ Active # {} => jobsAlive
  /\ pc[Main] = "idle" \/ terminate => ~jobsAlive
  /\ terminate => pc[Main] \in {"broadcast", "join", "done"}

(* What is compiled or in hand has left the array.                         *)
JobsPartitioned ==
  /\ jobsCount <= size
  /\ functionTable \subseteq jobsCount .. size - 1
  /\ CompiledOnce

IInv == TypeOK /\ ActiveCounted /\ JobsLifetime /\ JobsPartitioned

-----------------------------------------------------------------------------
(* The refinement of CompileBatch.                                         *)

HasResult(f) ==
  \/ f \in functionTable
  \/ \E i \in DOMAIN errors : errors[i].call = calls /\ errors[i].job = f

Phase ==
  IF pc[Main] = "idle" THEN "idle"
  ELSE IF terminate THEN "closed" ELSE "compiling"

Batch == INSTANCE CompileBatch WITH
  phase    <- Phase,
  pending  <- {f \in Functions : ~HasResult(f)},
  compiled <- functionTable,
  first    <- IF errors = <<>> THEN <<>> ELSE <<errors[1]>>,
  outcome  <- outcome,
  calls    <- calls

(* The queue, with all its threads, is an implementation of the batch.     *)
ImplementsBatch == Batch!Spec

=============================================================================
