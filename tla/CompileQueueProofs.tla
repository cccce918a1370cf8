------------------------- MODULE CompileQueueProofs -------------------------
(***************************************************************************)
(* Proofs about CompileQueue, for any finite set of workers and any        *)
(* number of functions, literal buffers and calls: IInv is inductive, and  *)
(* with it hold the type invariant and the safety of the job array; RInv   *)
(* is, and with it the queue implements CompileBatch.                      *)
(***************************************************************************)
EXTENDS CompileQueue, FiniteSetTheorems, TLAPS

(* The part of the type invariant that is about program counters.          *)
PcOK ==
  /\ pc \in [Threads -> WorkerPCs \cup MainPCs]
  /\ pc[Main] \in MainPCs
  /\ \A w \in Workers : pc[w] \in WorkerPCs

-----------------------------------------------------------------------------
(* Moving one thread.                                                      *)

(* A thread that goes to a section of its own code keeps pc well typed.    *)
LEMMA GotoType ==
  ASSUME PcOK, NEW t \in Threads, NEW to, Goto(t, to),
         IF t = Main THEN to \in MainPCs ELSE to \in WorkerPCs
  PROVE  PcOK'
BY QueueAssumption DEF PcOK, Goto, Threads

(* notify_all keeps pc well typed, and enters no thread into a job.        *)
LEMMA WakeType ==
  ASSUME PcOK, NEW to \in MainPCs, WakeWorkers(to)
  PROVE  /\ PcOK'
         /\ pc'[Main] = to
         /\ \A w \in Workers :
              pc'[w] = IF pc[w] = "asleep" THEN "check" ELSE pc[w]
BY QueueAssumption DEF PcOK, WakeWorkers, Threads, WorkerPCs

LEMMA ActiveFinite ==
  /\ IsFiniteSet(Active)
  /\ Cardinality(Active) \in Nat
  /\ Cardinality(Active) = 0 <=> Active = {}
<1>1. IsFiniteSet(Threads)
  BY QueueAssumption, FS_AddElement DEF Threads
<1>2. IsFiniteSet(Active)
  BY <1>1, FS_Subset, Active \in SUBSET Threads DEF Active
<1>3. QED
  BY <1>2, FS_CardinalityType, FS_EmptySet

(* Entering Consume adds one active thread.                                *)
LEMMA ActiveEnter ==
  ASSUME PcOK, NEW t \in Threads, NEW to \in Consuming, Goto(t, to),
         pc[t] \notin Consuming
  PROVE  /\ Active' = Active \cup {t}
         /\ Cardinality(Active') = Cardinality(Active) + 1
<1>1. Active' = Active \cup {t} /\ t \notin Active
  BY DEF Active, Goto, PcOK
<1>2. QED
  BY <1>1, ActiveFinite, FS_AddElement

(* Leaving Consume removes one.                                            *)
LEMMA ActiveLeave ==
  ASSUME PcOK, NEW t \in Threads, NEW to, to \notin Consuming, Goto(t, to),
         pc[t] \in Consuming
  PROVE  /\ Active' = Active \ {t}
         /\ Cardinality(Active') = Cardinality(Active) - 1
         /\ Cardinality(Active) > 0
<1>1. Active' = Active \ {t} /\ t \in Active
  BY DEF Active, Goto, PcOK
<1>2. Cardinality(Active \ {t}) = Cardinality(Active) - 1
  BY <1>1, ActiveFinite, FS_RemoveElement
<1>3. Active # {}
  BY <1>1
<1>4. QED
  BY <1>1, <1>2, <1>3, ActiveFinite

(* Moving inside Consume, or outside it, changes nothing.                  *)
LEMMA ActiveSame ==
  ASSUME PcOK, NEW t \in Threads, NEW to, Goto(t, to),
         pc[t] \in Consuming <=> to \in Consuming
  PROVE  Active' = Active
BY DEF Active, Goto, PcOK

LEMMA ActiveWake ==
  ASSUME PcOK, NEW to \in MainPCs \ Consuming, WakeWorkers(to),
         pc[Main] \notin Consuming
  PROVE  Active' = Active
<1>1. \A w \in Workers : pc'[w] \in Consuming <=> pc[w] \in Consuming
  BY WakeType DEF Consuming, InJob
<1>2. pc'[Main] \notin Consuming
  BY WakeType
<1>3. QED
  BY <1>1, <1>2 DEF Active, Threads

-----------------------------------------------------------------------------
(* Steps that leave the queue, the jobs in hand and the program alone.     *)

LEMMA Undisturbed ==
  ASSUME IInv, TypeOK', Active' = Active,
         UNCHANGED <<job, queue, functionTable>>,
         \A t \in Threads : pc'[t] \in InJob => pc[t] \in InJob,
         pc'[Main] = "idle" => pc[Main] = "idle",
         terminate => pc'[Main] \in {"broadcast", "join", "done"}
  PROVE  IInv'
<1> USE DEF queue
<1>1. ActiveCounted'
  BY DEF IInv, ActiveCounted
<1>2. JobsLifetime'
  BY DEF IInv, JobsLifetime
<1>3. JobsPartitioned'
  BY DEF IInv, JobsPartitioned, CompiledOnce
<1>4. QED
  BY <1>1, <1>2, <1>3 DEF IInv

-----------------------------------------------------------------------------
(* One lemma for each step that touches the queue.                         *)

LEMMA ScheduleStep ==
  ASSUME IInv, NEW n \in 1 .. MaxFunctions, Schedule(n)
  PROVE  IInv'
<1>1. PcOK'
  BY GotoType DEF IInv, TypeOK, PcOK, Schedule, MainPCs, Threads
<1>2. TypeOK'
  BY <1>1, QueueAssumption
  DEF IInv, TypeOK, PcOK, Schedule, NoOutcome, Outcomes
<1>3. Active' = Active /\ Active = {} /\ jobsCount = 0
  BY ActiveSame
  DEF IInv, TypeOK, PcOK, Schedule, JobsLifetime, Consuming, InJob, Threads
<1>4. ActiveCounted'
  BY <1>3 DEF IInv, ActiveCounted, Schedule
<1>5. pc'[Main] = "broadcast" /\ ~terminate'
  BY DEF IInv, TypeOK, JobsLifetime, Schedule, Goto, Threads
<1>6. JobsLifetime'
  BY <1>5 DEF JobsLifetime, Schedule
<1>7. JobsPartitioned'
  BY <1>3 DEF JobsPartitioned, CompiledOnce, Active, Consuming, Schedule
<1>8. QED
  BY <1>2, <1>4, <1>6, <1>7 DEF IInv

LEMMA ReturnStep ==
  ASSUME IInv, Return
  PROVE  IInv'
<1>1. PcOK'
  BY GotoType DEF IInv, TypeOK, PcOK, Return, MainPCs, Threads
<1>2. outcome' \in Outcomes
  <2>1. CASE errors = <<>>
    BY <2>1 DEF IInv, TypeOK, Return, Outcomes
  <2>2. CASE errors # <<>>
    <3>1. errors[1] \in Errors
      BY <2>2 DEF IInv, TypeOK
    <3>2. QED
      BY <2>2, <3>1 DEF Return, Outcomes
  <2>3. QED
    BY <2>1, <2>2
<1>3. TypeOK'
  BY <1>1, <1>2 DEF IInv, TypeOK, PcOK, Return, program
<1>4. Active' = Active /\ Active = {} /\ jobsCount = 0
  BY ActiveSame, ActiveFinite
  DEF IInv, TypeOK, PcOK, Return, Finished, ActiveCounted, Consuming, InJob,
      Threads
<1>5. ActiveCounted'
  BY <1>4 DEF IInv, ActiveCounted, Return
<1>6. JobsLifetime'
  BY <1>4 DEF IInv, JobsLifetime, Return
<1>7. JobsPartitioned'
  BY <1>4 DEF IInv, JobsPartitioned, CompiledOnce, Active, Consuming, Return,
              program
<1>8. QED
  BY <1>3, <1>5, <1>6, <1>7 DEF IInv

LEMMA TerminateStep ==
  ASSUME IInv, Terminate
  PROVE  IInv'
<1>1. PcOK'
  BY GotoType DEF IInv, TypeOK, PcOK, Terminate, MainPCs, Threads
<1>2. TypeOK'
  BY <1>1 DEF IInv, TypeOK, PcOK, Terminate, program, caller
<1>3. Active' = Active
  BY ActiveSame DEF IInv, TypeOK, PcOK, Terminate, Consuming, InJob, Threads
<1>4. pc'[Main] = "broadcast"
  BY DEF IInv, TypeOK, Terminate, Goto, Threads
<1>5. ActiveCounted'
  BY <1>3 DEF IInv, ActiveCounted, Terminate
<1>6. JobsLifetime'
  BY <1>3, <1>4 DEF IInv, JobsLifetime, Terminate
<1>7. JobsPartitioned'
  BY DEF IInv, TypeOK, JobsPartitioned, CompiledOnce, Terminate, Goto, InJob,
         Threads, program
<1>8. QED
  BY <1>2, <1>5, <1>6, <1>7 DEF IInv

(* The loop of Consume, with the thread counted in active.                 *)
LEMMA TakeJobStep ==
  ASSUME IInv, NEW t \in Threads, NEW active \in Nat,
         pc[t] \in {"enter", "next"},
         active = Cardinality(Active \cup {t}),
         TakeJob(t, active),
         UNCHANGED <<size, jobsAlive, terminate, errors, taken, program,
                     caller>>
  PROVE  IInv'
<1> USE DEF program, caller
<1>1. PcOK /\ TypeOK
  BY DEF IInv, TypeOK, PcOK
<1>2. t = Main => ~terminate
  BY DEF IInv, JobsLifetime
<1>3. CASE /\ jobsCount > 0
           /\ jobsCount' = jobsCount - 1
           /\ job' = [job EXCEPT ![t] = jobsCount - 1]
           /\ activeWorkers' = active
           /\ Goto(t, "run")
  <2>1. PcOK'
    BY <1>1, <1>3, GotoType DEF WorkerPCs, MainPCs
  <2>2. TypeOK'
    <3>1. jobsCount' \in Nat /\ job' \in [Threads -> Nat]
      BY <1>1, <1>3 DEF TypeOK
    <3>2. QED
      BY <1>1, <1>3, <2>1, <3>1 DEF TypeOK, PcOK
  <2>3. Active' = Active \cup {t}
    BY <1>1, <1>3 DEF Active, Goto, PcOK, Consuming, InJob
  <2>4. ActiveCounted'
    BY <1>3, <2>3 DEF ActiveCounted
  <2>5. JobsLifetime'
    BY <1>1, <1>2, <1>3 DEF IInv, JobsLifetime, Goto, PcOK, Threads
  <2>6. JobsPartitioned'
    BY <1>1, <1>3
    DEF IInv, JobsPartitioned, CompiledOnce, Goto, TypeOK, InJob
  <2>7. QED
    BY <2>2, <2>4, <2>5, <2>6 DEF IInv
<1>4. CASE /\ jobsCount = 0
           /\ activeWorkers' = active - 1
           /\ Goto(t, IF t = Main THEN "wait" ELSE "notify")
           /\ UNCHANGED <<jobsCount, job>>
  <2>1. PcOK'
    BY <1>1, <1>4, GotoType DEF WorkerPCs, MainPCs
  <2>2. Active' = Active \ {t}
    BY <1>1, <1>4 DEF Active, Goto, PcOK, Consuming, InJob
  <2>3. /\ Cardinality(Active \ {t}) = active - 1
        /\ Cardinality(Active \ {t}) \in Nat
    <3>1. CASE t \in Active
      <4>1. Cardinality(Active \ {t}) = Cardinality(Active) - 1
        BY <3>1, ActiveFinite, FS_RemoveElement
      <4>2. Cardinality(Active \cup {t}) = Cardinality(Active)
        BY <3>1, ActiveFinite, FS_AddElement
      <4>3. Cardinality(Active) # 0
        BY <3>1, ActiveFinite
      <4>4. QED
        BY <4>1, <4>2, <4>3, ActiveFinite
    <3>2. CASE t \notin Active
      <4>1. Cardinality(Active \cup {t}) = Cardinality(Active) + 1
        BY <3>2, ActiveFinite, FS_AddElement
      <4>2. Cardinality(Active \ {t}) = Cardinality(Active)
        BY <3>2, ActiveFinite, FS_RemoveElement
      <4>3. QED
        BY <4>1, <4>2, ActiveFinite
    <3>3. QED
      BY <3>1, <3>2
  <2>4. TypeOK'
    BY <1>1, <1>4, <2>1, <2>3 DEF TypeOK, PcOK
  <2>5. ActiveCounted'
    BY <1>4, <2>2, <2>3 DEF ActiveCounted
  <2>6. JobsLifetime'
    BY <1>1, <1>2, <1>4, <2>2 DEF IInv, JobsLifetime, Goto, PcOK, Threads
  <2>7. JobsPartitioned'
    BY <1>1, <1>4
    DEF IInv, JobsPartitioned, CompiledOnce, Goto, TypeOK, InJob
  <2>8. QED
    BY <2>4, <2>5, <2>6, <2>7 DEF IInv
<1>5. QED
  BY <1>3, <1>4 DEF TakeJob

LEMMA AddFunctionStep ==
  ASSUME IInv, NEW t \in Threads, AddFunction(t)
  PROVE  IInv'
<1> USE DEF queue, caller
<1>1. PcOK /\ TypeOK
  BY DEF IInv, TypeOK, PcOK
<1>2. PcOK'
  BY <1>1, GotoType DEF AddFunction, WorkerPCs, MainPCs
<1>3. /\ DOMAIN literalTable' = DOMAIN literalTable \cup taken[t]
      /\ \A i \in DOMAIN literalTable' : literalTable'[i] \in Nat
  BY <1>1 DEF AddFunction, TypeOK
<1>4. TypeOK'
  BY <1>1, <1>2, <1>3 DEF AddFunction, TypeOK, PcOK
<1>5. Active' = Active
  BY <1>1, ActiveSame DEF AddFunction, Consuming, InJob
<1>6. ActiveCounted'
  BY <1>5 DEF IInv, ActiveCounted, AddFunction
<1>7. JobsLifetime'
  BY <1>1, <1>5 DEF IInv, JobsLifetime, AddFunction, Goto, PcOK, Threads
<1>8. JobsPartitioned'
  BY <1>1
  DEF IInv, JobsPartitioned, CompiledOnce, AddFunction, Goto, TypeOK, InJob
<1>9. QED
  BY <1>4, <1>6, <1>7, <1>8 DEF IInv

LEMMA RecordErrorStep ==
  ASSUME IInv, NEW t \in Threads, RecordError(t)
  PROVE  IInv'
<1> USE DEF queue, caller, program
<1>1. PcOK /\ TypeOK
  BY DEF IInv, TypeOK, PcOK
<1>2. PcOK'
  BY <1>1, GotoType DEF RecordError, WorkerPCs, MainPCs
<1>3. errors' \in Seq(Errors)
  BY <1>1 DEF RecordError, TypeOK, Errors
<1>4. TypeOK'
  BY <1>1, <1>2, <1>3 DEF RecordError, TypeOK, PcOK
<1>5. Active' = Active
  BY <1>1, ActiveSame DEF RecordError, Consuming, InJob
<1>6. ActiveCounted'
  BY <1>5 DEF IInv, ActiveCounted, RecordError
<1>7. JobsLifetime'
  BY <1>1, <1>5 DEF IInv, JobsLifetime, RecordError, Goto, PcOK, Threads
<1>8. JobsPartitioned'
  BY <1>1
  DEF IInv, JobsPartitioned, CompiledOnce, RecordError, Goto, TypeOK, InJob
<1>9. QED
  BY <1>4, <1>6, <1>7, <1>8 DEF IInv

(* The steps of main that only move main or wake threads.                  *)
LEMMA MainMoveStep ==
  ASSUME IInv, NotifyJobs \/ Block \/ NotifyTerminate \/ Join
  PROVE  IInv'
<1> USE DEF queue, caller, program
<1>1. PcOK /\ TypeOK
  BY DEF IInv, TypeOK, PcOK
<1>2. CASE NotifyJobs
  <2>1. /\ PcOK'
        /\ pc'[Main] = "enter"
        /\ \A t \in Threads : pc'[t] \in InJob => pc[t] \in InJob
    BY <1>1, <1>2, WakeType DEF NotifyJobs, MainPCs, Threads, InJob
  <2>2. Active' = Active
    BY <1>1, <1>2, ActiveWake DEF NotifyJobs, MainPCs, Consuming, InJob
  <2>3. TypeOK'
    BY <1>1, <1>2, <2>1 DEF NotifyJobs, TypeOK, PcOK
  <2>4. QED
    BY <1>2, <2>1, <2>2, <2>3, Undisturbed DEF NotifyJobs
<1>3. CASE NotifyTerminate
  <2>1. /\ PcOK'
        /\ pc'[Main] = "join"
        /\ \A t \in Threads : pc'[t] \in InJob => pc[t] \in InJob
    BY <1>1, <1>3, WakeType DEF NotifyTerminate, MainPCs, Threads, InJob
  <2>2. Active' = Active
    BY <1>1, <1>3, ActiveWake DEF NotifyTerminate, MainPCs, Consuming, InJob
  <2>3. TypeOK'
    BY <1>1, <1>3, <2>1 DEF NotifyTerminate, TypeOK, PcOK
  <2>4. QED
    BY <1>3, <2>1, <2>2, <2>3, Undisturbed DEF NotifyTerminate
<1>4. CASE Block
  <2>1. PcOK'
    BY <1>1, <1>4, GotoType DEF Block, MainPCs, Threads
  <2>2. /\ pc'[Main] = "asleep"
        /\ \A t \in Threads : pc'[t] \in InJob => pc[t] \in InJob
    BY <1>1, <1>4 DEF Block, Goto, PcOK, Threads, InJob
  <2>3. Active' = Active
    BY <1>1, <1>4, ActiveSame DEF Block, Threads, Consuming, InJob
  <2>4. TypeOK'
    BY <1>1, <1>4, <2>1 DEF Block, TypeOK, PcOK
  <2>5. ~terminate
    BY <1>4 DEF IInv, JobsLifetime, Block
  <2>6. QED
    BY <1>4, <2>2, <2>3, <2>4, <2>5, Undisturbed DEF Block
<1>5. CASE Join
  <2>1. PcOK'
    BY <1>1, <1>5, GotoType DEF Join, MainPCs, Threads
  <2>2. /\ pc'[Main] = "done"
        /\ \A t \in Threads : pc'[t] \in InJob => pc[t] \in InJob
    BY <1>1, <1>5 DEF Join, Goto, PcOK, Threads, InJob
  <2>3. Active' = Active
    BY <1>1, <1>5, ActiveSame DEF Join, Threads, Consuming, InJob
  <2>4. TypeOK'
    BY <1>1, <1>5, <2>1 DEF Join, TypeOK, PcOK
  <2>5. QED
    BY <1>5, <2>2, <2>3, <2>4, Undisturbed DEF Join
<1>6. QED
  BY <1>2, <1>3, <1>4, <1>5

LEMMA SpuriousWakeupStep ==
  ASSUME IInv, NEW t \in Threads, SpuriousWakeup(t)
  PROVE  IInv'
<1> USE DEF queue, caller, program
<1>1. PcOK /\ TypeOK
  BY DEF IInv, TypeOK, PcOK
<1>2. PcOK'
  BY <1>1, GotoType DEF SpuriousWakeup, MainPCs, WorkerPCs
<1>3. /\ \A u \in Threads : pc'[u] \in InJob => pc[u] \in InJob
      /\ pc'[Main] = "idle" => pc[Main] = "idle"
      /\ terminate => pc'[Main] \in {"broadcast", "join", "done"}
  BY <1>1 DEF SpuriousWakeup, Goto, PcOK, Threads, InJob, IInv, JobsLifetime
<1>4. Active' = Active
  BY <1>1, ActiveSame DEF SpuriousWakeup, Consuming, InJob
<1>5. TypeOK'
  BY <1>1, <1>2 DEF SpuriousWakeup, TypeOK, PcOK
<1>6. QED
  BY <1>3, <1>4, <1>5, Undisturbed DEF SpuriousWakeup

LEMMA WorkerWaitStep ==
  ASSUME IInv, NEW w \in Workers, WorkerWait(w)
  PROVE  IInv'
<1> USE DEF queue, caller, program
<1>1. PcOK /\ TypeOK /\ w \in Threads /\ w # Main
  BY QueueAssumption DEF IInv, TypeOK, PcOK, Threads
<1>2. PICK to \in {"exited", "enter", "asleep"} : Goto(w, to)
  BY DEF WorkerWait
<1>3. PcOK'
  BY <1>1, <1>2, GotoType DEF WorkerPCs
<1>4. /\ \A u \in Threads : pc'[u] \in InJob => pc[u] \in InJob
      /\ pc'[Main] = pc[Main]
  BY <1>1, <1>2 DEF Goto, PcOK, Threads, InJob
<1>5. Active' = Active
  BY <1>1, <1>2, ActiveSame DEF WorkerWait, Consuming, InJob
<1>6. TypeOK'
  BY <1>1, <1>3 DEF WorkerWait, TypeOK, PcOK
<1>7. QED
  BY <1>4, <1>5, <1>6, Undisturbed DEF WorkerWait, IInv, JobsLifetime

LEMMA NotifyFinishedStep ==
  ASSUME IInv, NEW w \in Workers, NotifyFinished(w)
  PROVE  IInv'
<1> USE DEF queue, caller, program
<1>1. PcOK /\ TypeOK /\ w \in Threads /\ w # Main /\ Main \in Threads
  BY QueueAssumption DEF IInv, TypeOK, PcOK, Threads
<1>2. /\ pc'[w] = "check"
      /\ pc'[Main] = IF pc[Main] = "asleep" THEN "wait" ELSE pc[Main]
      /\ \A u \in Threads \ {w, Main} : pc'[u] = pc[u]
      /\ pc' \in [Threads -> WorkerPCs \cup MainPCs]
  BY <1>1 DEF NotifyFinished, PcOK, WorkerPCs, MainPCs
<1>3. PcOK'
  <2>1. pc'[Main] \in MainPCs
    BY <1>1, <1>2 DEF PcOK, MainPCs
  <2>2. ASSUME NEW v \in Workers PROVE pc'[v] \in WorkerPCs
    <3>1. v \in Threads /\ v # Main
      BY QueueAssumption DEF Threads
    <3>2. CASE v = w
      BY <1>2, <3>2 DEF WorkerPCs
    <3>3. CASE v # w
      BY <1>1, <1>2, <3>1, <3>3 DEF PcOK
    <3>4. QED
      BY <3>2, <3>3
  <2>3. QED
    BY <1>2, <2>1, <2>2 DEF PcOK
<1>4. /\ \A u \in Threads : pc'[u] \in InJob => pc[u] \in InJob
      /\ pc'[Main] = "idle" => pc[Main] = "idle"
      /\ terminate => pc'[Main] \in {"broadcast", "join", "done"}
  BY <1>1, <1>2 DEF InJob, IInv, JobsLifetime
<1>5. \A u \in Threads : pc'[u] \in Consuming <=> pc[u] \in Consuming
  BY <1>1, <1>2 DEF Consuming, InJob, NotifyFinished
<1>6. Active' = Active
  BY <1>5 DEF Active
<1>7. TypeOK'
  BY <1>1, <1>3 DEF NotifyFinished, TypeOK, PcOK
<1>8. QED
  BY <1>4, <1>6, <1>7, Undisturbed DEF NotifyFinished

LEMMA NewLiteralIndexStep ==
  ASSUME IInv, NEW t \in Threads, NewLiteralIndex(t)
  PROVE  IInv'
<1> USE DEF queue, caller
<1>1. TypeOK'
  BY DEF IInv, TypeOK, NewLiteralIndex
<1>2. Active' = Active
  BY DEF NewLiteralIndex, Active
<1>3. QED
  BY <1>1, <1>2, Undisturbed DEF NewLiteralIndex, IInv, JobsLifetime

LEMMA ThrowStep ==
  ASSUME IInv, NEW t \in Threads, Throw(t)
  PROVE  IInv'
<1> USE DEF queue, caller, program
<1>1. PcOK /\ TypeOK
  BY DEF IInv, TypeOK, PcOK
<1>2. PcOK'
  BY <1>1, GotoType DEF Throw, WorkerPCs, MainPCs
<1>3. /\ \A u \in Threads : pc'[u] \in InJob => pc[u] \in InJob
      /\ pc'[Main] = "idle" => pc[Main] = "idle"
      /\ terminate => pc'[Main] \in {"broadcast", "join", "done"}
  BY <1>1 DEF Throw, Goto, PcOK, Threads, InJob, IInv, JobsLifetime
<1>4. Active' = Active
  BY <1>1, ActiveSame DEF Throw, Consuming, InJob
<1>5. TypeOK'
  BY <1>1, <1>2 DEF Throw, TypeOK, PcOK
<1>6. QED
  BY <1>3, <1>4, <1>5, Undisturbed DEF Throw

-----------------------------------------------------------------------------
(* The inductive invariant.                                                *)

LEMMA ConsumeStep ==
  ASSUME IInv, NEW t \in Threads, Consume(t)
  PROVE  IInv'
<1>1. CASE EnterConsume(t)
  <2>1. t \notin Active /\ activeWorkers = Cardinality(Active)
    BY <1>1 DEF EnterConsume, Active, Consuming, InJob, IInv, ActiveCounted
  <2>2. /\ activeWorkers + 1 \in Nat
        /\ activeWorkers + 1 = Cardinality(Active \cup {t})
    BY <2>1, ActiveFinite, FS_AddElement
  <2>3. QED
    BY <1>1, <2>2, TakeJobStep DEF EnterConsume
<1>2. CASE NextJob(t)
  <2>1. t \in Active /\ activeWorkers = Cardinality(Active)
    BY <1>2 DEF NextJob, Active, Consuming, IInv, ActiveCounted
  <2>2. /\ activeWorkers \in Nat
        /\ activeWorkers = Cardinality(Active \cup {t})
    BY <2>1, ActiveFinite, FS_AddElement
  <2>3. QED
    BY <1>2, <2>2, TakeJobStep DEF NextJob
<1>3. QED
  BY <1>1, <1>2, NewLiteralIndexStep, AddFunctionStep, ThrowStep,
     RecordErrorStep DEF Consume

LEMMA IInvInit == Init => IInv
<1> SUFFICES ASSUME Init PROVE IInv
  OBVIOUS
<1>1. PcOK
  BY QueueAssumption DEF Init, PcOK, Threads, WorkerPCs, MainPCs
<1>2. errors \in Seq(Errors) /\ outcome \in Outcomes
  BY DEF Init, NoOutcome, Outcomes
<1>3. /\ DOMAIN literalTable = {}
      /\ taken \in [Threads -> SUBSET Nat]
  BY DEF Init
<1>4. TypeOK
  BY <1>1, <1>2, <1>3 DEF Init, TypeOK, PcOK
<1>5. Active = {}
  BY DEF Init, Active, Consuming, InJob
<1>6. ActiveCounted
  BY <1>5, ActiveFinite DEF Init, ActiveCounted
<1>7. JobsLifetime
  BY <1>5 DEF Init, JobsLifetime
<1>8. JobsPartitioned
  BY DEF Init, JobsPartitioned, CompiledOnce, InJob
<1>9. QED
  BY <1>4, <1>6, <1>7, <1>8 DEF IInv

LEMMA IInvStep == IInv /\ [Next]_vars => IInv'
<1> SUFFICES ASSUME IInv, [Next]_vars PROVE IInv'
  OBVIOUS
<1>0. Main \in Threads /\ Workers \subseteq Threads
  BY DEF Threads
<1>1. CASE Caller
  BY <1>1, ScheduleStep, TerminateStep DEF Caller
<1>2. CASE MainStep
  BY <1>0, <1>2, MainMoveStep, ReturnStep, ConsumeStep DEF MainStep
<1>3. ASSUME NEW w \in Workers, Worker(w) PROVE IInv'
  BY <1>0, <1>3, WorkerWaitStep, NotifyFinishedStep, ConsumeStep DEF Worker
<1>4. ASSUME NEW t \in Threads, SpuriousWakeup(t) PROVE IInv'
  BY <1>4, SpuriousWakeupStep
<1>5. CASE UNCHANGED vars
  <2> USE <1>5 DEF vars, queue, program, caller
  <2>1. TypeOK'
    BY DEF IInv, TypeOK
  <2>2. Active' = Active
    BY DEF Active
  <2>3. QED
    BY <2>1, <2>2, Undisturbed DEF IInv, JobsLifetime
<1>6. QED
  BY <1>1, <1>2, <1>3, <1>4, <1>5 DEF Next, Stopped

THEOREM Invariance == Spec => []IInv
BY IInvInit, IInvStep, PTL DEF Spec

-----------------------------------------------------------------------------
(* What follows from it.                                                   *)

(* Every variable keeps its type; activeWorkers_ and jobsCount_ are        *)
(* unsigned in the code and are never decremented below zero.              *)
THEOREM TypeCorrect == Spec => []TypeOK
BY Invariance, PTL DEF IInv

(* Consume never touches a job array that Wait has deleted, nor a context  *)
(* that Compile has destroyed, however many workers there are.             *)
THEOREM JobsStayAlive == Spec => []NoUseAfterFree
<1>1. IInv => NoUseAfterFree
  BY DEF IInv, JobsLifetime, NoUseAfterFree, Active, Consuming
<1>2. QED
  BY <1>1, Invariance, PTL

(* A function is never compiled by two threads, nor compiled again.        *)
THEOREM EachCompiledOnce == Spec => []CompiledOnce
BY Invariance, PTL DEF IInv, JobsPartitioned

(* Schedule finds the queue as its ASSERT demands, and no thread in a job. *)
THEOREM QueueQuiet == Spec => []QuietBetweenCalls
<1>1. IInv => QuietBetweenCalls
  BY DEF IInv, TypeOK, JobsLifetime, QuietBetweenCalls, Active
<1>2. QED
  BY <1>1, Invariance, PTL

-----------------------------------------------------------------------------
(* What the caller of Compile gets: the queue implements CompileBatch, a   *)
(* program that is handed over is whole, and no literal index is in two    *)
(* hands.  RInv adds to IInv, which says where the jobs are, where their   *)
(* results are.                                                            *)

(* The jobs in hand, and those that have failed in this call.              *)
Hands == {job[t] : t \in {u \in Threads : pc[u] \in InJob}}
Failures == {errors[i].job : i \in {k \in DOMAIN errors :
                                        errors[k].call = calls}}

(* A job that has left the array is in hand or has a result, and one that  *)
(* has failed in this call has no other result.                            *)
Results ==
  /\ jobsCount .. size - 1 \subseteq Hands \cup functionTable \cup Failures
  /\ Failures \subseteq jobsCount .. size - 1
  /\ Failures \cap (Hands \cup functionTable) = {}
  /\ \A i \in DOMAIN errors : errors[i].call <= calls

(* Only a job that runs has literal indices in hand.  Every index given    *)
(* out is in a hand or in the table, unless a job that took some has       *)
(* failed.                                                                 *)
Indices ==
  /\ \A t \in Threads : pc[t] # "run" => taken[t] = {}
  /\ DOMAIN literalTable \subseteq 0 .. literalBufferIdx - 1
  /\ LiteralOwned
  /\ \/ errors # <<>>
     \/ \E t \in Threads : pc[t] = "failed"
     \/ 0 .. literalBufferIdx - 1
          \subseteq DOMAIN literalTable \cup UNION {taken[t] : t \in Threads}

(* What has been handed over does not change any more.                     *)
Delivered ==
  /\ outcome.status # "none" => ~jobsAlive
  /\ ProgramComplete

RInv == Results /\ Indices /\ Delivered

-----------------------------------------------------------------------------
(* Steps that neither take a job nor give it a result.                     *)

(* What IInv says in the words needed here.                                *)
LEMMA Known ==
  ASSUME IInv
  PROVE  /\ TypeOK /\ PcOK
         /\ Main \in Threads /\ Workers \subseteq Threads
         /\ NoUseAfterFree /\ CompiledOnce
         /\ jobsCount <= size /\ functionTable \subseteq jobsCount .. size - 1
         /\ ~jobsAlive =>
              jobsCount = 0 /\ \A t \in Threads : pc[t] \notin Consuming
         /\ pc[Main] = "idle" => ~jobsAlive
BY DEF IInv, JobsLifetime, JobsPartitioned, NoUseAfterFree, Active, Consuming,
       TypeOK, PcOK, Threads

(* errors_ as a sequence.                                                  *)
LEMMA ErrorList ==
  ASSUME IInv
  PROVE  /\ DOMAIN errors = 1 .. Len(errors) /\ Len(errors) \in Nat
         /\ \A i \in DOMAIN errors : errors[i].call \in Nat
         /\ calls \in Nat
<1>1. errors \in Seq(Errors) /\ calls \in Nat
  BY DEF IInv, TypeOK
<1>2. DOMAIN errors = 1 .. Len(errors) /\ Len(errors) \in Nat
  BY <1>1
<1>3. \A i \in DOMAIN errors : errors[i] \in Errors
  BY <1>1, <1>2
<1>4. QED
  BY <1>1, <1>2, <1>3 DEF Errors

(* Threads that move without entering or leaving a job.                    *)
LEMMA MovedOnly ==
  ASSUME RInv, TypeOK,
         UNCHANGED <<job, size, jobsCount, jobsAlive, errors, taken, program,
                     caller>>,
         \A t \in Threads : pc'[t] = pc[t] \/
           (pc[t] \notin InJob /\ pc'[t] \notin InJob)
  PROVE  RInv'
<1> USE DEF program, caller
<1>1. Hands' = Hands /\ Failures' = Failures
  BY DEF Hands, Failures
<1>2. Results'
  BY <1>1 DEF RInv, Results
<1>3. Indices'
  BY DEF RInv, Indices, LiteralOwned, InJob
<1>4. Delivered'
  BY DEF RInv, Delivered, ProgramComplete, Functions
<1>5. QED
  BY <1>2, <1>3, <1>4 DEF RInv

(* One thread that does so.                                                *)
LEMMA MovedOne ==
  ASSUME RInv, TypeOK, NEW t \in Threads, NEW to, to \notin InJob, Goto(t, to),
         pc[t] \notin InJob,
         UNCHANGED <<job, size, jobsCount, jobsAlive, errors, taken, program,
                     caller>>
  PROVE  RInv'
<1>1. \A u \in Threads : pc'[u] = pc[u] \/
        (pc[u] \notin InJob /\ pc'[u] \notin InJob)
  BY DEF Goto, TypeOK
<1>2. QED
  BY <1>1, MovedOnly

LEMMA Woken ==
  ASSUME RInv, TypeOK, NEW to, to \notin InJob, WakeWorkers(to),
         pc[Main] \notin InJob,
         UNCHANGED <<job, size, jobsCount, jobsAlive, errors, taken, program,
                     caller>>
  PROVE  RInv'
<1>1. \A u \in Threads : pc'[u] = pc[u] \/
        (pc[u] \notin InJob /\ pc'[u] \notin InJob)
  BY DEF WakeWorkers, InJob
<1>2. QED
  BY <1>1, MovedOnly

LEMMA Moves ==
  ASSUME IInv, RInv,
         \/ NotifyJobs \/ Block \/ NotifyTerminate \/ Join \/ Terminate
         \/ \E t \in Threads : SpuriousWakeup(t)
         \/ \E w \in Workers : WorkerWait(w) \/ NotifyFinished(w)
  PROVE  RInv'
<1> USE Known DEF queue
<1>1. CASE NotifyJobs
  BY <1>1, Woken DEF NotifyJobs, InJob
<1>2. CASE NotifyTerminate
  BY <1>2, Woken DEF NotifyTerminate, InJob
<1>3. CASE Block
  BY <1>3, MovedOne DEF Block, InJob
<1>4. CASE Join
  BY <1>4, MovedOne DEF Join, InJob
<1>5. CASE Terminate
  BY <1>5, MovedOne DEF Terminate, InJob
<1>6. ASSUME NEW t \in Threads, SpuriousWakeup(t) PROVE RInv'
  BY <1>6, MovedOne DEF SpuriousWakeup, InJob
<1>7. ASSUME NEW w \in Workers, WorkerWait(w) PROVE RInv'
  <2>1. PICK to \in {"exited", "enter", "asleep"} : Goto(w, to)
    BY <1>7 DEF WorkerWait
  <2>2. QED
    BY <1>7, <2>1, MovedOne DEF WorkerWait, InJob
<1>8. ASSUME NEW w \in Workers, NotifyFinished(w) PROVE RInv'
  <2>1. \A u \in Threads : pc'[u] = pc[u] \/
          (pc[u] \notin InJob /\ pc'[u] \notin InJob)
    BY <1>8 DEF NotifyFinished, TypeOK, InJob
  <2>2. QED
    BY <1>8, <2>1, MovedOnly DEF NotifyFinished
<1>9. QED
  BY <1>1, <1>2, <1>3, <1>4, <1>5, <1>6, <1>7, <1>8

-----------------------------------------------------------------------------
(* A call begins and ends.                                                 *)

LEMMA ScheduleResults ==
  ASSUME IInv, RInv, NEW n \in 1 .. MaxFunctions, Schedule(n)
  PROVE  RInv'
<1> USE Known
<1>1. \A t \in Threads : pc[t] \notin InJob /\ pc'[t] \notin InJob
  BY DEF Schedule, Goto, TypeOK, Consuming, InJob
<1>2. Results'
  <2>1. jobsCount' .. size' - 1 = {}
    BY QueueAssumption DEF Schedule
  <2>2. \A i \in DOMAIN errors' : /\ errors'[i].call <= calls'
                                  /\ errors'[i].call # calls'
    <3>1. \A i \in DOMAIN errors : errors[i].call \in Nat
      BY ErrorList
    <3>2. errors' = errors /\ calls' = calls + 1 /\ calls \in Nat
      BY DEF Schedule, TypeOK
    <3>3. \A i \in DOMAIN errors : errors[i].call <= calls
      BY DEF RInv, Results
    <3>4. QED
      BY <3>1, <3>2, <3>3
  <2>3. Failures' = {}
    BY <2>2 DEF Failures
  <2>4. QED
    BY <2>1, <2>2, <2>3 DEF Results
<1>3. Indices'
  <2>1. \A t \in Threads : taken'[t] = {}
    BY <1>1 DEF Schedule, RInv, Indices, InJob
  <2>2. literalTable' = <<>> /\ literalBufferIdx' = 0
    BY DEF Schedule
  <2>3. QED
    BY <2>1, <2>2 DEF Indices, LiteralOwned
<1>4. Delivered'
  BY DEF Schedule, Delivered, ProgramComplete, NoOutcome
<1>5. QED
  BY <1>2, <1>3, <1>4 DEF RInv

(* When Wait's predicate holds no job is in hand.                          *)
LEMMA NothingInHand ==
  ASSUME IInv, Finished
  PROVE  jobsCount = 0 /\ \A t \in Threads : pc[t] \notin Consuming
BY ActiveFinite DEF IInv, ActiveCounted, Finished, Active

LEMMA ReturnResults ==
  ASSUME IInv, RInv, Return
  PROVE  RInv'
<1> USE Known DEF program
<1>1. /\ jobsCount = 0
      /\ \A t \in Threads : pc[t] \notin InJob /\ pc'[t] \notin InJob
  BY NothingInHand DEF Return, Goto, TypeOK, Consuming, InJob
<1>2. Results'
  <2>1. Hands = {} /\ Hands' = {} /\ Failures' = Failures
    BY <1>1 DEF Return, Hands, Failures
  <2>2. QED
    BY <2>1 DEF Return, RInv, Results
<1>3. Indices'
  BY <1>1 DEF Return, RInv, Indices, LiteralOwned, InJob
<1>4. ProgramComplete'
  <2>1. SUFFICES ASSUME errors = <<>>
                 PROVE  /\ functionTable = Functions
                        /\ DOMAIN literalTable = 0 .. literalBufferIdx - 1
    BY DEF Return, ProgramComplete, Functions
  <2>2. \A f \in Functions : f \in functionTable
    <3>1. Hands = {} /\ Failures = {}
      BY <1>1, <2>1 DEF Hands, Failures
    <3>2. QED
      BY <1>1, <3>1 DEF RInv, Results, Functions
  <2>3. \A t \in Threads : taken[t] = {}
    BY <1>1 DEF RInv, Indices, InJob
  <2>4. QED
    BY <1>1, <2>1, <2>2, <2>3 DEF RInv, Indices, Functions, InJob
<1>5. Delivered'
  BY <1>4 DEF Return, Delivered
<1>6. QED
  BY <1>2, <1>3, <1>5 DEF RInv

-----------------------------------------------------------------------------
(* The steps of a job.                                                     *)

LEMMA TakeJobResults ==
  ASSUME IInv, RInv, NEW t \in Threads, NEW active,
         pc[t] \in {"enter", "next"}, TakeJob(t, active),
         UNCHANGED <<size, jobsAlive, terminate, errors, taken, program,
                     caller>>
  PROVE  RInv'
<1> USE Known
<1>1. CASE /\ jobsCount > 0
           /\ jobsCount' = jobsCount - 1
           /\ job' = [job EXCEPT ![t] = jobsCount - 1]
           /\ activeWorkers' = active
           /\ Goto(t, "run")
  <2> USE DEF program, caller
  <2>1. /\ pc'[t] = "run" /\ job'[t] = jobsCount - 1
        /\ \A u \in Threads \ {t} : pc'[u] = pc[u] /\ job'[u] = job[u]
        /\ pc[t] \notin InJob
    BY <1>1 DEF Goto, TypeOK, InJob
  <2>2. Hands' = Hands \cup {jobsCount - 1} /\ Failures' = Failures
    BY <2>1 DEF Hands, Failures, InJob
  <2>3. jobsCount' .. size' - 1 = (jobsCount .. size - 1) \cup {jobsCount - 1}
    BY <1>1 DEF TypeOK
  <2>4. jobsCount - 1 \notin jobsCount .. size - 1
    BY <1>1 DEF TypeOK
  <2>6. Results'
    BY <2>2, <2>3, <2>4 DEF RInv, Results
  <2>7. Indices'
    BY <2>1 DEF RInv, Indices, LiteralOwned, InJob
  <2>8. Delivered'
    BY DEF RInv, Delivered, ProgramComplete, Functions
  <2>9. QED
    BY <2>6, <2>7, <2>8 DEF RInv
<1>2. CASE /\ jobsCount = 0
           /\ activeWorkers' = active - 1
           /\ Goto(t, IF t = Main THEN "wait" ELSE "notify")
           /\ UNCHANGED <<jobsCount, job>>
  BY <1>2, MovedOne DEF InJob
<1>3. QED
  BY <1>1, <1>2 DEF TakeJob

LEMMA NewLiteralIndexResults ==
  ASSUME IInv, RInv, NEW t \in Threads, NewLiteralIndex(t)
  PROVE  RInv'
<1> USE Known DEF queue, caller
<1>1. /\ taken'[t] = taken[t] \cup {literalBufferIdx}
      /\ \A u \in Threads \ {t} : taken'[u] = taken[u]
      /\ literalBufferIdx' = literalBufferIdx + 1
      /\ literalTable' = literalTable /\ literalBufferIdx \in Nat
      /\ pc' = pc /\ pc[t] = "run"
  BY DEF NewLiteralIndex, TypeOK
<1>2. Results'
  <2>1. Hands' = Hands /\ Failures' = Failures
    BY DEF NewLiteralIndex, Hands, Failures
  <2>2. QED
    BY <2>1 DEF NewLiteralIndex, RInv, Results
<1>3. 0 .. literalBufferIdx' - 1
        = (0 .. literalBufferIdx - 1) \cup {literalBufferIdx}
  BY <1>1
<1>4. literalBufferIdx \notin 0 .. literalBufferIdx - 1
  BY <1>1
<1>5. LiteralOwned'
  BY <1>1, <1>3, <1>4 DEF RInv, Indices, LiteralOwned
<1>6. UNION {taken'[u] : u \in Threads}
        = (UNION {taken[u] : u \in Threads}) \cup {literalBufferIdx}
  BY <1>1
<1>7. errors' = errors
  BY DEF NewLiteralIndex
<1>8. Indices'
  BY <1>1, <1>3, <1>5, <1>6, <1>7 DEF RInv, Indices
<1>9. jobsAlive /\ jobsAlive' = jobsAlive /\ outcome' = outcome
  BY DEF NewLiteralIndex, NoUseAfterFree, InJob
<1>10. Delivered'
  BY <1>9 DEF RInv, Delivered, ProgramComplete
<1>11. QED
  BY <1>2, <1>8, <1>10 DEF RInv

(* A job that ends, with or without a result: nobody else has it in hand.  *)
LEMMA LetGo ==
  ASSUME IInv, NEW t \in Threads, pc[t] \in InJob,
         Goto(t, "next"), job' = [job EXCEPT ![t] = 0]
  PROVE  /\ Hands' = Hands \ {job[t]} /\ job[t] \in Hands
         /\ pc'[t] = "next" /\ \A u \in Threads \ {t} : pc'[u] = pc[u]
<1> USE Known
<1>1. /\ pc'[t] = "next"
      /\ \A u \in Threads \ {t} : pc'[u] = pc[u] /\ job'[u] = job[u]
  BY DEF Goto, TypeOK
<1>2. \A u \in Threads \ {t} : pc[u] \in InJob => job[u] # job[t]
  BY DEF CompiledOnce
<1>3. QED
  BY <1>1, <1>2 DEF Hands, InJob

LEMMA AddFunctionResults ==
  ASSUME IInv, RInv, NEW t \in Threads, AddFunction(t)
  PROVE  RInv'
<1> USE Known DEF queue, caller
<1>1. /\ pc[t] = "run"
      /\ job[t] \in jobsCount .. size - 1
      /\ functionTable' = functionTable \cup {job[t]}
      /\ UNCHANGED <<size, jobsCount, errors, calls>>
  BY DEF AddFunction, CompiledOnce, InJob
<1>2. /\ Hands' = Hands \ {job[t]} /\ job[t] \in Hands
      /\ pc'[t] = "next" /\ \A u \in Threads \ {t} : pc'[u] = pc[u]
  BY LetGo DEF AddFunction, InJob
<1>3. Failures' = Failures
  BY <1>1 DEF Failures
<1>4. Results'
  BY <1>1, <1>2, <1>3 DEF RInv, Results
<1>5. /\ taken'[t] = {}
      /\ \A u \in Threads \ {t} : taken'[u] = taken[u]
      /\ DOMAIN literalTable' = DOMAIN literalTable \cup taken[t]
      /\ literalBufferIdx' = literalBufferIdx
  BY DEF AddFunction, TypeOK
<1>6. LiteralOwned'
  BY <1>5 DEF RInv, Indices, LiteralOwned
<1>7. DOMAIN literalTable' \cup UNION {taken'[u] : u \in Threads}
        = DOMAIN literalTable \cup UNION {taken[u] : u \in Threads}
  BY <1>5
<1>8. Indices'
  BY <1>1, <1>2, <1>5, <1>6, <1>7 DEF RInv, Indices, LiteralOwned
<1>9. jobsAlive /\ jobsAlive' = jobsAlive /\ outcome' = outcome
  BY DEF AddFunction, NoUseAfterFree, InJob
<1>10. Delivered'
  BY <1>9 DEF RInv, Delivered, ProgramComplete
<1>11. QED
  BY <1>4, <1>8, <1>10 DEF RInv

LEMMA ThrowResults ==
  ASSUME IInv, RInv, NEW t \in Threads, Throw(t)
  PROVE  RInv'
<1> USE Known DEF queue, program, caller
<1>1. /\ pc[t] = "run" /\ pc'[t] = "failed"
      /\ \A u \in Threads \ {t} : pc'[u] = pc[u]
      /\ taken'[t] = {} /\ \A u \in Threads \ {t} : taken'[u] = taken[u]
  BY DEF Throw, Goto, TypeOK
<1>2. Hands' = Hands /\ Failures' = Failures
  BY <1>1 DEF Hands, Failures, InJob, Throw
<1>3. Results'
  BY <1>2 DEF Throw, RInv, Results
<1>4. LiteralOwned'
  BY <1>1 DEF Throw, RInv, Indices, LiteralOwned
<1>5. Indices'
  BY <1>1, <1>4 DEF Throw, RInv, Indices
<1>6. Delivered'
  BY DEF Throw, RInv, Delivered, ProgramComplete, Functions
<1>7. QED
  BY <1>3, <1>5, <1>6 DEF RInv

LEMMA RecordErrorResults ==
  ASSUME IInv, RInv, NEW t \in Threads, RecordError(t)
  PROVE  RInv'
<1> USE Known DEF queue, program, caller
<1>1. /\ pc[t] = "failed"
      /\ job[t] \in jobsCount .. size - 1 /\ job[t] \notin functionTable
      /\ UNCHANGED <<size, jobsCount, jobsAlive, functionTable, calls,
                     outcome>>
  BY DEF RecordError, CompiledOnce, InJob
<1>2. /\ Hands' = Hands \ {job[t]} /\ job[t] \in Hands
      /\ pc'[t] = "next" /\ \A u \in Threads \ {t} : pc'[u] = pc[u]
  BY LetGo DEF RecordError, InJob
<1>3. /\ DOMAIN errors' = DOMAIN errors \cup {Len(errors) + 1}
      /\ \A i \in DOMAIN errors : errors'[i] = errors[i]
      /\ errors'[Len(errors) + 1] = [call |-> calls, job |-> job[t]]
      /\ Len(errors) + 1 \notin DOMAIN errors
      /\ errors' # <<>>
  <2>1. errors \in Seq(Errors)
    BY DEF TypeOK
  <2>2. errors' = Append(errors, [call |-> calls, job |-> job[t]])
    BY DEF RecordError
  <2>3. QED
    BY <2>1, <2>2, ErrorList
<1>4. Failures' = Failures \cup {job[t]}
  BY <1>1, <1>3 DEF Failures
<1>5. \A i \in DOMAIN errors' : errors'[i].call <= calls'
  BY <1>1, <1>3, ErrorList DEF RInv, Results
<1>7. Results'
  BY <1>1, <1>2, <1>4, <1>5 DEF RInv, Results
<1>8. Indices'
  BY <1>1, <1>2, <1>3 DEF RecordError, RInv, Indices, LiteralOwned
<1>9. Delivered'
  BY <1>1 DEF RecordError, RInv, Delivered, ProgramComplete, Functions
<1>10. QED
  BY <1>7, <1>8, <1>9 DEF RInv

-----------------------------------------------------------------------------
(* RInv is invariant.                                                      *)

LEMMA RInvInit == Init => RInv
<1> SUFFICES ASSUME Init PROVE RInv
  OBVIOUS
<1>1. Results
  BY DEF Init, Results, Hands, Failures, InJob
<1>2. /\ DOMAIN literalTable = {}
      /\ \A t \in Threads : taken[t] = {}
      /\ 0 .. literalBufferIdx - 1 = {}
  BY DEF Init
<1>3. Indices
  BY <1>2 DEF Indices, LiteralOwned
<1>4. Delivered
  BY DEF Init, Delivered, ProgramComplete, NoOutcome
<1>5. QED
  BY <1>1, <1>3, <1>4 DEF RInv

LEMMA ConsumeResults ==
  ASSUME IInv, RInv, NEW t \in Threads, Consume(t)
  PROVE  RInv'
<1>1. CASE EnterConsume(t)
  BY <1>1, TakeJobResults DEF EnterConsume
<1>2. CASE NextJob(t)
  BY <1>2, TakeJobResults DEF NextJob
<1>3. QED
  BY <1>1, <1>2, NewLiteralIndexResults, AddFunctionResults, ThrowResults,
     RecordErrorResults DEF Consume

LEMMA RInvStep == IInv /\ RInv /\ [Next]_vars => RInv'
<1> SUFFICES ASSUME IInv, RInv, [Next]_vars PROVE RInv'
  OBVIOUS
<1>0. Main \in Threads /\ Workers \subseteq Threads
  BY DEF Threads
<1>1. CASE Caller
  BY <1>1, ScheduleResults, Moves DEF Caller
<1>2. CASE MainStep
  BY <1>0, <1>2, Moves, ReturnResults, ConsumeResults DEF MainStep
<1>3. ASSUME NEW w \in Workers, Worker(w) PROVE RInv'
  BY <1>0, <1>3, Moves, ConsumeResults DEF Worker
<1>4. ASSUME NEW t \in Threads, SpuriousWakeup(t) PROVE RInv'
  BY <1>4, Moves
<1>5. CASE UNCHANGED vars
  BY <1>5, MovedOnly, Known DEF vars, queue
<1>6. QED
  BY <1>1, <1>2, <1>3, <1>4, <1>5 DEF Next, Stopped

(* Where the jobs are and where their results are, in every state.         *)
THEOREM ResultsKept == Spec => [](IInv /\ RInv)
<1>1. Init => IInv /\ RInv
  BY IInvInit, RInvInit
<1>2. IInv /\ RInv /\ [Next]_vars => (IInv /\ RInv)'
  BY IInvStep, RInvStep
<1>3. QED
  BY <1>1, <1>2, PTL DEF Spec

(* A program handed to the caller has every function and a literal table   *)
(* without holes, whatever was compiled, in what order and by whom.        *)
THEOREM ProgramsAreComplete == Spec => []ProgramComplete
<1>1. RInv => ProgramComplete
  BY DEF RInv, Delivered
<1>2. QED
  BY <1>1, ResultsKept, PTL

(* An index that NewLiteralIndex gave to a function is nobody else's.      *)
THEOREM LiteralsOwned == Spec => []LiteralOwned
<1>1. RInv => LiteralOwned
  BY DEF RInv, Indices
<1>2. QED
  BY <1>1, ResultsKept, PTL

-----------------------------------------------------------------------------
(* The refinement of CompileBatch: every step of a thread is one of the    *)
(* batch or changes nothing that the batch has.                            *)

(* What Batch substitutes for pending and first.                           *)
Pending == {f \in Functions : ~HasResult(f)}
First   == IF errors = <<>> THEN <<>> ELSE <<errors[1]>>

LEMMA PendingIs ==
  /\ Pending = Functions \ (functionTable \cup Failures)
  /\ Pending' = Functions' \ (functionTable' \cup Failures')
BY DEF Pending, HasResult, Failures

(* Steps that touch no result.                                             *)
LEMMA Stutter ==
  ASSUME UNCHANGED <<size, functionTable, errors, caller, terminate>>,
         pc'[Main] = "idle" <=> pc[Main] = "idle"
  PROVE  UNCHANGED Batch!vars
<1> USE DEF caller
<1>1. Phase' = Phase
  BY DEF Phase
<1>2. Pending' = Pending /\ First' = First
  BY DEF Pending, First, Functions, HasResult
<1>3. QED
  BY <1>1, <1>2 DEF Batch!vars, Pending, First

LEMMA SubmitStep ==
  ASSUME IInv, RInv, NEW n \in 1 .. MaxFunctions, Schedule(n)
  PROVE  Batch!Submit(n)
<1> USE Known
<1>1. Phase = "idle" /\ Phase' = "compiling"
  BY DEF Schedule, Phase, Goto, TypeOK, IInv, JobsLifetime
<1>2. Pending' = 0 .. n - 1
  <2>1. \A i \in DOMAIN errors : errors[i].call # calls + 1
    BY ErrorList DEF RInv, Results
  <2>2. Failures' = {}
    BY <2>1 DEF Schedule, Failures
  <2>3. Pending' = Functions' \ (functionTable' \cup Failures')
    BY PendingIs
  <2>4. QED
    BY <2>2, <2>3 DEF Schedule, Functions
<1>3. First' = First
  BY DEF Schedule, First
<1>4. QED
  BY <1>1, <1>2, <1>3
  DEF Schedule, Batch!Submit, Batch!NoOutcome, NoOutcome, Pending, First

LEMMA BatchReturnStep ==
  ASSUME IInv, RInv, Return
  PROVE  Batch!Return
<1> USE Known DEF program
<1>1. Phase = "compiling" /\ Phase' = "idle"
  BY DEF Return, Phase, Goto, TypeOK, IInv, JobsLifetime
<1>2. Pending = {}
  <2>1. jobsCount = 0 /\ Hands = {}
    BY NothingInHand DEF Return, Hands, Consuming
  <2>2. QED
    BY <2>1, PendingIs DEF RInv, Results, Functions
<1>3. Pending' = Pending /\ First' = First
  BY DEF Return, Pending, First, Functions, HasResult
<1>4. outcome' = IF First = <<>>
                 THEN [status |-> "program", functions |-> functionTable,
                       error |-> <<>>]
                 ELSE [status |-> "error", functions |-> {}, error |-> First]
  BY DEF Return, First
<1>5. QED
  BY <1>1, <1>2, <1>3, <1>4 DEF Return, Batch!Return, Pending, First

LEMMA CloseStep ==
  ASSUME IInv, Terminate
  PROVE  Batch!Close
<1> USE Known DEF program, caller
<1>1. Phase = "idle" /\ Phase' = "closed"
  BY DEF Terminate, Phase, Goto, TypeOK
<1>2. Pending' = Pending /\ First' = First
  BY DEF Terminate, Pending, First, Functions, HasResult
<1>3. QED
  BY <1>1, <1>2 DEF Terminate, Batch!Close, Pending, First

LEMMA SucceedStep ==
  ASSUME IInv, RInv, NEW t \in Threads, AddFunction(t)
  PROVE  job[t] \in Pending /\ Batch!Succeed(job[t])
<1> USE Known DEF queue, caller
<1>1. /\ job[t] \in jobsCount .. size - 1 /\ job[t] \notin functionTable
      /\ job[t] \in Hands
      /\ functionTable' = functionTable \cup {job[t]}
      /\ Failures' = Failures /\ Functions' = Functions /\ First' = First
  <2>1. job[t] \in jobsCount .. size - 1 /\ job[t] \notin functionTable
    BY DEF AddFunction, CompiledOnce, InJob
  <2>2. job[t] \in Hands
    BY LetGo DEF AddFunction, InJob
  <2>3. Failures' = Failures
    BY DEF AddFunction, Failures
  <2>4. Functions' = Functions /\ First' = First
    BY DEF AddFunction, Functions, First
  <2>5. QED
    BY <2>1, <2>2, <2>3, <2>4 DEF AddFunction
<1>2. job[t] \in Pending
  BY <1>1, PendingIs DEF RInv, Results, Functions, TypeOK
<1>3. Pending' = Pending \ {job[t]}
  <2>1. Pending' = Functions' \ (functionTable' \cup Failures')
    BY PendingIs
  <2>2. QED
    BY <1>1, <2>1, PendingIs
<1>4. Phase' = Phase
  BY DEF AddFunction, Goto, Phase, TypeOK
<1>5. QED
  BY <1>1, <1>2, <1>3, <1>4 DEF AddFunction, Batch!Succeed, Pending, First

LEMMA FailStep ==
  ASSUME IInv, RInv, NEW t \in Threads, RecordError(t)
  PROVE  job[t] \in Pending /\ Batch!Fail(job[t])
<1> USE Known DEF queue, program, caller
<1>1. /\ job[t] \in jobsCount .. size - 1 /\ job[t] \notin functionTable
      /\ job[t] \in Hands
      /\ functionTable' = functionTable /\ Functions' = Functions
  BY LetGo DEF RecordError, CompiledOnce, InJob, Functions
<1>2. /\ DOMAIN errors' = DOMAIN errors \cup {Len(errors) + 1}
      /\ \A i \in DOMAIN errors : errors'[i] = errors[i]
      /\ errors'[Len(errors) + 1] = [call |-> calls, job |-> job[t]]
      /\ Len(errors) + 1 \notin DOMAIN errors
      /\ errors' # <<>>
      /\ errors = <<>> => Len(errors) = 0
      /\ errors # <<>> => 1 \in DOMAIN errors
  <2>1. errors \in Seq(Errors)
    BY DEF TypeOK
  <2>2. errors' = Append(errors, [call |-> calls, job |-> job[t]])
    BY DEF RecordError
  <2>3. QED
    BY <2>1, <2>2, ErrorList
<1>3. Failures' = Failures \cup {job[t]}
  BY <1>2 DEF RecordError, Failures
<1>4. First' = IF First = <<>> THEN <<[call |-> calls, job |-> job[t]]>>
               ELSE First
  BY <1>2 DEF First
<1>5. job[t] \in Pending
  BY <1>1, PendingIs DEF RInv, Results, Functions, TypeOK
<1>6. Pending' = Pending \ {job[t]}
  <2>1. Pending' = Functions' \ (functionTable' \cup Failures')
    BY PendingIs
  <2>2. QED
    BY <1>1, <1>3, <2>1, PendingIs
<1>7. Phase' = Phase
  BY DEF RecordError, Goto, Phase, TypeOK
<1>8. QED
  BY <1>4, <1>5, <1>6, <1>7 DEF RecordError, Batch!Fail, Pending, First

LEMMA ConsumeRefines ==
  ASSUME IInv, RInv, NEW t \in Threads, Consume(t)
  PROVE  [Batch!Next]_(Batch!vars)
<1> USE Known DEF queue, program, caller
<1>1. CASE EnterConsume(t) \/ NextJob(t)
  <2>1. pc'[Main] = "idle" <=> pc[Main] = "idle"
    BY <1>1 DEF EnterConsume, NextJob, TakeJob, Goto, TypeOK
  <2>2. QED
    BY <1>1, <2>1, Stutter DEF EnterConsume, NextJob
<1>2. CASE NewLiteralIndex(t)
  BY <1>2, Stutter DEF NewLiteralIndex
<1>3. CASE Throw(t)
  <2>1. pc'[Main] = "idle" <=> pc[Main] = "idle"
    BY <1>3 DEF Throw, Goto, TypeOK
  <2>2. QED
    BY <1>3, <2>1, Stutter DEF Throw
<1>4. CASE AddFunction(t)
  BY <1>4, SucceedStep DEF Batch!Next, Pending
<1>5. CASE RecordError(t)
  BY <1>5, FailStep DEF Batch!Next, Pending
<1>6. QED
  BY <1>1, <1>2, <1>3, <1>4, <1>5 DEF Consume

LEMMA MovesRefine ==
  ASSUME IInv,
         \/ NotifyJobs \/ Block \/ NotifyTerminate \/ Join
         \/ \E t \in Threads : SpuriousWakeup(t)
         \/ \E w \in Workers : WorkerWait(w) \/ NotifyFinished(w)
  PROVE  UNCHANGED Batch!vars
<1> USE Known DEF queue, program, caller
<1>1. CASE NotifyJobs \/ NotifyTerminate
  <2>1. pc'[Main] \in {"enter", "join"} /\ pc[Main] = "broadcast"
    BY <1>1 DEF NotifyJobs, NotifyTerminate, WakeWorkers
  <2>2. QED
    BY <1>1, <2>1, Stutter DEF NotifyJobs, NotifyTerminate
<1>2. CASE Block \/ Join
  <2>1. pc'[Main] \in {"asleep", "done"} /\ pc[Main] \in {"wait", "join"}
    BY <1>2 DEF Block, Join, Goto, TypeOK
  <2>2. QED
    BY <1>2, <2>1, Stutter DEF Block, Join
<1>3. ASSUME NEW t \in Threads, SpuriousWakeup(t)
      PROVE  UNCHANGED Batch!vars
  <2>1. pc'[Main] = "idle" <=> pc[Main] = "idle"
    BY <1>3 DEF SpuriousWakeup, Goto, TypeOK
  <2>2. QED
    BY <1>3, <2>1, Stutter DEF SpuriousWakeup
<1>4. ASSUME NEW w \in Workers, WorkerWait(w) \/ NotifyFinished(w)
      PROVE  UNCHANGED Batch!vars
  <2>1. pc'[Main] = "idle" <=> pc[Main] = "idle"
    BY <1>4, QueueAssumption
    DEF WorkerWait, NotifyFinished, Goto, TypeOK
  <2>2. QED
    BY <1>4, <2>1, Stutter DEF WorkerWait, NotifyFinished
<1>5. QED
  BY <1>1, <1>2, <1>3, <1>4

LEMMA StepRefines == IInv /\ RInv /\ [Next]_vars => [Batch!Next]_(Batch!vars)
<1> SUFFICES ASSUME IInv, RInv, [Next]_vars
             PROVE  [Batch!Next]_(Batch!vars)
  OBVIOUS
<1>0. Main \in Threads /\ Workers \subseteq Threads
  BY DEF Threads
<1>1. CASE Caller
  BY <1>1, SubmitStep, CloseStep DEF Caller, Batch!Next
<1>2. CASE MainStep
  BY <1>0, <1>2, MovesRefine, BatchReturnStep, ConsumeRefines
  DEF MainStep, Batch!Next
<1>3. ASSUME NEW w \in Workers, Worker(w) PROVE [Batch!Next]_(Batch!vars)
  BY <1>0, <1>3, MovesRefine, ConsumeRefines DEF Worker
<1>4. ASSUME NEW t \in Threads, SpuriousWakeup(t)
      PROVE  [Batch!Next]_(Batch!vars)
  BY <1>4, MovesRefine
<1>5. CASE UNCHANGED vars
  BY <1>5, Stutter DEF vars, queue, program, caller
<1>6. QED
  BY <1>1, <1>2, <1>3, <1>4, <1>5 DEF Next, Stopped

LEMMA InitRefines == Init => Batch!Init
<1> SUFFICES ASSUME Init PROVE Batch!Init
  OBVIOUS
<1>1. Phase = "idle"
  BY DEF Init, Phase, Threads
<1>2. Pending = {}
  BY DEF Init, Pending, Functions
<1>3. QED
  BY <1>1, <1>2 DEF Init, Batch!Init, Batch!NoOutcome, NoOutcome, Pending

(* The compile queue, whatever its threads do in whatever order, is the    *)
(* batch without threads: what a call returns does not depend on them.     *)
THEOREM QueueIsBatch == Spec => ImplementsBatch
<1>1. Init => Batch!Init
  BY InitRefines
<1>2. IInv /\ RInv /\ [Next]_vars => [Batch!Next]_(Batch!vars)
  BY StepRefines
<1>3. QED
  BY <1>1, <1>2, ResultsKept, PTL DEF Spec, ImplementsBatch, Batch!Spec

=============================================================================
