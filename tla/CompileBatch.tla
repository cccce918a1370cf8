---------------------------- MODULE CompileBatch ----------------------------
(***************************************************************************)
(* What es2panda's compile phase promises its caller, with no threads in   *)
(* it: a program is submitted as a batch of functions, every function of   *)
(* the batch is either compiled into the program or fails, in any order,   *)
(* and the call returns only when nothing is pending.  The outcome is the  *)
(* program with all its functions, or the first error that the compiler    *)
(* ever met: the error list of the queue outlives the call that filled it. *)
(*                                                                         *)
(* CompileQueue implements this specification (property Batch!Spec).       *)
(***************************************************************************)
EXTENDS Naturals, Sequences

CONSTANTS MaxFunctions,  \* functions of one program, bounds the model
          MaxCompiles    \* programs given to one compiler, bounds the model

VARIABLES phase,     \* "idle", "compiling" or "closed"
          pending,   \* functions of the batch with no result yet
          compiled,  \* functions of the batch that are in the program
          first,     \* <<>>, or the first error met, in a sequence of one
          outcome,   \* what the last call returned
          calls      \* calls so far

vars == <<phase, pending, compiled, first, outcome, calls>>

NoOutcome == [status |-> "none", functions |-> {}, error |-> <<>>]

Init ==
  /\ phase = "idle"
  /\ pending = {}
  /\ compiled = {}
  /\ first = <<>>
  /\ outcome = NoOutcome
  /\ calls = 0

Submit(n) ==
  /\ phase = "idle"
  /\ calls < MaxCompiles
  /\ phase' = "compiling"
  /\ pending' = 0 .. n - 1
  /\ compiled' = {}
  /\ outcome' = NoOutcome
  /\ calls' = calls + 1
  /\ UNCHANGED first

Succeed(f) ==
  /\ f \in pending
  /\ pending' = pending \ {f}
  /\ compiled' = compiled \cup {f}
  /\ UNCHANGED <<phase, first, outcome, calls>>

Fail(f) ==
  /\ f \in pending
  /\ pending' = pending \ {f}
  /\ first' = IF first = <<>> THEN <<[call |-> calls, job |-> f]>> ELSE first
  /\ UNCHANGED <<phase, compiled, outcome, calls>>

Return ==
  /\ phase = "compiling"
  /\ pending = {}
  /\ phase' = "idle"
  /\ outcome' =
       IF first = <<>>
       THEN [status |-> "program", functions |-> compiled, error |-> <<>>]
       ELSE [status |-> "error", functions |-> {}, error |-> first]
  /\ UNCHANGED <<pending, compiled, first, calls>>

Close ==
  /\ phase = "idle"
  /\ phase' = "closed"
  /\ UNCHANGED <<pending, compiled, first, outcome, calls>>

Next ==
  \/ \E n \in 1 .. MaxFunctions : Submit(n)
  \/ \E f \in pending : Succeed(f) \/ Fail(f)
  \/ Return
  \/ Close

Spec == Init /\ [][Next]_vars

=============================================================================
