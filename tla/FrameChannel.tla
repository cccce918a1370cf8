---------------------------- MODULE FrameChannel ----------------------------
(***************************************************************************)
(* What the pipes from ts2panda to its ts2abc processes promise: the JSON  *)
(* objects that the writer hands over arrive unchanged, in order and       *)
(* without a gap, and each reader stops after the end of its stream.  The  *)
(* writer may end a stream at any time, and all of them at once when it is *)
(* killed; it may then take with it the objects that are not delivered     *)
(* yet, and the readers stop on what they have.                            *)
(***************************************************************************)
EXTENDS Naturals, Sequences

CONSTANTS Pipes, Objects

VARIABLES sent, received,
          open,     \* the writer has not ended the stream
          reading   \* the reader has not stopped

vars == <<sent, received, open, reading>>

Init ==
  /\ sent = [p \in Pipes |-> <<>>]
  /\ received = [p \in Pipes |-> <<>>]
  /\ open = [p \in Pipes |-> TRUE]
  /\ reading = [p \in Pipes |-> TRUE]

Send(p, o) ==
  /\ open[p]
  /\ sent' = [sent EXCEPT ![p] = Append(@, o)]
  /\ UNCHANGED <<received, open, reading>>

(* One read of a reader may complete several objects.                      *)
Deliver(p) ==
  /\ reading[p]
  /\ \E n \in Len(received[p]) + 1 .. Len(sent[p]) :
       received' = [received EXCEPT ![p] = SubSeq(sent[p], 1, n)]
  /\ UNCHANGED <<sent, open, reading>>

End(ended) ==
  /\ \A p \in ended : open[p]
  /\ open' = [p \in Pipes |-> open[p] /\ p \notin ended]
  /\ UNCHANGED <<sent, received, reading>>

Stop(p) ==
  /\ reading[p]
  /\ ~open[p]
  /\ reading' = [reading EXCEPT ![p] = FALSE]
  /\ UNCHANGED <<sent, received, open>>

Next ==
  \/ \E p \in Pipes : (\E o \in Objects : Send(p, o)) \/ Deliver(p) \/ Stop(p)
  \/ \E ended \in SUBSET Pipes : End(ended)

Spec == Init /\ [][Next]_vars

=============================================================================
