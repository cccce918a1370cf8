------------------------------ MODULE AbcPipe -------------------------------
(***************************************************************************)
(* The pipe between ts2panda and ts2abc.  ts2panda compiles a list of      *)
(* source files one after the other (index.ts, compilerDriver.ts).  For    *)
(* each of them it starts a ts2abc child and writes to the child's file    *)
(* descriptor 3 a stream of JSON objects: the options, the functions, the  *)
(* strings, the literal arrays, the module record, the type info           *)
(* (ts2panda.ts).  The child cuts the stream back into objects, whatever   *)
(* pieces its reads return, builds a program and writes the .abc file when *)
(* the stream ends (ts2abc.cpp).                                           *)
(*                                                                         *)
(* An object travels as the characters "$", its text with every "$"        *)
(* written "#$", "$" and a newline.  A text is one character for the kind  *)
(* of the object, the characters that matter, and the closing brace that   *)
(* every JSON text ends with.                                              *)
(***************************************************************************)
EXTENDS Naturals, Sequences, FiniteSets, FiniteSetsExt, SequencesExt

CONSTANTS NumFiles,  \* source files of one ts2panda run, bounds the model
          MaxUnits,  \* functions of one file, bounds the model
          Texts,     \* what the text of a function or a literal array holds
          BufSize    \* what one read returns at most, 4096 in the code

ASSUME PipeAssumption ==
  /\ NumFiles \in Nat \ {0}
  /\ MaxUnits \in Nat \ {0}
  /\ BufSize \in Nat \ {0}
  /\ Texts \subseteq Seq({"$", "#", "x"})

Files == 1 .. NumFiles
Kinds == {"options", "function", "string", "literal", "module", "typeinfo"}
Objects == [kind : Kinds, text : Texts \cup {<<>>}]

VARIABLES
  file,      \* the file being compiled
  step,      \* what main() does next
  units,     \* functions of this file compiled so far
  literals,  \* PandaGen.literalArrayBuffer, static
  modules,   \* Ts2Panda.moduleRecordlist, static: the files of the records
  uses,      \* index and text of every literal array the functions refer to
  sent,      \* objects handed to the stream of each file
  wire,      \* characters written to the pipe and not read
  open,      \* the write end is open
  inFrame, data, received, child  \* the ts2abc process of each file

parent == <<file, step, units, literals, modules, uses>>
reader == <<inFrame, data, received, child>>
vars   == <<parent, sent, wire, open, reader>>

-----------------------------------------------------------------------------
(* The encoding.                                                           *)

(* String.replace(/\$/g, '#$')                                             *)
Escape(text) ==
  FlattenSeq([i \in 1 .. Len(text) |->
    IF text[i] = "$" THEN <<"#", "$">> ELSE <<text[i]>>])

Encode(o) ==
  <<"$">> \o Escape(<<o.kind>> \o o.text \o <<"}">>) \o <<"$", "\n">>

(* ReplaceAllDistinct(data, "#$", "$"): from left to right, never looking  *)
(* at a replacement again, so that what goes is every "#" before a "$".    *)
Unescape(chars) ==
  FlattenSeq([i \in 1 .. Len(chars) |->
    IF i < Len(chars) /\ chars[i] = "#" /\ chars[i + 1] = "$"
    THEN <<>> ELSE <<chars[i]>>])

(* ParseSmallPieceJson: a text is an object of a known kind, or an error.  *)
IsJson(text) == Len(text) > 1 /\ text[1] \in Kinds /\ text[Len(text)] = "}"
Decode(text) == [kind |-> text[1], text |-> SubSeq(text, 2, Len(text) - 1)]

(* Mutant of IsBoundary: a "$" at the start of a read is a boundary.       *)
IsBoundaryLocal(buff, i, carried) ==
  buff[i] = "$" /\ (i = 1 \/ buff[i - 1] # "#")

(* IsStartOrEndPosition: a "$" that is not escaped.  What precedes the     *)
(* first character of a read is the end of what is carried over.           *)
IsBoundary(buff, i, carried) ==
  /\ buff[i] = "$"
  /\ IF i = 1 THEN carried = <<>> \/ Last(carried) # "#"
              ELSE buff[i - 1] # "#"

(* HandleBuffer: what one read adds to the state of the reader.            *)
HandleBuffer(buff, st) ==
  LET After[i \in 0 .. Len(buff)] ==
        IF i = 0 THEN st
        ELSE LET r == After[i - 1]
             IN  IF ~IsBoundary(buff, i, r.data)
                 THEN IF r.inFrame
                      THEN [r EXCEPT !.data = Append(@, buff[i])] ELSE r
                 ELSE IF ~r.inFrame THEN [r EXCEPT !.inFrame = TRUE]
                 ELSE [inFrame |-> FALSE, data |-> <<>>,
                       texts |-> Append(r.texts, Unescape(r.data))]
  IN  After[Len(buff)]

-----------------------------------------------------------------------------

Init ==
  /\ file = 1
  /\ step = "start"
  /\ units = 0
  /\ literals = <<>>
  /\ modules = <<>>
  /\ uses = [f \in Files |-> {}]
  /\ sent = [f \in Files |-> <<>>]
  /\ wire = [f \in Files |-> <<>>]
  /\ open = [f \in Files |-> TRUE]
  /\ inFrame = [f \in Files |-> FALSE]
  /\ data = [f \in Files |-> <<>>]
  /\ received = [f \in Files |-> <<>>]
  /\ child = [f \in Files |-> "none"]

(* ts2abc.stdio[3].write                                                   *)
Write(o) ==
  /\ sent' = [sent EXCEPT ![file] = Append(@, o)]
  /\ wire' = [wire EXCEPT ![file] = @ \o Encode(o)]

Obj(kind, text) == [kind |-> kind, text |-> text]

-----------------------------------------------------------------------------
(* The parent.                                                             *)

(* The syntax check and the prologue, which empty the literal buffer, then *)
(* the child and its options.                                              *)
Start ==
  /\ step = "start"
  /\ step' = "units"
  /\ units' = 0
  /\ literals' = <<>>
  /\ child' = [child EXCEPT ![file] = "reading"]
  /\ Write(Obj("options", <<>>))
  /\ UNCHANGED <<file, modules, uses, open, inFrame, data, received>>

(* compileImpl of one function: it may append a literal array and refers   *)
(* to it by its position, and is dumped.  The last one is main, whose      *)
(* scope is the module scope.                                              *)
CompileUnit(text, newLiteral) ==
  /\ step = "units"
  /\ units < MaxUnits
  /\ units' = units + 1
  /\ IF newLiteral
     THEN /\ uses' = [uses EXCEPT ![file] = @ \cup {<<Len(literals), text>>}]
          /\ literals' = Append(literals, text)
     ELSE UNCHANGED <<uses, literals>>
  /\ \/ UNCHANGED <<modules, step>>
     \/ modules' = Append(modules, file) /\ step' = "strings"
  /\ Write(Obj("function", text))
  /\ UNCHANGED <<file, open, reader>>

(* An exception of the compiler, before the child is started or after: the *)
(* stream of a child is ended, and run() gives up.                         *)
Throw ==
  /\ step \in {"start", "units"}
  /\ step' = "stopped"
  /\ open' = IF step = "units" THEN [open EXCEPT ![file] = FALSE] ELSE open
  /\ UNCHANGED <<file, units, literals, modules, uses, sent, wire, reader>>

DumpStrings ==
  /\ step = "strings"
  /\ step' = "literals"
  /\ Write(Obj("string", <<>>))
  /\ UNCHANGED <<file, units, literals, modules, uses, open, reader>>

(* Objects of this kind written for the file.                              *)
Count(kind) ==
  Cardinality({i \in DOMAIN sent[file] : sent[file][i].kind = kind})

(* dumpConstantPool: the literal arrays, in the order of their indices.    *)
DumpConstantPool ==
  /\ step = "literals"
  /\ IF Count("literal") < Len(literals)
     THEN /\ Write(Obj("literal", literals[Count("literal") + 1]))
          /\ UNCHANGED step
     ELSE step' = "modules" /\ UNCHANGED <<sent, wire>>
  /\ UNCHANGED <<file, units, literals, modules, uses, open, reader>>

DumpModuleRecords ==
  /\ step = "modules"
  /\ IF Count("module") < Len(modules)
     THEN Write(Obj("module", <<>>)) /\ UNCHANGED step
     ELSE step' = "typeinfo" /\ UNCHANGED <<sent, wire>>
  /\ UNCHANGED <<file, units, literals, modules, uses, open, reader>>

DumpTypeInfo ==
  /\ step = "typeinfo"
  /\ step' = "end"
  /\ Write(Obj("typeinfo", <<>>))
  /\ UNCHANGED <<file, units, literals, modules, uses, open, reader>>

(* Mutant of Finish: the dumped data is kept for the next file.            *)
FinishUncleared ==
  /\ step = "end"
  /\ open' = [open EXCEPT ![file] = FALSE]
  /\ literals' = <<>>
  /\ IF file < NumFiles
     THEN file' = file + 1 /\ step' = "start"
     ELSE file' = file /\ step' = "stopped"
  /\ UNCHANGED <<modules, units, uses, sent, wire, reader>>

(* Mutant of Finish: the stream is left open.                              *)
FinishOpen ==
  /\ step = "end"
  /\ literals' = <<>>
  /\ modules' = <<>>
  /\ IF file < NumFiles
     THEN file' = file + 1 /\ step' = "start"
     ELSE file' = file /\ step' = "stopped"
  /\ UNCHANGED <<open, units, uses, sent, wire, reader>>

(* terminateWritePipe, clearDumpData, clearLiteralArrayBuffer; the next    *)
(* file, if there is one.                                                  *)
Finish ==
  /\ step = "end"
  /\ open' = [open EXCEPT ![file] = FALSE]
  /\ literals' = <<>>
  /\ modules' = <<>>
  /\ IF file < NumFiles
     THEN file' = file + 1 /\ step' = "start"
     ELSE file' = file /\ step' = "stopped"
  /\ UNCHANGED <<units, uses, sent, wire, reader>>

(* The process dies, killed or by an exception that run() does not handle. *)
(* What the pipes have not taken yet is lost: from now on the stream of    *)
(* every child may end anywhere, mid-object or not (see ReadEnd).          *)
Die ==
  /\ step # "dead"
  /\ step' = "dead"
  /\ open' = [f \in Files |-> FALSE]
  /\ UNCHANGED <<file, units, literals, modules, uses, sent, wire, reader>>

-----------------------------------------------------------------------------
(* A child: ReadFromPipe, then the .abc file.                              *)

(* read returned n characters.                                             *)
Read(f, n) ==
  /\ child[f] = "reading"
  /\ wire[f] # <<>>
  /\ wire' = [wire EXCEPT ![f] = SubSeq(@, n + 1, Len(@))]
  /\ UNCHANGED <<parent, sent, open>>
  /\ LET r == HandleBuffer(SubSeq(wire[f], 1, n),
                [inFrame |-> inFrame[f], data |-> data[f], texts |-> <<>>])
         good == \A i \in DOMAIN r.texts : IsJson(r.texts[i])
     IN  /\ inFrame' = [inFrame EXCEPT ![f] = r.inFrame]
         /\ data' = [data EXCEPT ![f] = r.data]
         /\ IF good
            THEN /\ received' = [received EXCEPT ![f] =
                       @ \o [i \in DOMAIN r.texts |-> Decode(r.texts[i])]]
                 /\ UNCHANGED child
            ELSE /\ child' = [child EXCEPT ![f] = "failed"]
                 /\ UNCHANGED received

(* Mutant of ReadEnd: an empty pipe is taken for its end.                  *)
ReadEndEarly(f) ==
  /\ child[f] = "reading"
  /\ wire[f] = <<>>
  /\ child' = [child EXCEPT ![f] = "emitted"]
  /\ UNCHANGED <<parent, sent, wire, open, inFrame, data, received>>

(* read returned 0: whatever is in data is dropped, the program is         *)
(* emitted.                                                                *)
ReadEnd(f) ==
  /\ child[f] = "reading"
  /\ ~open[f]
  /\ wire[f] = <<>> \/ step = "dead"
  /\ child' = [child EXCEPT ![f] = "emitted"]
  /\ UNCHANGED <<parent, sent, wire, open, inFrame, data, received>>

Child(f) ==
  \/ \E n \in 1 .. Min({BufSize, Len(wire[f])}) : Read(f, n)
  \/ ReadEnd(f)

Parent ==
  \/ Start
  \/ \E text \in Texts, newLiteral \in BOOLEAN : CompileUnit(text, newLiteral)
  \/ Throw
  \/ DumpStrings
  \/ DumpConstantPool
  \/ DumpModuleRecords
  \/ DumpTypeInfo
  \/ Finish

(* Nothing moves any more.                                                 *)
Stopped ==
  /\ step \in {"stopped", "dead"}
  /\ \A f \in Files : child[f] # "reading"
  /\ UNCHANGED vars

Next == Parent \/ Die \/ (\E f \in Files : Child(f)) \/ Stopped

Spec == Init /\ [][Next]_vars

(* Both processes run.  The parent compiles and dumps without waiting for  *)
(* anything; a child that has something to read, or the end, reads it.     *)
FairSpec == Spec /\ WF_vars(Parent) /\ \A f \in Files : WF_vars(Child(f))

-----------------------------------------------------------------------------
(* Properties.                                                             *)

(* However the reads cut the stream, and wherever the parent dies, what a  *)
(* child has parsed is the beginning of what was written to it: no object  *)
(* is garbled, skipped, repeated or torn, and none is refused as JSON.     *)
ReceivedIsPrefix ==
  \A f \in Files : IsPrefix(received[f], sent[f]) /\ child[f] # "failed"

(* The parent came to the end of file f.                                   *)
Complete(f) == \E i \in DOMAIN sent[f] : sent[f][i].kind = "typeinfo"

(* The keys of literalarray_table are given in the order of arrival.       *)
TableOf(objects) ==
  FlattenSeq([i \in 1 .. Len(objects) |->
    IF objects[i].kind \in {"literal", "module"} THEN <<objects[i]>> ELSE <<>>])

Table(f) == TableOf(received[f])

(* An .abc file of a compilation that came to its end is whole, and the    *)
(* index under which ts2abc files a literal array is the index under which *)
(* ts2panda's functions refer to it; the one module record comes after     *)
(* them, at the index that ts2abc writes into _ESModuleRecord.             *)
IndicesAgree ==
  \A f \in Files : child[f] = "emitted" /\ Complete(f) /\ step # "dead" =>
    /\ received[f] = sent[f]
    /\ \A use \in uses[f] : Table(f)[use[1] + 1] = Obj("literal", use[2])
    /\ Len(Table(f)) = Cardinality(uses[f]) + 1
    /\ Last(Table(f)).kind = "module"

(* Every child that was started ends, whatever happens to the parent.      *)
ChildrenEnd ==
  \A f \in Files : child[f] = "reading" ~> child[f] \in {"emitted", "failed"}

Channel == INSTANCE FrameChannel WITH
  Pipes   <- Files,
  reading <- [f \in Files |-> child[f] \in {"none", "reading"}]

(* Each pipe is a reliable, ordered channel of objects.                    *)
ImplementsChannel == Channel!Spec

=============================================================================
