--------------------------- MODULE SyntaxContexts ---------------------------
(***************************************************************************)
(* How es2panda's parser knows where a statement stands.  ParserImpl reads *)
(* the text once, from left to right; what may be said at a point is told  *)
(* by context_, a ParserContext of flags and a label that every function   *)
(* and every label replaces and puts back, and by the lexer, which decides *)
(* what `await` and `yield` are when it reads them: one token ahead of the *)
(* parser, in the context of that moment.  The module is the parser's walk *)
(* over every nesting of statements and functions up to MaxDepth, with any *)
(* number of statements at each place.  A word the parser refuses throws a *)
(* SyntaxError and the parse is over: it is no step here.                  *)
(***************************************************************************)
EXTENDS Naturals, Sequences

CONSTANTS
    Labels,     \* the labels a program may use
    NoLabel,    \* the label_ of a context, or of a jump, without one
    Kinds,      \* the kinds of functions it may use
    MaxDepth    \* bound: constructs open at the same time


VARIABLES
    typescript, \* the extension of the file: .ts or .js
    open,       \* the constructs being parsed, the outermost first
    read        \* how the lexer read the current token: the flags of
                \* then, and whether what they were set for has ended since

vars == <<typescript, open, read>>

Flags == {"FUNCTION", "ASYNC_FUNCTION", "ALLOW_SUPER", "ALLOW_SUPER_CALL",
          "ALLOW_NEW_TARGET", "DISALLOW_AWAIT", "ALLOW_YIELD",
          "IN_ITERATION", "IN_SWITCH"}

\* The flags the lexer looks at for `await` and `yield`.
LexerFlags == {"ASYNC_FUNCTION", "DISALLOW_AWAIT", "ALLOW_YIELD"}

FunctionForms == {"declaration", "expression", "arrow", "method",
                  "constructor"}

\* The function shapes of the grammar; a constructor is the one of a class
\* that extends another.
FunctionKinds ==
    {k \in [form : FunctionForms, async : BOOLEAN, generator : BOOLEAN] :
        /\ k.form = "arrow" => ~k.generator
        /\ k.form = "constructor" => ~k.async /\ ~k.generator}

StatementForms == {"block", "loop", "switch", "if", "else"}

ASSUME NestingAssumption ==
    /\ Kinds \subseteq FunctionKinds
    /\ NoLabel \notin Labels
    /\ MaxDepth \in Nat \ {0}

(***************************************************************************)
(* A frame is one construct that is open.  `takes` says what it waits for: *)
(* any number of statements, one, none any more, or parameters.  The       *)
(* frame of the program, of a function and of a label carries a            *)
(* ParserContext: status, label, and in `past` what has been parsed in it  *)
(* since (loops, switches and async declarations, kept for the properties  *)
(* only).  `ctx` is the frame whose context is in force inside this one;   *)
(* `saved` is what SavedStatusContext remembers.                           *)
(***************************************************************************)
Frames ==
    [form : FunctionForms \cup StatementForms \cup {"program", "label"},
     async : BOOLEAN, generator : BOOLEAN, label : Labels \cup {NoLabel},
     takes : {"list", "one", "none", "parameters"},
     saved : SUBSET Flags, status : SUBSET Flags,
     past : SUBSET {"loop", "switch", "async"}, ctx : Nat]

Frame(kind, label, takes, saved, status, ctx) ==
    [form |-> kind.form, async |-> kind.async, generator |-> kind.generator,
     label |-> label, takes |-> takes, saved |-> saved, status |-> status,
     past |-> {}, ctx |-> ctx]

Plain(form) == [form |-> form, async |-> FALSE, generator |-> FALSE]

Top == open[Len(open)]
Context == open[Top.ctx]
Status == Context.status

HasContext(i) == open[i].ctx = i

-----------------------------------------------------------------------------
(* What the parser asks of its context.                                    *)

\* FindLabel: up the chain of contexts, as long as they are labels.
FindLabel(l) ==
    {i \in 1 .. Len(open) :
        /\ HasContext(i)
        /\ open[i].label = l
        /\ \A j \in i .. Len(open) : HasContext(j) => open[j].label # NoLabel}

(* A mistake: only loops allow a break.                                    *)
AllowBreak_LoopsOnly == "IN_ITERATION" \in Status

AllowBreak == Status \cap {"IN_ITERATION", "IN_SWITCH"} # {}

\* ParseBreakStatement; TypeScript asks more of a break with a label.
BreakAccepted(l) ==
    /\ (typescript /\ "FUNCTION" \in Status) => AllowBreak
    /\ IF l = NoLabel THEN AllowBreak ELSE FindLabel(l) # {}

\* ParseContinueStatement
ContinueAccepted(l) ==
    /\ "IN_ITERATION" \in Status
    /\ l # NoLabel => \E i \in FindLabel(l) : "IN_ITERATION" \in open[i].status

\* CheckAwaitKeyword and CheckYieldKeyword, with the flags of the moment at
\* which the word is read.
AwaitIs(flags) ==
    IF "ASYNC_FUNCTION" \notin flags THEN "identifier"
    ELSE IF "DISALLOW_AWAIT" \in flags THEN "refused" ELSE "keyword"

YieldIs(flags) == IF "ALLOW_YIELD" \in flags THEN "keyword" ELSE "refused"

\* What they say of a word that is read now.  The word that begins a
\* statement has been read already: for that one it is read.flags.
Now == Status \cap LexerFlags

ReturnAccepted == "FUNCTION" \in Status
SuperAccepted == "ALLOW_SUPER" \in Status
SuperCallAccepted == "ALLOW_SUPER_CALL" \in Status
NewTargetAccepted == "ALLOW_NEW_TARGET" \in Status

\* The StatementParsingFlags with which the place calls ParseStatement.
PlaceFlags ==
    CASE Top.form \in {"if", "else"} -> {"ALLOW_LEXICAL", "IF_ELSE"}
      [] Top.form = "label" -> {"LABELLED"}
      [] Top.form = "loop" -> {}
      [] OTHER -> {"ALLOW_LEXICAL"}

\* ParseFunctionStatement asks CheckFunctionDeclaration; an `async function`
\* comes by ParseExpressionStatement, which has a check of its own.
DeclarationAccepted(async) ==
    IF async THEN "ALLOW_LEXICAL" \in PlaceFlags
    ELSE /\ "LABELLED" \notin PlaceFlags
         /\ PlaceFlags \cap {"ALLOW_LEXICAL", "IF_ELSE"} # {}

-----------------------------------------------------------------------------
(* Steps of the parser.                                                    *)

\* A place for one statement is full when a statement has begun in it.
Filled(frames) ==
    LET n == Len(frames)
    IN  IF frames[n].takes = "one"
        THEN [frames EXCEPT ![n].takes = "none"] ELSE frames

TakesStatement == Top.takes \in {"list", "one"}
Deeper == TakesStatement /\ Len(open) < MaxDepth

\* The lexer reads the next token in the context with these flags.
ReadIn(flags) == [flags |-> flags \cap LexerFlags, ended |-> FALSE]

ChangeStatus(frames, i, status) == [frames EXCEPT ![i].status = status]

(* A mistake: a loop is seen from the functions in it.                     *)
Inherited_Iteration(status, new) ==
    (status \cap {"ALLOW_NEW_TARGET", "FUNCTION", "IN_ITERATION"}) \cup new

(* A mistake: a generator is seen from the functions in it.                *)
Inherited_Yield(status, new) ==
    (status \cap {"ALLOW_NEW_TARGET", "FUNCTION", "ALLOW_YIELD"}) \cup new

\* A new ParserContext keeps the flags of this list and no others.
Inherited(status, new) ==
    (status \cap {"ALLOW_NEW_TARGET", "FUNCTION"}) \cup new

\* The constructor of SavedStatusContext sets the flag; the destructor
\* clears what it has saved, and only when it has saved nothing.
Restored(status, saved) ==
    IF saved = {} THEN status \ saved ELSE status

StatusFlag(form) ==
    IF form = "loop" THEN {"IN_ITERATION"}
    ELSE IF form = "switch" THEN {"IN_SWITCH"} ELSE {}

Init ==
    /\ typescript \in BOOLEAN
    /\ open = <<Frame(Plain("program"), NoLabel, "list", {}, {}, 1)>>
    /\ read = ReadIn({})

\* A statement that holds no other, whatever its words are: what the parser
\* accepts at a place is asked there, by the operators above.  One that
\* begins with `async` is parsed with ASYNC_FUNCTION set, and so is, without
\* a `;`, the token after it.
Say ==
    /\ TakesStatement
    /\ open' = Filled(open)
    /\ \/ read' = ReadIn(Status)
       \/ read' = [flags |-> Now \cup {"ASYNC_FUNCTION"}, ended |-> TRUE]
    /\ UNCHANGED typescript

\* A block, a loop, a switch or an if, up to its first statement.
OpenStatement(form) ==
    /\ Deeper
    /\ LET flag == StatusFlag(form)
           status == Status \cup flag
           takes == IF form \in {"block", "switch"} THEN "list" ELSE "one"
       IN  /\ open' = Append(
                ChangeStatus(Filled(open), Top.ctx, status),
                Frame(Plain(form), NoLabel, takes, Status \cap flag, {},
                      Top.ctx))
           /\ read' = ReadIn(status)
    /\ UNCHANGED typescript

\* ParseLabelledStatement: SavedParserContext of IN_LABELED and the label.
OpenLabel(l) ==
    /\ Deeper
    /\ FindLabel(l) = {}
    /\ LET status == Inherited(Status, {})
       IN  /\ open' = Append(Filled(open),
                Frame(Plain("label"), l, "one", {}, status, Len(open) + 1))
           /\ read' = ReadIn(status)
    /\ UNCHANGED typescript

(* A mistake: an arrow function sees no super.                             *)
ArrowStatus_Alone == Inherited(Status, {"FUNCTION"})

\* ArrowFunctionContext
ArrowStatus ==
    Inherited(Status, {"FUNCTION"} \cup
        (Status \cap {"ALLOW_SUPER", "ALLOW_SUPER_CALL"}))

\* What ParsePropertyValue and ParseClassElement give to a method, and
\* ValidateClassKey to the constructor of a class that extends one.
MethodStatus(form) ==
    IF form \in {"method", "constructor"} THEN {"ALLOW_SUPER"} ELSE {}
ConstructorStatus(form) ==
    IF form = "constructor" THEN {"ALLOW_SUPER_CALL"} ELSE {}

\* The status a function's context starts with.
FunctionStatus(kind) ==
    IF kind.form = "arrow" THEN ArrowStatus
    ELSE Inherited(Status, {"FUNCTION", "ALLOW_NEW_TARGET"}
            \cup (IF kind.async THEN {"ASYNC_FUNCTION"} ELSE {})
            \cup MethodStatus(kind.form) \cup ConstructorStatus(kind.form))

(* A mistake: await stays disallowed after the parameters.                 *)
BodyStatus_KeepsDisallow(kind, status) ==
    IF kind.form = "arrow"
    THEN status \cup (IF kind.async THEN {"ASYNC_FUNCTION"} ELSE {})
    ELSE (IF kind.async THEN status ELSE status \cup {"DISALLOW_AWAIT"})
         \cup (IF kind.generator THEN {"ALLOW_YIELD"} ELSE {})

\* ... and the one its body has.
BodyStatus(kind, status) ==
    IF kind.form = "arrow"
    THEN status \cup (IF kind.async THEN {"ASYNC_FUNCTION"} ELSE {})
    ELSE (IF kind.async THEN status \ {"DISALLOW_AWAIT"}
          ELSE status \cup {"DISALLOW_AWAIT"})
         \cup (IF kind.generator THEN {"ALLOW_YIELD"} ELSE {})

\* ParseExpressionStatement sets ASYNC_FUNCTION for an `async function` and
\* returns the declaration without putting the status back.
AfterAsync(frames, kind) ==
    IF kind.form = "declaration" /\ kind.async
    THEN [frames EXCEPT ![Top.ctx].status = @ \cup {"ASYNC_FUNCTION"},
                        ![Top.ctx].past = @ \cup {"async"}]
    ELSE frames

\* ParseFunction up to the parameters; `await` is disallowed in those of a
\* declaration and of an async function.
OpenFunction(kind) ==
    /\ Deeper
    /\ kind.form # "arrow"
    /\ kind.form = "declaration" => DeclarationAccepted(kind.async)
    /\ LET disallow == IF kind.async \/ kind.form = "declaration"
                       THEN {"DISALLOW_AWAIT"} ELSE {}
           status == FunctionStatus(kind) \cup disallow
       IN  /\ open' = Append(AfterAsync(Filled(open), kind),
                Frame(kind, NoLabel, "parameters", {}, status, Len(open) + 1))
           /\ read' = ReadIn(status)
    /\ UNCHANGED typescript

(* A mistake: the first token of the body is read too early.               *)
EnterBody_ReadBefore ==
    /\ Top.takes = "parameters"
    /\ LET n == Len(open)
           status == BodyStatus(Top, Status)
       IN  open' = [open EXCEPT ![n].takes = "list", ![n].status = status]
    /\ read' = ReadIn(Status)
    /\ UNCHANGED typescript

\* The rest of ParseFunction before the first statement.
EnterBody ==
    /\ Top.takes = "parameters"
    /\ LET n == Len(open)
           status == BodyStatus(Top, Status)
       IN  /\ open' = [open EXCEPT ![n].takes = "list", ![n].status = status]
           /\ read' = ReadIn(status)
    /\ UNCHANGED typescript

\* The parameters of an arrow function are an expression of the outer
\* context; ParseArrowFunctionExpressionBody starts at the arrow.
OpenArrow(kind) ==
    /\ Deeper
    /\ kind.form = "arrow"
    /\ LET status == BodyStatus(kind, FunctionStatus(kind))
       IN  /\ open' = Append(Filled(open),
                Frame(kind, NoLabel, "list", {}, status, Len(open) + 1))
           /\ read' = ReadIn(status)
    /\ UNCHANGED typescript

\* What is left when the innermost construct is over.
Popped ==
    LET outer == SubSeq(open, 1, Len(open) - 1)
    IN  IF Top.form \in {"loop", "switch"}
        THEN [outer EXCEPT ![Top.ctx].status = Restored(@, Top.saved),
                           ![Top.ctx].past = @ \cup {Top.form}]
        ELSE outer

\* The `}` of a block or a switch: the next token is read before the
\* construct is left.
CloseBlock ==
    /\ Top.form \in {"block", "switch"}
    /\ open' = Popped
    /\ read' = ReadIn(Status)
    /\ UNCHANGED typescript

\* The `}` of a function: the next token is read in the function's context.
\* A `;` or the end of the class or object literal around it is read then,
\* and the token after that one in the outer context.
CloseFunction ==
    /\ Top.form \in FunctionForms
    /\ Top.takes = "list"
    /\ open' = Popped
    /\ \/ /\ Top.form \in {"declaration", "expression", "arrow"}
          /\ read' = [flags |-> Now, ended |-> TRUE]
       \/ /\ Top.form # "declaration"
          /\ read' = ReadIn(open[open[Len(open) - 1].ctx].status)
    /\ UNCHANGED typescript

\* A loop, a label or an if is over with its statement: nothing is read,
\* but a do loop goes on to its `while (...)`.
CloseSingle ==
    /\ Top.form \in {"loop", "label", "if", "else"}
    /\ Top.takes = "none"
    /\ open' = Popped
    /\ \/ /\ Top.form = "label"
          /\ read' = [read EXCEPT !.ended = TRUE]
       \/ /\ Top.form # "label"
          /\ read' = read
       \/ /\ Top.form = "loop"
          /\ read' = ReadIn(Status)
    /\ UNCHANGED typescript

\* The alternate of an if.
Else ==
    /\ Top.takes = "none"
    /\ Top.form = "if"
    /\ open' = [open EXCEPT ![Len(open)].form = "else",
                            ![Len(open)].takes = "one"]
    /\ read' = ReadIn(Status)
    /\ UNCHANGED typescript

Next ==
    \/ Say
    \/ \E form \in StatementForms \ {"else"} : OpenStatement(form)
    \/ \E l \in Labels : OpenLabel(l)
    \/ \E kind \in Kinds : OpenFunction(kind) \/ OpenArrow(kind)
    \/ EnterBody
    \/ CloseBlock
    \/ CloseFunction
    \/ CloseSingle
    \/ Else

Spec == Init /\ [][Next]_vars

-----------------------------------------------------------------------------
(* What the language asks, told from the constructs alone.                 *)

IsFunction(i) == open[i].form \in FunctionForms

\* No function begins between construct i and here.
SameFunction(i) == \A j \in i + 1 .. Len(open) : ~IsFunction(j)

BreakTarget(l) ==
    \E i \in 1 .. Len(open) :
        /\ SameFunction(i)
        /\ IF l = NoLabel THEN open[i].form \in {"loop", "switch"}
           ELSE open[i].label = l

\* A loop; with a label, one that stands directly under it.
ContinueTarget(l) ==
    \E i \in 1 .. Len(open) :
        /\ SameFunction(i)
        /\ open[i].form = "loop"
        /\ l # NoLabel => \E k \in 1 .. i :
                /\ open[k].label = l
                /\ \A m \in k .. i - 1 : open[m].form = "label"

InAsync ==
    \E i \in 1 .. Len(open) :
        IsFunction(i) /\ SameFunction(i) /\ open[i].async
InGenerator ==
    \E i \in 1 .. Len(open) :
        IsFunction(i) /\ SameFunction(i) /\ open[i].generator

\* The function of these forms that arrow functions see through to.
Within(forms) ==
    {i \in 1 .. Len(open) :
        /\ open[i].form \in forms
        /\ \A j \in i + 1 .. Len(open) :
                IsFunction(j) => open[j].form = "arrow"}

InParameters == Top.takes = "parameters"
UnderLabel == Context.form = "label"

\* No loop and no switch has begun since the innermost label or function.
NothingSince ==
    \A i \in Top.ctx .. Len(open) : open[i].form \notin {"loop", "switch"}

TypeOK ==
    /\ typescript \in BOOLEAN
    /\ read \in [flags : SUBSET LexerFlags, ended : BOOLEAN]
    /\ open \in Seq(Frames)
    /\ Len(open) \in 1 .. MaxDepth
    /\ Top.ctx \in 1 .. Len(open)

(* A jump the parser accepts has the target it needs in the same function. *)
(* The flags of loops and switches are never cleared (SavedStatusContext), *)
(* so a jump without a label passes also after a loop or a switch that is  *)
(* over, in the same function and under the same label, though not where   *)
(* none was: JumpsEnclosed, which forbids it, is violated.  A `continue l` *)
(* passes when such a loop is under l, open or over.                       *)
JumpsHaveTargets ==
    TakesStatement =>
        /\ BreakAccepted(NoLabel) =>
              BreakTarget(NoLabel) \/ Context.past \cap {"loop", "switch"} # {}
        /\ ContinueAccepted(NoLabel) =>
              ContinueTarget(NoLabel) \/ "loop" \in Context.past
        /\ \A l \in Labels :
              /\ BreakAccepted(l) => BreakTarget(l)
              /\ ContinueAccepted(l) =>
                    \E k \in 1 .. Len(open) :
                        /\ open[k].label = l
                        /\ SameFunction(k)
                        /\ \/ "loop" \in open[k].past
                           \/ \E i \in k .. Len(open) :
                                open[i].form = "loop" /\ open[i].ctx = k

(* statementParser.cpp:803 and :868, "A 'break' statement can only be used *)
(* within an enclosing iteration or switch statement", "A 'continue'       *)
(* statement can only be used within an enclosing iteration statement":    *)
(* those without a label are refused elsewhere in a TypeScript file.       *)
JumpsEnclosed ==
    TakesStatement /\ typescript =>
        /\ BreakAccepted(NoLabel) => BreakTarget(NoLabel)
        /\ ContinueAccepted(NoLabel) => ContinueTarget(NoLabel)

(* A jump that has its target is accepted, but in the places the contexts  *)
(* lose: a label drops the flags of the loops and switches around it, a    *)
(* TypeScript break asks for such a flag in a function even when it names  *)
(* a label, and of several labels on a loop only the last can be the       *)
(* target of a continue.                                                   *)
LegalJumpsAccepted ==
    TakesStatement =>
        /\ BreakTarget(NoLabel) /\ ~BreakAccepted(NoLabel) =>
              UnderLabel /\ NothingSince
        /\ ContinueTarget(NoLabel) /\ ~ContinueAccepted(NoLabel) =>
              UnderLabel /\ \A i \in Top.ctx .. Len(open) :
                                open[i].form # "loop"
        /\ \A l \in Labels :
              /\ BreakTarget(l) /\ ~BreakAccepted(l) =>
                    typescript /\ ReturnAccepted /\ NothingSince
              /\ ContinueTarget(l) /\ ~ContinueAccepted(l) =>
                    \/ \A i \in Top.ctx .. Len(open) :
                            open[i].form # "loop"
                    \/ \E k \in 1 .. Len(open) - 1 :
                            /\ open[k].label = l
                            /\ open[k + 1].form = "label"

(* The word that begins a statement has been read in the context it stands *)
(* in.  Otherwise a function body, a label or a statement that begins with *)
(* `async` has ended just before it, and the word was read as one of       *)
(* theirs.                                                                 *)
TokenReadInItsContext ==
    TakesStatement /\ ~read.ended => read.flags = Now

(* At the beginning of a statement `await` is the operator in the body of  *)
(* an async function, but under a label, which drops the flag; elsewhere   *)
(* only behind the declaration of an async function, whose flag is left    *)
(* behind.  Inside an expression statement that begins with `async` it is  *)
(* the operator too (ParseExpressionStatement sets the flag first and      *)
(* restores it at the end): expressions have no places here.               *)
AwaitFollowsFunction ==
    /\ AwaitIs(Now) = "keyword" => InAsync \/ "async" \in Context.past
    /\ InAsync /\ ~InParameters /\ ~UnderLabel => AwaitIs(Now) = "keyword"
    /\ AwaitIs(Now) = "refused" =>
          (InAsync /\ InParameters) \/ "async" \in Context.past

(* `yield` is accepted exactly in the body of a generator outside labels:  *)
(* not in its parameters, and not in a function inside it.                 *)
YieldFollowsFunction ==
    YieldIs(Now) = "keyword" <=>
        InGenerator /\ ~InParameters /\ ~UnderLabel

(* super is accepted exactly in methods and the arrow functions in them,   *)
(* super() in the constructors of derived classes, each as long as no      *)
(* label is between; return in every function, new.target in every         *)
(* function that is not an arrow or is around one.                         *)
SuperFollowsMethod ==
    LET Reached(forms) ==
            \E i \in Within(forms) :
                \A j \in i .. Len(open) : open[j].form # "label"
    IN  /\ SuperAccepted <=> Reached({"method", "constructor"})
        /\ SuperCallAccepted <=> Reached({"constructor"})
        /\ NewTargetAccepted <=>
              \E i \in 1 .. Len(open) :
                IsFunction(i) /\ open[i].form # "arrow"
        /\ ReturnAccepted <=> \E i \in 1 .. Len(open) : IsFunction(i)
=============================================================================
