---------------------------- MODULE MCStatements ----------------------------
(* Programs for StatementMachine: statements of the forms Forms, one in    *)
(* another, and of the forms of each set in DeepForms, two in one, around  *)
(* a jump.  With the form "leave" finally blocks jump as well.             *)
EXTENDS StatementMachine

CONSTANTS Forms, DeepForms

Empty  == [op |-> "empty"]
Absent == [op |-> "none"]

(* What a jump may name: the labels around it, those of loops, loop, switch *)
NoContext == [labels |-> {}, loops |-> {}, loop |-> FALSE, switch |-> FALSE]

Jumps(c) ==
  {[op |-> "return"], [op |-> "throw"]}
  \cup {[op |-> "break", label |-> l] :
          l \in c.labels \cup (IF c.loop \/ c.switch THEN {""} ELSE {})}
  \cup {[op |-> "continue", label |-> l] :
          l \in c.loops \cup (IF c.loop THEN {""} ELSE {})}

(* The loops around the statements of bodies.                              *)
LoopsOf(forms, bodies) ==
  LET Loop(op, envs) ==
        IF op \in forms THEN [op : {op}, env : envs, body : bodies] ELSE {}
  IN  [op : {"while", "do"} \cap forms, body : bodies]
      \cup Loop("for", {"none", "const", "let"})
      \cup Loop("forin", {"none", "let"})
      \cup [op : {"forof"} \cap forms, env : {"none", "let"},
            async : {FALSE}, body : bodies]
      \cup [op : {"forof"}, env : {"let"}, async : {TRUE} \cap
              {"forawait" \in forms}, body : bodies]

Clauses == {<<"case", "default">>, <<"case", "default", "case">>,
            <<"default", "case">>}

(* A statement in the block, the catch clause or the finally block, or in  *)
(* the block before one of the given jumps in the finally block.           *)
TriesOf(b, jumps) ==
  {[op |-> "try", body |-> t[1], handler |-> t[2], finalizer |-> t[3]] :
     t \in {<<b, Empty, Absent>>, <<Empty, b, Absent>>, <<b, Absent, Empty>>,
            <<Empty, b, Empty>>, <<Empty, Absent, b>>}
           \cup {<<b, Absent, j>> : j \in jumps}}

RECURSIVE Statements(_, _, _)
Statements(d, c, forms) ==
  LET In(context)    == Statements(d - 1, context, forms)
      Named(l, loop) == [c EXCEPT !.labels = @ \cup {l}, !.loop = loop \/ @,
                                  !.loops = IF loop THEN @ \cup {l} ELSE @]
      LabelledOf(l)  == LoopsOf(forms, In(Named(l, TRUE)))
                        \cup [op : {"block"}, body : In(Named(l, FALSE))]
                        \cup [op : {"if"}, body : In(Named(l, FALSE))]
  IN  IF d = 0 THEN Jumps(c)
      ELSE LoopsOf(forms, In([c EXCEPT !.loop = TRUE]))
           \cup [op : {"if"} \cap forms, body : In(c)]
           \cup [op : {"switch"} \cap forms, clauses : Clauses,
                 body : In([c EXCEPT !.switch = TRUE])]
           \cup (IF "try" \in forms
                 THEN UNION {TriesOf(b, IF "leave" \in forms THEN Jumps(c)
                                        ELSE {}) : b \in In(c)}
                 ELSE {})
           \cup (IF "labelled" \in forms
                 THEN UNION {[op : {"labelled"}, label : {l},
                              body : LabelledOf(l)] : l \in Labels \ c.labels}
                 ELSE {})

AllPrograms ==
  Statements(2, NoContext, Forms)
  \cup UNION {Statements(3, NoContext, forms) : forms \in DeepForms}
=============================================================================
