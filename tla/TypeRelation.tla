---------------------------- MODULE TypeRelation ----------------------------
(***************************************************************************)
(* The type relation of es2panda's TypeScript checker                      *)
(* (typescript/types/typeRelation.cpp and the Identical, AssignmentSource  *)
(* and AssignmentTarget of the types).  One relation serves a whole        *)
(* program.  It is not a function of two types: it has a result that is    *)
(* kept between calls, three caches whose entries are never changed, and   *)
(* it reads two flags of the types that statements change, so that an      *)
(* answer may depend on all the statements before.                         *)
(*                                                                         *)
(* A type is an identifier; Structure says what it is made of.  Types are  *)
(* finite: the relation does not end on types that contain themselves.     *)
(***************************************************************************)
EXTENDS Integers, Sequences, FiniteSets, SequencesExt

CONSTANTS Types,         \* identifiers
          Structure,     \* of each type, see below
          Variables,     \* the types of the variables of the program
          Values,        \* the types of other expressions in it
          Literals,      \* the types of its object literals
          MaxStatements

(* Fields of Structure[t].  All types: kind.  "numberLiteral", "boolean-   *)
(* Literal": value.  "union": of, a sequence.  "array": element.  Objects: *)
(* properties, a sequence of [name, type, optional]; signatures, by "call" *)
(* and "construct", sequences of [min, parameters, returns]; index, by     *)
(* "number" and "string", a type or NoType; bases, a sequence.             *)
ASSUME TypesAssumption ==
  Variables \cup Values \cup Literals \subseteq Types /\ MaxStatements \in Nat

NoType == "no type"

VARIABLES
  result,       \* result_
  cached,       \* of each relation, the answers by <<source, target>>
  checked,      \* the types with RELATION_CHECKED
  excused,      \* the objects that have lost CHECK_EXCESS_PROPS
  everChecked,  \* the types that ever had RELATION_CHECKED
  statements,   \* that were checked
  failed        \* the last one with an Error

vars ==
  <<result, cached, checked, excused, everChecked, statements, failed>>

-----------------------------------------------------------------------------
(* Types.                                                                  *)

Kind(t) == Structure[t].kind

IsObject(t) == Kind(t) \in {"literal", "interface", "tuple", "function"}

Nullable(t) == Kind(t) \in {"undefined", "null"}

(* Of an interface also what its bases have, its own first, by which.      *)
CollectProperties ==
  LET collected[t \in Types] ==
        FoldLeft(LAMBDA found, p :
                   IF \E i \in 1 .. Len(found) : found[i].name = p.name
                   THEN found ELSE Append(found, p),
                 <<>>,
                 Structure[t].properties
                   \o FlattenSeq([i \in 1 .. Len(Structure[t].bases) |->
                                    collected[Structure[t].bases[i]]]))
  IN  collected

CollectSignatures ==
  LET collected[t \in Types, which \in {"call", "construct"}] ==
        Structure[t].signatures[which]
          \o FlattenSeq([i \in 1 .. Len(Structure[t].bases) |->
                           collected[Structure[t].bases[i], which]])
  IN  collected

FindIndexInfo ==
  LET found[t \in Types, which \in {"number", "string"}] ==
        FoldLeft(LAMBDA f, base : IF f = NoType THEN found[base, which] ELSE f,
                 Structure[t].index[which], Structure[t].bases)
  IN  found

(* ObjectType::GetProperty and InterfaceType::GetProperty, as a sequence   *)
(* that is empty if there is none.                                         *)
GetProperty(t, name) ==
  SelectSeq(CollectProperties[t], LAMBDA p : p.name = name)

(* GetTypeFacts() == EMPTY_OBJECT_FACTS, which looks at the bases of an    *)
(* interface but not at theirs.                                            *)
IsEmptyObject(t) ==
  \A u \in {t} \cup ToSet(Structure[t].bases) :
    /\ Structure[u].properties = <<>>
    /\ \A w \in {"call", "construct"} : Structure[u].signatures[w] = <<>>
    /\ \A w \in {"number", "string"} : Structure[u].index[w] = NoType

(* The one type of a kind that GlobalTypesHolder makes.                    *)
Global(kind) == CHOOSE t \in Types : Kind(t) = kind

(* The literals that are assignable to a primitive type.                   *)
LiteralOf == [number |-> "numberLiteral", boolean |-> "booleanLiteral"]

(* Of a type that is no union.                                            *)
GetBaseTypeOfLiteralType(t) ==
  IF Kind(t) = "numberLiteral" THEN Global("number")
  ELSE IF Kind(t) = "booleanLiteral" THEN Global("boolean") ELSE t

-----------------------------------------------------------------------------
(* The state of a relation is a record of the variables that a question    *)
(* changes.  A test is [holds, rel]: a truth value and the relation after  *)
(* it.                                                                     *)

Relation == [result  |-> result,  cached |-> cached, checked |-> checked,
             excused |-> excused, everChecked |-> everChecked]

Result(rel, holds) ==
  [rel EXCEPT !.result = IF holds THEN "true" ELSE "false"]

IsTrue(rel) == [holds |-> rel.result = "true", rel |-> rel]

(* Loops that end with the first test that fails or that holds.            *)
AllOf(Test(_, _), list, rel) ==
  FoldLeft(LAMBDA a, x : IF a.holds THEN Test(x, a.rel) ELSE a,
           [holds |-> TRUE, rel |-> rel], list)

AnyOf(Test(_, _), list, rel) ==
  FoldLeft(LAMBDA a, x : IF a.holds THEN a ELSE Test(x, a.rel),
           [holds |-> FALSE, rel |-> rel], list)

Fails(rel) == [holds |-> FALSE, rel |-> Result(rel, FALSE)]

(* A test that fails also if a condition does not hold afterwards.         *)
Also(test, condition) ==
  IF test.holds /\ ~condition THEN Fails(test.rel) ELSE test

(* Mutant of CacheLookup: the two types of a question in any order.        *)
UnorderedLookup(kind, source, target, rel) ==
  IF rel.result = "miss" THEN "miss"
  ELSE IF <<source, target>> \in DOMAIN rel.cached[kind]
  THEN rel.cached[kind][<<source, target>>]
  ELSE IF <<target, source>> \in DOMAIN rel.cached[kind]
  THEN rel.cached[kind][<<target, source>>] ELSE "miss"

CacheLookup(kind, source, target, rel) ==
  IF rel.result = "miss" \/ <<source, target>> \notin DOMAIN rel.cached[kind]
  THEN "miss"
  ELSE rel.cached[kind][<<source, target>>]

(* std::unordered_map::insert keeps an entry that is there.                *)
Insert(kind, source, target, rel) ==
  LET key == <<source, target>> IN
  IF key \in DOMAIN rel.cached[kind] THEN rel
  ELSE [rel EXCEPT !.cached[kind] =
          [k \in DOMAIN @ \cup {key} |->
             IF k = key THEN rel.result ELSE @[k]]]

-----------------------------------------------------------------------------
(* Identity.                                                               *)

RECURSIVE IsIdenticalTo(_, _, _)

TestIdentical(pair, rel) == IsTrue(IsIdenticalTo(pair[1], pair[2], rel))

(* Signature::Identical                                                    *)
SignatureIdentical(this, other, rel) ==
  IF this.min # other.min \/ Len(this.parameters) # Len(other.parameters)
  THEN Result(rel, FALSE)
  ELSE AllOf(TestIdentical,
             <<<<this.returns, other.returns>>>>
               \o Zip(this.parameters, other.parameters), rel).rel

(* IsIdenticalTo of signatures: the same one, or target->Identical.        *)
SignaturesIdentical(source, target, rel) ==
  IF source = target THEN Result(rel, TRUE)
  ELSE SignatureIdentical(target, source, Result(rel, FALSE))

(* The test of a signature against those that are left; one that is        *)
(* identical is taken out.                                                 *)
SignatureRelatedToSomeSignature(source, related) ==
  LET Try(a, i) ==
        IF a.holds THEN a
        ELSE LET t == IsTrue(SignaturesIdentical(source, related.left[i],
                                                 a.rel))
             IN  [holds |-> t.holds, rel |-> t.rel,
                  left |-> IF t.holds THEN RemoveAt(related.left, i)
                                      ELSE related.left]
  IN  FoldLeft(Try, [related EXCEPT !.holds = FALSE],
               [i \in 1 .. Len(related.left) |-> i])

EachSignatureRelatedToSomeSignature(lists, rel) ==
  LET related == FoldLeft(LAMBDA a, s :
                            IF a.holds
                            THEN SignatureRelatedToSomeSignature(s, a)
                            ELSE a,
                          [holds |-> TRUE, rel |-> rel, left |-> lists[2]],
                          lists[1])
  IN  [holds |-> related.holds, rel |-> related.rel]

Parts == <<"properties", "call", "construct", "number", "string">>

(* What is compared of two objects before their types are.                 *)
SameShape(part, this, other) ==
  CASE part = "properties" ->
         Len(CollectProperties[this]) = Len(CollectProperties[other])
    [] part \in {"call", "construct"} ->
         Len(CollectSignatures[this, part])
           = Len(CollectSignatures[other, part])
    [] part \in {"number", "string"} ->
         (FindIndexInfo[this, part] = NoType)
           <=> (FindIndexInfo[other, part] = NoType)

(* The optional flag of a property of an interface is not compared.        *)
SameProperty(this, p, other, rel) ==
  LET found == GetProperty(other, p.name) IN
  IF found = <<>> THEN Fails(rel)
  ELSE Also(TestIdentical(<<p.type, found[1].type>>, rel),
            Kind(this) = "interface" \/ p.optional = found[1].optional)

SamePart(part, this, other, rel) ==
  CASE part = "properties" ->
         AllOf(LAMBDA p, r : SameProperty(this, p, other, r),
               CollectProperties[this], rel)
    [] part \in {"call", "construct"} ->
         AllOf(EachSignatureRelatedToSomeSignature,
               LET mine   == CollectSignatures[this, part]
                   theirs == CollectSignatures[other, part]
               IN  <<<<mine, theirs>>, <<theirs, mine>>>>, rel)
    [] part \in {"number", "string"} ->
         IF FindIndexInfo[this, part] # NoType
         THEN TestIdentical(<<FindIndexInfo[other, part],
                              FindIndexInfo[this, part]>>,
                            Result(rel, FALSE))
         ELSE IF Kind(this) = "interface" THEN IsTrue(Result(rel, TRUE))
         ELSE [holds |-> TRUE, rel |-> rel]

(* ObjectType::Identical: the result is not set by objects without parts.  *)
ObjectIdentical(this, other, rel) ==
  IF \A i \in 1 .. Len(Parts) : SameShape(Parts[i], this, other)
  THEN AllOf(LAMBDA part, r : SamePart(part, this, other, r), Parts, rel).rel
  ELSE Result(rel, FALSE)

InterfaceIdentical(this, other, rel) ==
  AllOf(LAMBDA part, r : IF SameShape(part, this, other)
                         THEN SamePart(part, this, other, r) ELSE Fails(r),
        Parts, rel).rel

TupleIdentical(this, other, rel) ==
  LET Test(pair, r) ==
        IF pair[1].optional # pair[2].optional THEN Fails(r)
        ELSE TestIdentical(<<pair[1].type, pair[2].type>>, r)
      End(test) == IF test.holds THEN Result(test.rel, TRUE) ELSE test.rel
      mine   == Structure[this].properties
      theirs == Structure[other].properties
  IN  IF Len(mine) # Len(theirs) THEN rel
      ELSE End(AllOf(Test, Zip(mine, theirs), rel))

(* EachTypeRelatedToSomeType, in both directions.                          *)
UnionIdentical(this, other, rel) ==
  LET Related(unions, r) ==
        AllOf(LAMBDA s, r1 : AnyOf(LAMBDA t, r2 : TestIdentical(<<s, t>>, r2),
                                   Structure[unions[2]].of, r1),
              Structure[unions[1]].of, r)
      End(test) == Result(test.rel, test.holds)
  IN  End(AllOf(Related, <<<<this, other>>, <<other, this>>>>, rel))

(* target->Identical(this, source), for a result that is false.  A boolean *)
(* literal looks at the value of the other one only.                       *)
Identical(this, other, rel) ==
  LET kind == Kind(this) IN
  IF Kind(other) # kind THEN rel
  ELSE CASE kind = "union"     -> UnionIdentical(this, other, rel)
         [] kind = "tuple"     -> TupleIdentical(this, other, rel)
         [] kind = "interface" -> InterfaceIdentical(this, other, rel)
         [] kind \in {"literal", "function"} ->
              ObjectIdentical(this, other, rel)
         [] kind = "array" ->
              IsIdenticalTo(Structure[this].element,
                            Structure[other].element, rel)
         [] kind = "numberLiteral" ->
              Result(rel, Structure[this].value = Structure[other].value)
         [] kind = "booleanLiteral" -> Result(rel, Structure[other].value)
         [] OTHER -> Result(rel, TRUE)

(* What a lookup has found, or else what is then done.                     *)
OrElse(rel, Then(_)) == IF rel.result = "miss" THEN Then(rel) ELSE rel

Looked(kind, source, target, rel) ==
  [rel EXCEPT !.result = CacheLookup(kind, source, target, rel)]

(* Mutant of IsIdenticalTo: result_ is not reset before the comparison.    *)
NoReset(source, target, rel) ==
  IF source = target THEN Result(rel, TRUE)
  ELSE OrElse(Looked("identical", source, target, rel),
              LAMBDA missed : Insert("identical", source, target,
                                     Identical(target, source, missed)))

IsIdenticalTo(source, target, rel) ==
  IF source = target THEN Result(rel, TRUE)
  ELSE OrElse(Looked("identical", source, target, rel),
              LAMBDA missed : Insert("identical", source, target,
                Identical(target, source, Result(missed, FALSE))))

-----------------------------------------------------------------------------
(* Assignability and comparability.                                        *)

RECURSIVE IsAssignableTo(_, _, _)

TestAssignable(pair, rel) == IsTrue(IsAssignableTo(pair[1], pair[2], rel))

(* A property of the source whose type has RELATION_CHECKED is not asked   *)
(* about; the flag is removed from the type.                               *)
AssignProperty(this, p, source, rel) ==
  LET found    == GetProperty(source, p.name)
      info     == FindIndexInfo[this, "string"]
      required == this \notin rel.excused /\ ~p.optional
  IN  IF found # <<>>
      THEN IF found[1].type \in rel.checked
           THEN [holds |-> TRUE,
                 rel   |-> [rel EXCEPT !.checked = @ \ {found[1].type}]]
           ELSE Also(TestAssignable(<<found[1].type, p.type>>, rel),
                     ~(required /\ found[1].optional))
      ELSE Also(IF info = NoType THEN [holds |-> TRUE, rel |-> rel]
                ELSE TestAssignable(<<info, p.type>>, rel),
                ~required)

(* Signature::AssignmentTarget                                             *)
AssignSignature(this, source, rel) ==
  IF source.min > Len(this.parameters) THEN Fails(rel)
  ELSE AllOf(TestAssignable,
             Zip(source.parameters, this.parameters)
               \o <<<<source.returns, this.returns>>>>, rel)

AssignSignatures(this, which, source, rel) ==
  LET Found(target, r) ==
        AnyOf(LAMBDA s, r1 : AssignSignature(target, s, r1),
              CollectSignatures[source, which], r)
      End(test) == IF test.holds THEN test ELSE Fails(test.rel)
  IN  AllOf(LAMBDA target, r : End(Found(target, r)),
            CollectSignatures[this, which], rel)

AssignIndexInfo(this, which, source, rel) ==
  LET target == FindIndexInfo[this, which]
      info   == FindIndexInfo[source, which]
  IN  IF NoType \in {target, info} THEN [holds |-> TRUE, rel |-> rel]
      ELSE TestAssignable(<<info, target>>, rel)

AssignPart(part, this, source, rel) ==
  CASE part = "properties" ->
         AllOf(LAMBDA p, r : AssignProperty(this, p, source, r),
               CollectProperties[this], rel)
    [] part \in {"call", "construct"} ->
         AssignSignatures(this, part, source, rel)
    [] part \in {"number", "string"} ->
         AssignIndexInfo(this, part, source, rel)

(* ObjectType::AssignmentTarget                                            *)
ObjectAssign(this, source, rel) ==
  IF ~IsObject(source) THEN Result(rel, FALSE)
  ELSE AllOf(LAMBDA part, r : AssignPart(part, this, source, r),
             Parts, Result(rel, TRUE)).rel

TupleAssign(this, source, rel) ==
  LET mine   == Structure[this].properties
      theirs == Structure[source].properties
      Test(i, r) ==
        IF i > Len(theirs) \/ (~mine[i].optional /\ theirs[i].optional)
        THEN IF mine[i].optional THEN [holds |-> TRUE, rel |-> r]
                                 ELSE Fails(r)
        ELSE TestAssignable(<<theirs[i].type, mine[i].type>>, r)
      Indexed(test) ==
        IF test.holds THEN AssignIndexInfo(this, "number", source, test.rel)
                      ELSE test
  IN  IF \/ Kind(source) # "tuple"
         \/ Len(mine) < Cardinality({i \in 1 .. Len(theirs) :
                                       ~theirs[i].optional})
      THEN Result(rel, FALSE)
      ELSE Indexed(AllOf(Test, [i \in 1 .. Len(mine) |-> i],
                         Result(rel, TRUE))).rel

ArrayAssign(this, source, rel) ==
  LET element == Structure[this].element
      End(test) == IF test.holds THEN Result(test.rel, TRUE) ELSE test.rel
  IN  CASE Kind(source) = "array" ->
             IsAssignableTo(Structure[source].element, element, rel)
        [] Kind(source) = "tuple" ->
             End(AllOf(LAMBDA p, r : TestAssignable(<<p.type, element>>, r),
                       Structure[source].properties, rel))
        [] OTHER -> rel

(* target->AssignmentTarget(this, source), for a result that is false.     *)
AssignmentTarget(this, source, rel) ==
  LET kind == Kind(this) IN
  CASE kind = "any" -> Result(rel, TRUE)
    [] kind \in DOMAIN LiteralOf ->
         Result(rel, Kind(source) = LiteralOf[kind])
    [] kind = "union" ->
         AnyOf(LAMBDA t, r : TestAssignable(<<source, t>>, r),
               Structure[this].of, rel).rel
    [] kind = "array" -> ArrayAssign(this, source, rel)
    [] kind = "tuple" -> TupleAssign(this, source, rel)
    [] kind \in {"literal", "function", "interface"} ->
         ObjectAssign(this, source, rel)
    [] OTHER -> rel

(* source->AssignmentSource(this, target), a test.                         *)
AssignmentSource(this, target, rel) ==
  LET End(test) ==
        IF test.holds THEN IsTrue(Result(test.rel, TRUE)) ELSE test
  IN  CASE Kind(this) = "any" \/ Nullable(this) -> IsTrue(Result(rel, TRUE))
        [] Kind(this) = "union" ->
             End(AllOf(LAMBDA s, r : TestAssignable(<<s, target>>, r),
                       Structure[this].of, rel))
        [] OTHER -> [holds |-> FALSE, rel |-> rel]

(* Mutant of AssignableAfterIdentity: the answer is not kept.              *)
AnswerNotKept(source, target, identity) ==
  LET Try(test) == IF test.holds THEN test.rel
                   ELSE AssignmentTarget(target, source, test.rel)
  IN  IF identity.holds THEN identity.rel
      ELSE Try(AssignmentSource(source, target, Result(identity.rel, FALSE)))

AssignableAfterIdentity(source, target, identity) ==
  LET Try(test) == IF test.holds THEN test.rel
                   ELSE AssignmentTarget(target, source, test.rel)
  IN  IF identity.holds THEN identity.rel
      ELSE Insert("assignable", source, target,
                  Try(AssignmentSource(source, target,
                                       Result(identity.rel, FALSE))))

IsAssignableTo(source, target, rel) ==
  OrElse(Looked("assignable", source, target, rel),
         LAMBDA missed : AssignableAfterIdentity(source, target,
                           TestIdentical(<<source, target>>, missed)))

(* No type of the checker has a Compare of its own, and that of Type does  *)
(* nothing.                                                                *)
IsComparableTo(source, target, rel) ==
  LET End(test) == IF test.holds THEN test.rel
                   ELSE Insert("comparable", source, target,
                               Result(test.rel, FALSE))
  IN  OrElse(Looked("comparable", source, target, rel),
             LAMBDA missed : End(TestAssignable(<<source, target>>, missed)))

-----------------------------------------------------------------------------
(* Statements.                                                             *)

Init ==
  /\ result = "false" /\ failed = FALSE /\ statements = 0
  /\ cached = [kind \in {"identical", "assignable", "comparable"} |-> <<>>]
  /\ checked = {} /\ everChecked = {} /\ excused = {}

(* A statement is checked; a test that fails throws, which ends the        *)
(* program.                                                                *)
Checked(test) ==
  /\ ~failed /\ statements < MaxStatements
  /\ result' = test.rel.result /\ cached' = test.rel.cached
  /\ checked' = test.rel.checked /\ excused' = test.rel.excused
  /\ everChecked' = test.rel.everChecked
  /\ failed' = ~test.holds
  /\ statements' = statements + 1

(* A variable of type t is initialized or assigned, by an expression of    *)
(* type s that is no object or array literal.                              *)
Assign(s, t) == Checked(TestAssignable(<<s, t>>, Relation))

(* A variable of type s is declared again with type t.                     *)
Redeclare(s, t) == Checked(TestIdentical(<<s, t>>, Relation))

(* Values of types l and r are compared by ==.                             *)
Equal(l, r) ==
  Checked(AnyOf(LAMBDA pair, rel :
                  IF Nullable(pair[2]) THEN [holds |-> TRUE, rel |-> rel]
                  ELSE IsTrue(IsComparableTo(pair[1], pair[2], rel)),
                <<<<l, r>>, <<r, l>>>>, Relation))

(* They are added, where neither is null or undefined.                     *)
Plus(l, r) ==
  /\ ~Nullable(l) /\ ~Nullable(r)
  /\ LET Both(kind)   == <<<<l, Global(kind)>>, <<r, Global(kind)>>>>
         test == AnyOf(LAMBDA pairs, rel : AllOf(TestAssignable, pairs, rel),
                       <<Both("number"), Both("bigint")>>
                         \o [i \in 1 .. 2 |-> <<Both("string")[i]>>],
                       Relation)
     IN  Checked([test EXCEPT !.holds = @ \/ "any" \in {Kind(l), Kind(r)}])

(* An expression of type s as t.  Of a union a new type would be made.     *)
As(s, t) ==
  LET base == GetBaseTypeOfLiteralType(s) IN
  Kind(s) # "union" /\ Checked(IsTrue(IsComparableTo(t, base,
            [Relation EXCEPT !.excused =
               IF Kind(base) = "literal" THEN @ \cup {base} ELSE @])))

(* An object literal is elaborated for the properties of t.                *)
ElaborateProperty(t, p, rel) ==
  LET found  == GetProperty(t, p.name)
      target == IF found # <<>> THEN found[1].type
                ELSE FindIndexInfo[t, "string"]
      Mark(test) == IF test.holds
                    THEN [test EXCEPT !.rel.checked = @ \cup {p.type},
                                      !.rel.everChecked = @ \cup {p.type}]
                    ELSE test
  IN  IF target = NoType THEN Fails(rel)
      ELSE Mark(TestAssignable(<<p.type, target>>, rel))

(* What an interface has is counted twice.                                 *)
CheckIfExcessTypeCheckNeeded(literal, t) ==
  LET own == Len(Structure[t].properties) IN
  \/ \E w \in {"call", "construct"} : Structure[t].signatures[w] # <<>>
  \/ Len(Structure[literal].properties)
       < own + (IF Kind(t) = "interface" THEN Len(CollectProperties[t])
                                         ELSE 0)

(* A literal's type is a new one each time, so that no answer about it is  *)
(* found later.                                                            *)
Forget(literal, rel) ==
  [rel EXCEPT !.cached =
     [kind \in DOMAIN @ |->
        [k \in {k \in DOMAIN @[kind] : k[1] # literal} |-> @[kind][k]]]]

Elaborate(literal, t) ==
  LET Excess(test) ==
        IF test.holds /\ CheckIfExcessTypeCheckNeeded(literal, t)
        THEN TestAssignable(<<literal, t>>, test.rel) ELSE test
      End(test) == Checked([test EXCEPT !.rel = Forget(literal, @)])
  IN  /\ Kind(t) \in {"literal", "interface"} /\ ~IsEmptyObject(t)
      /\ End(Excess(AllOf(LAMBDA p, rel : ElaborateProperty(t, p, rel),
                          Structure[literal].properties, Relation)))

Done == (failed \/ statements = MaxStatements) /\ UNCHANGED vars

Next ==
  \/ \E s, t \in Variables : Redeclare(s, t)
  \/ \E s \in Variables \cup Values, t \in Variables :
       Assign(s, t) \/ As(s, t)
  \/ \E l, r \in Variables \cup Values : Equal(l, r) \/ Plus(l, r)
  \/ \E literal \in Literals, t \in Variables : Elaborate(literal, t)
  \/ Done

Spec == Init /\ [][Next]_vars

-----------------------------------------------------------------------------
(* What the answers should be, without caches and a result.                *)

RECURSIVE Same(_, _, _)

(* The types are built alike.  What the code sees otherwise may be allowed *)
(* for: "booleans alike", that two boolean literals are alike, "empties    *)
(* differ", that objects are not if they have no parts.                    *)
Same(s, t, allowed) ==
  LET S == Structure[s]
      T == Structure[t]
      Alike(a, b) == Same(a, b, allowed)
      SameSignatures(a, b) ==
        \E i \in 1 .. Len(b) :
          /\ a.min = b[i].min /\ Len(a.parameters) = Len(b[i].parameters)
          /\ Alike(a.returns, b[i].returns)
          /\ \A j \in 1 .. Len(a.parameters) :
               Alike(a.parameters[j], b[i].parameters[j])
      SameSets(a, b) ==
        /\ Len(a) = Len(b)
        /\ \A i \in 1 .. Len(a) : SameSignatures(a[i], b)
        /\ \A i \in 1 .. Len(b) : SameSignatures(b[i], a)
      Each(a, b) ==
        \A i \in 1 .. Len(a) : \E j \in 1 .. Len(b) : Alike(a[i], b[j])
  IN  s = t \/
      /\ S.kind = T.kind
      /\ CASE S.kind = "union" -> Each(S.of, T.of) /\ Each(T.of, S.of)
           [] S.kind = "array" -> Alike(S.element, T.element)
           [] S.kind = "numberLiteral" -> S.value = T.value
           [] S.kind = "booleanLiteral" ->
                S.value = T.value \/ "booleans alike" \in allowed
           [] S.kind = "tuple" ->
                /\ Len(S.properties) = Len(T.properties)
                /\ \A i \in 1 .. Len(S.properties) :
                     /\ S.properties[i].optional = T.properties[i].optional
                     /\ Alike(S.properties[i].type, T.properties[i].type)
           [] IsObject(s) /\ S.kind # "tuple" ->
                /\ ~("empties differ" \in allowed /\ S.kind # "interface"
                       /\ IsEmptyObject(s))
                /\ Len(CollectProperties[s]) = Len(CollectProperties[t])
                /\ \A p \in ToSet(CollectProperties[s]) :
                     \E q \in ToSet(GetProperty(t, p.name)) :
                       /\ Alike(p.type, q.type)
                       /\ S.kind = "interface" \/ p.optional = q.optional
                /\ \A w \in {"call", "construct"} :
                     SameSets(CollectSignatures[s, w], CollectSignatures[t, w])
                /\ \A w \in {"number", "string"} :
                     LET a == FindIndexInfo[s, w]
                         b == FindIndexInfo[t, w]
                     IN  a = b \/ (NoType \notin {a, b} /\ Alike(a, b))
           [] OTHER -> TRUE

RECURSIVE Meets(_, _, _, _, _)

(* A value of type s has type t.  Properties whose type is in trusted are  *)
(* taken to fit; the objects in lax need not find what they require.       *)
Meets(s, t, trusted, lax, allowed) ==
  LET S == Structure[s]
      T == Structure[t]
      Fits(a, b) == Meets(a, b, trusted, lax, allowed)
      FitsProperty(p) ==
        LET found == ToSet(GetProperty(s, p.name))
            info  == FindIndexInfo[t, "string"]
            must  == t \notin lax /\ ~p.optional
        IN  IF found # {}
            THEN \E q \in found : \/ q.type \in trusted
                                  \/ Fits(q.type, p.type)
                                     /\ (must => ~q.optional)
            ELSE ~must /\ (info # NoType => Fits(info, p.type))
      FitsIndex(w) ==
        NoType \notin {FindIndexInfo[s, w], FindIndexInfo[t, w]}
          => Fits(FindIndexInfo[s, w], FindIndexInfo[t, w])
      FitsSignature(a, b) ==
        /\ a.min <= Len(b.parameters) /\ Fits(a.returns, b.returns)
        /\ \A i \in 1 .. Min({Len(a.parameters), Len(b.parameters)}) :
             Fits(a.parameters[i], b.parameters[i])
  IN  \/ Same(s, t, allowed)
      \/ S.kind = "any" \/ T.kind = "any" \/ Nullable(s)
      \/ T.kind \in DOMAIN LiteralOf /\ S.kind = LiteralOf[T.kind]
      \/ S.kind = "union" /\ \A i \in 1 .. Len(S.of) : Fits(S.of[i], t)
      \/ T.kind = "union" /\ \E i \in 1 .. Len(T.of) : Fits(s, T.of[i])
      \/ T.kind = "array" /\ S.kind = "array" /\ Fits(S.element, T.element)
      \/ /\ T.kind = "array" /\ S.kind = "tuple"
         /\ \A p \in ToSet(S.properties) : Fits(p.type, T.element)
      \/ /\ T.kind = "tuple" /\ S.kind = "tuple"
         /\ \A i \in 1 .. Len(S.properties) :
              i > Len(T.properties) => S.properties[i].optional
         /\ \A i \in 1 .. Len(T.properties) :
              IF i > Len(S.properties) THEN T.properties[i].optional
              ELSE /\ S.properties[i].optional => T.properties[i].optional
                   /\ Fits(S.properties[i].type, T.properties[i].type)
         /\ FitsIndex("number")
      \/ /\ T.kind \in {"literal", "function", "interface"} /\ IsObject(s)
         /\ \A p \in ToSet(CollectProperties[t]) : FitsProperty(p)
         /\ \A w \in {"call", "construct"} :
              \A b \in ToSet(CollectSignatures[t, w]) :
                \E a \in ToSet(CollectSignatures[s, w]) : FitsSignature(a, b)
         /\ FitsIndex("number") /\ FitsIndex("string")

-----------------------------------------------------------------------------
(* Properties.                                                             *)

(* The relation has an answer after every statement, and the caches hold   *)
(* answers only: CACHE_MISS is never stored (TypeRelation::result_).       *)
TypeOK ==
  /\ result \in {"true", "false"}
  /\ DOMAIN cached = {"identical", "assignable", "comparable"}
  /\ \A kind \in DOMAIN cached : \A key \in DOMAIN cached[kind] :
       /\ key \in Types \X Types
       /\ cached[kind][key] \in {"true", "false"}
  /\ checked \subseteq everChecked /\ everChecked \subseteq Types
  /\ excused \subseteq Types
  /\ failed \in BOOLEAN /\ statements \in 0 .. MaxStatements

(* Whatever was asked before, an answer that the caches keep is the one    *)
(* the types ask for, up to what the flags explain: it is not negative if  *)
(* the types fit with every check made, and not affirmative unless they    *)
(* fit when the properties are trusted whose types were ever marked as     *)
(* checked (ObjectType::AssignProperties takes the mark of another         *)
(* statement for its own) and the objects are excused that lost their      *)
(* check to an `as` (the cached answer of before stays).  Two answers are  *)
(* known to be wrong whatever was asked before: `true` is found identical  *)
(* to `false`, because BooleanLiteralType::Identical returns the value of  *)
(* the other literal, and two object types without any part are found not  *)
(* to be identical, because ObjectType::Identical then sets no result.     *)
AnswersFitTypes ==
  /\ \A key \in DOMAIN cached["identical"] :
       IF cached["identical"][key] = "true"
       THEN Same(key[1], key[2], {"booleans alike"})
       ELSE ~Same(key[1], key[2], {"empties differ"})
  /\ \A kind \in {"assignable", "comparable"} :
       \A key \in DOMAIN cached[kind] :
         IF cached[kind][key] = "true"
         THEN Meets(key[1], key[2], everChecked, excused, {"booleans alike"})
         ELSE ~Meets(key[1], key[2], {}, {}, {})

(* The three relations stay nested while each keeps its own answers:       *)
(* identical types are never found unassignable, types that are not        *)
(* comparable are not assignable, and a type is found not to be assignable *)
(* only after it was found not to be identical (IsComparableTo asks        *)
(* IsAssignableTo, which asks IsIdenticalTo).                              *)
RelationsNested ==
  LET Refused(kind) ==
        {key \in DOMAIN cached[kind] : cached[kind][key] = "false"}
  IN  /\ Refused("assignable") \subseteq Refused("identical")
      /\ everChecked = {} /\ excused = {} =>
           Refused("comparable") \subseteq Refused("assignable")

=============================================================================
