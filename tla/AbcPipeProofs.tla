--------------------------- MODULE AbcPipeProofs ----------------------------
(***************************************************************************)
(* Proofs about AbcPipe, for every number of files, functions and literal  *)
(* arrays, all texts over the characters that matter and every size of a   *)
(* read.                                                                   *)
(*                                                                         *)
(*  - Unescape(Escape(text)) = text (UnescapeEscape).                      *)
(*  - A stream is what its child has received followed by what it awaits   *)
(*    (StreamInv): between two objects or within one, what it has not read *)
(*    is the encoding of the rest, and HandleBuffer keeps that so with     *)
(*    every character, by induction over what one read returns             *)
(*    (ConsumeStep, ReadDelivers).  Hence PrefixReceived.                  *)
(*  - What the parent has written at each of its steps (PhaseInv), what a  *)
(*    complete stream holds (WholeInv) and what a child that has emitted   *)
(*    has got (EmittedInv).  Hence IndicesInvariant.                       *)
(*  - With both, every step is a step of FrameChannel (PipesAreChannels).  *)
(***************************************************************************)
EXTENDS AbcPipe, InductionLemmas, FiniteSetTheorems

-----------------------------------------------------------------------------
(* The characters of the stream, and what is written for an object.        *)

Chars == Kinds \cup {"$", "#", "x", "}", "\n"}

Plain(o) == <<o.kind>> \o o.text \o <<"}">>
Frame(o) == Escape(Plain(o))
Ending   == <<"$", "\n">>

Block(c) == IF c = "$" THEN <<"#", "$">> ELSE <<c>>
Blocks   == [c \in Chars |-> Block(c)]

Encoded   == [o \in Objects |-> Encode(o)]
EncodeAll(os) == Mapped(Encoded, os)

(* A sequence of one element.                                              *)
LEMMA OneElement ==
  ASSUME NEW S, NEW e \in S
  PROVE  <<e>> \in Seq(S) /\ Len(<<e>>) = 1 /\ <<e>>[1] = e
OBVIOUS

(* An object is a kind and a text, all of whose characters are known.      *)
LEMMA PlainTyped ==
  ASSUME NEW o \in Objects
  PROVE  /\ o.kind \in Kinds /\ o.text \in Seq(Chars)
         /\ <<o.kind>> \in Seq(Chars) /\ <<"}">> \in Seq(Chars)
         /\ <<o.kind>> \o o.text \in Seq(Chars)
         /\ Plain(o) \in Seq(Chars)
<1>1. o.kind \in Kinds /\ o.text \in Texts \cup {<<>>}
  BY DEF Objects
<1>2. o.kind \in Chars /\ "}" \in Chars
  BY <1>1 DEF Chars
<1>3. {"$", "#", "x"} \subseteq Chars
  BY DEF Chars
<1> HIDE DEF Chars
<1>4. o.text \in Seq(Chars)
  <2>1. CASE o.text = <<>>
    BY <2>1, EmptySeq
  <2>2. CASE o.text \in Texts
    <3>1. o.text \in Seq({"$", "#", "x"})
      BY <2>2, PipeAssumption
    <3> QED
      BY <1>3, <3>1, SeqMonotonic
  <2> QED
    BY <1>1, <2>1, <2>2
<1>5. <<o.kind>> \in Seq(Chars) /\ <<"}">> \in Seq(Chars)
  BY <1>2, OneElement
<1>6. <<o.kind>> \o o.text \in Seq(Chars)
  BY <1>4, <1>5, ConcatProperties
<1>7. (<<o.kind>> \o o.text) \o <<"}">> \in Seq(Chars)
  BY <1>5, <1>6, ConcatProperties
<1> QED
  BY <1>1, <1>4, <1>5, <1>6, <1>7 DEF Plain

(* A block of the escaped text.                                            *)
LEMMA BlockTyped ==
  ASSUME NEW c \in Chars
  PROVE  /\ Block(c) \in Seq(Chars) /\ Block(c) # <<>> /\ Block(c)[1] # "$"
         /\ Blocks[c] = Block(c)
         /\ Last(Block(c)) = c
<1>1. "#" \in Chars /\ "$" \in Chars
  BY DEF Chars
<1>2. Blocks[c] = Block(c)
  BY DEF Blocks
<1> HIDE DEF Chars
<1>3. CASE c = "$"
  <2>1. Block(c) = <<"#", "$">>
    BY <1>3 DEF Block
  <2>2. <<"#", "$">> \in Seq(Chars)
    BY <1>1
  <2>3. /\ <<"#", "$">> # <<>> /\ <<"#", "$">>[1] = "#" /\ <<"#", "$">>[1] # "$"
        /\ Last(<<"#", "$">>) = "$"
    BY DEF Last
  <2> QED
    BY <1>2, <1>3, <2>1, <2>2, <2>3
<1>4. CASE c # "$"
  <2>1. Block(c) = <<c>>
    BY <1>4 DEF Block
  <2> QED
    BY <1>2, <1>4, <2>1 DEF Last
<1> QED
  BY <1>3, <1>4

(* Escaping a text, character by character.                                *)
LEMMA EscapeBlocks ==
  /\ Blocks \in [Chars -> Seq(Chars)]
  /\ \A t \in Seq(Chars) : Escape(t) = Mapped(Blocks, t) /\ Escape(t) \in Seq(Chars)
  /\ Escape(<<>>) = <<>>
  /\ \A t \in Seq(Chars), c \in Chars : Escape(Append(t, c)) = Escape(t) \o Block(c)
<1>1. Blocks \in [Chars -> Seq(Chars)]
  <2>1. \A c \in Chars : Block(c) \in Seq(Chars)
    BY BlockTyped
  <2> HIDE DEF Chars
  <2> QED
    BY <2>1 DEF Blocks
<1> HIDE DEF Chars
<1>2. \A t \in Seq(Chars) : Escape(t) = Mapped(Blocks, t)
  <2> SUFFICES ASSUME NEW t \in Seq(Chars)
               PROVE  Escape(t) = Mapped(Blocks, t)
    OBVIOUS
  <2>1. \A i \in 1 .. Len(t) : t[i] \in Chars
    BY ElementOfSeq
  <2>2. \A i \in 1 .. Len(t) : Blocks[t[i]] = IF t[i] = "$" THEN <<"#", "$">> ELSE <<t[i]>>
    BY <2>1, BlockTyped DEF Block
  <2>3. [i \in 1 .. Len(t) |-> Blocks[t[i]]]
        = [i \in 1 .. Len(t) |-> IF t[i] = "$" THEN <<"#", "$">> ELSE <<t[i]>>]
    BY <2>2
  <2> QED
    BY <2>3 DEF Escape, Mapped
<1>3. <<>> \in Seq(Chars)
  BY EmptySeq
<1>6. ASSUME NEW a \in Seq(Chars), NEW b \in Seq(Chars)
      PROVE  Mapped(Blocks, a \o b) = Mapped(Blocks, a) \o Mapped(Blocks, b)
  <2>1. BlocksOf(Blocks, Chars, Chars)
    BY <1>1 DEF BlocksOf
  <2> QED
    BY <2>1, MappedTwo
<1>4. \A t \in Seq(Chars), c \in Chars : Escape(Append(t, c)) = Escape(t) \o Block(c)
  <2> SUFFICES ASSUME NEW t \in Seq(Chars), NEW c \in Chars
               PROVE  Escape(Append(t, c)) = Escape(t) \o Block(c)
    OBVIOUS
  <2> DEFINE one == <<c>>
  <2>1. Append(t, c) = t \o one /\ one \in Seq(Chars) /\ Append(t, c) \in Seq(Chars)
    BY AppendIsConcat, AppendProperties, OneElement
  <2>5. \A e \in Chars : Mapped(Blocks, <<e>>) = Blocks[e]
    BY <1>1, MappedConcat
  <2>3. Mapped(Blocks, one) = Block(c)
    BY <2>5, BlockTyped
  <2> HIDE DEF one
  <2>2. Mapped(Blocks, t \o one) = Mapped(Blocks, t) \o Mapped(Blocks, one)
    BY <1>6, <2>1
  <2> QED
    BY <1>2, <2>1, <2>2, <2>3
<1>5. /\ Mapped(Blocks, <<>>) = <<>>
      /\ \A t \in Seq(Chars) : Mapped(Blocks, t) \in Seq(Chars)
  BY <1>1, MappedConcat
<1> QED
  BY <1>1, <1>2, <1>3, <1>4, <1>5

(* What the reader makes of two pieces, unless they are cut between a "#"  *)
(* and its "$".                                                            *)
Kept(s) == [i \in 1 .. Len(s) |->
  IF i < Len(s) /\ s[i] = "#" /\ s[i + 1] = "$" THEN <<>> ELSE <<s[i]>>]

(* What is kept of a character is a sequence of characters.                *)
LEMMA KeptTyped ==
  ASSUME NEW s \in Seq(Chars)
  PROVE  /\ Kept(s) \in Seq(Seq(Chars)) /\ Len(Kept(s)) = Len(s) /\ Len(s) \in Nat
         /\ \A i \in 1 .. Len(s) : Kept(s)[i] =
              IF i < Len(s) /\ s[i] = "#" /\ s[i + 1] = "$" THEN <<>> ELSE <<s[i]>>
<1>1. Len(s) \in Nat /\ \A i \in 1 .. Len(s) : s[i] \in Chars
  BY ElementOfSeq, LenProperties
<1> HIDE DEF Chars
<1>2. \A i \in 1 .. Len(s) : <<s[i]>> \in Seq(Chars) /\ <<>> \in Seq(Chars)
  BY <1>1
<1> QED
  BY <1>1, <1>2 DEF Kept

(* Two texts are unescaped one by one, unless an escape is cut between     *)
(* them.                                                                   *)
LEMMA UnescapeConcat ==
  ASSUME NEW s \in Seq(Chars), NEW t \in Seq(Chars), t # <<>>, t[1] # "$"
  PROVE  /\ Unescape(s \o t) = Unescape(s) \o Unescape(t)
         /\ Unescape(s) \in Seq(Chars)
<1> USE DEF Chars
<1> HIDE DEF Chars
<1>1. /\ s \o t \in Seq(Chars) /\ Len(s \o t) = Len(s) + Len(t)
      /\ \A i \in 1 .. Len(s) + Len(t) :
           (s \o t)[i] = IF i <= Len(s) THEN s[i] ELSE t[i - Len(s)]
  BY ConcatProperties
<1>2. Len(t) >= 1 /\ Len(t) \in Nat /\ Len(s) \in Nat
  BY EmptySeq, LenProperties
<1> DEFINE p == Kept(s)
           q == Kept(t)
           r == Kept(s \o t)
<1>3. /\ p \in Seq(Seq(Chars)) /\ Len(p) = Len(s)
      /\ q \in Seq(Seq(Chars)) /\ Len(q) = Len(t)
      /\ r \in Seq(Seq(Chars)) /\ Len(r) = Len(s) + Len(t)
  BY <1>1, KeptTyped
<1>4. /\ p \o q \in Seq(Seq(Chars)) /\ Len(p \o q) = Len(p) + Len(q)
      /\ \A i \in 1 .. Len(p) + Len(q) : (p \o q)[i] = IF i <= Len(p) THEN p[i] ELSE q[i - Len(p)]
  <2>1. p \in Seq(Seq(Chars)) /\ q \in Seq(Seq(Chars))
    BY <1>3
  <2> HIDE DEF p, q
  <2> QED
    BY <2>1, ConcatProperties
<1>5. ASSUME NEW i \in 1 .. Len(s) + Len(t)
      PROVE  r[i] = (p \o q)[i]
  <2>1. r[i] = IF i < Len(s) + Len(t) /\ (s \o t)[i] = "#" /\ (s \o t)[i + 1] = "$"
               THEN <<>> ELSE <<(s \o t)[i]>>
    BY <1>1, KeptTyped
  <2>2. CASE i < Len(s)
    <3>1. (s \o t)[i] = s[i] /\ (s \o t)[i + 1] = s[i + 1]
      BY <1>1, <1>2, <2>2
    <3>2. i \in 1 .. Len(s) /\ i < Len(s) + Len(t) /\ i <= Len(p)
      BY <1>2, <1>3, <2>2, SMTT(60)
    <3>3. p[i] = IF i < Len(s) /\ s[i] = "#" /\ s[i + 1] = "$" THEN <<>> ELSE <<s[i]>>
      BY <3>2, KeptTyped
    <3>4. (p \o q)[i] = p[i]
      BY <1>3, <1>4, <3>2
    <3> QED
      BY <2>1, <2>2, <3>1, <3>2, <3>3, <3>4
  <2>3. CASE i = Len(s)
    <3>1. (s \o t)[i] = s[i] /\ (s \o t)[i + 1] = t[1]
      BY <1>1, <1>2, <2>3
    <3>2. i \in 1 .. Len(s) /\ i <= Len(p)
      BY <1>2, <1>3, <2>3
    <3>5. p[i] = IF i < Len(s) /\ s[i] = "#" /\ s[i + 1] = "$" THEN <<>> ELSE <<s[i]>>
      BY <3>2, KeptTyped
    <3>6. ~(i < Len(s))
      BY <1>2, <2>3
    <3>3. p[i] = <<s[i]>>
      BY <3>5, <3>6
    <3>4. (p \o q)[i] = p[i]
      BY <1>3, <1>4, <3>2
    <3> QED
      BY <2>1, <3>1, <3>3, <3>4
  <2>4. CASE i > Len(s)
    <3> DEFINE j == i - Len(s)
    <3>1. j \in 1 .. Len(t) /\ ~(i <= Len(s)) /\ (j < Len(t) <=> i < Len(s) + Len(t))
      BY <1>2, <2>4
    <3>2. (s \o t)[i] = t[j]
      BY <1>1, <3>1
    <3>3. j < Len(t) => (s \o t)[i + 1] = t[j + 1]
      BY <1>1, <1>2, <2>4, <3>1
    <3>4. q[j] = IF j < Len(t) /\ t[j] = "#" /\ t[j + 1] = "$" THEN <<>> ELSE <<t[j]>>
      BY <3>1, KeptTyped
    <3>5. (p \o q)[i] = q[j]
      BY <1>2, <1>3, <1>4, <3>1
    <3> QED
      BY <2>1, <3>1, <3>2, <3>3, <3>4, <3>5
  <2>5. i < Len(s) \/ i = Len(s) \/ i > Len(s)
    BY <1>2
  <2> QED
    BY <2>2, <2>3, <2>4, <2>5
<1>6. Unescape(s) = FlattenSeq(p) /\ Unescape(t) = FlattenSeq(q) /\ Unescape(s \o t) = FlattenSeq(r)
  BY DEF Unescape, Kept
<1> HIDE DEF p, q, r
<1>7. r = p \o q
  <2>1. Len(r) = Len(p \o q) /\ \A i \in 1 .. Len(r) : r[i] = (p \o q)[i]
    BY <1>3, <1>4, <1>5
  <2> QED
    BY <1>3, <1>4, <2>1, SeqEqual
<1> QED
  BY <1>3, <1>6, <1>7, FlattenConcat

(* The reader gets back one character from the block of one.               *)
LEMMA UnescapeBlock ==
  ASSUME NEW c \in Chars
  PROVE  Unescape(Block(c)) = <<c>>
<1>1. "$" \in Chars
  BY DEF Chars
<1> HIDE DEF Chars
<1>2. CASE c = "$"
  <2>1. Kept(<<"#", "$">>) = << <<>>, <<"$">> >>
    BY DEF Kept
  <2>2. << <<>>, <<"$">> >> = Append(Append(<<>>, <<>>), <<"$">>)
    OBVIOUS
  <2>3. /\ <<>> \in Seq(Seq(Chars)) /\ <<>> \in Seq(Chars) /\ <<"$">> \in Seq(Chars)
        /\ Append(<<>>, <<>>) \in Seq(Seq(Chars))
    BY <1>1
  <2> DEFINE e == <<"$">>
             d == <<>>
             z == Append(<<>>, d)
  <2>4. e \in Seq(Chars) /\ d \in Seq(Chars) /\ z \in Seq(Seq(Chars)) /\ z = Append(<<>>, d)
        /\ <<>> \in Seq(Seq(Chars))
    BY <2>3
  <2> HIDE DEF d, e, z
  <2>5. FlattenSeq(z) = <<>> \o d
    BY <2>4, FlattenAppend, FlattenEmpty
  <2>6. FlattenSeq(Append(z, e)) = FlattenSeq(z) \o e
    BY <2>4, FlattenAppend
  <2>7. (<<>> \o d) \o e = <<"$">>
    BY DEF d, e
  <2>8. Unescape(Block(c)) = FlattenSeq(Append(z, e))
    BY <1>2, <2>1, <2>2 DEF Unescape, Kept, Block, d, e, z
  <2> QED
    BY <1>2, <2>5, <2>6, <2>7, <2>8
<1>3. CASE c # "$"
  <2>1. Kept(<<c>>) = << <<c>> >>
    BY DEF Kept
  <2>2. <<c>> \in Seq(Chars)
    OBVIOUS
  <2>3. Unescape(Block(c)) = FlattenSeq(<< <<c>> >>)
    BY <1>3, <2>1 DEF Unescape, Kept, Block
  <2> QED
    BY <2>2, <2>3, FlattenOne
<1> QED
  BY <1>2, <1>3

(* ReplaceAllDistinct undoes the replacement of the writer.                *)
THEOREM UnescapeEscape ==
  \A t \in Seq(Chars) : Unescape(Escape(t)) = t
<1> DEFINE A == {t \in Seq(Chars) : Unescape(Escape(t)) = t}
<1> HIDE DEF Chars
<1>1. <<>> \in A
  <2>1. Kept(<<>>) = <<>>
    BY DEF Kept
  <2>2. Unescape(<<>>) = <<>>
    BY <2>1, FlattenEmpty DEF Unescape, Kept
  <2> QED
    BY <2>2, EscapeBlocks, EmptySeq
<1>2. ASSUME NEW t \in Seq(Chars), NEW c \in Chars, t \in A
      PROVE  Append(t, c) \in A
  <2>1. Escape(Append(t, c)) = Escape(t) \o Block(c) /\ Escape(t) \in Seq(Chars)
    BY EscapeBlocks
  <2>2. Unescape(Escape(t) \o Block(c)) = Unescape(Escape(t)) \o Unescape(Block(c))
    BY <2>1, BlockTyped, UnescapeConcat
  <2>3. Unescape(Escape(t) \o Block(c)) = t \o <<c>>
    BY <1>2, <2>2, UnescapeBlock
  <2>4. Append(t, c) = t \o <<c>> /\ Append(t, c) \in Seq(Chars)
    BY AppendIsConcat, AppendProperties
  <2> QED
    BY <2>1, <2>3, <2>4
<1>3. A = Seq(Chars)
  <2>1. A \in SUBSET Seq(Chars)
    OBVIOUS
  <2> HIDE DEF A
  <2> QED
    BY <1>1, <1>2, <2>1, SeqInduction
<1> QED
  BY <1>3

-----------------------------------------------------------------------------
(* What the writer writes for an object.                                   *)

(* Every "$" stands behind a "#".                                          *)
Guarded(s) == \A i \in 1 .. Len(s) : s[i] = "$" => i > 1 /\ s[i - 1] = "#"

(* Two guarded texts make a guarded text.                                  *)
LEMMA GuardedConcat ==
  ASSUME NEW s \in Seq(Chars), NEW t \in Seq(Chars), Guarded(s), Guarded(t)
  PROVE  Guarded(s \o t)
<1> HIDE DEF Chars
<1>1. /\ Len(s \o t) = Len(s) + Len(t)
      /\ \A i \in 1 .. Len(s) + Len(t) :
           (s \o t)[i] = IF i <= Len(s) THEN s[i] ELSE t[i - Len(s)]
  BY ConcatProperties
<1>2. Len(s) \in Nat /\ Len(t) \in Nat
  BY LenProperties
<1> SUFFICES ASSUME NEW i \in 1 .. Len(s) + Len(t), (s \o t)[i] = "$"
             PROVE  i > 1 /\ (s \o t)[i - 1] = "#"
  BY <1>1 DEF Guarded
<1>3. CASE i <= Len(s)
  <2>1. i \in 1 .. Len(s) /\ s[i] = "$"
    BY <1>1, <1>2, <1>3
  <2>2. i > 1 /\ s[i - 1] = "#"
    BY <2>1 DEF Guarded
  <2> QED
    BY <1>1, <1>2, <1>3, <2>2
<1>4. CASE ~(i <= Len(s))
  <2>1. i - Len(s) \in 1 .. Len(t) /\ t[i - Len(s)] = "$"
    BY <1>1, <1>2, <1>4
  <2>2. i - Len(s) > 1 /\ t[i - Len(s) - 1] = "#"
    BY <2>1 DEF Guarded
  <2>3. i - 1 \in 1 .. Len(s) + Len(t) /\ ~(i - 1 <= Len(s)) /\ i - 1 - Len(s) = i - Len(s) - 1
    BY <1>2, <2>1, <2>2
  <2>4. (s \o t)[i - 1] = t[i - Len(s) - 1]
    BY <1>1, <2>3
  <2> QED
    BY <1>2, <2>2, <2>3, <2>4
<1> QED
  BY <1>3, <1>4

(* An escaped text is guarded: every "$" in it follows a "#".              *)
LEMMA EscapeGuarded ==
  \A t \in Seq(Chars) : Guarded(Escape(t))
<1> DEFINE A == {t \in Seq(Chars) : Guarded(Escape(t))}
<1> HIDE DEF Chars
<1>1. <<>> \in A
  <2>1. Guarded(<<>>)
    BY DEF Guarded
  <2> QED
    BY <2>1, EscapeBlocks, EmptySeq
<1>2. ASSUME NEW t \in Seq(Chars), NEW c \in Chars, t \in A
      PROVE  Append(t, c) \in A
  <2>1. Escape(Append(t, c)) = Escape(t) \o Block(c) /\ Escape(t) \in Seq(Chars)
    BY EscapeBlocks
  <2>2. Guarded(Block(c))
    BY DEF Block, Guarded
  <2>3. Block(c) \in Seq(Chars)
    BY BlockTyped
  <2>4. Guarded(Escape(t))
    BY <1>2
  <2>5. Guarded(Escape(t) \o Block(c))
    BY <2>1, <2>2, <2>3, <2>4, GuardedConcat
  <2>6. Append(t, c) \in Seq(Chars)
    BY AppendProperties
  <2> QED
    BY <2>1, <2>5, <2>6
<1>3. A = Seq(Chars)
  <2>1. A \in SUBSET Seq(Chars)
    OBVIOUS
  <2> HIDE DEF A
  <2> QED
    BY <1>1, <1>2, <2>1, SeqInduction
<1> QED
  BY <1>3

(* The end of a sequence.                                                  *)
LEMMA LastOfConcat ==
  ASSUME NEW S, NEW s \in Seq(S), NEW t \in Seq(S), t # <<>>
  PROVE  s \o t # <<>> /\ Last(s \o t) = Last(t)
<1>1. /\ Len(s \o t) = Len(s) + Len(t) /\ s \o t \in Seq(S)
      /\ \A i \in 1 .. Len(s) + Len(t) :
           (s \o t)[i] = IF i <= Len(s) THEN s[i] ELSE t[i - Len(s)]
  BY ConcatProperties
<1>2. Len(s) \in Nat /\ Len(t) \in Nat \ {0}
  BY EmptySeq, LenProperties
<1>3. Len(s) + Len(t) \in 1 .. Len(s) + Len(t) /\ ~(Len(s) + Len(t) <= Len(s))
      /\ Len(s) + Len(t) - Len(s) = Len(t)
  BY <1>2
<1>4. (s \o t)[Len(s) + Len(t)] = t[Len(t)]
  BY <1>1, <1>3
<1>5. s \o t # <<>>
  BY <1>1, <1>2, EmptySeq
<1> QED
  BY <1>1, <1>4, <1>5 DEF Last

(* The inner part of a sequence.                                           *)
Enclosed(p, k, t, z) == Len(k) = 1 /\ Len(z) = 1 /\ p = (k \o t) \o z

(* What is left of a sequence without its first and its last element.      *)
LEMMA InnerPart ==
  ASSUME NEW S, NEW k \in Seq(S), NEW t \in Seq(S), NEW z \in Seq(S),
         NEW p, Enclosed(p, k, t, z)
  PROVE  /\ p \in Seq(S) /\ Len(p) > 1
         /\ p[1] = k[1] /\ p[Len(p)] = z[1]
         /\ SubSeq(p, 2, Len(p) - 1) = t
<1>1. /\ Len(t) \in Nat /\ k \o t \in Seq(S)
      /\ Len(k) = 1 /\ Len(z) = 1 /\ p = (k \o t) \o z
  BY LenProperties, ConcatProperties DEF Enclosed
<1>2. /\ Len(k \o t) = Len(k) + Len(t)
      /\ \A i \in 1 .. Len(k) + Len(t) : (k \o t)[i] = IF i <= Len(k) THEN k[i] ELSE t[i - Len(k)]
  BY ConcatProperties
<1>4. /\ Len(k \o t) = 1 + Len(t)
      /\ \A i \in 1 .. 1 + Len(t) : (k \o t)[i] = IF i <= 1 THEN k[i] ELSE t[i - 1]
  BY <1>1, <1>2
<1>5. /\ Len(p) = 2 + Len(t) /\ p \in Seq(S)
      /\ \A i \in 1 .. 2 + Len(t) :
           p[i] = IF i <= 1 + Len(t) THEN (k \o t)[i] ELSE z[i - (1 + Len(t))]
  BY <1>1, <1>4, ConcatProperties 
<1>6. p[1] = k[1]
  BY <1>1, <1>4, <1>5
<1>7. p[2 + Len(t)] = z[1]
  <2>1. 2 + Len(t) \in 1 .. 2 + Len(t) /\ ~(2 + Len(t) <= 1 + Len(t))
        /\ 2 + Len(t) - (1 + Len(t)) = 1
    BY <1>1
  <2> QED
    BY <1>1, <1>5, <2>1
<1>8. \A i \in 1 .. Len(t) : p[i + 1] = t[i]
  <2> SUFFICES ASSUME NEW i \in 1 .. Len(t)
               PROVE  p[i + 1] = t[i]
    OBVIOUS
  <2>1. i + 1 \in 1 .. 1 + Len(t) /\ i + 1 \in 1 .. 2 + Len(t) /\ ~(i + 1 <= 1) /\ i + 1 - 1 = i
        /\ i + 1 <= 1 + Len(t)
    BY <1>1
  <2> QED
    BY <1>4, <1>5, <2>1, SMTT(60)
<1>9. SubSeq(p, 2, Len(p) - 1) = t
  <2>1. \A i \in 2 .. 1 + Len(t) : p[i] \in S
    <3>1. \A i \in 1 .. Len(p) : p[i] \in S
      BY <1>5, ElementOfSeq
    <3> QED
      BY <1>1, <1>5, <3>1
  <2> DEFINE l == 1 + Len(t)
  <2>2. l \in Int /\ 2 \in Int /\ l = Len(p) - 1
    BY <1>1, <1>5
  <2>3. /\ SubSeq(p, 2, l) \in Seq(S)
        /\ Len(SubSeq(p, 2, l)) = IF 2 <= l THEN l - 2 + 1 ELSE 0
        /\ \A i \in 1 .. l - 2 + 1 : SubSeq(p, 2, l)[i] = p[2 + i - 1]
    <3>1. \A i \in 2 .. l : p[i] \in S
      BY <2>1
    <3> HIDE DEF l
    <3> QED
      BY <2>2, <3>1, SubSeqProperties
  <2>4. Len(SubSeq(p, 2, l)) = Len(t) /\ l - 2 + 1 = Len(t)
    BY <1>1, <2>3
  <2>5. \A i \in 1 .. Len(t) : SubSeq(p, 2, l)[i] = t[i]
    <3> SUFFICES ASSUME NEW i \in 1 .. Len(t)
                 PROVE  SubSeq(p, 2, l)[i] = t[i]
      OBVIOUS
    <3>1. 2 + i - 1 = i + 1
      BY <1>1
    <3>2. SubSeq(p, 2, l)[i] = p[2 + i - 1]
      BY <2>3, <2>4
    <3> QED
      BY <1>8, <3>1, <3>2
  <2> DEFINE q == SubSeq(p, 2, l)
  <2>6. q \in Seq(S) /\ Len(q) = Len(t) /\ \A i \in 1 .. Len(q) : q[i] = t[i]
    BY <2>3, <2>4, <2>5
  <2> HIDE DEF q
  <2>7. q = t
    BY <1>1, <2>6, SeqEqual
  <2> QED
    BY <2>2, <2>7 DEF q
<1> QED
  BY <1>1, <1>5, <1>6, <1>7, <1>9

(* The text of an object, and what the reader makes of it.                 *)
LEMMA PlainIsJson ==
  ASSUME NEW o \in Objects
  PROVE  IsJson(Plain(o)) /\ Decode(Plain(o)) = o
<1>1. /\ o.kind \in Kinds /\ o.text \in Seq(Chars)
      /\ <<o.kind>> \in Seq(Chars) /\ <<"}">> \in Seq(Chars)
      /\ Plain(o) = (<<o.kind>> \o o.text) \o <<"}">>
  BY PlainTyped DEF Plain
<1>2. /\ Len(<<o.kind>>) = 1 /\ <<o.kind>>[1] = o.kind
      /\ Len(<<"}">>) = 1 /\ <<"}">>[1] = "}"
  OBVIOUS
<1>3. o = [kind |-> o.kind, text |-> o.text]
  BY DEF Objects
<1> DEFINE k == <<o.kind>>
           t == o.text
           z == <<"}">>
           p == Plain(o)
<1>4. /\ k \in Seq(Chars) /\ t \in Seq(Chars) /\ z \in Seq(Chars)
      /\ Enclosed(p, k, t, z)
  BY <1>1, <1>2 DEF Enclosed
<1>5. k[1] = o.kind /\ z[1] = "}"
  BY <1>2
<1> HIDE DEF Chars, Kinds, k, t, z, p
<1>6. /\ p \in Seq(Chars) /\ Len(p) > 1
      /\ p[1] = k[1] /\ p[Len(p)] = z[1]
      /\ SubSeq(p, 2, Len(p) - 1) = t
  BY <1>4, InnerPart
<1>7. IsJson(p)
  BY <1>1, <1>5, <1>6 DEF IsJson
<1>8. Decode(p) = o
  BY <1>3, <1>5, <1>6 DEF Decode, t
<1> QED
  BY <1>7, <1>8 DEF p

(* What travels between the two "$" of an object.                          *)
LEMMA FrameProperties ==
  ASSUME NEW o \in Objects
  PROVE  /\ Frame(o) \in Seq(Chars) /\ Frame(o) # <<>> /\ Last(Frame(o)) = "}"
         /\ Guarded(Frame(o))
         /\ Unescape(Frame(o)) = Plain(o)
<1>1. Plain(o) \in Seq(Chars) /\ <<o.kind>> \o o.text \in Seq(Chars)
  BY PlainTyped
<1>2. "}" \in Chars
  BY DEF Chars
<1> HIDE DEF Chars
<1>3. Plain(o) = Append(<<o.kind>> \o o.text, "}")
  BY <1>1, <1>2, AppendIsConcat DEF Plain
<1>4. Frame(o) = Escape(<<o.kind>> \o o.text) \o Block("}")
      /\ Escape(<<o.kind>> \o o.text) \in Seq(Chars)
  BY <1>1, <1>2, <1>3, EscapeBlocks DEF Frame
<1>5. Block("}") \in Seq(Chars) /\ Block("}") # <<>> /\ Last(Block("}")) = "}"
  BY <1>2, BlockTyped
<1>6. Frame(o) # <<>> /\ Last(Frame(o)) = "}"
  BY <1>4, <1>5, LastOfConcat
<1>7. Frame(o) \in Seq(Chars) /\ Guarded(Frame(o))
  BY <1>1, EscapeBlocks, EscapeGuarded DEF Frame
<1>8. Unescape(Frame(o)) = Plain(o)
  BY <1>1, UnescapeEscape DEF Frame
<1> QED
  BY <1>6, <1>7, <1>8

(* What is written for several objects.                                    *)
LEMMA EncodeTyped ==
  ASSUME NEW o \in Objects
  PROVE  /\ Encode(o) = <<"$">> \o (Frame(o) \o Ending)
         /\ Encode(o) \in Seq(Chars) /\ Encode(o) # <<>>
         /\ <<"$">> \in Seq(Chars) /\ Ending \in Seq(Chars) /\ <<"\n">> \in Seq(Chars)
         /\ Ending = <<"$">> \o <<"\n">>
<1>1. "$" \in Chars /\ "\n" \in Chars
  BY DEF Chars
<1> HIDE DEF Chars
<1>2. <<"$">> \in Seq(Chars) /\ <<"\n">> \in Seq(Chars)
  BY <1>1, OneElement
<1>3. Ending = <<"$">> \o <<"\n">>
  BY DEF Ending
<1> DEFINE d == <<"$">>
           n == <<"\n">>
           f == Frame(o)
           g == Ending
<1>4. d \in Seq(Chars) /\ n \in Seq(Chars) /\ f \in Seq(Chars) /\ g = d \o n
  BY <1>2, <1>3, FrameProperties
<1>5. Encode(o) = (d \o f) \o g
  BY DEF Encode, Frame, Plain, Ending
<1>6. d # <<>>
  OBVIOUS
<1> HIDE DEF d, n, f, g
<1>7. g \in Seq(Chars)
  BY <1>4, ConcatProperties
<1>8. (d \o f) \o g = d \o (f \o g) /\ f \o g \in Seq(Chars)
  BY <1>4, <1>7, ConcatAssociative, ConcatProperties, SMTT(60)
<1>9. d \o (f \o g) \in Seq(Chars)
  BY <1>4, <1>8, ConcatProperties
<1>10. d \o (f \o g) # <<>>
  BY <1>4, <1>6, <1>8, ConcatEqualIffEmpty
<1> QED
  BY <1>4, <1>5, <1>7, <1>8, <1>9, <1>10 DEF d, n, f, g

(* What is written for several objects is what is written for each of them.*)
LEMMA EncodeAllBlocks ==
  /\ EncodeAll(<<>>) = <<>>
  /\ \A os \in Seq(Objects) : EncodeAll(os) \in Seq(Chars)
  /\ \A os \in Seq(Objects), o \in Objects :
       EncodeAll(Append(os, o)) = EncodeAll(os) \o Encode(o)
  /\ \A os \in Seq(Objects), o \in Objects :
       EncodeAll(<<o>> \o os) = Encode(o) \o EncodeAll(os)
<1>1. Encoded \in [Objects -> Seq(Chars)]
  <2>1. \A o \in Objects : Encode(o) \in Seq(Chars)
    BY EncodeTyped
  <2> HIDE DEF Objects, Chars
  <2> QED
    BY <2>1 DEF Encoded
<1>2. \A o \in Objects : Encoded[o] = Encode(o)
  BY DEF Encoded
<1> HIDE DEF Objects, Chars
<1>3. /\ Mapped(Encoded, <<>>) = <<>>
      /\ \A os \in Seq(Objects) : Mapped(Encoded, os) \in Seq(Chars)
  BY <1>1, MappedConcat
<1>4. \A o \in Objects : Mapped(Encoded, <<o>>) = Encode(o)
  <2>1. \A o \in Objects : Mapped(Encoded, <<o>>) = Encoded[o]
    BY <1>1, MappedConcat
  <2> QED
    BY <1>2, <2>1
<1>5. BlocksOf(Encoded, Objects, Chars)
  BY <1>1 DEF BlocksOf
<1>6. \A p, q \in Seq(Objects) : Mapped(Encoded, p \o q) = Mapped(Encoded, p) \o Mapped(Encoded, q)
  BY <1>5, MappedTwo
<1>7. \A o \in Objects : <<o>> \in Seq(Objects)
  OBVIOUS
<1>8. \A os \in Seq(Objects), o \in Objects : Append(os, o) = os \o <<o>>
  BY AppendIsConcat
<1> QED
  BY <1>3, <1>4, <1>6, <1>7, <1>8 DEF EncodeAll

-----------------------------------------------------------------------------
(* Where the reader is in the stream: w is what it has not read, rest the  *)
(* objects that it has not got, fr and d its inFrame and data.             *)

Between(fr, d, w, rest) ==
  /\ ~fr
  /\ d = <<>>
  /\ w = EncodeAll(rest) \/ w = <<"\n">> \o EncodeAll(rest)

Tails(d, w, o, more, left) ==
  /\ Frame(o) = d \o left
  /\ w = left \o (Ending \o EncodeAll(more))

Within(fr, d, w, rest) ==
  /\ fr
  /\ \E o \in Objects, more \in Seq(Objects), left \in Seq(Chars) :
       rest = <<o>> \o more /\ Tails(d, w, o, more, left)

Awaits(fr, d, w, rest) ==
  /\ fr \in BOOLEAN /\ d \in Seq(Chars) /\ w \in Seq(Chars) /\ rest \in Seq(Objects)
  /\ Between(fr, d, w, rest) \/ Within(fr, d, w, rest)

(* The character before the next one is not a "#".                         *)
Free(d) == d = <<>> \/ Last(d) # "#"

(* Two equal sequences have the same first element and the same rest.      *)
LEMMA HeadCut ==
  ASSUME NEW S, NEW a \in S, NEW b \in S, NEW s \in Seq(S), NEW t \in Seq(S),
         <<a>> \o s = <<b>> \o t
  PROVE  a = b /\ s = t
<1>1. <<a>> \in Seq(S) /\ <<b>> \in Seq(S) /\ Len(<<a>>) = 1 /\ Len(<<b>>) = 1
      /\ <<a>>[1] = a /\ <<b>>[1] = b
  BY OneElement
<1>2. Len(s) \in Nat /\ Len(t) \in Nat
  BY LenProperties
<1> DEFINE x == <<a>>
           y == <<b>>
<1>3. x \in Seq(S) /\ y \in Seq(S) /\ Len(x) = 1 /\ Len(y) = 1 /\ x[1] = a /\ y[1] = b
      /\ x \o s = y \o t
  BY <1>1
<1> HIDE DEF x, y
<1>4. (x \o s)[1] = x[1]
  <2>1. \A i \in 1 .. Len(x) + Len(s) : (x \o s)[i] = IF i <= Len(x) THEN x[i] ELSE s[i - Len(x)]
    BY <1>3, ConcatProperties
  <2>2. 1 \in 1 .. Len(x) + Len(s) /\ 1 <= Len(x)
    BY <1>2, <1>3
  <2> QED
    BY <2>1, <2>2
<1>5. (y \o t)[1] = y[1]
  <2>1. \A i \in 1 .. Len(y) + Len(t) : (y \o t)[i] = IF i <= Len(y) THEN y[i] ELSE t[i - Len(y)]
    BY <1>3, ConcatProperties
  <2>2. 1 \in 1 .. Len(y) + Len(t) /\ 1 <= Len(y)
    BY <1>2, <1>3
  <2> QED
    BY <2>1, <2>2
<1>6. a = b
  BY <1>3, <1>4, <1>5
<1>7. x \o s = x \o t
  BY <1>3, <1>6 DEF x, y
<1>8. s = t
  BY <1>3, <1>7, ConcatSimplifications
<1> QED
  BY <1>6, <1>8

(* A character before a text, by name (as Cat in InductionLemmas).         *)
Onto(c, s) == <<c>> \o s

(* The first character of a text, and what is left.                        *)
LEMMA CharsHead ==
  ASSUME NEW a \in Chars, NEW b \in Chars, NEW s \in Seq(Chars), NEW t \in Seq(Chars),
         Onto(a, s) = Onto(b, t)
  PROVE  a = b /\ s = t
BY HeadCut DEF Onto

(* A sequence that is not empty has a first element.                       *)
LEMMA HeadOfConcat ==
  ASSUME NEW S, NEW s \in Seq(S), s # <<>>
  PROVE  \E e \in S, t \in Seq(S) : s = <<e>> \o t
<1>1. Len(s) \in Nat \ {0}
  BY EmptySeq
<1>2. 1 \in 1 .. Len(s) /\ Len(s) \in 1 .. Len(s) /\ 1 <= Len(s)
  BY <1>1
<1>3. SubSeq(s, 1, Len(s)) = <<s[1]>> \o SubSeq(s, 2, Len(s)) /\ SubSeq(s, 1, Len(s)) = s
  <2>1. SubSeq(s, 1, Len(s)) = <<s[1]>> \o SubSeq(s, 1 + 1, Len(s))
    BY <1>2, SubSeqRecursiveFirst
  <2> QED
    BY <2>1, SubSeqFull
<1>4. s[1] \in S /\ \A i \in 2 .. Len(s) : s[i] \in S
  BY <1>1, <1>2, ElementOfSeq
<1>5. SubSeq(s, 2, Len(s)) \in Seq(S)
  BY <1>1, <1>4, SubSeqProperties
<1> QED
  BY <1>3, <1>4, <1>5

(* One character of the stream: what the reader does with it, depending on *)
(* whether it is a boundary.                                               *)
Starts(c, d) == c = "$" /\ Free(d)

(* A character between two objects, consumed by the reader.                *)
LEMMA OutsideStep ==
  ASSUME NEW c \in Chars, NEW d, NEW w \in Seq(Chars), NEW rest \in Seq(Objects),
         Between(FALSE, d, Onto(c, w), rest)
  PROVE  /\ d = <<>>
         /\ \/ c = "$" /\ Within(TRUE, d, w, rest)
            \/ c = "\n" /\ Between(FALSE, d, w, rest)
<1>1. d = <<>>
  BY DEF Between
<1>0. "\n" \in Chars /\ "$" \in Chars
  BY DEF Chars
<1>2. <<c>> \in Seq(Chars) /\ "\n" \in Chars /\ "$" \in Chars
  BY <1>0, OneElement
<1> HIDE DEF Chars, Objects
<1>3. EncodeAll(rest) \in Seq(Chars)
  BY EncodeAllBlocks
<1>4. CASE <<c>> \o w = <<"\n">> \o EncodeAll(rest)
  <2>1. c = "\n" /\ w = EncodeAll(rest)
    <3>1. Onto(c, w) = Onto("\n", EncodeAll(rest))
      BY <1>4 DEF Onto
    <3> QED
      BY <1>0, <1>3, <3>1, CharsHead
  <2> QED
    BY <1>1, <2>1 DEF Between
<1>5. CASE <<c>> \o w = EncodeAll(rest)
  <2>1. <<c>> \o w # <<>>
    <3>1. <<c>> # <<>>
      OBVIOUS
    <3> DEFINE k == <<c>>
    <3>2. k \in Seq(Chars) /\ k # <<>>
      BY <1>2, <3>1
    <3> HIDE DEF k
    <3>3. k \o w # <<>>
      BY <3>2, ConcatEqualIffEmpty
    <3> QED
      BY <3>3 DEF k
  <2>2. rest # <<>>
    BY <1>5, <2>1, EncodeAllBlocks
  <2>3. PICK o \in Objects, more \in Seq(Objects) : rest = <<o>> \o more
    BY <2>2, HeadOfConcat
  <2>4. EncodeAll(rest) = Encode(o) \o EncodeAll(more) /\ EncodeAll(more) \in Seq(Chars)
    BY <2>3, EncodeAllBlocks
  <2> DEFINE dd == <<"$">>
             f == Frame(o)
             g == Ending
             m == EncodeAll(more)
  <2>5. /\ dd \in Seq(Chars) /\ f \in Seq(Chars) /\ g \in Seq(Chars) /\ m \in Seq(Chars)
        /\ Encode(o) = dd \o (f \o g)
    BY <2>4, EncodeTyped, FrameProperties
  <2>6. <<c>> \o w = (dd \o (f \o g)) \o m
    BY <1>5, <2>4, <2>5
  <2> HIDE DEF f, g, m
  <2>7. <<c>> \o w = dd \o (f \o (g \o m)) /\ f \o (g \o m) \in Seq(Chars)
    <3> HIDE DEF dd
    <3>1. f \o g \in Seq(Chars) /\ g \o m \in Seq(Chars)
      BY <2>5, ConcatProperties
    <3>2. (dd \o (f \o g)) \o m = dd \o ((f \o g) \o m)
      <4>2. Cat(f, g) \in Seq(Chars)
        BY <3>1 DEF Cat
      <4>1. Cat(Cat(dd, Cat(f, g)), m) = Cat(dd, Cat(Cat(f, g), m))
        BY <2>5, <4>2, CatAssociative
      <4> QED
        BY <4>1 DEF Cat
    <3>3. (f \o g) \o m = f \o (g \o m)
      <4>1. Cat(Cat(f, g), m) = Cat(f, Cat(g, m))
        BY <2>5, CatAssociative
      <4> QED
        BY <4>1 DEF Cat
    <3>4. f \o (g \o m) \in Seq(Chars)
      BY <2>5, <3>1, ConcatProperties
    <3> QED
      BY <2>6, <3>2, <3>3, <3>4
  <2>8. c = "$" /\ w = f \o (g \o m)
    <3> DEFINE z == f \o (g \o m)
    <3>1. <<c>> \o w = <<"$">> \o z /\ z \in Seq(Chars)
      BY <2>7
    <3> HIDE DEF z
    <3>2. c = "$" /\ w = z
      <4>1. Onto(c, w) = Onto("$", z)
        BY <3>1 DEF Onto
      <4> QED
        BY <1>0, <3>1, <4>1, CharsHead
    <3> QED
      BY <3>2 DEF z
  <2>9. Frame(o) = d \o f
    BY <1>1, <2>5, ConcatEmptySeq DEF f
  <2>10. Tails(d, w, o, more, f)
    BY <2>8, <2>9 DEF Tails, g, m
  <2>11. Within(TRUE, d, w, rest)
    BY <2>3, <2>5, <2>10 DEF Within
  <2> QED
    BY <1>1, <2>8, <2>11
<1>6. <<c>> \o w = EncodeAll(rest) \/ <<c>> \o w = <<"\n">> \o EncodeAll(rest)
  BY DEF Between, Onto
<1> QED
  BY <1>4, <1>5, <1>6

(* The reader is inside an object.                                         *)
Grows(c, d, w, rest) ==
  ~Starts(c, d) /\ Within(TRUE, Append(d, c), w, rest)

Closes(c, d, w, rest) ==
  /\ Starts(c, d)
  /\ \E o \in Objects, more \in Seq(Objects) :
       rest = <<o>> \o more /\ Unescape(d) = Plain(o) /\ Between(FALSE, <<>>, w, more)

(* A character of an object, consumed by the reader.                       *)
LEMMA InsideStep ==
  ASSUME NEW c \in Chars, NEW d \in Seq(Chars), NEW w \in Seq(Chars), NEW rest \in Seq(Objects),
         Within(TRUE, d, Onto(c, w), rest)
  PROVE  Grows(c, d, w, rest) \/ Closes(c, d, w, rest)
<1>0. "\n" \in Chars /\ "$" \in Chars
  BY DEF Chars
<1>1. <<c>> \in Seq(Chars) /\ "\n" \in Chars /\ "$" \in Chars
  BY <1>0, OneElement
<1>2. PICK o \in Objects, more \in Seq(Objects), left \in Seq(Chars) :
        rest = <<o>> \o more /\ Tails(d, Onto(c, w), o, more, left)
  BY DEF Within
<1> HIDE DEF Chars, Objects
<1>3. Frame(o) = d \o left /\ <<c>> \o w = left \o (Ending \o EncodeAll(more))
  BY <1>2 DEF Tails, Onto
<1>4. /\ EncodeAll(more) \in Seq(Chars) /\ Ending \in Seq(Chars)
      /\ Ending \o EncodeAll(more) \in Seq(Chars)
  <2>1. EncodeAll(more) \in Seq(Chars) /\ Ending \in Seq(Chars)
    BY EncodeAllBlocks, EncodeTyped
  <2> HIDE DEF Ending, EncodeAll
  <2> QED
    BY <2>1, ConcatProperties
<1>5. /\ Frame(o) \in Seq(Chars) /\ Frame(o) # <<>> /\ Last(Frame(o)) = "}"
      /\ Guarded(Frame(o)) /\ Unescape(Frame(o)) = Plain(o)
  BY FrameProperties
<1>6. CASE left = <<>>
  <2>1. d = Frame(o)
    BY <1>3, <1>6, ConcatEmptySeq
  <2>2. <<c>> \o w = Ending \o EncodeAll(more)
    BY <1>3, <1>4, <1>6, ConcatEmptySeq
  <2>3. Ending \o EncodeAll(more) = <<"$">> \o (<<"\n">> \o EncodeAll(more))
    <3> DEFINE x == <<"$">>
               y == <<"\n">>
               m == EncodeAll(more)
    <3>1. x \in Seq(Chars) /\ y \in Seq(Chars) /\ m \in Seq(Chars) /\ Ending = x \o y
      BY <1>2, <1>4, EncodeTyped
    <3> HIDE DEF x, y, m
    <3>2. (x \o y) \o m = x \o (y \o m)
      <4>1. Cat(Cat(x, y), m) = Cat(x, Cat(y, m))
        BY <3>1, CatAssociative
      <4> QED
        BY <4>1 DEF Cat
    <3> QED
      BY <3>1, <3>2 DEF x, y, m
  <2>4. c = "$" /\ w = <<"\n">> \o EncodeAll(more)
    <3> DEFINE z == <<"\n">> \o EncodeAll(more)
    <3>1. z \in Seq(Chars)
      <4>1. <<"\n">> \in Seq(Chars)
        BY <1>1
      <4> DEFINE y == <<"\n">>
      <4>2. y \in Seq(Chars)
        BY <4>1
      <4> HIDE DEF y
      <4>3. y \o EncodeAll(more) \in Seq(Chars)
        BY <1>4, <4>2, ConcatProperties
      <4> QED
        BY <4>3 DEF y
    <3>2. <<c>> \o w = <<"$">> \o z
      BY <2>2, <2>3
    <3> HIDE DEF z
    <3>3. c = "$" /\ w = z
      <4>1. Onto(c, w) = Onto("$", z)
        BY <3>2 DEF Onto
      <4> QED
        BY <1>0, <3>1, <4>1, CharsHead
    <3> QED
      BY <3>3 DEF z
  <2>5. Starts(c, d)
    BY <1>5, <2>1, <2>4 DEF Starts, Free
  <2>6. Between(FALSE, <<>>, w, more)
    BY <2>4 DEF Between
  <2>7. Closes(c, d, w, rest)
    BY <1>2, <1>5, <2>1, <2>5, <2>6 DEF Closes
  <2> QED
    BY <2>7
<1>7. CASE left # <<>>
  <2>1. PICK e \in Chars, more1 \in Seq(Chars) : left = <<e>> \o more1
    BY <1>7, HeadOfConcat
  <2> DEFINE x == <<e>>
             z == Ending \o EncodeAll(more)
  <2>2. x \in Seq(Chars) /\ z \in Seq(Chars) /\ left = x \o more1
    BY <1>4, <2>1
  <2> HIDE DEF z
  <2>3. c = e /\ w = more1 \o z
    <3>1. more1 \o z \in Seq(Chars)
      BY <2>2, ConcatProperties
    <3>2. <<c>> \o w = <<e>> \o (more1 \o z)
      <4>1. <<c>> \o w = (x \o more1) \o z
        BY <1>3, <2>2 DEF z
      <4> HIDE DEF x
      <4>2. (x \o more1) \o z = x \o (more1 \o z)
        <5>1. Cat(Cat(x, more1), z) = Cat(x, Cat(more1, z))
          BY <2>2, CatAssociative
        <5> QED
          BY <5>1 DEF Cat
      <4> QED
        BY <4>1, <4>2 DEF x
    <3> DEFINE y == more1 \o z
    <3>3. <<c>> \o w = <<e>> \o y /\ y \in Seq(Chars)
      BY <3>1, <3>2
    <3> HIDE DEF y
    <3>4. c = e /\ w = y
      <4>1. Onto(c, w) = Onto(e, y)
        BY <3>3 DEF Onto
      <4> QED
        BY <3>3, <4>1, CharsHead
    <3> QED
      BY <3>4 DEF y
  <2>4. Append(d, c) = d \o x /\ Append(d, c) \in Seq(Chars)
    BY <2>3, AppendIsConcat, AppendProperties
  <2>5. Frame(o) = Append(d, c) \o more1
    <3>1. Frame(o) = d \o (x \o more1)
      BY <1>3, <2>2
    <3> HIDE DEF x
    <3>2. (d \o x) \o more1 = d \o (x \o more1)
      <4>1. Cat(Cat(d, x), more1) = Cat(d, Cat(x, more1))
        BY <2>2, CatAssociative
      <4> QED
        BY <4>1 DEF Cat
    <3> QED
      BY <2>4, <3>1, <3>2
  <2>6. Tails(Append(d, c), w, o, more, more1)
    BY <2>3, <2>5 DEF Tails, z
  <2>7. Within(TRUE, Append(d, c), w, rest)
    BY <1>2, <2>6 DEF Within
  <2>8. ~Starts(c, d)
    <3> SUFFICES ASSUME c = "$"
                 PROVE  d # <<>> /\ Last(d) = "#"
      BY DEF Starts, Free
    <3> DEFINE p == Append(d, c)
    <3>1. /\ p \in Seq(Chars) /\ Len(p) = Len(d) + 1 /\ Len(d) \in Nat /\ Len(more1) \in Nat
          /\ \A i \in 1 .. Len(d) : p[i] = d[i]
          /\ p[Len(d) + 1] = c
      BY AppendProperties, LenProperties
    <3> HIDE DEF p
    <3>2. /\ Len(p \o more1) = Len(p) + Len(more1)
          /\ \A i \in 1 .. Len(p) + Len(more1) :
               (p \o more1)[i] = IF i <= Len(p) THEN p[i] ELSE more1[i - Len(p)]
      BY <3>1, ConcatProperties
    <3>3. Guarded(p \o more1)
      BY <1>5, <2>5 DEF p
    <3>4. Len(d) + 1 \in 1 .. Len(p \o more1) /\ (p \o more1)[Len(d) + 1] = "$"
      BY <3>1, <3>2
    <3> DEFINE q == p \o more1
               l == Len(d) + 1
    <3>10. Guarded(q) /\ l \in 1 .. Len(q) /\ q[l] = "$"
      BY <3>3, <3>4
    <3> HIDE DEF q, l
    <3>11. l > 1 /\ q[l - 1] = "#"
      BY <3>10 DEF Guarded
    <3>5. Len(d) + 1 > 1 /\ q[Len(d) + 1 - 1] = "#"
      BY <3>11 DEF l
    <3>6. Len(d) >= 1 /\ Len(d) + 1 - 1 = Len(d) /\ Len(d) \in 1 .. Len(d)
      BY <3>1, <3>5
    <3>7. q[Len(d)] = d[Len(d)]
      BY <3>1, <3>2, <3>6 DEF q
    <3>8. d[Len(d)] = "#"
      BY <3>5, <3>6, <3>7
    <3>9. d # <<>>
      BY <3>6, EmptySeq
    <3> QED
      BY <3>8, <3>9 DEF Last
  <2>9. Grows(c, d, w, rest)
    BY <2>7, <2>8 DEF Grows
  <2> QED
    BY <2>9
<1> QED
  BY <1>6, <1>7

-----------------------------------------------------------------------------
(* HandleBuffer, one character at a time.                                  *)

Consume(buff, r, i) ==
  IF ~IsBoundary(buff, i, r.data)
  THEN IF r.inFrame
       THEN [r EXCEPT !.data = Append(@, buff[i])] ELSE r
  ELSE IF ~r.inFrame THEN [r EXCEPT !.inFrame = TRUE]
  ELSE [inFrame |-> FALSE, data |-> <<>>,
        texts |-> Append(r.texts, Unescape(r.data))]

Link(f, buff, st, i) == IF i = 0 THEN st ELSE Consume(buff, f[i - 1], i)
Chain(f, buff, st, n) == f = [i \in 0 .. n |-> Link(f, buff, st, i)]

(* The equation for one character.                                         *)
LEMMA ChainStep ==
  ASSUME NEW f, NEW buff, NEW st, NEW n, Chain(f, buff, st, n)
  PROVE  \A i \in 0 .. n : f[i] = Link(f, buff, st, i)
BY Zenon DEF Chain

(* It can be computed.                                                     *)
LEMMA ChainExists ==
  ASSUME NEW buff, NEW st
  PROVE  \A n \in Nat : \E f : Chain(f, buff, st, n)
<1> DEFINE S == {n \in Nat : \E f : Chain(f, buff, st, n)}
<1>1. 0 \in S
  <2>1. PICK f : f = [i \in 0 .. 0 |-> st]
    OBVIOUS
  <2>2. [i \in 0 .. 0 |-> Link(f, buff, st, i)] = [i \in 0 .. 0 |-> st]
    <3>1. \A i \in 0 .. 0 : Link(f, buff, st, i) = st
      BY DEF Link
    <3> QED
      BY <3>1
  <2>3. Chain(f, buff, st, 0)
    BY <2>1, <2>2, Zenon DEF Chain
  <2> QED
    BY <2>3
<1>2. ASSUME NEW n \in Nat, n \in S
      PROVE  n + 1 \in S
  <2>1. PICK f : Chain(f, buff, st, n)
    BY <1>2
  <2>2. PICK g : g = [i \in 0 .. n + 1 |-> IF i <= n THEN f[i] ELSE Link(f, buff, st, i)]
    OBVIOUS
  <2>3. \A i \in 0 .. n : g[i] = f[i]
    BY <2>2
  <2>4. ASSUME NEW i \in 0 .. n + 1
        PROVE  g[i] = Link(g, buff, st, i)
    <3>1. CASE i <= n
      <4>1. g[i] = f[i] /\ (i # 0 => g[i - 1] = f[i - 1])
        BY <2>3, <3>1
      <4>2. f[i] = Link(f, buff, st, i)
        BY <2>1, <3>1, ChainStep
      <4> QED
        BY <4>1, <4>2 DEF Link
    <3>2. CASE i = n + 1
      <4>1. g[i] = Link(f, buff, st, i)
        BY <2>2, <3>2
      <4>2. i # 0 => g[i - 1] = f[i - 1]
        BY <2>3, <3>2
      <4> QED
        BY <4>1, <4>2 DEF Link
    <3> QED
      BY <3>1, <3>2
  <2>5. Chain(g, buff, st, n + 1)
    <3>1. g = [i \in 0 .. n + 1 |-> g[i]]
      BY <2>2
    <3>2. PICK h : h = [i \in 0 .. n + 1 |-> Link(g, buff, st, i)]
      OBVIOUS
    <3>3. \A i \in 0 .. n + 1 : h[i] = g[i]
      BY <2>4, <3>2
    <3>4. h = [i \in 0 .. n + 1 |-> h[i]]
      BY <3>2
    <3>5. g = h
      BY <3>1, <3>3, <3>4
    <3> QED
      BY <3>2, <3>5 DEF Chain
  <2> QED
    BY <2>5
<1> HIDE DEF S
<1>3. S = Nat
  <2>1. S \in SUBSET Nat
    BY DEF S
  <2> QED
    BY <1>1, <1>2, <2>1, SetInduction
<1> QED
  BY <1>3 DEF S

(* and is what HandleBuffer computes.                                      *)
LEMMA HandleBufferIsChain ==
  ASSUME NEW buff, NEW st, Len(buff) \in Nat
  PROVE  \E f : Chain(f, buff, st, Len(buff)) /\ HandleBuffer(buff, st) = f[Len(buff)]
<1> DEFINE P(f) == f = [i \in 0 .. Len(buff) |->
             IF i = 0 THEN st
             ELSE IF ~IsBoundary(buff, i, f[i - 1].data)
                  THEN IF f[i - 1].inFrame
                       THEN [f[i - 1] EXCEPT !.data = Append(@, buff[i])] ELSE f[i - 1]
                  ELSE IF ~f[i - 1].inFrame THEN [f[i - 1] EXCEPT !.inFrame = TRUE]
                  ELSE [inFrame |-> FALSE, data |-> <<>>,
                        texts |-> Append(f[i - 1].texts, Unescape(f[i - 1].data))]]
<1>1. \E f : P(f)
  <2>1. PICK f : Chain(f, buff, st, Len(buff))
    BY ChainExists
  <2>2. P(f)
    BY <2>1, Zenon DEF Chain, Link, Consume
  <2> QED
    BY <2>2, Zenon
<1>2. P(CHOOSE f : P(f))
  BY <1>1, Zenon
<1>3. HandleBuffer(buff, st) = (CHOOSE f : P(f))[Len(buff)]
  BY Zenon DEF HandleBuffer
<1> DEFINE f == CHOOSE f : P(f)
<1>4. P(f)
  BY <1>2
<1>5. HandleBuffer(buff, st) = f[Len(buff)]
  BY <1>3
<1> HIDE DEF f
<1>6. Chain(f, buff, st, Len(buff))
  BY <1>4, Zenon DEF Chain, Link, Consume
<1> QED
  BY <1>5, <1>6, Zenon

(* What the reader has in hand, as a record.                               *)
ReaderStates == [inFrame : BOOLEAN, data : Seq(Chars), texts : Seq(Seq(Chars))]

TextsOf(os) == [j \in 1 .. Len(os) |-> Plain(os[j])]

(* An object more, and its text.                                           *)
LEMMA TextsAppend ==
  ASSUME NEW os \in Seq(Objects), NEW o \in Objects
  PROVE  /\ TextsOf(os) \in Seq(Seq(Chars)) /\ Len(TextsOf(os)) = Len(os) /\ Len(os) \in Nat
         /\ \A i \in 1 .. Len(os) : TextsOf(os)[i] = Plain(os[i])
         /\ TextsOf(Append(os, o)) = Append(TextsOf(os), Plain(o))
<1> HIDE DEF Objects, Chars
<1>1. \A s \in Seq(Objects) : /\ TextsOf(s) \in Seq(Seq(Chars)) /\ Len(TextsOf(s)) = Len(s)
                              /\ \A i \in 1 .. Len(s) : TextsOf(s)[i] = Plain(s[i])
  <2> SUFFICES ASSUME NEW s \in Seq(Objects)
               PROVE  /\ TextsOf(s) \in Seq(Seq(Chars)) /\ Len(TextsOf(s)) = Len(s)
                      /\ \A i \in 1 .. Len(s) : TextsOf(s)[i] = Plain(s[i])
    OBVIOUS
  <2>1. \A i \in 1 .. Len(s) : Plain(s[i]) \in Seq(Chars)
    BY ElementOfSeq, PlainTyped
  <2>2. Len(s) \in Nat
    BY LenProperties
  <2> QED
    BY <2>1, <2>2 DEF TextsOf
<1> DEFINE p == Append(os, o)
           x == TextsOf(os)
<1>2. /\ p \in Seq(Objects) /\ Len(p) = Len(os) + 1 /\ Len(os) \in Nat
      /\ \A i \in 1 .. Len(os) : p[i] = os[i]
      /\ p[Len(os) + 1] = o
  BY AppendProperties, LenProperties
<1>3. /\ x \in Seq(Seq(Chars)) /\ Len(x) = Len(os)
      /\ \A i \in 1 .. Len(os) : x[i] = Plain(os[i])
  BY <1>1
<1>4. Plain(o) \in Seq(Chars)
  BY PlainTyped
<1> HIDE DEF p, x
<1>5. /\ Append(x, Plain(o)) \in Seq(Seq(Chars)) /\ Len(Append(x, Plain(o))) = Len(os) + 1
      /\ \A i \in 1 .. Len(os) : Append(x, Plain(o))[i] = x[i]
      /\ Append(x, Plain(o))[Len(os) + 1] = Plain(o)
  BY <1>3, <1>4, AppendProperties
<1>6. /\ TextsOf(p) \in Seq(Seq(Chars)) /\ Len(TextsOf(p)) = Len(os) + 1
      /\ \A i \in 1 .. Len(os) + 1 : TextsOf(p)[i] = Plain(p[i])
  BY <1>1, <1>2
<1>7. \A i \in 1 .. Len(os) + 1 : TextsOf(p)[i] = Append(x, Plain(o))[i]
  <2> SUFFICES ASSUME NEW i \in 1 .. Len(os) + 1
               PROVE  TextsOf(p)[i] = Append(x, Plain(o))[i]
    OBVIOUS
  <2>1. TextsOf(p)[i] = Plain(p[i])
    BY <1>6
  <2>2. CASE i \in 1 .. Len(os)
    BY <1>2, <1>3, <1>5, <2>1, <2>2
  <2>3. CASE i = Len(os) + 1
    BY <1>2, <1>5, <2>1, <2>3
  <2>4. i \in 1 .. Len(os) \/ i = Len(os) + 1
    BY <1>2
  <2> QED
    BY <2>2, <2>3, <2>4
<1>8. TextsOf(p) = Append(x, Plain(o))
  BY <1>5, <1>6, <1>7, SeqEqual
<1> QED
  BY <1>1, <1>2, <1>8 DEF p, x

(* The reader has got some of the objects and awaits the others.           *)
After(q, w, rest) ==
  \E taken, more \in Seq(Objects) :
    rest = taken \o more /\ q.texts = TextsOf(taken) /\ Awaits(q.inFrame, q.data, w, more)

(* The character before the next one, as IsBoundary looks for it.          *)
Remembers(buff, i, d) == i > 0 => (buff[i] # "#" <=> Free(d))

(* One character: the reader still awaits what it has not got, and         *)
(* remembers whether a "#" precedes.                                       *)
LEMMA ConsumeStep ==
  ASSUME NEW buff, NEW i \in Nat, NEW r \in ReaderStates, NEW w \in Seq(Chars), NEW rest,
         NEW c \in Chars, c = buff[i + 1],
         After(r, Onto(c, w), rest), Remembers(buff, i, r.data)
  PROVE  LET q == Consume(buff, r, i + 1)
         IN  q \in ReaderStates /\ After(q, w, rest) /\ Remembers(buff, i + 1, q.data)
<1> DEFINE q == Consume(buff, r, i + 1)
<1>1. r.inFrame \in BOOLEAN /\ r.data \in Seq(Chars) /\ r.texts \in Seq(Seq(Chars))
  BY DEF ReaderStates
<1>2. PICK taken \in Seq(Objects), more \in Seq(Objects) :
        /\ rest = taken \o more /\ r.texts = TextsOf(taken)
        /\ Awaits(r.inFrame, r.data, Onto(c, w), more)
  BY DEF After
<1>3. IsBoundary(buff, i + 1, r.data) <=> Starts(c, r.data)
  <2>1. CASE i = 0
    <3>1. i + 1 = 1
      BY <2>1
    <3> QED
      BY <3>1 DEF IsBoundary, Starts, Free
  <2>2. CASE i # 0
    <3>1. i > 0 /\ i + 1 # 1 /\ i + 1 - 1 = i
      BY <2>2
    <3>2. buff[i + 1 - 1] # "#" <=> Free(r.data)
      BY <3>1 DEF Remembers
    <3> QED
      BY <3>1, <3>2 DEF IsBoundary, Starts
  <2> QED
    BY <2>1, <2>2
<1>4. i + 1 > 0
  OBVIOUS
<1> HIDE DEF Chars, Objects
<1>5. CASE ~r.inFrame
  <2>1. Between(FALSE, r.data, Onto(c, w), more)
    BY <1>2, <1>5 DEF Awaits, Within, Between
  <2>2. r.data = <<>>
    BY <2>1 DEF Between
  <2>3. CASE c = "$" /\ Within(TRUE, r.data, w, more)
    <3>1. Starts(c, r.data)
      BY <2>2, <2>3 DEF Starts, Free
    <3>2. q = [r EXCEPT !.inFrame = TRUE]
      BY <1>3, <1>5, <3>1 DEF Consume
    <3>3. q \in ReaderStates /\ q.inFrame = TRUE /\ q.data = r.data /\ q.texts = r.texts
      BY <3>2 DEF ReaderStates
    <3>4. Awaits(q.inFrame, q.data, w, more)
      BY <1>1, <2>3, <3>3 DEF Awaits
    <3>5. Remembers(buff, i + 1, q.data)
      BY <2>2, <2>3, <3>3 DEF Remembers, Free
    <3>6. After(q, w, rest)
      BY <1>2, <3>3, <3>4 DEF After
    <3> QED
      BY <3>3, <3>5, <3>6
  <2>4. CASE c = "\n" /\ Between(FALSE, r.data, w, more)
    <3>1. ~Starts(c, r.data)
      BY <2>4 DEF Starts
    <3>2. q = r
      BY <1>3, <1>5, <3>1 DEF Consume
    <3>4. Awaits(r.inFrame, r.data, w, more)
      BY <1>1, <1>5, <2>4 DEF Awaits
    <3>5. Remembers(buff, i + 1, r.data)
      BY <2>2, <2>4 DEF Remembers, Free
    <3>6. After(r, w, rest)
      BY <1>2, <3>4 DEF After
    <3> QED
      BY <3>2, <3>5, <3>6
  <2> QED
    BY <2>1, <2>3, <2>4, OutsideStep
<1>6. CASE r.inFrame
  <2>1. Within(TRUE, r.data, Onto(c, w), more)
    BY <1>2, <1>6 DEF Awaits, Within, Between
  <2>2. CASE Grows(c, r.data, w, more)
    <3>1. ~Starts(c, r.data) /\ Within(TRUE, Append(r.data, c), w, more)
      BY <2>2 DEF Grows
    <3>2. q = [r EXCEPT !.data = Append(@, c)]
      BY <1>3, <1>6, <3>1 DEF Consume
    <3>3. /\ Append(r.data, c) \in Seq(Chars) /\ Append(r.data, c) # <<>>
          /\ Last(Append(r.data, c)) = c
      <4> DEFINE d == r.data
      <4>1. d \in Seq(Chars)
        BY <1>1
      <4> HIDE DEF d
      <4>2. /\ Append(d, c) \in Seq(Chars) /\ Append(d, c) # <<>>
            /\ Len(Append(d, c)) = Len(d) + 1 /\ Append(d, c)[Len(d) + 1] = c
        BY <4>1, AppendProperties
      <4> QED
        BY <4>2 DEF d, Last
    <3>4. /\ q \in ReaderStates /\ q.inFrame = TRUE /\ q.data = Append(r.data, c)
          /\ q.texts = r.texts
      BY <1>6, <3>2, <3>3 DEF ReaderStates
    <3>5. Awaits(q.inFrame, q.data, w, more)
      BY <3>1, <3>3, <3>4 DEF Awaits
    <3>6. Remembers(buff, i + 1, q.data)
      BY <3>3, <3>4 DEF Remembers, Free
    <3>7. After(q, w, rest)
      BY <1>2, <3>4, <3>5 DEF After
    <3> QED
      BY <3>4, <3>6, <3>7
  <2>3. CASE Closes(c, r.data, w, more)
    <3>1. PICK o \in Objects, later \in Seq(Objects) :
            /\ more = <<o>> \o later /\ Unescape(r.data) = Plain(o)
            /\ Between(FALSE, <<>>, w, later)
      BY <2>3 DEF Closes
    <3>2. Starts(c, r.data) /\ c = "$"
      BY <2>3 DEF Closes, Starts
    <3>3. q = [inFrame |-> FALSE, data |-> <<>>, texts |-> Append(r.texts, Plain(o))]
      BY <1>3, <1>6, <3>1, <3>2 DEF Consume
    <3>4. /\ Append(taken, o) \in Seq(Objects)
          /\ TextsOf(Append(taken, o)) = Append(r.texts, Plain(o))
      BY <1>2, TextsAppend, AppendProperties
    <3>5. /\ q.inFrame = FALSE /\ q.data = <<>> /\ q.texts = TextsOf(Append(taken, o))
          /\ q \in ReaderStates
      <4>1. Plain(o) \in Seq(Chars) /\ Append(r.texts, Plain(o)) \in Seq(Seq(Chars)) /\ <<>> \in Seq(Chars)
        <5>1. Plain(o) \in Seq(Chars) /\ <<>> \in Seq(Chars)
          BY PlainTyped, EmptySeq
        <5>2. \A s \in Seq(Seq(Chars)), e \in Seq(Chars) : Append(s, e) \in Seq(Seq(Chars))
          BY AppendProperties
        <5> QED
          BY <1>1, <5>1, <5>2
      <4> DEFINE z == Append(r.texts, Plain(o))
      <4>2. q = [inFrame |-> FALSE, data |-> <<>>, texts |-> z] /\ z \in Seq(Seq(Chars))
            /\ z = TextsOf(Append(taken, o)) /\ <<>> \in Seq(Chars)
        BY <3>3, <3>4, <4>1
      <4> HIDE DEF z, q
      <4> QED
        BY <4>2 DEF ReaderStates
    <3>6. rest = Append(taken, o) \o later
      <4> DEFINE x == <<o>>
      <4>1. x \in Seq(Objects) /\ Append(taken, o) = taken \o x /\ rest = taken \o (x \o later)
        BY <1>2, <3>1, AppendIsConcat, OneElement
      <4> HIDE DEF x
      <4>2. Cat(Cat(taken, x), later) = Cat(taken, Cat(x, later))
        BY <4>1, CatAssociative
      <4> QED
        BY <4>1, <4>2 DEF Cat
    <3>7. Awaits(q.inFrame, q.data, w, later)
      BY <3>1, <3>5, EmptySeq DEF Awaits
    <3>8. Remembers(buff, i + 1, q.data)
      BY <3>2, <3>5 DEF Remembers, Free
    <3>9. After(q, w, rest)
      BY <3>4, <3>5, <3>6, <3>7 DEF After
    <3> QED
      BY <3>5, <3>8, <3>9
  <2> QED
    BY <1>1, <1>2, <2>1, <2>2, <2>3, InsideStep
<1> QED
  BY <1>1, <1>5, <1>6

(* One read of n characters: the reader gets the objects that they         *)
(* complete, all of them JSON, and awaits the others.                      *)
Rest(w, i) == SubSeq(w, i + 1, Len(w))

(* What is left to read, character by character.                           *)
LEMMA RestSteps ==
  ASSUME NEW w \in Seq(Chars), NEW n \in 1 .. Len(w)
  PROVE  /\ Rest(w, 0) = w
         /\ \A i \in 0 .. n - 1 : /\ i + 1 \in 1 .. Len(w) /\ w[i + 1] \in Chars
                                  /\ Rest(w, i + 1) \in Seq(Chars)
                                  /\ Rest(w, i) = Onto(w[i + 1], Rest(w, i + 1))
                                  /\ SubSeq(w, 1, n)[i + 1] = w[i + 1]
         /\ Len(SubSeq(w, 1, n)) = n /\ n \in Nat
<1> HIDE DEF Chars
<1>1. Len(w) \in Nat /\ \A i \in 1 .. Len(w) : w[i] \in Chars
  BY ElementOfSeq, LenProperties
<1>2. n \in Nat /\ n <= Len(w) /\ 1 <= n
  BY <1>1
<1>3. Rest(w, 0) = w
  BY SubSeqFull DEF Rest
<1>4. /\ Len(SubSeq(w, 1, n)) = n
      /\ \A i \in 1 .. n : SubSeq(w, 1, n)[i] = w[i]
  <2>1. \A i \in 1 .. n : w[i] \in Chars
    BY <1>1, <1>2
  <2>2. 1 \in Int /\ n \in Int
    BY <1>2
  <2>3. /\ Len(SubSeq(w, 1, n)) = IF 1 <= n THEN n - 1 + 1 ELSE 0
        /\ \A i \in 1 .. n - 1 + 1 : SubSeq(w, 1, n)[i] = w[1 + i - 1]
    BY <2>1, <2>2, SubSeqProperties
  <2>4. n - 1 + 1 = n /\ \A i \in 1 .. n : 1 + i - 1 = i
    BY <1>2
  <2> QED
    BY <1>2, <2>3, <2>4
<1>5. ASSUME NEW i \in 0 .. n - 1
      PROVE  /\ i + 1 \in 1 .. Len(w) /\ w[i + 1] \in Chars
             /\ Rest(w, i + 1) \in Seq(Chars)
             /\ Rest(w, i) = Onto(w[i + 1], Rest(w, i + 1))
             /\ SubSeq(w, 1, n)[i + 1] = w[i + 1]
  <2>1. i + 1 \in 1 .. Len(w) /\ Len(w) \in i + 1 .. Len(w) /\ i + 1 \in 1 .. n
    BY <1>1, <1>2
  <2>2. SubSeq(w, i + 1, Len(w)) = <<w[i + 1]>> \o SubSeq(w, i + 1 + 1, Len(w))
    BY <2>1, SubSeqRecursiveFirst
  <2>3. SubSeq(w, i + 1 + 1, Len(w)) \in Seq(Chars)
    <3>1. i + 1 + 1 \in Int /\ Len(w) \in Int
      BY <1>1, <2>1
    <3>2. \A j \in i + 1 + 1 .. Len(w) : w[j] \in Chars
      BY <1>1, <2>1
    <3> DEFINE l == i + 1 + 1
    <3>3. l \in Int /\ \A j \in l .. Len(w) : w[j] \in Chars
      BY <3>1, <3>2
    <3> HIDE DEF l
    <3>4. SubSeq(w, l, Len(w)) \in Seq(Chars)
      BY <3>1, <3>3, SubSeqProperties
    <3> QED
      BY <3>4 DEF l
  <2>4. Rest(w, i) = Onto(w[i + 1], Rest(w, i + 1))
    BY <2>2, Zenon DEF Rest, Onto
  <2>5. Rest(w, i + 1) \in Seq(Chars)
    BY <2>3 DEF Rest
  <2> QED
    BY <1>1, <1>4, <2>1, <2>4, <2>5
<1> QED
  BY <1>2, <1>3, <1>4, <1>5

(* One read, of any length.                                                *)
LEMMA ReadDelivers ==
  ASSUME NEW fr, NEW d, NEW w, NEW rest, Awaits(fr, d, w, rest), NEW n \in 1 .. Len(w)
  PROVE  LET r == HandleBuffer(SubSeq(w, 1, n), [inFrame |-> fr, data |-> d, texts |-> <<>>])
         IN  r \in ReaderStates /\ After(r, Rest(w, n), rest)
<1> DEFINE buff == SubSeq(w, 1, n)
           st == [inFrame |-> fr, data |-> d, texts |-> <<>>]
<1>1. fr \in BOOLEAN /\ d \in Seq(Chars) /\ w \in Seq(Chars) /\ rest \in Seq(Objects)
  BY DEF Awaits
<1>2. /\ Rest(w, 0) = w /\ Len(buff) = n /\ n \in Nat
      /\ \A i \in 0 .. n - 1 : /\ w[i + 1] \in Chars /\ Rest(w, i + 1) \in Seq(Chars)
                               /\ Rest(w, i) = Onto(w[i + 1], Rest(w, i + 1))
                               /\ buff[i + 1] = w[i + 1]
  BY <1>1, RestSteps
<1>3. st \in ReaderStates
  BY <1>1, EmptySeq DEF ReaderStates
<1>4. After(st, w, rest)
  <2> DEFINE none == <<>>
  <2>1. none \in Seq(Objects) /\ rest = none \o rest
    BY <1>1, EmptySeq, ConcatEmptySeq
  <2>2. TextsOf(none) = <<>>
    BY DEF TextsOf
  <2>3. st.texts = TextsOf(none) /\ st.inFrame = fr /\ st.data = d
    BY <2>2
  <2> HIDE DEF st, none
  <2> QED
    BY <1>1, <2>1, <2>3 DEF After
<1> HIDE DEF Chars, Objects, buff, st, ReaderStates
<1>5. PICK f : Chain(f, buff, st, n) /\ HandleBuffer(buff, st) = f[n]
  BY <1>2, HandleBufferIsChain
<1>6. f[0] = st /\ \A i \in 0 .. n - 1 : f[i + 1] = Consume(buff, f[i], i + 1)
  <2>1. \A i \in 0 .. n : f[i] = Link(f, buff, st, i)
    BY <1>5, ChainStep
  <2>2. ASSUME NEW i \in 0 .. n - 1
        PROVE  f[i + 1] = Consume(buff, f[i], i + 1)
    <3>1. i + 1 \in 0 .. n /\ i + 1 # 0 /\ i + 1 - 1 = i
      BY <1>2
    <3> QED
      BY <2>1, <3>1 DEF Link
  <2>3. f[0] = st
    <3>1. 0 \in 0 .. n
      BY <1>2
    <3> QED
      BY <2>1, <3>1 DEF Link
  <2> QED
    BY <2>2, <2>3
<1> DEFINE G(i) == f[i] \in ReaderStates /\ After(f[i], Rest(w, i), rest)
                   /\ Remembers(buff, i, f[i].data)
           S == {i \in Nat : i <= n => G(i)}
<1>7. 0 \in S
  <2>1. Remembers(buff, 0, f[0].data)
    BY DEF Remembers
  <2> QED
    BY <1>2, <1>3, <1>4, <1>6, <2>1
<1>8. ASSUME NEW i \in 0 .. n - 1, G(i)
      PROVE  G(i + 1)
  <2> DEFINE r == f[i]
             c == w[i + 1]
             v == Rest(w, i + 1)
  <2>1. i \in Nat /\ r \in ReaderStates /\ v \in Seq(Chars) /\ c \in Chars /\ c = buff[i + 1]
        /\ After(r, Onto(c, v), rest) /\ Remembers(buff, i, r.data)
    BY <1>2, <1>8
  <2>2. f[i + 1] = Consume(buff, r, i + 1)
    BY <1>6
  <2> HIDE DEF r, c, v
  <2>3. /\ Consume(buff, r, i + 1) \in ReaderStates
        /\ After(Consume(buff, r, i + 1), v, rest)
        /\ Remembers(buff, i + 1, Consume(buff, r, i + 1).data)
    BY <2>1, ConsumeStep
  <2> QED
    BY <2>2, <2>3 DEF v
<1>9. S = Nat
  <2>1. \A i \in Nat : i \in S <=> (i <= n => G(i))
    OBVIOUS
  <2>2. \A i \in 0 .. n - 1 : G(i) => G(i + 1)
    BY <1>8
  <2>3. S \in SUBSET Nat
    OBVIOUS
  <2> HIDE DEF S, G
  <2>4. \A i \in Nat : i \in S => i + 1 \in S
    <3> SUFFICES ASSUME NEW i \in Nat, i \in S, i + 1 <= n
                 PROVE  G(i + 1)
      BY <2>1
    <3>1. i \in 0 .. n - 1 /\ i <= n
      BY <1>2
    <3> QED
      BY <2>1, <2>2, <3>1
  <2> QED
    BY <1>7, <2>3, <2>4, SetInduction
<1>10. G(n)
  <2>1. n \in S
    BY <1>2, <1>9
  <2>2. n \in S => (n <= n => G(n))
    BY Zenon
  <2>3. n <= n
    BY <1>2
  <2> HIDE DEF S, G
  <2> QED
    BY <2>1, <2>2, <2>3
<1> QED
  BY <1>5, <1>10 DEF buff, st

(* What is decoded is what was written.                                    *)
LEMMA DecodesTaken ==
  ASSUME NEW taken \in Seq(Objects)
  PROVE  LET texts == TextsOf(taken)
         IN  /\ \A i \in DOMAIN texts : IsJson(texts[i])
             /\ [i \in DOMAIN texts |-> Decode(texts[i])] = taken
<1> HIDE DEF Objects
<1> DEFINE texts == TextsOf(taken)
<1>1. DOMAIN texts = 1 .. Len(taken) /\ \A i \in 1 .. Len(taken) : texts[i] = Plain(taken[i])
  BY DEF TextsOf
<1> HIDE DEF texts
<1>2. Len(taken) \in Nat /\ taken = [i \in 1 .. Len(taken) |-> taken[i]]
  BY LenProperties
<1>3. \A i \in 1 .. Len(taken) : taken[i] \in Objects
  BY ElementOfSeq
<1>4. \A i \in 1 .. Len(taken) : IsJson(texts[i]) /\ Decode(texts[i]) = taken[i]
  BY <1>1, <1>3, PlainIsJson
<1>5. [i \in 1 .. Len(taken) |-> Decode(texts[i])] = [i \in 1 .. Len(taken) |-> taken[i]]
  BY <1>4
<1>6. [i \in DOMAIN texts |-> Decode(texts[i])] = taken
  BY <1>1, <1>2, <1>5, Zenon
<1> QED
  BY <1>1, <1>4, <1>6 DEF texts

-----------------------------------------------------------------------------
(* The streams.                                                            *)

Steps == {"start", "units", "strings", "literals", "modules", "typeinfo",
          "end", "stopped", "dead"}

TypeInv ==
  /\ file \in Files
  /\ step \in Steps
  /\ units \in Nat
  /\ literals \in Seq(Texts)
  /\ modules \in Seq(Files)
  /\ sent \in [Files -> Seq(Objects)]
  /\ wire \in [Files -> Seq(Chars)]
  /\ open \in [Files -> BOOLEAN]
  /\ inFrame \in [Files -> BOOLEAN]
  /\ data \in [Files -> Seq(Chars)]
  /\ received \in [Files -> Seq(Objects)]
  /\ child \in [Files -> {"none", "reading", "emitted"}]

(* What a child has received, and what is on its way to it, is what was    *)
(* sent.                                                                   *)
OnItsWay(s, r, fr, d, w) ==
  \E rest \in Seq(Objects) : s = r \o rest /\ Awaits(fr, d, w, rest)

StreamInv ==
  \A f \in Files : OnItsWay(sent[f], received[f], inFrame[f], data[f], wire[f])

PipeInv == TypeInv /\ StreamInv

(* What the parent writes are objects.                                     *)
LEMMA ObjTyped ==
  /\ \A text \in Texts \cup {<<>>}, kind \in Kinds : Obj(kind, text) \in Objects
  /\ {"options", "function", "string", "literal", "module", "typeinfo"} \subseteq Kinds
BY DEF Obj, Objects, Kinds

(* An object more in a stream.                                             *)
LEMMA WriteStream ==
  ASSUME NEW s \in Seq(Objects), NEW r \in Seq(Objects), NEW fr, NEW d, NEW w,
         NEW o \in Objects, OnItsWay(s, r, fr, d, w)
  PROVE  OnItsWay(Append(s, o), r, fr, d, w \o Encode(o)) /\ w \o Encode(o) \in Seq(Chars)
<1> HIDE DEF Objects, Chars
<1>1. PICK rest \in Seq(Objects) : s = r \o rest /\ Awaits(fr, d, w, rest)
  BY DEF OnItsWay
<1> DEFINE next == Append(rest, o)
           e == Encode(o)
<1>2. next \in Seq(Objects) /\ Append(s, o) = r \o next
  <2>1. Cat(r, Append(rest, o)) = Append(Cat(r, rest), o)
    BY ConcatAppend DEF Cat
  <2>2. s = Cat(r, rest)
    BY <1>1, Zenon DEF Cat
  <2>3. Append(s, o) = Cat(r, next)
    BY <2>1, <2>2
  <2>4. next \in Seq(Objects)
    BY AppendProperties
  <2> QED
    BY <2>3, <2>4, Zenon DEF Cat
<1>3. /\ fr \in BOOLEAN /\ d \in Seq(Chars) /\ w \in Seq(Chars) /\ e \in Seq(Chars)
      /\ Between(fr, d, w, rest) \/ Within(fr, d, w, rest)
  BY <1>1, EncodeTyped DEF Awaits
<1>4. EncodeAll(next) = EncodeAll(rest) \o e /\ EncodeAll(rest) \in Seq(Chars)
      /\ EncodeAll(next) \in Seq(Chars)
  BY <1>2, EncodeAllBlocks
<1>5. w \o e \in Seq(Chars)
  BY <1>3, ConcatProperties
<1>6. CASE Between(fr, d, w, rest)
  <2> DEFINE n == <<"\n">>
  <2>1. n \in Seq(Chars)
    BY EncodeTyped
  <2>2. ~fr /\ d = <<>> /\ (w = EncodeAll(rest) \/ w = n \o EncodeAll(rest))
    BY <1>6 DEF Between
  <2> HIDE DEF n
  <2>3. CASE w = EncodeAll(rest)
    <3>1. w \o e = EncodeAll(next)
      BY <1>4, <2>3
    <3>2. Between(fr, d, w \o e, next)
      BY <2>2, <3>1 DEF Between
    <3> QED
      BY <1>1, <1>2, <1>3, <1>5, <3>2 DEF OnItsWay, Awaits
  <2>4. CASE w = n \o EncodeAll(rest)
    <3>1. Cat(Cat(n, EncodeAll(rest)), e) = Cat(n, Cat(EncodeAll(rest), e))
      BY <1>3, <1>4, <2>1, CatAssociative
    <3>2. w \o e = n \o EncodeAll(next)
      <4>1. Cat(w, e) = Cat(n, EncodeAll(next))
        <5>1. w = Cat(n, EncodeAll(rest)) /\ EncodeAll(next) = Cat(EncodeAll(rest), e)
          BY <1>4, <2>4 DEF Cat
        <5> QED
          BY <3>1, <5>1
      <4> QED
        BY <4>1, Zenon DEF Cat
    <3>3. Between(fr, d, w \o e, next)
      BY <2>2, <3>2 DEF Between, n
    <3> QED
      BY <1>1, <1>2, <1>3, <1>5, <3>3 DEF OnItsWay, Awaits
  <2> QED
    BY <2>2, <2>3, <2>4
<1>7. CASE Within(fr, d, w, rest)
  <2>1. PICK x \in Objects, more \in Seq(Objects), left \in Seq(Chars) :
          rest = <<x>> \o more /\ Tails(d, w, x, more, left)
    BY <1>7 DEF Within
  <2> DEFINE later == Append(more, o)
             m == EncodeAll(more)
             xx == <<x>>
  <2>2. later \in Seq(Objects) /\ next = <<x>> \o later
    <3>1. xx \in Seq(Objects) /\ rest = xx \o more
      BY <2>1, OneElement
    <3> HIDE DEF xx
    <3>2. xx \o Append(more, o) = Append(xx \o more, o) /\ later \in Seq(Objects)
      BY <3>1, ConcatAppend, AppendProperties
    <3> QED
      BY <3>1, <3>2 DEF xx
  <2>3. EncodeAll(later) = m \o e /\ m \in Seq(Chars)
    BY EncodeAllBlocks
  <2>4. Frame(x) = d \o left /\ w = left \o (Ending \o m) /\ Ending \in Seq(Chars)
    BY <2>1, EncodeTyped DEF Tails
  <2> HIDE DEF m, e, Ending
  <2>5. w \o e = left \o (Ending \o EncodeAll(later))
    <3>1. Cat(Ending, m) \in Seq(Chars)
      BY <2>3, <2>4, ConcatProperties DEF Cat
    <3>2. Cat(Cat(left, Cat(Ending, m)), e) = Cat(left, Cat(Cat(Ending, m), e))
      BY <1>3, <3>1, CatAssociative
    <3>3. Cat(Cat(Ending, m), e) = Cat(Ending, Cat(m, e))
      BY <1>3, <2>3, <2>4, CatAssociative
    <3>4. w = Cat(left, Cat(Ending, m)) /\ EncodeAll(later) = Cat(m, e)
      BY <2>3, <2>4 DEF Cat
    <3>5. Cat(w, e) = Cat(left, Cat(Ending, EncodeAll(later)))
      BY <3>2, <3>3, <3>4
    <3> QED
      BY <3>5, Zenon DEF Cat
  <2>6. Tails(d, w \o e, x, later, left)
    BY <2>4, <2>5 DEF Tails
  <2>7. Within(fr, d, w \o e, next)
    <3>1. fr
      BY <1>7 DEF Within
    <3> HIDE DEF later, next
    <3> QED
      BY <2>1, <2>2, <2>6, <3>1 DEF Within
  <2> QED
    BY <1>1, <1>2, <1>3, <1>5, <2>7 DEF OnItsWay, Awaits, e
<1> QED
  BY <1>3, <1>5, <1>6, <1>7

(* A read of a child.                                                      *)
LEMMA ReadStream ==
  ASSUME NEW s \in Seq(Objects), NEW r \in Seq(Objects), NEW fr, NEW d, NEW w,
         OnItsWay(s, r, fr, d, w), NEW n \in 1 .. Len(w)
  PROVE  LET q == HandleBuffer(SubSeq(w, 1, n), [inFrame |-> fr, data |-> d, texts |-> <<>>])
             more == [i \in DOMAIN q.texts |-> Decode(q.texts[i])]
         IN  /\ \A i \in DOMAIN q.texts : IsJson(q.texts[i])
             /\ more \in Seq(Objects)
             /\ q \in ReaderStates /\ Rest(w, n) \in Seq(Chars)
             /\ OnItsWay(s, r \o more, q.inFrame, q.data, Rest(w, n))
<1> HIDE DEF Objects, Chars, ReaderStates
<1> DEFINE q == HandleBuffer(SubSeq(w, 1, n), [inFrame |-> fr, data |-> d, texts |-> <<>>])
           more == [i \in DOMAIN q.texts |-> Decode(q.texts[i])]
<1>1. PICK rest \in Seq(Objects) : s = r \o rest /\ Awaits(fr, d, w, rest)
  BY DEF OnItsWay
<1>2. q \in ReaderStates /\ After(q, Rest(w, n), rest)
  BY <1>1, ReadDelivers
<1> HIDE DEF q
<1>3. PICK taken \in Seq(Objects), later \in Seq(Objects) :
        /\ rest = taken \o later /\ q.texts = TextsOf(taken)
        /\ Awaits(q.inFrame, q.data, Rest(w, n), later)
  BY <1>2 DEF After
<1>4. (\A i \in DOMAIN q.texts : IsJson(q.texts[i])) /\ more = taken
  BY <1>3, DecodesTaken
<1>5. s = (r \o taken) \o later
  <2>1. Cat(Cat(r, taken), later) = Cat(r, Cat(taken, later))
    BY CatAssociative
  <2>2. s = Cat(r, Cat(taken, later))
    BY <1>1, <1>3, Zenon DEF Cat
  <2>3. s = Cat(Cat(r, taken), later)
    BY <2>1, <2>2
  <2> QED
    BY <2>3, Zenon DEF Cat
<1>6. Rest(w, n) \in Seq(Chars)
  BY <1>3 DEF Awaits
<1>7. OnItsWay(s, r \o taken, q.inFrame, q.data, Rest(w, n))
  BY <1>3, <1>5, Zenon DEF OnItsWay
<1> HIDE DEF more
<1> QED
  BY <1>2, <1>4, <1>6, <1>7 DEF q, more

(* The objects of a kind in a stream can be counted.                       *)
CountOf(s, kind) == Cardinality({i \in DOMAIN s : s[i].kind = kind})

(* An object more is counted when it is of that kind.                      *)
LEMMA CountAppend ==
  ASSUME NEW s \in Seq(Objects), NEW o \in Objects, NEW kind
  PROVE  /\ CountOf(s, kind) \in Nat
         /\ CountOf(Append(s, o), kind) = CountOf(s, kind) + IF o.kind = kind THEN 1 ELSE 0
<1> HIDE DEF Objects
<1> DEFINE n == Len(s)
           p == Append(s, o)
           S == {i \in DOMAIN s : s[i].kind = kind}
           T == {i \in DOMAIN p : p[i].kind = kind}
<1>1. /\ n \in Nat /\ DOMAIN s = 1 .. n
      /\ p \in Seq(Objects) /\ Len(p) = n + 1 /\ DOMAIN p = 1 .. n + 1
      /\ \A i \in 1 .. n : p[i] = s[i]
      /\ p[n + 1] = o
  BY AppendProperties, LenProperties
<1>2. IsFiniteSet(1 .. n)
  BY <1>1, FS_Interval
<1>3. IsFiniteSet(S)
  BY <1>1, <1>2, FS_Subset
<1>4. Cardinality(S) \in Nat
  BY <1>3, FS_CardinalityType
<1> HIDE DEF p, n
<1>5. n + 1 \notin S
  BY <1>1
<1>6. CASE o.kind = kind
  <2>1. T = S \cup {n + 1}
    BY <1>1, <1>6
  <2> HIDE DEF S, T
  <2>2. Cardinality(T) = Cardinality(S) + 1
    BY <1>3, <1>5, <2>1, FS_AddElement
  <2> QED
    BY <1>4, <1>6, <2>2 DEF CountOf, S, T, p
<1>7. CASE o.kind # kind
  <2>1. T = S
    BY <1>1, <1>7
  <2>2. CountOf(s, kind) = Cardinality(S) /\ CountOf(p, kind) = Cardinality(T)
    BY DEF CountOf
  <2> HIDE DEF S, T
  <2> QED
    BY <1>4, <1>7, <2>1, <2>2 DEF p
<1> QED
  BY <1>6, <1>7

(* Count is CountOf, a number.                                             *)
LEMMA CountIsNat ==
  ASSUME TypeInv, NEW kind
  PROVE  Count(kind) \in Nat /\ Count(kind) = CountOf(sent[file], kind)
<1> HIDE DEF Objects
<1>1. sent[file] \in Seq(Objects)
  BY DEF TypeInv
<1>2. Count(kind) = CountOf(sent[file], kind)
  BY DEF Count, CountOf
<1>3. CASE \E o : o \in Objects
  BY <1>1, <1>2, <1>3, CountAppend
<1>4. Obj("options", <<>>) \in Objects
  BY ObjTyped
<1> QED
  BY <1>3, <1>4

(* A stream is the beginning of a longer one.                              *)
LEMMA ConcatIsLonger ==
  ASSUME NEW S, NEW s \in Seq(S), NEW t \in Seq(S)
  PROVE  IsPrefix(s, s \o t)
<1>1. /\ Len(s \o t) = Len(s) + Len(t) /\ s \o t \in Seq(S)
      /\ \A i \in 1 .. Len(s) + Len(t) :
           (s \o t)[i] = IF i <= Len(s) THEN s[i] ELSE t[i - Len(s)]
  BY ConcatProperties
<1>2. Len(s) \in Nat /\ Len(t) \in Nat
  BY LenProperties
<1>3. Len(s) <= Len(s \o t)
  BY <1>1, <1>2
<1>4. SubSeq(s, 1, Len(s)) = s
  BY SubSeqFull
<1> DEFINE p == s \o t
           l == Len(s)
<1>5. \A i \in 1 .. l : p[i] = s[i] /\ p[i] \in S
  BY <1>1, <1>2, ElementOfSeq
<1>6. l \in Int /\ 1 \in Int
  BY <1>2
<1> HIDE DEF p, l
<1>7. /\ SubSeq(p, 1, l) \in Seq(S)
      /\ Len(SubSeq(p, 1, l)) = IF 1 <= l THEN l - 1 + 1 ELSE 0
      /\ \A i \in 1 .. l - 1 + 1 : SubSeq(p, 1, l)[i] = p[1 + i - 1]
  BY <1>5, <1>6, SubSeqProperties
<1>8. l \in Nat
  BY <1>2 DEF l
<1>9. Len(SubSeq(p, 1, l)) = l /\ \A i \in 1 .. l : SubSeq(p, 1, l)[i] = s[i]
  <2>1. l - 1 + 1 = l /\ \A i \in 1 .. l : 1 + i - 1 = i
    BY <1>8
  <2> QED
    BY <1>5, <1>7, <1>8, <2>1
<1>10. SubSeq(p, 1, l) = s
  BY <1>7, <1>9, SeqEqual DEF l
<1> QED
  BY <1>3, <1>4, <1>10 DEF IsPrefix, p, l

(* The state at the beginning.                                             *)
LEMMA PipeInit ==
  Init => PipeInv
<1> HIDE DEF Objects, Chars
<1> SUFFICES ASSUME Init
             PROVE  PipeInv
  OBVIOUS
<1>1. 1 \in Files
  BY PipeAssumption DEF Files
<1>2. TypeInv
  BY <1>1, EmptySeq DEF Init, TypeInv, Steps
<1>3. ASSUME NEW f \in Files
      PROVE  OnItsWay(sent[f], received[f], inFrame[f], data[f], wire[f])
  <2>1. /\ sent[f] = <<>> /\ received[f] = <<>> /\ inFrame[f] = FALSE
        /\ data[f] = <<>> /\ wire[f] = <<>>
    BY DEF Init
  <2> DEFINE none == <<>>
  <2>2. none \in Seq(Objects) /\ none \in Seq(Chars) /\ none \o none = none
        /\ EncodeAll(none) = none
    BY EmptySeq, EncodeAllBlocks
  <2>3. Between(FALSE, none, none, none)
    BY <2>2 DEF Between
  <2> HIDE DEF none
  <2>4. Awaits(FALSE, none, none, none)
    BY <2>2, <2>3 DEF Awaits
  <2>5. OnItsWay(none, none, FALSE, none, none)
    BY <2>2, <2>4 DEF OnItsWay
  <2> QED
    BY <2>1, <2>5 DEF none
<1> QED
  BY <1>2, <1>3 DEF PipeInv, StreamInv

(* An object is written, or nothing; no child reads.                       *)
LEMMA WriteKeeps ==
  ASSUME PipeInv, NEW o \in Objects, Write(o), UNCHANGED <<inFrame, data, received>>
  PROVE  /\ StreamInv'
         /\ sent' \in [Files -> Seq(Objects)] /\ wire' \in [Files -> Seq(Chars)]
<1> HIDE DEF Objects, Chars
<1>1. /\ file \in Files /\ sent \in [Files -> Seq(Objects)] /\ wire \in [Files -> Seq(Chars)]
      /\ received \in [Files -> Seq(Objects)]
  BY DEF PipeInv, TypeInv
<1>2. /\ sent' = [sent EXCEPT ![file] = Append(sent[file], o)]
      /\ wire' = [wire EXCEPT ![file] = wire[file] \o Encode(o)]
  BY DEF Write
<1>3. OnItsWay(sent[file], received[file], inFrame[file], data[file], wire[file])
  BY <1>1 DEF PipeInv, StreamInv
<1> DEFINE s1 == Append(sent[file], o)
           w1 == wire[file] \o Encode(o)
<1>4. /\ OnItsWay(s1, received[file], inFrame[file], data[file], w1)
      /\ w1 \in Seq(Chars) /\ s1 \in Seq(Objects)
  BY <1>1, <1>3, WriteStream, AppendProperties
<1>5. sent' = [sent EXCEPT ![file] = s1] /\ wire' = [wire EXCEPT ![file] = w1]
  BY <1>2
<1> HIDE DEF s1, w1
<1>6. ASSUME NEW f \in Files
      PROVE  OnItsWay(sent'[f], received'[f], inFrame'[f], data'[f], wire'[f])
  <2>1. CASE f = file
    <3>1. sent'[f] = s1 /\ wire'[f] = w1
      BY <1>1, <1>5, <2>1
    <3> QED
      BY <1>4, <2>1, <3>1
  <2>2. CASE f # file
    <3>1. sent'[f] = sent[f] /\ wire'[f] = wire[f]
      BY <1>1, <1>5, <2>2
    <3> QED
      BY <3>1 DEF PipeInv, StreamInv
  <2> QED
    BY <2>1, <2>2
<1>7. StreamInv'
  BY <1>6 DEF StreamInv
<1>8. sent' \in [Files -> Seq(Objects)] /\ wire' \in [Files -> Seq(Chars)]
  BY <1>1, <1>4, <1>5
<1> QED
  BY <1>7, <1>8

(* Nothing is written, and no child reads.                                 *)
LEMMA NoWriteKeeps ==
  ASSUME PipeInv, UNCHANGED <<sent, wire, inFrame, data, received>>
  PROVE  /\ StreamInv'
         /\ sent' \in [Files -> Seq(Objects)] /\ wire' \in [Files -> Seq(Chars)]
BY DEF PipeInv, TypeInv, StreamInv

(* What a read does to the stream of its file.                             *)
LEMMA ReadDoes ==
  ASSUME PipeInv, NEW f \in Files, NEW n \in 1 .. Min({BufSize, Len(wire[f])}), Read(f, n)
  PROVE  \E fr \in BOOLEAN, d \in Seq(Chars), more \in Seq(Objects), w \in Seq(Chars) :
           /\ OnItsWay(sent[f], received[f] \o more, fr, d, w)
           /\ inFrame' = [inFrame EXCEPT ![f] = fr]
           /\ data' = [data EXCEPT ![f] = d]
           /\ received' = [received EXCEPT ![f] = received[f] \o more]
           /\ wire' = [wire EXCEPT ![f] = w]
           /\ UNCHANGED child
<1> HIDE DEF Objects, Chars
<1>1. /\ sent[f] \in Seq(Objects) /\ received[f] \in Seq(Objects) /\ wire[f] \in Seq(Chars)
      /\ OnItsWay(sent[f], received[f], inFrame[f], data[f], wire[f])
  BY DEF PipeInv, TypeInv, StreamInv
<1>2. n \in 1 .. Len(wire[f])
  <2>1. BufSize \in Nat /\ Len(wire[f]) \in Nat
    BY <1>1, PipeAssumption, LenProperties
  <2>2. Min({BufSize, Len(wire[f])}) \in Int /\ Min({BufSize, Len(wire[f])}) <= Len(wire[f])
    <3> DEFINE S == {BufSize, Len(wire[f])}
    <3>1. \E x \in S : \A y \in S : x <= y
      BY <2>1
    <3>2. Min(S) \in S /\ \A y \in S : Min(S) <= y
      BY <3>1 DEF Min
    <3> QED
      BY <2>1, <3>2
  <2> QED
    BY <2>1, <2>2
<1> DEFINE q == HandleBuffer(SubSeq(wire[f], 1, n),
                   [inFrame |-> inFrame[f], data |-> data[f], texts |-> <<>>])
           more == [i \in DOMAIN q.texts |-> Decode(q.texts[i])]
<1>3. /\ \A i \in DOMAIN q.texts : IsJson(q.texts[i])
      /\ more \in Seq(Objects)
      /\ q \in ReaderStates /\ Rest(wire[f], n) \in Seq(Chars)
      /\ OnItsWay(sent[f], received[f] \o more, q.inFrame, q.data, Rest(wire[f], n))
  BY <1>1, <1>2, ReadStream
<1>4. /\ inFrame' = [inFrame EXCEPT ![f] = q.inFrame]
      /\ data' = [data EXCEPT ![f] = q.data]
      /\ wire' = [wire EXCEPT ![f] = Rest(wire[f], n)]
  BY DEF Read, Rest
<1>5. received' = [received EXCEPT ![f] = received[f] \o more] /\ UNCHANGED child
  BY <1>3 DEF Read
<1> HIDE DEF q, more
<1>6. q.inFrame \in BOOLEAN /\ q.data \in Seq(Chars)
  BY <1>3 DEF ReaderStates
<1> QED
  BY <1>3, <1>4, <1>5, <1>6

(* A read leaves the streams as they should be.                            *)
LEMMA ReadKeeps ==
  ASSUME PipeInv, NEW f \in Files, NEW n \in 1 .. Min({BufSize, Len(wire[f])}), Read(f, n)
  PROVE  PipeInv'
<1> HIDE DEF Objects, Chars
<1>1. PICK fr \in BOOLEAN, d \in Seq(Chars), more \in Seq(Objects), w \in Seq(Chars) :
           /\ OnItsWay(sent[f], received[f] \o more, fr, d, w)
           /\ inFrame' = [inFrame EXCEPT ![f] = fr]
           /\ data' = [data EXCEPT ![f] = d]
           /\ received' = [received EXCEPT ![f] = received[f] \o more]
           /\ wire' = [wire EXCEPT ![f] = w]
           /\ UNCHANGED child
  BY ReadDoes
<1>2. UNCHANGED <<file, step, units, literals, modules, uses, sent, open>>
  BY DEF Read, parent
<1>3. TypeInv
  BY DEF PipeInv
<1> DEFINE r1 == received[f] \o more
<1>4. r1 \in Seq(Objects) /\ received' = [received EXCEPT ![f] = r1]
      /\ OnItsWay(sent[f], r1, fr, d, w)
  <2>1. received[f] \in Seq(Objects)
    BY <1>3 DEF TypeInv
  <2> DEFINE r0 == received[f]
  <2>2. r0 \in Seq(Objects)
    BY <2>1
  <2> HIDE DEF r0
  <2>3. r0 \o more \in Seq(Objects)
    BY <2>2, ConcatProperties
  <2> QED
    BY <1>1, <2>3 DEF r0
<1> HIDE DEF r1
<1>5. ASSUME NEW g \in Files
      PROVE  OnItsWay(sent'[g], received'[g], inFrame'[g], data'[g], wire'[g])
  <2>1. CASE g = f
    <3>1. received'[g] = r1 /\ inFrame'[g] = fr /\ data'[g] = d /\ wire'[g] = w /\ sent'[g] = sent[f]
      BY <1>1, <1>2, <1>3, <1>4, <2>1 DEF TypeInv
    <3> QED
      BY <1>4, <3>1
  <2>2. CASE g # f
    <3>1. /\ received'[g] = received[g] /\ inFrame'[g] = inFrame[g] /\ data'[g] = data[g]
          /\ wire'[g] = wire[g] /\ sent'[g] = sent[g]
      BY <1>1, <1>2, <1>3, <1>4, <2>2 DEF TypeInv
    <3> QED
      BY <3>1 DEF PipeInv, StreamInv
  <2> QED
    BY <2>1, <2>2
<1>6. StreamInv'
  BY <1>5 DEF StreamInv
<1>7. TypeInv'
  BY <1>1, <1>2, <1>3, <1>4 DEF TypeInv
<1> QED
  BY <1>6, <1>7 DEF PipeInv

(* Every step of the parent.                                               *)
LEMMA ParentKeeps ==
  ASSUME PipeInv, Parent
  PROVE  PipeInv'
<1> USE ObjTyped
<1>1. TypeInv
  BY DEF PipeInv
<1>2. CASE Start
  <2>1. Obj("options", <<>>) \in Objects
    BY ObjTyped
  <2>2. Write(Obj("options", <<>>)) /\ UNCHANGED <<inFrame, data, received>>
    BY <1>2 DEF Start
  <2>3. /\ StreamInv'
        /\ sent' \in [Files -> Seq(Objects)] /\ wire' \in [Files -> Seq(Chars)]
    BY <2>1, <2>2, WriteKeeps
  <2> HIDE DEF Objects, Chars
  <2>4. TypeInv'
    BY <1>1, <1>2, <2>3, EmptySeq DEF Start, TypeInv, Steps
  <2> QED
    BY <2>3, <2>4 DEF PipeInv
<1>3. ASSUME NEW text \in Texts, NEW newLiteral \in BOOLEAN, CompileUnit(text, newLiteral)
      PROVE  PipeInv'
  <2>1. Obj("function", text) \in Objects
    BY ObjTyped
  <2>2. Write(Obj("function", text)) /\ UNCHANGED <<inFrame, data, received>>
    BY <1>3 DEF CompileUnit, reader
  <2>3. /\ StreamInv'
        /\ sent' \in [Files -> Seq(Objects)] /\ wire' \in [Files -> Seq(Chars)]
    BY <2>1, <2>2, WriteKeeps
  <2> HIDE DEF Objects, Chars
  <2>4. literals' \in Seq(Texts)
    <3>1. literals \in Seq(Texts)
      BY <1>1 DEF TypeInv
    <3>2. literals' = Append(literals, text) \/ literals' = literals
      BY <1>3 DEF CompileUnit
    <3> QED
      BY <3>1, <3>2, AppendProperties
  <2>5. modules' \in Seq(Files) /\ step' \in Steps
    <3>1. modules \in Seq(Files) /\ file \in Files /\ step \in Steps
      BY <1>1 DEF TypeInv
    <3>2. (modules' = modules /\ step' = step) \/ (modules' = Append(modules, file) /\ step' = "strings")
      BY <1>3 DEF CompileUnit
    <3> QED
      BY <3>1, <3>2, AppendProperties DEF Steps
  <2>6. UNCHANGED <<file, open, inFrame, data, received, child>> /\ units' \in Nat
    BY <1>1, <1>3 DEF CompileUnit, reader, TypeInv
  <2>7. TypeInv'
    BY <1>1, <2>3, <2>4, <2>5, <2>6 DEF TypeInv
  <2> QED
    BY <2>3, <2>7 DEF PipeInv
<1>4. CASE Throw
  <2>1. UNCHANGED <<sent, wire, inFrame, data, received>>
    BY <1>4 DEF Throw, reader
  <2>2. /\ StreamInv'
        /\ sent' \in [Files -> Seq(Objects)] /\ wire' \in [Files -> Seq(Chars)]
    BY <2>1, NoWriteKeeps
  <2> HIDE DEF Objects, Chars
  <2>3. TypeInv'
    BY <1>1, <1>4, <2>2 DEF Throw, reader, TypeInv, Steps
  <2> QED
    BY <2>2, <2>3 DEF PipeInv
<1>5. CASE DumpStrings
  <2>1. Obj("string", <<>>) \in Objects
    BY ObjTyped
  <2>2. Write(Obj("string", <<>>)) /\ UNCHANGED <<inFrame, data, received>>
    BY <1>5 DEF DumpStrings, reader
  <2>3. /\ StreamInv'
        /\ sent' \in [Files -> Seq(Objects)] /\ wire' \in [Files -> Seq(Chars)]
    BY <2>1, <2>2, WriteKeeps
  <2> HIDE DEF Objects, Chars
  <2>4. TypeInv'
    BY <1>1, <1>5, <2>3 DEF DumpStrings, reader, TypeInv, Steps
  <2> QED
    BY <2>3, <2>4 DEF PipeInv
<1>6. CASE DumpConstantPool
  <2>1. CASE Count("literal") < Len(literals)
    <3>1. literals[Count("literal") + 1] \in Texts
      <4>1. literals \in Seq(Texts) /\ Len(literals) \in Nat
        BY <1>1, LenProperties DEF TypeInv
      <4>2. Count("literal") \in Nat
        BY <1>1, CountIsNat
      <4>3. Count("literal") + 1 \in 1 .. Len(literals)
        BY <2>1, <4>1, <4>2
      <4> QED
        BY <4>1, <4>3, ElementOfSeq
    <3>2. Obj("literal", literals[Count("literal") + 1]) \in Objects
      BY <3>1, ObjTyped
    <3>3. /\ Write(Obj("literal", literals[Count("literal") + 1]))
          /\ UNCHANGED <<inFrame, data, received>>
      BY <1>6, <2>1 DEF DumpConstantPool, reader
    <3>4. /\ StreamInv'
          /\ sent' \in [Files -> Seq(Objects)] /\ wire' \in [Files -> Seq(Chars)]
      BY <3>2, <3>3, WriteKeeps
    <3> HIDE DEF Objects, Chars
    <3>5. TypeInv'
      BY <1>1, <1>6, <2>1, <3>4 DEF DumpConstantPool, reader, TypeInv
    <3> QED
      BY <3>4, <3>5 DEF PipeInv
  <2>2. CASE ~(Count("literal") < Len(literals))
    <3>1. UNCHANGED <<sent, wire, inFrame, data, received>> /\ step' = "modules"
      BY <1>6, <2>2 DEF DumpConstantPool, reader
    <3>2. /\ StreamInv'
          /\ sent' \in [Files -> Seq(Objects)] /\ wire' \in [Files -> Seq(Chars)]
      BY <3>1, NoWriteKeeps
    <3> HIDE DEF Objects, Chars
    <3>3. TypeInv'
      BY <1>1, <1>6, <3>1, <3>2 DEF DumpConstantPool, reader, TypeInv, Steps
    <3> QED
      BY <3>2, <3>3 DEF PipeInv
  <2> QED
    BY <2>1, <2>2
<1>7. CASE DumpModuleRecords
  <2>1. CASE Count("module") < Len(modules)
    <3>2. Obj("module", <<>>) \in Objects
      BY ObjTyped
    <3>3. Write(Obj("module", <<>>)) /\ UNCHANGED <<inFrame, data, received>>
      BY <1>7, <2>1 DEF DumpModuleRecords, reader
    <3>4. /\ StreamInv'
          /\ sent' \in [Files -> Seq(Objects)] /\ wire' \in [Files -> Seq(Chars)]
      BY <3>2, <3>3, WriteKeeps
    <3> HIDE DEF Objects, Chars
    <3>5. TypeInv'
      BY <1>1, <1>7, <2>1, <3>4 DEF DumpModuleRecords, reader, TypeInv
    <3> QED
      BY <3>4, <3>5 DEF PipeInv
  <2>2. CASE ~(Count("module") < Len(modules))
    <3>1. UNCHANGED <<sent, wire, inFrame, data, received>> /\ step' = "typeinfo"
      BY <1>7, <2>2 DEF DumpModuleRecords, reader
    <3>2. /\ StreamInv'
          /\ sent' \in [Files -> Seq(Objects)] /\ wire' \in [Files -> Seq(Chars)]
      BY <3>1, NoWriteKeeps
    <3> HIDE DEF Objects, Chars
    <3>3. TypeInv'
      BY <1>1, <1>7, <3>1, <3>2 DEF DumpModuleRecords, reader, TypeInv, Steps
    <3> QED
      BY <3>2, <3>3 DEF PipeInv
  <2> QED
    BY <2>1, <2>2
<1>8. CASE DumpTypeInfo
  <2>1. Obj("typeinfo", <<>>) \in Objects
    BY ObjTyped
  <2>2. Write(Obj("typeinfo", <<>>)) /\ UNCHANGED <<inFrame, data, received>>
    BY <1>8 DEF DumpTypeInfo, reader
  <2>3. /\ StreamInv'
        /\ sent' \in [Files -> Seq(Objects)] /\ wire' \in [Files -> Seq(Chars)]
    BY <2>1, <2>2, WriteKeeps
  <2> HIDE DEF Objects, Chars
  <2>4. TypeInv'
    BY <1>1, <1>8, <2>3 DEF DumpTypeInfo, reader, TypeInv, Steps
  <2> QED
    BY <2>3, <2>4 DEF PipeInv
<1>9. CASE Finish
  <2>1. UNCHANGED <<sent, wire, inFrame, data, received, child, units>>
    BY <1>9 DEF Finish, reader
  <2>2. /\ StreamInv'
        /\ sent' \in [Files -> Seq(Objects)] /\ wire' \in [Files -> Seq(Chars)]
    BY <2>1, NoWriteKeeps
  <2>3. file' \in Files /\ step' \in Steps
    <3>1. file \in Nat /\ 1 <= file /\ file <= NumFiles /\ NumFiles \in Nat
      BY <1>1, PipeAssumption DEF TypeInv, Files
    <3>2. \/ file < NumFiles /\ file' = file + 1 /\ step' = "start"
          \/ file' = file /\ step' = "stopped"
      BY <1>9 DEF Finish
    <3>3. file' \in Nat /\ 1 <= file' /\ file' <= NumFiles
      BY <3>1, <3>2
    <3> QED
      BY <3>1, <3>2, <3>3 DEF Files, Steps
  <2> HIDE DEF Objects, Chars
  <2>4. open' \in [Files -> BOOLEAN] /\ literals' = <<>> /\ modules' = <<>>
    BY <1>1, <1>9 DEF Finish, TypeInv
  <2>5. TypeInv'
    BY <1>1, <2>1, <2>2, <2>3, <2>4, EmptySeq DEF TypeInv
  <2> QED
    BY <2>2, <2>5 DEF PipeInv
<1> QED
  BY <1>2, <1>3, <1>4, <1>5, <1>6, <1>7, <1>8, <1>9 DEF Parent

(* Every step.                                                             *)
LEMMA PipeStep ==
  PipeInv /\ [Next]_vars => PipeInv'
<1> SUFFICES ASSUME PipeInv, [Next]_vars
             PROVE  PipeInv'
  OBVIOUS
<1> HIDE DEF Objects, Chars
<1>1. TypeInv
  BY DEF PipeInv
<1>2. CASE Parent
  BY <1>2, ParentKeeps
<1>3. CASE Die
  <2>1. UNCHANGED <<sent, wire, inFrame, data, received>>
    BY <1>3 DEF Die, reader
  <2>2. StreamInv'
    BY <2>1, NoWriteKeeps
  <2>3. TypeInv'
    BY <1>1, <1>3 DEF Die, reader, TypeInv, Steps
  <2> QED
    BY <2>2, <2>3 DEF PipeInv
<1>4. ASSUME NEW f \in Files, Child(f)
      PROVE  PipeInv'
  <2>1. ASSUME NEW n \in 1 .. Min({BufSize, Len(wire[f])}), Read(f, n)
        PROVE  PipeInv'
    BY <2>1, ReadKeeps
  <2>2. CASE ReadEnd(f)
    <3>1. UNCHANGED <<sent, wire, inFrame, data, received>>
      BY <2>2 DEF ReadEnd
    <3>2. StreamInv'
      BY <3>1, NoWriteKeeps
    <3>3. TypeInv'
      BY <1>1, <2>2 DEF ReadEnd, parent, TypeInv
    <3> QED
      BY <3>2, <3>3 DEF PipeInv
  <2> QED
    BY <1>4, <2>1, <2>2 DEF Child
<1>5. CASE UNCHANGED vars
  BY <1>5 DEF vars, parent, reader, PipeInv, TypeInv, StreamInv
<1>6. CASE Stopped
  BY <1>5, <1>6 DEF Stopped
<1> QED
  BY <1>2, <1>3, <1>4, <1>5, <1>6 DEF Next

(* At every moment each stream is what its child has received followed by  *)
(* what is on its way, in the pipe or in the reader.                       *)
THEOREM PipeInvariance ==
  Spec => []PipeInv
<1> QED
  BY PipeInit, PipeStep, PTL DEF Spec

(* What a child has parsed is the beginning of what was sent to it, and    *)
(* nothing is refused.                                                     *)
THEOREM PrefixReceived ==
  Spec => []ReceivedIsPrefix
<1>1. PipeInv => ReceivedIsPrefix
  <2> HIDE DEF Objects, Chars
  <2> SUFFICES ASSUME PipeInv, NEW f \in Files
               PROVE  IsPrefix(received[f], sent[f]) /\ child[f] # "failed"
    BY DEF ReceivedIsPrefix
  <2>1. received[f] \in Seq(Objects) /\ child[f] \in {"none", "reading", "emitted"}
    BY DEF PipeInv, TypeInv
  <2>2. PICK rest \in Seq(Objects) : sent[f] = received[f] \o rest
    BY DEF PipeInv, StreamInv, OnItsWay
  <2>3. IsPrefix(received[f], received[f] \o rest)
    BY <2>1, ConcatIsLonger
  <2>4. IsPrefix(received[f], sent[f])
    BY <2>2, <2>3, Zenon
  <2> QED
    BY <2>1, <2>4
<1> QED
  BY <1>1, PipeInvariance, PTL

-----------------------------------------------------------------------------
(* The keys of the literal array table.                                    *)

IsKey(o) == o.kind \in {"literal", "module"}
Keys == [o \in Objects |-> IF IsKey(o) THEN <<o>> ELSE <<>>]

(* The table grows by a literal array or a module record, and by nothing   *)
(* else.                                                                   *)
LEMMA TableAppend ==
  /\ TableOf(<<>>) = <<>>
  /\ \A s \in Seq(Objects) : TableOf(s) \in Seq(Objects)
  /\ \A s \in Seq(Objects), o \in Objects :
       TableOf(Append(s, o)) = IF IsKey(o) THEN Append(TableOf(s), o) ELSE TableOf(s)
<1>1. Keys \in [Objects -> Seq(Objects)]
  <2>1. \A o \in Objects : <<o>> \in Seq(Objects) /\ <<>> \in Seq(Objects)
    BY OneElement, EmptySeq
  <2> HIDE DEF Objects
  <2> QED
    BY <2>1 DEF Keys
<1>2. \A o \in Objects : Keys[o] = IF IsKey(o) THEN <<o>> ELSE <<>>
  BY DEF Keys
<1> HIDE DEF Objects
<1>3. \A s \in Seq(Objects) : TableOf(s) = Mapped(Keys, s)
  <2> SUFFICES ASSUME NEW s \in Seq(Objects)
               PROVE  TableOf(s) = Mapped(Keys, s)
    OBVIOUS
  <2>1. \A i \in 1 .. Len(s) : s[i] \in Objects
    BY ElementOfSeq
  <2>2. \A i \in 1 .. Len(s) :
          Keys[s[i]] = IF s[i].kind \in {"literal", "module"} THEN <<s[i]>> ELSE <<>>
    BY <1>2, <2>1 DEF IsKey
  <2>3. [i \in 1 .. Len(s) |-> Keys[s[i]]]
        = [i \in 1 .. Len(s) |-> IF s[i].kind \in {"literal", "module"} THEN <<s[i]>> ELSE <<>>]
    BY <2>2
  <2> QED
    BY <2>3 DEF TableOf, Mapped
<1>4. /\ Mapped(Keys, <<>>) = <<>>
      /\ \A s \in Seq(Objects) : Mapped(Keys, s) \in Seq(Objects)
      /\ \A o \in Objects : Mapped(Keys, <<o>>) = Keys[o]
  BY <1>1, MappedConcat
<1>5. BlocksOf(Keys, Objects, Objects)
  BY <1>1 DEF BlocksOf
<1>6. \A s, t \in Seq(Objects) : Mapped(Keys, s \o t) = Mapped(Keys, s) \o Mapped(Keys, t)
  BY <1>5, MappedTwo
<1>7. <<>> \in Seq(Objects)
  BY EmptySeq
<1>8. ASSUME NEW s \in Seq(Objects), NEW o \in Objects
      PROVE  TableOf(Append(s, o)) = IF IsKey(o) THEN Append(TableOf(s), o) ELSE TableOf(s)
  <2> DEFINE one == <<o>>
             k == Mapped(Keys, s)
  <2>1. one \in Seq(Objects) /\ Append(s, o) = s \o one /\ Append(s, o) \in Seq(Objects)
    BY AppendIsConcat, AppendProperties, OneElement
  <2>2. Mapped(Keys, one) = IF IsKey(o) THEN <<o>> ELSE <<>>
    BY <1>2, <1>4
  <2>3. k \in Seq(Objects) /\ TableOf(s) = k
    BY <1>3, <1>4
  <2> HIDE DEF one, k
  <2>4. TableOf(Append(s, o)) = k \o Mapped(Keys, one)
    BY <1>3, <1>6, <2>1 DEF k
  <2>5. k \o <<o>> = Append(k, o) /\ k \o <<>> = k
    BY <2>3, AppendIsConcat, ConcatEmptySeq
  <2> QED
    BY <2>2, <2>3, <2>4, <2>5
<1> QED
  BY <1>3, <1>4, <1>7, <1>8

HasTypeInfo(s) == \E i \in DOMAIN s : s[i].kind = "typeinfo"

(* The type info marks a complete stream.                                  *)
LEMMA TypeInfoAppend ==
  ASSUME NEW s \in Seq(Objects), NEW o \in Objects
  PROVE  HasTypeInfo(Append(s, o)) <=> HasTypeInfo(s) \/ o.kind = "typeinfo"
<1> HIDE DEF Objects
<1> DEFINE n == Len(s)
           p == Append(s, o)
<1>1. /\ n \in Nat /\ DOMAIN s = 1 .. n
      /\ p \in Seq(Objects) /\ DOMAIN p = 1 .. n + 1
      /\ \A i \in 1 .. n : p[i] = s[i]
      /\ p[n + 1] = o
  BY AppendProperties, LenProperties
<1> HIDE DEF p, n
<1>2. HasTypeInfo(p) <=> HasTypeInfo(s) \/ o.kind = "typeinfo"
  BY <1>1 DEF HasTypeInfo
<1> QED
  BY <1>2 DEF p

(* An empty stream.                                                        *)
LEMMA NothingYet ==
  TableOf(<<>>) = <<>> /\ ~HasTypeInfo(<<>>) /\ \A kind : CountOf(<<>>, kind) = 0
<1>1. \A kind : {i \in DOMAIN <<>> : <<>>[i].kind = kind} = {}
  OBVIOUS
<1>2. \A kind : CountOf(<<>>, kind) = 0
  BY <1>1, FS_EmptySet DEF CountOf
<1>3. ~HasTypeInfo(<<>>)
  BY DEF HasTypeInfo
<1> QED
  BY <1>2, <1>3, TableAppend

(* The objects of the first c literal arrays, and how functions refer to   *)
(* literal arrays.                                                         *)
Lits(ls, c) == [i \in 1 .. c |-> Obj("literal", ls[i])]
Mod == Obj("module", <<>>)
Uses(ls) == {<<i - 1, ls[i]>> : i \in 1 .. Len(ls)}

(* The literal arrays, one more at a time.                                 *)
LEMMA LitsAppend ==
  ASSUME NEW ls \in Seq(Texts)
  PROVE  /\ Lits(ls, 0) = <<>>
         /\ \A c \in Nat : c <= Len(ls) => Lits(ls, c) \in Seq(Objects) /\ Len(Lits(ls, c)) = c
         /\ \A c \in Nat : c < Len(ls) =>
              Lits(ls, c + 1) = Append(Lits(ls, c), Obj("literal", ls[c + 1]))
<1> HIDE DEF Objects
<1>1. Len(ls) \in Nat /\ \A i \in 1 .. Len(ls) : Obj("literal", ls[i]) \in Objects
  BY ElementOfSeq, LenProperties, ObjTyped
<1>2. Lits(ls, 0) = <<>>
  BY DEF Lits
<1>3. ASSUME NEW c \in Nat, c <= Len(ls)
      PROVE  /\ Lits(ls, c) \in Seq(Objects) /\ Len(Lits(ls, c)) = c
             /\ \A i \in 1 .. c : Lits(ls, c)[i] = Obj("literal", ls[i])
  <2>1. \A i \in 1 .. c : Obj("literal", ls[i]) \in Objects
    BY <1>1, <1>3
  <2> QED
    BY <2>1 DEF Lits
<1>4. ASSUME NEW c \in Nat, c < Len(ls)
      PROVE  Lits(ls, c + 1) = Append(Lits(ls, c), Obj("literal", ls[c + 1]))
  <2> DEFINE p == Lits(ls, c)
             q == Lits(ls, c + 1)
             o == Obj("literal", ls[c + 1])
  <2>1. c + 1 \in Nat /\ c + 1 <= Len(ls) /\ c <= Len(ls) /\ c + 1 \in 1 .. Len(ls)
    BY <1>1, <1>4
  <2>2. /\ p \in Seq(Objects) /\ Len(p) = c
        /\ q \in Seq(Objects) /\ Len(q) = c + 1 /\ o \in Objects
        /\ \A i \in 1 .. c : p[i] = Obj("literal", ls[i])
        /\ \A i \in 1 .. c + 1 : q[i] = Obj("literal", ls[i])
    BY <1>1, <1>3, <2>1
  <2>3. q[c + 1] = o /\ \A i \in 1 .. c : q[i] = p[i]
    BY <2>1, <2>2
  <2> HIDE DEF p, q, o
  <2>4. /\ Append(p, o) \in Seq(Objects) /\ Len(Append(p, o)) = c + 1
        /\ \A i \in 1 .. c : Append(p, o)[i] = p[i]
        /\ Append(p, o)[c + 1] = o
    BY <2>2, AppendProperties
  <2>5. \A i \in 1 .. c + 1 : q[i] = Append(p, o)[i]
    <3> SUFFICES ASSUME NEW i \in 1 .. c + 1
                 PROVE  q[i] = Append(p, o)[i]
      OBVIOUS
    <3>1. i \in 1 .. c \/ i = c + 1
      OBVIOUS
    <3> QED
      BY <2>3, <2>4, <3>1
  <2>6. q = Append(p, o)
    BY <2>2, <2>4, <2>5, SeqEqual
  <2> QED
    BY <2>6 DEF p, q, o
<1> QED
  BY <1>2, <1>3, <1>4

(* A literal array more is referred to.                                    *)
LEMMA UsesAppend ==
  ASSUME NEW ls \in Seq(Texts), NEW text \in Texts
  PROVE  Uses(Append(ls, text)) = Uses(ls) \cup {<<Len(ls), text>>}
<1> DEFINE p == Append(ls, text)
           n == Len(ls)
<1>1. /\ p \in Seq(Texts) /\ Len(p) = n + 1 /\ n \in Nat
      /\ \A i \in 1 .. n : p[i] = ls[i]
      /\ p[n + 1] = text
  BY AppendProperties, LenProperties
<1> HIDE DEF p
<1>2. Uses(p) = {<<i - 1, p[i]>> : i \in 1 .. n + 1}
  BY <1>1 DEF Uses
<1>3. Uses(ls) = {<<i - 1, ls[i]>> : i \in 1 .. n}
  BY DEF Uses
<1> HIDE DEF n
<1>4. \A i \in 1 .. n : <<i - 1, p[i]>> = <<i - 1, ls[i]>>
  BY <1>1
<1>5. 1 .. n + 1 = (1 .. n) \cup {n + 1} /\ n + 1 - 1 = n
  BY <1>1
<1>6. Uses(p) = Uses(ls) \cup {<<n, text>>}
  <2>1. ASSUME NEW u \in Uses(p)
        PROVE  u \in Uses(ls) \cup {<<n, text>>}
    <3>1. PICK i \in 1 .. n + 1 : u = <<i - 1, p[i]>>
      BY <1>2
    <3>2. i \in 1 .. n \/ i = n + 1
      BY <1>5
    <3> QED
      BY <1>1, <1>3, <1>4, <1>5, <3>1, <3>2
  <2>2. ASSUME NEW u \in Uses(ls)
        PROVE  u \in Uses(p)
    <3>1. PICK i \in 1 .. n : u = <<i - 1, ls[i]>>
      BY <1>3
    <3>2. i \in 1 .. n + 1 /\ u = <<i - 1, p[i]>>
      BY <1>4, <1>5, <3>1
    <3> QED
      BY <1>2, <3>2
  <2>3. <<n, text>> \in Uses(p)
    <3> DEFINE At(i) == <<i - 1, p[i]>>
               last  == n + 1
    <3>1. last \in 1 .. n + 1 /\ Uses(p) = {At(i) : i \in 1 .. n + 1}
      BY <1>1, <1>2
    <3>2. At(last) = <<n, text>>
      BY <1>1, <1>5
    <3> HIDE DEF At, last
    <3> QED
      BY <3>1, <3>2, Zenon
  <2> QED
    BY <2>1, <2>2, <2>3
<1> QED
  BY <1>6 DEF p, n

-----------------------------------------------------------------------------
(* What the parent has written of the file being compiled, at each of its  *)
(* steps; the files that it has not come to; and what a complete stream    *)
(* holds.                                                                  *)

Active == {"units", "strings", "literals", "modules", "typeinfo", "end"}

(* Before the child is started.                                            *)
Fresh(f) == sent[f] = <<>> /\ uses[f] = {} /\ child[f] = "none"

(* The literal arrays and the module record in the stream s, at a step st. *)
Dumped(st, s, ls, ms) ==
  /\ st = "units" => ms = <<>>
  /\ st \in {"strings", "literals", "modules"} => Len(ms) = 1
  /\ st \in {"units", "strings"} => /\ TableOf(s) = <<>>
                                    /\ CountOf(s, "literal") = 0
                                    /\ CountOf(s, "module") = 0
  /\ st = "literals" => /\ CountOf(s, "literal") <= Len(ls)
                        /\ CountOf(s, "module") = 0
                        /\ TableOf(s) = Lits(ls, CountOf(s, "literal"))
  /\ st = "modules" => \/ /\ CountOf(s, "module") = 0
                          /\ TableOf(s) = Lits(ls, Len(ls))
                       \/ /\ CountOf(s, "module") = 1
                          /\ TableOf(s) = Append(Lits(ls, Len(ls)), Mod)
  /\ st = "typeinfo" => TableOf(s) = Append(Lits(ls, Len(ls)), Mod)

(* A complete stream: every literal array that the functions refer to, in  *)
(* the order of the indices, and the module record.                        *)
Whole(f, ls) ==
  uses[f] = Uses(ls) /\ TableOf(sent[f]) = Append(Lits(ls, Len(ls)), Mod)

PhaseInv ==
  /\ step = "start" => Fresh(file) /\ open[file] /\ modules = <<>>
  /\ step \in Active => open[file] /\ uses[file] = Uses(literals)
  /\ step \in Active \ {"end"} => /\ ~HasTypeInfo(sent[file])
                                  /\ Dumped(step, sent[file], literals, modules)

LaterInv ==
  \A f \in Files : f > file => Fresh(f) /\ (step # "dead" => open[f])

WholeInv ==
  \A f \in Files : HasTypeInfo(sent[f]) => \E ls \in Seq(Texts) : Whole(f, ls)

EmittedInv ==
  \A f \in Files : child[f] = "emitted" /\ step # "dead" =>
    received[f] = sent[f] /\ ~open[f]

UsesInv == uses \in [Files -> SUBSET (Nat \X Texts)]

ParentInv == PipeInv /\ PhaseInv /\ LaterInv /\ WholeInv /\ EmittedInv /\ UsesInv

(* A child that has read everything has got everything.                    *)
LEMMA NothingUnread ==
  ASSUME NEW s, NEW r \in Seq(Objects), NEW fr, NEW d, OnItsWay(s, r, fr, d, <<>>)
  PROVE  s = r
<1> HIDE DEF Objects, Chars
<1> DEFINE w == <<>>
<1>1. PICK rest \in Seq(Objects) : s = r \o rest /\ Awaits(fr, d, w, rest)
  BY DEF OnItsWay
<1>2. w \in Seq(Chars) /\ w = <<>> /\ (Between(fr, d, w, rest) \/ Within(fr, d, w, rest))
  BY <1>1 DEF Awaits
<1> HIDE DEF w
<1>3. \A a, b \in Seq(Chars) : a \o b = w => a = <<>> /\ b = <<>>
  BY <1>2, ConcatEqualIffEmpty
<1>4. CASE Between(fr, d, w, rest)
  <2> DEFINE n == <<"\n">>
  <2>1. n \in Seq(Chars) /\ n # <<>> /\ EncodeAll(rest) \in Seq(Chars)
    <3>1. "\n" \in Chars
      BY DEF Chars
    <3> QED
      BY <3>1, EncodeAllBlocks, OneElement
  <2>2. w = EncodeAll(rest) \/ w = n \o EncodeAll(rest)
    BY <1>4 DEF Between
  <2> HIDE DEF n
  <2>3. EncodeAll(rest) = <<>>
    BY <1>2, <1>3, <2>1, <2>2
  <2>4. ASSUME rest # <<>>
        PROVE  FALSE
    <3>1. PICK o \in Objects, t \in Seq(Objects) : rest = <<o>> \o t
      BY <2>4, HeadOfConcat
    <3>2. EncodeAll(<<o>> \o t) = Encode(o) \o EncodeAll(t)
      BY EncodeAllBlocks
    <3>3. EncodeAll(rest) = Encode(o) \o EncodeAll(t)
      BY <3>1, <3>2, Zenon
    <3>4. Encode(o) \in Seq(Chars) /\ Encode(o) # <<>> /\ EncodeAll(t) \in Seq(Chars)
      BY EncodeTyped, EncodeAllBlocks
    <3>5. Encode(o) \o EncodeAll(t) = w
      BY <1>2, <2>3, <3>3, Zenon
    <3> QED
      BY <1>3, <3>4, <3>5, Zenon
  <2>5. rest = <<>>
    BY <2>4, Zenon
  <2> QED
    BY <1>1, <2>5, ConcatEmptySeq
<1>5. CASE Within(fr, d, w, rest)
  <2>1. PICK o \in Objects, more \in Seq(Objects), left \in Seq(Chars) : Tails(d, w, o, more, left)
    BY <1>5 DEF Within
  <2>2. w = left \o (Ending \o EncodeAll(more))
    BY <2>1 DEF Tails
  <2>3. Ending \in Seq(Chars) /\ Ending # <<>> /\ EncodeAll(more) \in Seq(Chars)
    <3>1. Ending # <<>>
      BY DEF Ending
    <3>2. \E o1 \in Objects : TRUE
      BY <2>1
    <3> QED
      BY <3>1, <3>2, EncodeTyped, EncodeAllBlocks
  <2>4. Ending \o EncodeAll(more) \in Seq(Chars)
    BY <2>3, ConcatProperties
  <2>5. Ending \o EncodeAll(more) = <<>>
    BY <1>3, <2>2, <2>4
  <2>6. Ending \o EncodeAll(more) = w
    BY <1>2, <2>5, Zenon
  <2> QED
    BY <1>3, <2>3, <2>6, Zenon
<1> QED
  BY <1>2, <1>4, <1>5

(* What a step of the parent that writes an object leaves to show about    *)
(* the stream of its file.                                                 *)
LEMMA Writing ==
  ASSUME ParentInv, NEW o \in Objects, Write(o), file' = file, step # "dead",
         open[file], UNCHANGED <<open, received>>,
         uses' \in [Files -> SUBSET (Nat \X Texts)],
         \A f \in Files : f # file => uses'[f] = uses[f] /\ child'[f] = child[f],
         child'[file] = "emitted" => child[file] = "emitted"
  PROVE  /\ sent'[file] = Append(sent[file], o)
         /\ sent[file] \in Seq(Objects) /\ Len(literals) \in Nat /\ file \in Files
         /\ LaterInv' /\ EmittedInv' /\ UsesInv'
         /\ (HasTypeInfo(sent'[file]) => \E ls \in Seq(Texts) : Whole(file, ls)') => WholeInv'
<1> HIDE DEF Objects, Chars
<1>1. /\ file \in Files /\ sent \in [Files -> Seq(Objects)] /\ literals \in Seq(Texts)
      /\ sent' = [sent EXCEPT ![file] = Append(sent[file], o)]
  BY DEF ParentInv, PipeInv, TypeInv, Write
<1>2. sent'[file] = Append(sent[file], o) /\ \A f \in Files : f # file => sent'[f] = sent[f]
  BY <1>1
<1>3. LaterInv'
  <2> SUFFICES ASSUME NEW f \in Files, f > file
               PROVE  Fresh(f)' /\ open[f]
    BY DEF LaterInv
  <2>1. file \in Nat /\ f # file
    BY <1>1 DEF Files
  <2>2. Fresh(f) /\ open[f]
    BY DEF ParentInv, LaterInv
  <2> QED
    BY <1>2, <2>1, <2>2 DEF Fresh
<1>4. EmittedInv'
  <2> SUFFICES ASSUME NEW f \in Files, child'[f] = "emitted"
               PROVE  received[f] = sent'[f] /\ ~open[f]
    BY DEF EmittedInv
  <2>1. f # file
    BY <1>1 DEF ParentInv, EmittedInv
  <2> QED
    BY <1>2, <2>1 DEF ParentInv, EmittedInv
<1>5. ASSUME HasTypeInfo(sent'[file]) => \E ls \in Seq(Texts) : Whole(file, ls)'
      PROVE  WholeInv'
  <2> SUFFICES ASSUME NEW f \in Files, HasTypeInfo(sent'[f])
               PROVE  \E ls \in Seq(Texts) : Whole(f, ls)'
    BY DEF WholeInv
  <2>1. CASE f = file
    BY <1>5, <2>1 DEF Whole
  <2>2. CASE f # file
    <3>1. HasTypeInfo(sent[f])
      BY <1>2, <2>2
    <3>2. PICK ls \in Seq(Texts) : Whole(f, ls)
      BY <3>1 DEF ParentInv, WholeInv
    <3>3. Whole(f, ls)'
      BY <1>2, <2>2, <3>2 DEF Whole
    <3> QED
      BY <3>3
  <2> QED
    BY <2>1, <2>2
<1>6. UsesInv'
  BY DEF UsesInv
<1> QED
  BY <1>1, <1>2, <1>3, <1>4, <1>5, <1>6, LenProperties

(* A step that writes nothing and keeps the file.                          *)
LEMMA Silent ==
  ASSUME ParentInv, UNCHANGED <<file, sent, uses, child, open, received>>,
         step # "dead"
  PROVE  LaterInv' /\ EmittedInv' /\ WholeInv' /\ UsesInv'
<1>1. LaterInv'
  BY DEF ParentInv, LaterInv, Fresh
<1>2. EmittedInv'
  BY DEF ParentInv, EmittedInv
<1>3. WholeInv'
  BY DEF ParentInv, WholeInv, Whole
<1> QED
  BY <1>1, <1>2, <1>3 DEF ParentInv, UsesInv

(* The parent starts a child and writes the options.                       *)
LEMMA StartParent ==
  ASSUME ParentInv, Start
  PROVE  PhaseInv' /\ LaterInv' /\ EmittedInv' /\ WholeInv' /\ UsesInv'
<1> HIDE DEF Objects, Chars
<1> DEFINE o == Obj("options", <<>>)
<1>1. o \in Objects /\ o.kind = "options"
  BY ObjTyped DEF Obj
<1>2. /\ Write(o) /\ file' = file /\ step # "dead" /\ step' = "units" /\ literals' = <<>>
      /\ UNCHANGED <<open, received, uses, modules>>
      /\ child' = [child EXCEPT ![file] = "reading"]
  BY DEF Start
<1>3. /\ Fresh(file) /\ open[file] /\ modules = <<>>
      /\ file \in Files /\ child \in [Files -> {"none", "reading", "emitted"}]
      /\ uses \in [Files -> SUBSET (Nat \X Texts)]
  BY DEF Start, ParentInv, PhaseInv, PipeInv, TypeInv, UsesInv
<1>4. /\ child'[file] = "reading"
      /\ \A f \in Files : f # file => uses'[f] = uses[f] /\ child'[f] = child[f]
  BY <1>2, <1>3
<1> HIDE DEF o
<1>5. /\ sent'[file] = Append(sent[file], o)
      /\ LaterInv' /\ EmittedInv' /\ UsesInv'
      /\ (HasTypeInfo(sent'[file]) => \E ls \in Seq(Texts) : Whole(file, ls)') => WholeInv'
  BY <1>1, <1>2, <1>3, <1>4, Writing
<1> DEFINE none == <<>>
           s1 == sent'[file]
<1>6. none \in Seq(Objects) /\ s1 = Append(none, o)
  BY <1>3, <1>5, EmptySeq DEF Fresh
<1>7. TableOf(none) = <<>> /\ ~HasTypeInfo(none) /\ \A kind : CountOf(none, kind) = 0
  BY NothingYet
<1> HIDE DEF none
<1>8. /\ ~HasTypeInfo(s1) /\ TableOf(s1) = <<>>
      /\ CountOf(s1, "literal") = 0 /\ CountOf(s1, "module") = 0
  <2>1. ~IsKey(o)
    BY <1>1 DEF IsKey
  <2>2. TableOf(s1) = <<>>
    BY <1>1, <1>6, <1>7, <2>1, TableAppend
  <2>3. ~HasTypeInfo(s1)
    BY <1>1, <1>6, <1>7, TypeInfoAppend
  <2>4. \A kind : CountOf(s1, kind) = 0 + IF o.kind = kind THEN 1 ELSE 0
    BY <1>1, <1>6, <1>7, CountAppend
  <2> QED
    BY <1>1, <2>2, <2>3, <2>4
<1>9. Uses(literals') = {}
  <2>1. Uses(<<>>) = {}
    BY DEF Uses
  <2> QED
    BY <1>2, <2>1
<1>10. uses'[file] = Uses(literals') /\ open'[file] /\ modules' = <<>>
  BY <1>2, <1>3, <1>9 DEF Fresh
<1>11. Dumped(step', sent'[file], literals', modules')
  BY <1>2, <1>8, <1>10 DEF Dumped
<1>12. PhaseInv'
  BY <1>2, <1>8, <1>10, <1>11 DEF PhaseInv, Active
<1> QED
  BY <1>5, <1>8, <1>12

(* A function is compiled: it may refer to a literal array more, and may   *)
(* be main, which ends the functions with the module record.               *)
LEMMA CompileUnitParent ==
  ASSUME ParentInv, NEW text \in Texts, NEW newLiteral \in BOOLEAN,
         CompileUnit(text, newLiteral)
  PROVE  PhaseInv' /\ LaterInv' /\ EmittedInv' /\ WholeInv' /\ UsesInv'
<1> HIDE DEF Objects, Chars
<1> DEFINE o == Obj("function", text)
<1>1. o \in Objects /\ o.kind = "function"
  BY ObjTyped DEF Obj
<1>2. /\ Write(o) /\ file' = file /\ step = "units"
      /\ UNCHANGED <<open, received, child>>
      /\ \/ newLiteral /\ uses' = [uses EXCEPT ![file] = uses[file] \cup {<<Len(literals), text>>}]
            /\ literals' = Append(literals, text)
         \/ ~newLiteral /\ uses' = uses /\ literals' = literals
      /\ \/ modules' = modules /\ step' = "units"
         \/ modules' = Append(modules, file) /\ step' = "strings"
  BY DEF CompileUnit, reader
<1>3. /\ open[file] /\ uses[file] = Uses(literals) /\ ~HasTypeInfo(sent[file])
      /\ Dumped("units", sent[file], literals, modules)
      /\ file \in Files /\ literals \in Seq(Texts) /\ sent[file] \in Seq(Objects)
      /\ Len(literals) \in Nat
      /\ uses \in [Files -> SUBSET (Nat \X Texts)]
  BY <1>2, LenProperties DEF ParentInv, PhaseInv, PipeInv, TypeInv, UsesInv, Active
<1>4. /\ uses' \in [Files -> SUBSET (Nat \X Texts)]
      /\ \A f \in Files : f # file => uses'[f] = uses[f] /\ child'[f] = child[f]
      /\ uses'[file] = Uses(literals')
  <2>1. CASE newLiteral
    <3>1. Uses(literals') = Uses(literals) \cup {<<Len(literals), text>>}
      BY <1>2, <1>3, <2>1, UsesAppend
    <3>2. <<Len(literals), text>> \in Nat \X Texts
      BY <1>3
    <3> QED
      BY <1>2, <1>3, <2>1, <3>1, <3>2
  <2>2. CASE ~newLiteral
    BY <1>2, <1>3, <2>2
  <2> QED
    BY <2>1, <2>2
<1> HIDE DEF o
<1>5. /\ sent'[file] = Append(sent[file], o)
      /\ LaterInv' /\ EmittedInv' /\ UsesInv'
      /\ (HasTypeInfo(sent'[file]) => \E ls \in Seq(Texts) : Whole(file, ls)') => WholeInv'
  BY <1>1, <1>2, <1>3, <1>4, Writing
<1> DEFINE s == sent[file]
           s1 == sent'[file]
<1>6. s \in Seq(Objects) /\ s1 = Append(s, o) /\ modules = <<>> /\ ~HasTypeInfo(s)
      /\ TableOf(s) = <<>> /\ CountOf(s, "literal") = 0 /\ CountOf(s, "module") = 0
  BY <1>3, <1>5 DEF Dumped
<1> HIDE DEF s
<1>7. /\ ~HasTypeInfo(s1) /\ TableOf(s1) = <<>>
      /\ CountOf(s1, "literal") = 0 /\ CountOf(s1, "module") = 0
  <2>1. ~IsKey(o)
    BY <1>1 DEF IsKey
  <2>2. TableOf(s1) = <<>>
    BY <1>1, <1>6, <2>1, TableAppend
  <2>3. ~HasTypeInfo(s1)
    BY <1>1, <1>6, TypeInfoAppend
  <2>4. \A kind : CountOf(s1, kind) = CountOf(s, kind) + IF o.kind = kind THEN 1 ELSE 0
    BY <1>1, <1>6, CountAppend
  <2> QED
    BY <1>1, <1>6, <2>2, <2>3, <2>4
<1>8. \/ step' = "units" /\ modules' = <<>>
      \/ step' = "strings" /\ Len(modules') = 1
  BY <1>2, <1>6
<1>9. Dumped(step', sent'[file], literals', modules')
  BY <1>7, <1>8 DEF Dumped
<1>10. PhaseInv'
  BY <1>2, <1>3, <1>4, <1>7, <1>8, <1>9 DEF PhaseInv, Active
<1> QED
  BY <1>5, <1>7, <1>10

(* The strings follow.                                                     *)
LEMMA StringsParent ==
  ASSUME ParentInv, DumpStrings
  PROVE  PhaseInv' /\ LaterInv' /\ EmittedInv' /\ WholeInv' /\ UsesInv'
<1> HIDE DEF Objects, Chars
<1> DEFINE o == Obj("string", <<>>)
<1>1. o \in Objects /\ o.kind = "string"
  BY ObjTyped DEF Obj
<1>2. /\ Write(o) /\ file' = file /\ step = "strings" /\ step' = "literals"
      /\ UNCHANGED <<open, received, child, uses, literals, modules>>
  BY DEF DumpStrings, reader
<1>3. /\ open[file] /\ uses[file] = Uses(literals) /\ ~HasTypeInfo(sent[file])
      /\ Dumped("strings", sent[file], literals, modules)
      /\ file \in Files /\ literals \in Seq(Texts) /\ sent[file] \in Seq(Objects)
      /\ Len(literals) \in Nat
      /\ uses \in [Files -> SUBSET (Nat \X Texts)]
  BY <1>2, LenProperties DEF ParentInv, PhaseInv, PipeInv, TypeInv, UsesInv, Active
<1> HIDE DEF o
<1>5. /\ sent'[file] = Append(sent[file], o)
      /\ LaterInv' /\ EmittedInv' /\ UsesInv'
      /\ (HasTypeInfo(sent'[file]) => \E ls \in Seq(Texts) : Whole(file, ls)') => WholeInv'
  BY <1>1, <1>2, <1>3, Writing
<1> DEFINE s == sent[file]
           s1 == sent'[file]
<1>6. s \in Seq(Objects) /\ s1 = Append(s, o) /\ Len(modules) = 1 /\ ~HasTypeInfo(s)
      /\ TableOf(s) = <<>> /\ CountOf(s, "literal") = 0 /\ CountOf(s, "module") = 0
  BY <1>3, <1>5 DEF Dumped
<1> HIDE DEF s
<1>7. /\ ~HasTypeInfo(s1) /\ TableOf(s1) = <<>>
      /\ CountOf(s1, "literal") = 0 /\ CountOf(s1, "module") = 0
  <2>1. ~IsKey(o)
    BY <1>1 DEF IsKey
  <2>2. TableOf(s1) = <<>>
    BY <1>1, <1>6, <2>1, TableAppend
  <2>3. ~HasTypeInfo(s1)
    BY <1>1, <1>6, TypeInfoAppend
  <2>4. \A kind : CountOf(s1, kind) = CountOf(s, kind) + IF o.kind = kind THEN 1 ELSE 0
    BY <1>1, <1>6, CountAppend
  <2> QED
    BY <1>1, <1>6, <2>2, <2>3, <2>4
<1>8. Lits(literals, 0) = <<>>
  BY <1>3, LitsAppend
<1>9. Dumped(step', sent'[file], literals', modules')
  BY <1>2, <1>3, <1>6, <1>7, <1>8 DEF Dumped
<1>10. PhaseInv'
  BY <1>2, <1>3, <1>7, <1>9 DEF PhaseInv, Active
<1> QED
  BY <1>5, <1>7, <1>10

(* The literal arrays, one by one.                                         *)
LEMMA LiteralsParent ==
  ASSUME ParentInv, DumpConstantPool
  PROVE  PhaseInv' /\ LaterInv' /\ EmittedInv' /\ WholeInv' /\ UsesInv'
<1> HIDE DEF Objects, Chars
<1> DEFINE c == CountOf(sent[file], "literal")
<1>1. /\ file' = file /\ step = "literals"
      /\ UNCHANGED <<open, received, child, uses, literals, modules>>
  BY DEF DumpConstantPool, reader
<1>2. /\ open[file] /\ uses[file] = Uses(literals) /\ ~HasTypeInfo(sent[file])
      /\ Dumped("literals", sent[file], literals, modules)
      /\ file \in Files /\ literals \in Seq(Texts) /\ sent[file] \in Seq(Objects)
      /\ Len(literals) \in Nat
      /\ uses \in [Files -> SUBSET (Nat \X Texts)]
  BY <1>1, LenProperties DEF ParentInv, PhaseInv, PipeInv, TypeInv, UsesInv, Active
<1>3. Count("literal") = c /\ c \in Nat
  BY CountIsNat DEF ParentInv, PipeInv
<1>4. /\ c <= Len(literals) /\ CountOf(sent[file], "module") = 0 /\ Len(modules) = 1
      /\ TableOf(sent[file]) = Lits(literals, c)
  BY <1>2 DEF Dumped
<1>5. CASE c < Len(literals)
  <2> DEFINE o == Obj("literal", literals[c + 1])
  <2>1. o \in Objects /\ o.kind = "literal"
    <3>1. c + 1 \in 1 .. Len(literals)
      BY <1>2, <1>3, <1>5
    <3>2. literals[c + 1] \in Texts
      BY <1>2, <3>1, ElementOfSeq
    <3> QED
      BY <3>2, ObjTyped DEF Obj
  <2>2. Write(o) /\ step' = step
    BY <1>3, <1>5 DEF DumpConstantPool
  <2>3. Lits(literals, c + 1) = Append(Lits(literals, c), o) /\ c + 1 <= Len(literals)
    BY <1>2, <1>3, <1>5, LitsAppend, SMTT(60)
  <2> HIDE DEF o
  <2>5. /\ sent'[file] = Append(sent[file], o)
        /\ LaterInv' /\ EmittedInv' /\ UsesInv'
        /\ (HasTypeInfo(sent'[file]) => \E ls \in Seq(Texts) : Whole(file, ls)') => WholeInv'
    BY <1>1, <1>2, <2>1, <2>2, Writing
  <2> DEFINE s == sent[file]
             s1 == sent'[file]
  <2>6. s \in Seq(Objects) /\ s1 = Append(s, o) /\ ~HasTypeInfo(s)
        /\ TableOf(s) = Lits(literals, c) /\ CountOf(s, "literal") = c /\ CountOf(s, "module") = 0
    BY <1>2, <1>4, <2>5
  <2> HIDE DEF s, c
  <2>7. /\ ~HasTypeInfo(s1) /\ TableOf(s1) = Lits(literals, c + 1)
        /\ CountOf(s1, "literal") = c + 1 /\ CountOf(s1, "module") = 0
    <3>1. IsKey(o)
      BY <2>1 DEF IsKey
    <3>2. TableOf(s1) = Append(TableOf(s), o)
      BY <2>1, <2>6, <3>1, TableAppend
    <3>3. ~HasTypeInfo(s1)
      BY <2>1, <2>6, TypeInfoAppend
    <3>4. \A kind : CountOf(s1, kind) = CountOf(s, kind) + IF o.kind = kind THEN 1 ELSE 0
      BY <2>1, <2>6, CountAppend
    <3>5. CountOf(s1, "literal") = c + 1 /\ CountOf(s1, "module") = 0
      BY <1>3, <2>1, <2>6, <3>4
    <3>6. TableOf(s1) = Lits(literals, c + 1)
      BY <2>3, <2>6, <3>2, Zenon
    <3> QED
      BY <3>3, <3>5, <3>6
  <2>9. Dumped(step', sent'[file], literals', modules')
    BY <1>1, <1>2, <1>4, <2>2, <2>3, <2>7 DEF Dumped
  <2>10. PhaseInv'
    BY <1>1, <1>2, <2>2, <2>7, <2>9 DEF PhaseInv, Active
  <2> QED
    BY <2>5, <2>7, <2>10
<1>6. CASE ~(c < Len(literals))
  <2>1. step' = "modules" /\ UNCHANGED sent
    BY <1>3, <1>6 DEF DumpConstantPool
  <2>2. c = Len(literals)
    BY <1>2, <1>3, <1>4, <1>6
  <2>3. LaterInv' /\ EmittedInv' /\ WholeInv' /\ UsesInv'
    BY <1>1, <2>1, Silent
  <2> HIDE DEF c
  <2>4. Dumped(step', sent'[file], literals', modules')
    BY <1>1, <1>4, <2>1, <2>2 DEF Dumped
  <2>5. PhaseInv'
    BY <1>1, <1>2, <2>1, <2>4 DEF PhaseInv, Active
  <2> QED
    BY <2>3, <2>5
<1> QED
  BY <1>5, <1>6

(* The module record.                                                      *)
LEMMA ModulesParent ==
  ASSUME ParentInv, DumpModuleRecords
  PROVE  PhaseInv' /\ LaterInv' /\ EmittedInv' /\ WholeInv' /\ UsesInv'
<1> HIDE DEF Objects, Chars
<1> DEFINE c == CountOf(sent[file], "module")
           ls == Lits(literals, Len(literals))
<1>1. /\ file' = file /\ step = "modules"
      /\ UNCHANGED <<open, received, child, uses, literals, modules>>
  BY DEF DumpModuleRecords, reader
<1>2. /\ open[file] /\ uses[file] = Uses(literals) /\ ~HasTypeInfo(sent[file])
      /\ Dumped("modules", sent[file], literals, modules)
      /\ file \in Files /\ literals \in Seq(Texts) /\ sent[file] \in Seq(Objects)
      /\ uses \in [Files -> SUBSET (Nat \X Texts)]
  BY <1>1 DEF ParentInv, PhaseInv, PipeInv, TypeInv, UsesInv, Active
<1>3. Count("module") = c /\ c \in Nat
  BY CountIsNat DEF ParentInv, PipeInv
<1>4. /\ Len(modules) = 1
      /\ \/ c = 0 /\ TableOf(sent[file]) = ls
         \/ c = 1 /\ TableOf(sent[file]) = Append(ls, Mod)
  BY <1>2 DEF Dumped
<1> HIDE DEF ls
<1>5. CASE c < Len(modules)
  <2>1. Mod \in Objects /\ Mod.kind = "module"
    BY ObjTyped DEF Obj, Mod
  <2>2. Write(Mod) /\ step' = step
    BY <1>3, <1>5 DEF DumpModuleRecords, Mod
  <2>5. /\ sent'[file] = Append(sent[file], Mod)
        /\ LaterInv' /\ EmittedInv' /\ UsesInv'
        /\ (HasTypeInfo(sent'[file]) => \E l \in Seq(Texts) : Whole(file, l)') => WholeInv'
    BY <1>1, <1>2, <2>1, <2>2, Writing
  <2> DEFINE s == sent[file]
             s1 == sent'[file]
  <2>6. s \in Seq(Objects) /\ s1 = Append(s, Mod) /\ ~HasTypeInfo(s)
        /\ TableOf(s) = ls /\ CountOf(s, "module") = 0
    BY <1>2, <1>4, <1>5, <2>5
  <2> HIDE DEF s, c
  <2>7. /\ ~HasTypeInfo(s1) /\ TableOf(s1) = Append(ls, Mod)
        /\ CountOf(s1, "module") = 1
    <3>1. IsKey(Mod)
      BY <2>1 DEF IsKey
    <3>2. TableOf(s1) = Append(TableOf(s), Mod)
      BY <2>1, <2>6, <3>1, TableAppend
    <3>3. ~HasTypeInfo(s1)
      BY <2>1, <2>6, TypeInfoAppend
    <3>4. \A kind : CountOf(s1, kind) = CountOf(s, kind) + IF Mod.kind = kind THEN 1 ELSE 0
      BY <2>1, <2>6, CountAppend
    <3>5. CountOf(s1, "module") = 1
      BY <2>1, <2>6, <3>4
    <3>6. TableOf(s1) = Append(ls, Mod)
      BY <2>6, <3>2, Zenon
    <3> QED
      BY <3>3, <3>5, <3>6
  <2>9. Dumped(step', sent'[file], literals', modules')
    BY <1>1, <1>2, <1>4, <2>2, <2>7 DEF Dumped, ls
  <2>10. PhaseInv'
    BY <1>1, <1>2, <2>2, <2>7, <2>9 DEF PhaseInv, Active
  <2> QED
    BY <2>5, <2>7, <2>10
<1>6. CASE ~(c < Len(modules))
  <2>1. step' = "typeinfo" /\ UNCHANGED sent
    BY <1>3, <1>6 DEF DumpModuleRecords
  <2>2. TableOf(sent[file]) = Append(ls, Mod)
    BY <1>3, <1>4, <1>6
  <2>3. LaterInv' /\ EmittedInv' /\ WholeInv' /\ UsesInv'
    BY <1>1, <2>1, Silent
  <2> HIDE DEF c
  <2>4. Dumped(step', sent'[file], literals', modules')
    BY <1>1, <2>1, <2>2 DEF Dumped, ls
  <2>5. PhaseInv'
    BY <1>1, <1>2, <2>1, <2>4 DEF PhaseInv, Active
  <2> QED
    BY <2>3, <2>5
<1> QED
  BY <1>5, <1>6

(* The last object: the stream is complete.                                *)
LEMMA TypeInfoParent ==
  ASSUME ParentInv, DumpTypeInfo
  PROVE  PhaseInv' /\ LaterInv' /\ EmittedInv' /\ WholeInv' /\ UsesInv'
<1> HIDE DEF Objects, Chars
<1> DEFINE o == Obj("typeinfo", <<>>)
           ls == Lits(literals, Len(literals))
<1>1. o \in Objects /\ o.kind = "typeinfo"
  BY ObjTyped DEF Obj
<1>2. /\ Write(o) /\ file' = file /\ step = "typeinfo" /\ step' = "end"
      /\ UNCHANGED <<open, received, child, uses, literals, modules>>
  BY DEF DumpTypeInfo, reader
<1>3. /\ open[file] /\ uses[file] = Uses(literals)
      /\ Dumped("typeinfo", sent[file], literals, modules)
      /\ file \in Files /\ literals \in Seq(Texts) /\ sent[file] \in Seq(Objects)
      /\ uses \in [Files -> SUBSET (Nat \X Texts)]
  BY <1>2 DEF ParentInv, PhaseInv, PipeInv, TypeInv, UsesInv, Active
<1> HIDE DEF o
<1>5. /\ sent'[file] = Append(sent[file], o)
      /\ LaterInv' /\ EmittedInv' /\ UsesInv'
      /\ (HasTypeInfo(sent'[file]) => \E l \in Seq(Texts) : Whole(file, l)') => WholeInv'
  BY <1>1, <1>2, <1>3, Writing
<1>6. TableOf(sent[file]) = Append(ls, Mod)
  BY <1>3 DEF Dumped
<1>7. ~IsKey(o)
  BY <1>1 DEF IsKey
<1>8. TableOf(sent'[file]) = Append(ls, Mod)
  BY <1>1, <1>3, <1>5, <1>6, <1>7, TableAppend
<1>9. Whole(file, literals)'
  BY <1>2, <1>3, <1>8 DEF Whole
<1>10. \E l \in Seq(Texts) : Whole(file, l)'
  BY <1>2, <1>3, <1>9 DEF Whole
<1>11. PhaseInv'
  BY <1>2, <1>3 DEF PhaseInv, Active
<1> QED
  BY <1>5, <1>10, <1>11

(* An exception, or the end of a file and the beginning of the next.       *)
LEMMA ThrowParent ==
  ASSUME ParentInv, Throw
  PROVE  PhaseInv' /\ LaterInv' /\ EmittedInv' /\ WholeInv' /\ UsesInv'
<1> HIDE DEF Objects, Chars
<1>1. /\ file' = file /\ step \in {"start", "units"} /\ step' = "stopped"
      /\ UNCHANGED <<sent, received, child, uses>>
      /\ open' = IF step = "units" THEN [open EXCEPT ![file] = FALSE] ELSE open
  BY DEF Throw, reader
<1>2. /\ file \in Files /\ open \in [Files -> BOOLEAN]
  BY DEF ParentInv, PipeInv, TypeInv
<1>3. \A f \in Files : (f # file => open'[f] = open[f]) /\ (open'[f] => open[f])
  BY <1>1, <1>2
<1>4. PhaseInv'
  BY <1>1 DEF PhaseInv, Active
<1>5. LaterInv'
  <2> SUFFICES ASSUME NEW f \in Files, f > file
               PROVE  Fresh(f)' /\ open'[f]
    BY <1>1 DEF LaterInv
  <2>1. file \in Nat /\ f # file
    BY <1>2 DEF Files
  <2>2. Fresh(f) /\ open[f]
    BY <1>1 DEF ParentInv, LaterInv
  <2> QED
    BY <1>1, <1>3, <2>1, <2>2 DEF Fresh
<1>6. EmittedInv'
  BY <1>1, <1>3 DEF ParentInv, EmittedInv
<1>7. WholeInv' /\ UsesInv'
  BY <1>1 DEF ParentInv, WholeInv, Whole, UsesInv
<1> QED
  BY <1>4, <1>5, <1>6, <1>7

(* The parent ends a file and goes on to the next one, if there is one.    *)
LEMMA FinishParent ==
  ASSUME ParentInv, Finish
  PROVE  PhaseInv' /\ LaterInv' /\ EmittedInv' /\ WholeInv' /\ UsesInv'
<1> HIDE DEF Objects, Chars
<1>1. /\ step = "end" /\ modules' = <<>>
      /\ UNCHANGED <<sent, received, child, uses>>
      /\ open' = [open EXCEPT ![file] = FALSE]
      /\ \/ file < NumFiles /\ file' = file + 1 /\ step' = "start"
         \/ file' = file /\ step' = "stopped"
  BY DEF Finish, reader
<1>2. /\ file \in Files /\ open \in [Files -> BOOLEAN] /\ file \in Nat /\ NumFiles \in Nat
      /\ Files = 1 .. NumFiles
  BY PipeAssumption DEF ParentInv, PipeInv, TypeInv, Files
<1>3. \A f \in Files : (f # file => open'[f] = open[f]) /\ (open'[f] => open[f])
  BY <1>1, <1>2
<1>4. \A f \in Files : f > file => f # file /\ Fresh(f) /\ open[f]
  BY <1>1, <1>2 DEF ParentInv, LaterInv
<1>5. PhaseInv'
  <2>1. CASE step' = "start"
    <3>1. file' \in Files /\ file' > file
      BY <1>1, <1>2, <2>1
    <3>2. Fresh(file') /\ open'[file']
      BY <1>3, <1>4, <3>1
    <3>3. Fresh(file)'
      BY <1>1, <3>2 DEF Fresh
    <3> QED
      BY <1>1, <2>1, <3>2, <3>3 DEF PhaseInv, Active
  <2>2. CASE step' = "stopped"
    BY <2>2 DEF PhaseInv, Active
  <2> QED
    BY <1>1, <2>1, <2>2
<1>6. LaterInv'
  <2> SUFFICES ASSUME NEW f \in Files, f > file'
               PROVE  Fresh(f)' /\ open'[f]
    BY DEF LaterInv
  <2>1. f > file
    BY <1>1, <1>2
  <2> QED
    BY <1>1, <1>3, <1>4, <2>1 DEF Fresh
<1>7. EmittedInv'
  BY <1>1, <1>3 DEF ParentInv, EmittedInv
<1>8. WholeInv' /\ UsesInv'
  BY <1>1 DEF ParentInv, WholeInv, Whole, UsesInv
<1> QED
  BY <1>5, <1>6, <1>7, <1>8

(* The steps of the children, and the death of the parent.                 *)
LEMMA ChildParent ==
  ASSUME ParentInv, NEW f \in Files, Child(f)
  PROVE  PhaseInv' /\ LaterInv' /\ EmittedInv' /\ WholeInv' /\ UsesInv'
<1> HIDE DEF Objects, Chars
<1>1. /\ PipeInv /\ TypeInv /\ child \in [Files -> {"none", "reading", "emitted"}]
      /\ received \in [Files -> Seq(Objects)]
  BY DEF ParentInv, PipeInv, TypeInv
<1>2. /\ UNCHANGED <<file, step, literals, modules, uses, sent, open>>
      /\ child[f] = "reading"
      /\ \A g \in Files : g # f => child'[g] = child[g] /\ received'[g] = received[g]
      /\ child'[f] = "emitted" => received'[f] = received[f] /\ ~open[f]
                                  /\ (wire[f] = <<>> \/ step = "dead")
  <2>1. ASSUME NEW n \in 1 .. Min({BufSize, Len(wire[f])}), Read(f, n)
        PROVE  /\ UNCHANGED <<file, step, literals, modules, uses, sent, open, child>>
               /\ child[f] = "reading"
               /\ \A g \in Files : g # f => received'[g] = received[g]
    <3>1. \E more \in Seq(Objects) : received' = [received EXCEPT ![f] = received[f] \o more]
          /\ UNCHANGED child
      BY <1>1, <2>1, ReadDoes
    <3> QED
      BY <1>1, <2>1, <3>1 DEF Read, parent
  <2>2. CASE ReadEnd(f)
    BY <1>1, <2>2 DEF ReadEnd, parent
  <2> QED
    BY <2>1, <2>2 DEF Child
<1>3. PhaseInv'
  <2>1. step = "start" => child[file] = "none"
    BY DEF ParentInv, PhaseInv, Fresh
  <2>2. step = "start" => child'[file] = "none"
    BY <1>1, <1>2, <2>1 DEF TypeInv
  <2> QED
    BY <1>2, <2>2 DEF ParentInv, PhaseInv, Fresh
<1>4. LaterInv'
  <2> SUFFICES ASSUME NEW g \in Files, g > file
               PROVE  Fresh(g)' /\ (step # "dead" => open[g])
    BY <1>2 DEF LaterInv
  <2>1. Fresh(g) /\ (step # "dead" => open[g])
    BY DEF ParentInv, LaterInv
  <2>2. g # f
    BY <1>2, <2>1 DEF Fresh
  <2> QED
    BY <1>2, <2>1, <2>2 DEF Fresh
<1>5. EmittedInv'
  <2> SUFFICES ASSUME NEW g \in Files, child'[g] = "emitted", step # "dead"
               PROVE  received'[g] = sent[g] /\ ~open[g]
    BY <1>2 DEF EmittedInv
  <2>1. CASE g # f
    BY <1>2, <2>1 DEF ParentInv, EmittedInv
  <2>2. CASE g = f
    <3>1. received'[f] = received[f] /\ ~open[f] /\ wire[f] = <<>>
      BY <1>2, <2>2
    <3>2. OnItsWay(sent[f], received[f], inFrame[f], data[f], <<>>) /\ received[f] \in Seq(Objects)
      BY <1>1, <3>1 DEF PipeInv, StreamInv
    <3>3. sent[f] = received[f]
      BY <3>2, NothingUnread
    <3> QED
      BY <2>2, <3>1, <3>3
  <2> QED
    BY <2>1, <2>2
<1>6. WholeInv' /\ UsesInv'
  BY <1>2 DEF ParentInv, WholeInv, Whole, UsesInv
<1> QED
  BY <1>3, <1>4, <1>5, <1>6

(* The parent dies.                                                        *)
LEMMA DieParent ==
  ASSUME ParentInv, Die
  PROVE  PhaseInv' /\ LaterInv' /\ EmittedInv' /\ WholeInv' /\ UsesInv'
<1>1. step' = "dead" /\ UNCHANGED <<file, uses, sent, child>>
  BY DEF Die, reader
<1>2. PhaseInv' /\ EmittedInv'
  BY <1>1 DEF PhaseInv, EmittedInv, Active
<1>3. LaterInv'
  BY <1>1 DEF ParentInv, LaterInv, Fresh
<1>4. WholeInv' /\ UsesInv'
  BY <1>1 DEF ParentInv, WholeInv, Whole, UsesInv
<1> QED
  BY <1>2, <1>3, <1>4

(* The state at the beginning.                                             *)
LEMMA ParentInit ==
  Init => ParentInv
<1> SUFFICES ASSUME Init
             PROVE  ParentInv
  OBVIOUS
<1> HIDE DEF Objects, Chars
<1>1. 1 \in Files
  BY PipeAssumption DEF Files
<1>2. \A f \in Files : Fresh(f) /\ open[f] /\ child[f] = "none" /\ sent[f] = <<>>
  BY DEF Init, Fresh
<1>3. PhaseInv
  BY <1>1, <1>2 DEF Init, PhaseInv, Active
<1>4. LaterInv /\ EmittedInv
  BY <1>2 DEF LaterInv, EmittedInv
<1>5. WholeInv
  BY <1>2, NothingYet DEF WholeInv
<1>6. UsesInv
  BY DEF Init, UsesInv
<1> QED
  BY <1>3, <1>4, <1>5, <1>6, PipeInit DEF ParentInv

(* Every step.                                                             *)
LEMMA ParentStep ==
  ParentInv /\ [Next]_vars => ParentInv'
<1> SUFFICES ASSUME ParentInv, [Next]_vars
             PROVE  ParentInv'
  OBVIOUS
<1>1. PipeInv'
  BY PipeStep DEF ParentInv
<1>2. PhaseInv' /\ LaterInv' /\ EmittedInv' /\ WholeInv' /\ UsesInv'
  <2>1. CASE Parent
    BY <2>1, StartParent, CompileUnitParent, ThrowParent, StringsParent, LiteralsParent,
       ModulesParent, TypeInfoParent, FinishParent DEF Parent
  <2>2. CASE Die
    BY <2>2, DieParent
  <2>3. ASSUME NEW f \in Files, Child(f)
        PROVE  PhaseInv' /\ LaterInv' /\ EmittedInv' /\ WholeInv' /\ UsesInv'
    BY <2>3, ChildParent
  <2>4. CASE UNCHANGED vars
    BY <2>4 DEF vars, parent, reader, ParentInv, PhaseInv, LaterInv, Fresh, EmittedInv,
                WholeInv, Whole, UsesInv
  <2>5. CASE Stopped
    BY <2>4, <2>5 DEF Stopped
  <2> QED
    BY <2>1, <2>2, <2>3, <2>4, <2>5 DEF Next
<1> QED
  BY <1>1, <1>2 DEF ParentInv

(* What the parent has written of each file at each of its steps, and what *)
(* a child that has emitted has received.                                  *)
THEOREM ParentInvariance ==
  Spec => []ParentInv
<1> QED
  BY ParentInit, ParentStep, PTL DEF Spec

(* As many literal arrays are referred to as there are.                    *)
LEMMA UsesCounted ==
  ASSUME NEW ls \in Seq(Texts)
  PROVE  IsFiniteSet(Uses(ls)) /\ Cardinality(Uses(ls)) = Len(ls)
<1> DEFINE G(s) == IsFiniteSet(Uses(s)) /\ Cardinality(Uses(s)) = Len(s)
           S == {s \in Seq(Texts) : G(s)}
<1>1. <<>> \in S
  <2>1. Uses(<<>>) = {} /\ Len(<<>>) = 0 /\ <<>> \in Seq(Texts)
    BY EmptySeq DEF Uses
  <2> QED
    BY <2>1, FS_EmptySet
<1>2. \A s \in S, e \in Texts : Append(s, e) \in S
  <2> SUFFICES ASSUME NEW s \in S, NEW e \in Texts
               PROVE  Append(s, e) \in S
    OBVIOUS
  <2> DEFINE n == Len(s)
             p == Append(s, e)
  <2>1. s \in Seq(Texts) /\ IsFiniteSet(Uses(s)) /\ Cardinality(Uses(s)) = n /\ n \in Nat
    BY LenProperties
  <2>2. Uses(p) = Uses(s) \cup {<<n, e>>}
    BY <2>1, UsesAppend
  <2>3. ASSUME <<n, e>> \in Uses(s)
        PROVE  FALSE
    <3>1. PICK i \in 1 .. n : <<n, e>> = <<i - 1, s[i]>>
      BY <2>3 DEF Uses
    <3>2. n = i - 1
      BY <3>1
    <3> QED
      BY <2>1, <3>2
  <2>4. p \in Seq(Texts) /\ Len(p) = n + 1
    BY <2>1, AppendProperties
  <2> DEFINE x == <<n, e>>
             U == Uses(s)
  <2>7. x \notin U /\ Uses(p) = U \cup {x} /\ IsFiniteSet(U) /\ Cardinality(U) = n
    BY <2>1, <2>2, <2>3
  <2> HIDE DEF n, p, x, U
  <2>5. IsFiniteSet(Uses(p)) /\ Cardinality(Uses(p)) = n + 1
    BY <2>7, FS_AddElement
  <2>6. G(p)
    BY <2>4, <2>5
  <2> QED
    BY <2>4, <2>6 DEF p
<1>3. S \in SUBSET Seq(Texts)
  OBVIOUS
<1>4. ls \in S => G(ls)
  OBVIOUS
<1> HIDE DEF S, G
<1>5. S = Seq(Texts)
  BY <1>1, <1>2, <1>3, SeqInduction
<1>6. G(ls)
  BY <1>4, <1>5
<1> QED
  BY <1>6 DEF G

(* The .abc file of a compilation that came to its end is whole: every     *)
(* literal array is filed under the index by which functions refer to it,  *)
(* and the module record after them.                                       *)
THEOREM IndicesInvariant ==
  Spec => []IndicesAgree
<1>1. ParentInv => IndicesAgree
  <2> HIDE DEF Objects, Chars
  <2> SUFFICES ASSUME ParentInv, NEW f \in Files, child[f] = "emitted", Complete(f),
                      step # "dead"
               PROVE  /\ received[f] = sent[f]
                      /\ \A use \in uses[f] : Table(f)[use[1] + 1] = Obj("literal", use[2])
                      /\ Len(Table(f)) = Cardinality(uses[f]) + 1
                      /\ Last(Table(f)).kind = "module"
    BY DEF IndicesAgree
  <2>1. received[f] = sent[f]
    BY DEF ParentInv, EmittedInv
  <2>2. HasTypeInfo(sent[f])
    BY DEF Complete, HasTypeInfo
  <2>3. PICK ls \in Seq(Texts) : uses[f] = Uses(ls) /\ TableOf(sent[f]) = Append(Lits(ls, Len(ls)), Mod)
    BY <2>2 DEF ParentInv, WholeInv, Whole
  <2> DEFINE n == Len(ls)
             l == Lits(ls, n)
             t == Append(l, Mod)
  <2>4. n \in Nat /\ l \in Seq(Objects) /\ Len(l) = n /\ Mod \in Objects /\ Mod.kind = "module"
    <3>1. n \in Nat
      BY LenProperties
    <3>2. n <= Len(ls)
      BY <3>1
    <3>3. l \in Seq(Objects) /\ Len(l) = n
      <4> HIDE DEF n
      <4> QED
        BY <3>1, <3>2, LitsAppend
    <3>4. Mod \in Objects
      BY ObjTyped DEF Mod
    <3>5. Mod.kind = "module"
      BY DEF Mod, Obj
    <3> QED
      BY <3>1, <3>3, <3>4, <3>5
  <2>5. \A i \in 1 .. n : l[i] = Obj("literal", ls[i])
    BY DEF Lits
  <2>6. Table(f) = t
    BY <2>1, <2>3 DEF Table
  <2> HIDE DEF n, l
  <2>7. Len(t) = n + 1 /\ t[n + 1] = Mod /\ \A i \in 1 .. n : t[i] = l[i]
    BY <2>4, AppendProperties
  <2> HIDE DEF t
  <2>8. ASSUME NEW use \in uses[f]
        PROVE  t[use[1] + 1] = Obj("literal", use[2])
    <3>1. PICK i \in 1 .. n : use = <<i - 1, ls[i]>>
      BY <2>3 DEF Uses, n
    <3>2. use[1] = i - 1 /\ use[2] = ls[i]
      BY <3>1
    <3>3. use[1] + 1 = i
      BY <2>4, <3>2
    <3> QED
      BY <2>5, <2>7, <3>2, <3>3
  <2>9. Cardinality(uses[f]) = n
    BY <2>3, UsesCounted DEF n
  <2>10. Last(t) = Mod
    BY <2>7 DEF Last
  <2> QED
    BY <2>1, <2>4, <2>6, <2>7, <2>8, <2>9, <2>10
<1> QED
  BY <1>1, ParentInvariance, PTL

-----------------------------------------------------------------------------
(* The refinement: every step of the two processes is a step of the        *)
(* channel, or none.                                                       *)

(* The initial states map to the initial state of the channel.             *)
LEMMA ChannelInit ==
  Init => Channel!Init
BY DEF Init, Channel!Init

(* The vector of the channel's variables.                                  *)
LEMMA ChannelStutters ==
  ASSUME UNCHANGED <<sent, received, open>>,
         \A f \in Files : child'[f] \in {"none", "reading"} <=> child[f] \in {"none", "reading"}
  PROVE  UNCHANGED Channel!vars
BY DEF Channel!vars

(* An object is written.                                                   *)
LEMMA ChannelSends ==
  ASSUME ParentInv, NEW o \in Objects, Write(o), open[file], UNCHANGED <<received, open>>,
         \A f \in Files : child'[f] \in {"none", "reading"} <=> child[f] \in {"none", "reading"}
  PROVE  Channel!Next
<1>1. file \in Files
  BY DEF ParentInv, PipeInv, TypeInv
<1>2. Channel!Send(file, o)
  BY DEF Channel!Send, Write
<1> QED
  BY <1>1, <1>2 DEF Channel!Next

(* Streams are ended.                                                      *)
LEMMA ChannelEnds ==
  ASSUME ParentInv, NEW ended \in SUBSET Files, UNCHANGED <<sent, received, child>>,
         \A f \in ended : open[f], open' = [f \in Files |-> open[f] /\ f \notin ended]
  PROVE  Channel!Next
<1>1. Channel!End(ended)
  BY DEF Channel!End
<1> QED
  BY <1>1 DEF Channel!Next

(* A read hands over objects, or none.                                     *)
LEMMA ChannelDelivers ==
  ASSUME ParentInv, NEW f \in Files, NEW n \in 1 .. Min({BufSize, Len(wire[f])}), Read(f, n)
  PROVE  Channel!Next \/ UNCHANGED Channel!vars
<1> HIDE DEF Objects, Chars
<1>1. /\ TypeInv /\ received \in [Files -> Seq(Objects)] /\ PipeInv
      /\ child[f] = "reading" /\ UNCHANGED <<sent, open>>
  BY DEF ParentInv, PipeInv, TypeInv, Read
<1>2. PICK fr \in BOOLEAN, d \in Seq(Chars), more \in Seq(Objects), w \in Seq(Chars) :
           /\ OnItsWay(sent[f], received[f] \o more, fr, d, w)
           /\ received' = [received EXCEPT ![f] = received[f] \o more]
           /\ UNCHANGED child
  BY <1>1, ReadDoes
<1> DEFINE r == received[f]
           r1 == r \o more
<1>3. r \in Seq(Objects) /\ received' = [received EXCEPT ![f] = r1]
  BY <1>1, <1>2
<1> HIDE DEF r
<1>4. /\ r1 \in Seq(Objects) /\ Len(r1) = Len(r) + Len(more)
      /\ Len(r) \in Nat /\ Len(more) \in Nat
  BY <1>3, ConcatProperties, LenProperties
<1>5. CASE more = <<>>
  <2>1. r1 = r
    BY <1>3, <1>5, ConcatEmptySeq
  <2>2. received' = received
    BY <1>1, <1>3, <2>1 DEF r
  <2> QED
    BY <1>1, <1>2, <2>2, ChannelStutters
<1>6. CASE more # <<>>
  <2>1. Len(more) > 0
    BY <1>4, <1>6, EmptySeq
  <2>2. PICK rest \in Seq(Objects) : sent[f] = r1 \o rest
    BY <1>2 DEF OnItsWay, r
  <2> HIDE DEF r1
  <2>3. Len(r1 \o rest) = Len(r1) + Len(rest) /\ Len(rest) \in Nat /\ IsPrefix(r1, r1 \o rest)
    BY <1>4, ConcatProperties, LenProperties, ConcatIsLonger
  <2>4. Len(sent[f]) = Len(r1) + Len(rest)
    BY <2>2, <2>3, Zenon
  <2>5. IsPrefix(r1, sent[f])
    BY <2>2, <2>3, Zenon
  <2>6. SubSeq(sent[f], 1, Len(r1)) = r1
    BY <1>4, <2>5, SubSeqFull DEF IsPrefix
  <2>7. Len(r1) \in Len(r) + 1 .. Len(sent[f])
    BY <1>4, <2>1, <2>3, <2>4
  <2>8. Channel!Deliver(f)
    BY <1>1, <1>2, <1>3, <2>6, <2>7 DEF Channel!Deliver, r
  <2> QED
    BY <2>8 DEF Channel!Next
<1> QED
  BY <1>5, <1>6

(* Every step of the two processes maps to a step of the channel, or none. *)
LEMMA ChannelStep ==
  ParentInv /\ [Next]_vars => [Channel!Next]_(Channel!vars)
<1> SUFFICES ASSUME ParentInv, [Next]_vars
             PROVE  Channel!Next \/ UNCHANGED Channel!vars
  OBVIOUS
<1> HIDE DEF Objects, Chars
<1>1. /\ PipeInv /\ TypeInv /\ file \in Files /\ child \in [Files -> {"none", "reading", "emitted"}]
      /\ open \in [Files -> BOOLEAN] /\ literals \in Seq(Texts)
  BY DEF ParentInv, PipeInv, TypeInv
<1>2. /\ step = "start" => child[file] = "none" /\ open[file]
      /\ step \in Active => open[file]
  BY DEF ParentInv, PhaseInv, Fresh
<1>3. CASE Start
  <2>1. /\ Write(Obj("options", <<>>)) /\ open[file] /\ UNCHANGED <<received, open>>
        /\ Obj("options", <<>>) \in Objects
        /\ child' = [child EXCEPT ![file] = "reading"] /\ child[file] = "none"
    BY <1>2, <1>3, ObjTyped DEF Start
  <2>2. \A f \in Files : child'[f] \in {"none", "reading"} <=> child[f] \in {"none", "reading"}
    BY <1>1, <2>1
  <2> QED
    BY <2>1, <2>2, ChannelSends
<1>4. ASSUME NEW text \in Texts, NEW newLiteral \in BOOLEAN, CompileUnit(text, newLiteral)
      PROVE  Channel!Next
  <2>1. /\ Write(Obj("function", text)) /\ open[file] /\ UNCHANGED <<received, open, child>>
        /\ Obj("function", text) \in Objects
    BY <1>2, <1>4, ObjTyped DEF CompileUnit, reader, Active
  <2> QED
    BY <2>1, ChannelSends
<1>5. CASE Throw
  <2> DEFINE ended == IF step = "units" THEN {file} ELSE {}
  <2>1. /\ ended \in SUBSET Files /\ \A f \in ended : open[f]
        /\ UNCHANGED <<sent, received, child>>
    BY <1>1, <1>2, <1>5 DEF Throw, reader, Active
  <2>2. open' = [f \in Files |-> open[f] /\ f \notin ended]
    BY <1>1, <1>5 DEF Throw
  <2> HIDE DEF ended
  <2> QED
    BY <2>1, <2>2, ChannelEnds
<1>6. CASE DumpStrings
  <2>1. /\ Write(Obj("string", <<>>)) /\ open[file] /\ UNCHANGED <<received, open, child>>
        /\ Obj("string", <<>>) \in Objects
    BY <1>2, <1>6, ObjTyped DEF DumpStrings, reader, Active
  <2> QED
    BY <2>1, ChannelSends
<1>7. CASE DumpConstantPool
  <2>1. open[file] /\ UNCHANGED <<received, open, child>>
    BY <1>2, <1>7 DEF DumpConstantPool, reader, Active
  <2>2. CASE Count("literal") < Len(literals)
    <3>1. literals[Count("literal") + 1] \in Texts
      <4>1. Count("literal") \in Nat /\ Len(literals) \in Nat
        BY <1>1, CountIsNat, LenProperties
      <4>2. Count("literal") + 1 \in 1 .. Len(literals)
        BY <2>2, <4>1
      <4> QED
        BY <1>1, <4>2, ElementOfSeq
    <3>2. Obj("literal", literals[Count("literal") + 1]) \in Objects
      BY <3>1, ObjTyped
    <3>3. Write(Obj("literal", literals[Count("literal") + 1]))
      BY <1>7, <2>2 DEF DumpConstantPool
    <3> QED
      BY <2>1, <3>2, <3>3, ChannelSends
  <2>3. CASE ~(Count("literal") < Len(literals))
    <3>1. UNCHANGED sent
      BY <1>7, <2>3 DEF DumpConstantPool
    <3> QED
      BY <2>1, <3>1, ChannelStutters
  <2> QED
    BY <2>2, <2>3
<1>8. CASE DumpModuleRecords
  <2>1. open[file] /\ UNCHANGED <<received, open, child>>
    BY <1>2, <1>8 DEF DumpModuleRecords, reader, Active
  <2>2. CASE Count("module") < Len(modules)
    <3>1. Write(Obj("module", <<>>)) /\ Obj("module", <<>>) \in Objects
      BY <1>8, <2>2, ObjTyped DEF DumpModuleRecords
    <3> QED
      BY <2>1, <3>1, ChannelSends
  <2>3. CASE ~(Count("module") < Len(modules))
    <3>1. UNCHANGED sent
      BY <1>8, <2>3 DEF DumpModuleRecords
    <3> QED
      BY <2>1, <3>1, ChannelStutters
  <2> QED
    BY <2>2, <2>3
<1>9. CASE DumpTypeInfo
  <2>1. /\ Write(Obj("typeinfo", <<>>)) /\ open[file] /\ UNCHANGED <<received, open, child>>
        /\ Obj("typeinfo", <<>>) \in Objects
    BY <1>2, <1>9, ObjTyped DEF DumpTypeInfo, reader, Active
  <2> QED
    BY <2>1, ChannelSends
<1>10. CASE Finish
  <2> DEFINE ended == {file}
  <2>1. /\ ended \in SUBSET Files /\ \A f \in ended : open[f]
        /\ UNCHANGED <<sent, received, child>>
    BY <1>1, <1>2, <1>10 DEF Finish, reader, Active
  <2>2. open' = [f \in Files |-> open[f] /\ f \notin ended]
    BY <1>1, <1>10 DEF Finish
  <2> HIDE DEF ended
  <2> QED
    BY <2>1, <2>2, ChannelEnds
<1>11. CASE Die
  <2> DEFINE ended == {f \in Files : open[f]}
  <2>1. /\ ended \in SUBSET Files /\ \A f \in ended : open[f]
        /\ UNCHANGED <<sent, received, child>>
    BY <1>11 DEF Die, reader
  <2>2. open' = [f \in Files |-> open[f] /\ f \notin ended]
    BY <1>11 DEF Die
  <2> HIDE DEF ended
  <2> QED
    BY <2>1, <2>2, ChannelEnds
<1>12. ASSUME NEW f \in Files, Child(f)
       PROVE  Channel!Next \/ UNCHANGED Channel!vars
  <2>1. ASSUME NEW n \in 1 .. Min({BufSize, Len(wire[f])}), Read(f, n)
        PROVE  Channel!Next \/ UNCHANGED Channel!vars
    BY <2>1, ChannelDelivers
  <2>2. CASE ReadEnd(f)
    <3> DEFINE reading == [g \in Files |-> child[g] \in {"none", "reading"}]
    <3>1. /\ child[f] = "reading" /\ ~open[f] /\ UNCHANGED <<sent, received, open>>
          /\ child' = [child EXCEPT ![f] = "emitted"]
      BY <2>2 DEF ReadEnd
    <3>2. \A g \in Files : g # f => child'[g] = child[g]
      BY <1>1, <3>1
    <3>3. child'[f] = "emitted"
      BY <1>1, <3>1
    <3>4. reading' = [reading EXCEPT ![f] = FALSE]
      <4>1. reading' = [g \in Files |-> child'[g] \in {"none", "reading"}]
        OBVIOUS
      <4>2. \A g \in Files : (child'[g] \in {"none", "reading"})
                            = IF g = f THEN FALSE ELSE child[g] \in {"none", "reading"}
        <5>1. child'[f] \notin {"none", "reading"}
          BY <3>3
        <5> SUFFICES ASSUME NEW g \in Files
                     PROVE  (child'[g] \in {"none", "reading"})
                            = IF g = f THEN FALSE ELSE child[g] \in {"none", "reading"}
          OBVIOUS
        <5>2. CASE g = f
          <6> DEFINE b == child'[g] \in {"none", "reading"}
          <6>1. b \in BOOLEAN
            BY SMT
          <6>2. ~b
            BY <5>1, <5>2
          <6> HIDE DEF b
          <6>3. b = FALSE
            BY <6>1, <6>2
          <6> QED
            BY <5>2, <6>3 DEF b
        <5>3. CASE g # f
          BY <3>2, <5>3
        <5> QED
          BY <5>2, <5>3
      <4>3. [reading EXCEPT ![f] = FALSE]
            = [g \in Files |-> IF g = f THEN FALSE ELSE child[g] \in {"none", "reading"}]
        OBVIOUS
      <4> QED
        BY <4>1, <4>2, <4>3
    <3>5. Channel!Stop(f)
      BY <3>1, <3>4 DEF Channel!Stop
    <3> QED
      BY <3>5 DEF Channel!Next
  <2> QED
    BY <1>12, <2>1, <2>2 DEF Child
<1>13. CASE UNCHANGED vars
  <2>1. UNCHANGED <<sent, received, open, child>>
    BY <1>13 DEF vars, reader
  <2> QED
    BY <2>1, ChannelStutters
<1>14. CASE Stopped
  BY <1>13, <1>14 DEF Stopped
<1> QED
  BY <1>3, <1>4, <1>5, <1>6, <1>7, <1>8, <1>9, <1>10, <1>11, <1>12, <1>13, <1>14
  DEF Next, Parent

(* However the reads cut the streams and wherever the parent dies, each    *)
(* pipe is a reliable, ordered channel of objects.                         *)
THEOREM PipesAreChannels ==
  Spec => ImplementsChannel
<1>1. Init => Channel!Init
  BY ChannelInit
<1>2. ParentInv /\ [Next]_vars => [Channel!Next]_(Channel!vars)
  BY ChannelStep
<1> QED
  BY <1>1, <1>2, ParentInvariance, PTL DEF Spec, ImplementsChannel, Channel!Spec

=============================================================================
