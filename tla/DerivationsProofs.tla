------------------------- MODULE DerivationsProofs -------------------------
(***************************************************************************)
(* Theorems about Derivations: for every text, however long and however    *)
(* far from what nix writes, and for every set of literals, store paths    *)
(* and derivations.                                                        *)
(***************************************************************************)
EXTENDS Derivations, TLAPS, WellFoundedInduction, FiniteSetTheorems

\* The elements of lists, and the parsers.
Kinds == {"output", "input", "string", "pair"}
Parsers == {"derivation"} \cup Kinds

Lists == {List("output"), List("input"), List("string"), List("pair")}
Tags == {Tag("("), Tag(")"), Tag(",")}

\* What a parser of that kind may come to, in a file of that version: only a
\* derivation has a list of outputs, only an output is made by the store, and only
\* an input of a dynamic derivation is unfinished.
StepsOf(kind, v) ==
  {step \in Tags \cup Lists \cup {Str, Make, Unfinished} :
     \/ step \in Tags \cup {Str}
     \/ kind = "derivation" /\ step \in Lists
     \/ kind = "output" /\ step = Make
     \/ kind = "input" /\ step = List("string")
     \/ kind = "input" /\ step = Unfinished /\ v = "Dynamic"}

\* A sequence, whatever its elements.
IsSeq(s) == \E S : s \in Seq(S)

\* A frame at position i of the stack, in a file of version v.
Parser(f, i, v) ==
  /\ f = [kind |-> f.kind, saved |-> f.saved, items |-> f.items, parts |-> f.parts,
          todo |-> f.todo]
  /\ f.kind \in Parsers /\ (i = 1) = (f.kind = "derivation")
  /\ f.saved \in Nat
  /\ f.todo \in Seq(StepsOf(f.kind, v))

\* Frame g parses an element of the list that frame f is at.
Opened(f, g) == f.todo # <<>> /\ Head(f.todo) = List(g.kind)

\* The parsers under way at position p: each is the list that the one below it is
\* at, and would end no earlier than those below it.
Nested(s, p, v) ==
  /\ IsSeq(s)
  /\ \A i \in 1..Len(s) : Parser(s[i], i, v) /\ s[i].saved <= p
  /\ \A i \in 1..Len(s) : \A j \in 1..Len(s) : i <= j => s[i].saved <= s[j].saved
  /\ \A i \in 1..Len(s) - 1 : Opened(s[i], s[i + 1])

Busy == pc \in {"parse", "unwind"}

\* The inductive invariant.
Kept ==
  /\ text \in Seq(Tokens)
  /\ pc \in {"open", "version", "parse", "unwind", "done"} \/ Stopped
  /\ pos \in 1..Len(text) + 1
  /\ version \in {"none", "Traditional", "Dynamic"}
  /\ ctx \in {"ok", "nix"}
  /\ Busy => frames # <<>>
  /\ Nested(frames, pos, version)

----------------------------------------------------------------------------
(* Stacks.                                                                 *)

\* The frames below the top.
LEMMA PopStack ==
  ASSUME NEW s, IsSeq(s), s # <<>>
  PROVE  /\ Len(s) \in Nat /\ Len(s) >= 1 /\ Last(s) = s[Len(s)]
         /\ IsSeq(Front(s)) /\ Len(Front(s)) = Len(s) - 1
         /\ \A i \in 1..Len(s) - 1 : Front(s)[i] = s[i]
         /\ (Front(s) = <<>>) = (Len(s) = 1)
<1>1. PICK S : s \in Seq(S)
  BY DEF IsSeq
<1>2. Len(s) \in Nat /\ Len(s) >= 1
  BY <1>1
<1>3. Front(s) \in Seq(S) /\ Len(Front(s)) = Len(s) - 1
  <2> DEFINE n == Len(s) - 1
  <2>1. n \in 0..Len(s)
    BY <1>2
  <2> HIDE DEF n
  <2>2. SubSeq(s, 1, n) \in Seq(S) /\ Len(SubSeq(s, 1, n)) = n
    BY <1>1, <1>2, <2>1
  <2> QED
    BY <2>2 DEF Front, n
<1>4. \A i \in 1..Len(s) - 1 : Front(s)[i] = s[i]
  BY <1>1, <1>2 DEF Front
<1>5. (Front(s) = <<>>) <=> (Len(s) = 1)
  BY <1>2, <1>3
<1> QED
  BY <1>2, <1>3, <1>4, <1>5 DEF IsSeq, Last

\* A frame more.
LEMMA PushStack ==
  ASSUME NEW s, IsSeq(s), NEW f
  PROVE  /\ IsSeq(Append(s, f)) /\ Len(s) \in Nat /\ Len(Append(s, f)) = Len(s) + 1
         /\ \A i \in 1..Len(s) : Append(s, f)[i] = s[i]
         /\ Append(s, f)[Len(s) + 1] = f
<1>1. PICK S : s \in Seq(S)
  BY DEF IsSeq
<1> DEFINE T == S \cup {f}
<1>2. s \in Seq(T) /\ f \in T
  BY <1>1
<1> HIDE DEF T
<1>3. Append(s, f) \in Seq(T)
  BY <1>2
<1> QED
  BY <1>2, <1>3 DEF IsSeq

\* A stack stays nested when its upper frames give way to one that fits.
LEMMA Stacked ==
  ASSUME NEW s, NEW p \in Nat, NEW v, Nested(s, p, v), NEW n \in Nat, n <= Len(s), NEW g,
         Parser(g, n + 1, v), NEW q \in Nat, g.saved <= q,
         n > 0 => Opened(s[n], g) /\ s[n].saved <= g.saved,
         NEW t, IsSeq(t), Len(t) = n + 1, \A i \in 1..n : t[i] = s[i], t[n + 1] = g
  PROVE  Nested(t, q, v)
<1>0. Len(s) \in Nat
  BY DEF Nested, IsSeq
<1>1. ASSUME NEW i \in 1..n + 1
      PROVE  Parser(t[i], i, v) /\ t[i].saved <= g.saved /\ t[i].saved \in Nat
  <2>1. CASE i = n + 1
    BY <2>1 DEF Parser
  <2>2. CASE i \in 1..n
    <3>1. t[i] = s[i] /\ i \in 1..Len(s) /\ n \in 1..Len(s) /\ i <= n
      BY <1>0, <2>2
    <3>2. Parser(s[i], i, v) /\ s[i].saved <= s[n].saved /\ Parser(s[n], n, v)
      BY <3>1 DEF Nested
    <3>3. s[i].saved \in Nat /\ s[n].saved \in Nat /\ g.saved \in Nat
      BY <3>2 DEF Parser
    <3> QED
      BY <2>2, <3>1, <3>2, <3>3
  <2> QED
    BY <2>1, <2>2
<1>2. g.saved \in Nat
  BY DEF Parser
<1>3. \A i \in 1..n + 1 : Parser(t[i], i, v) /\ t[i].saved <= q
  BY <1>1, <1>2
<1>4. ASSUME NEW i \in 1..n + 1, NEW j \in 1..n + 1, i <= j PROVE t[i].saved <= t[j].saved
  <2>1. CASE j = n + 1
    BY <1>1, <2>1
  <2>2. CASE j \in 1..n
    <3>1. t[i] = s[i] /\ t[j] = s[j] /\ i \in 1..Len(s) /\ j \in 1..Len(s)
      BY <1>0, <1>4, <2>2
    <3> QED
      BY <1>4, <3>1 DEF Nested
  <2> QED
    BY <2>1, <2>2
<1>5. ASSUME NEW i \in 1..n PROVE Opened(t[i], t[i + 1])
  <2>1. CASE i = n
    BY <2>1
  <2>2. CASE i # n
    <3>1. t[i] = s[i] /\ t[i + 1] = s[i + 1] /\ i \in 1..Len(s) - 1
      BY <1>0, <2>2
    <3> QED
      BY <3>1 DEF Nested
  <2> QED
    BY <2>1, <2>2
<1>6. Len(t) - 1 = n
  OBVIOUS
<1> QED
  BY <1>3, <1>4, <1>5, <1>6 DEF Nested

\* And when its top gives way to nothing.
LEMMA Popped ==
  ASSUME NEW s, NEW p \in Nat, NEW v, Nested(s, p, v), s # <<>>
  PROVE  Nested(Front(s), p, v)
<1>1. IsSeq(s)
  BY DEF Nested
<1>2. /\ Len(s) \in Nat /\ Len(s) >= 1 /\ IsSeq(Front(s)) /\ Len(Front(s)) = Len(s) - 1
      /\ \A i \in 1..Len(s) - 1 : Front(s)[i] = s[i]
  BY <1>1, PopStack
<1> DEFINE t == Front(s)
           n == Len(s)
<1> HIDE DEF t, n
<1>3. n \in Nat /\ n >= 1 /\ Len(t) = n - 1 /\ IsSeq(t) /\ \A i \in 1..n - 1 : t[i] = s[i]
  BY <1>2 DEF t, n
<1>4. /\ \A i \in 1..n : Parser(s[i], i, v) /\ s[i].saved <= p
      /\ \A i \in 1..n : \A j \in 1..n : i <= j => s[i].saved <= s[j].saved
      /\ \A i \in 1..n - 1 : Opened(s[i], s[i + 1])
  BY DEF Nested, n
<1>5. /\ \A i \in 1..n - 1 : Parser(t[i], i, v) /\ t[i].saved <= p
      /\ \A i \in 1..n - 1 : \A j \in 1..n - 1 : i <= j => t[i].saved <= t[j].saved
  BY <1>3, <1>4
<1>6. \A i \in 1..(n - 1) - 1 : Opened(t[i], t[i + 1])
  BY <1>3, <1>4
<1>7. Nested(t, p, v)
  BY <1>3, <1>5, <1>6 DEF Nested
<1> QED
  BY <1>7 DEF t

\* What becomes of a frame when a step of its parser is done.
LEMMA ParserGoesOn ==
  ASSUME NEW f, NEW i, NEW v, Parser(f, i, v), NEW todo, NEW parts
  PROVE  [f EXCEPT !.todo = todo, !.parts = parts]
           = [kind |-> f.kind, saved |-> f.saved, items |-> f.items, parts |-> parts, todo |-> todo]
<1> DEFINE kind == f.kind
           saved == f.saved
           items == f.items
           others == f.parts
           steps == f.todo
<1>1. f = [kind |-> kind, saved |-> saved, items |-> items, parts |-> others, todo |-> steps]
  BY DEF Parser
<1> HIDE DEF kind, saved, items, others, steps
<1> DEFINE g == [f EXCEPT !.todo = todo, !.parts = parts]
<1>2. g = [f EXCEPT !.todo = todo, !.parts = parts]
  OBVIOUS
<1> HIDE DEF g
<1>3. g = [kind |-> kind, saved |-> saved, items |-> items, parts |-> parts, todo |-> todo]
  BY <1>1, <1>2
<1> QED
  BY <1>3 DEF g, kind, saved, items

----------------------------------------------------------------------------
(* The grammar.                                                            *)

\* The steps that are lists.
LEMMA ListSteps ==
  ASSUME NEW kind, NEW v, NEW step \in StepsOf(kind, v), step[1] = "list"
  PROVE  step \in Lists
<1>1. step \in Tags \/ step \in Lists \/ step \in {Str, Make, Unfinished}
  BY DEF StepsOf
<1>2. \A t : Tag(t)[1] = "tag"
  BY DEF Tag
<1>3. Str[1] = "string" /\ Make[1] = "new" /\ Unfinished[1] = "todo"
  BY DEF Str, Make, Unfinished
<1>4. step \in Tags => step[1] = "tag"
  BY <1>2 DEF Tags
<1>5. step \in {Str, Make, Unfinished} => step[1] \in {"string", "new", "todo"}
  BY <1>3
<1> QED
  BY <1>1, <1>4, <1>5

\* The steps of an element are those of its kind.
LEMMA ElementSteps ==
  ASSUME NEW kind \in Kinds, NEW v, v = version
  PROVE  Element(kind) \in Seq(StepsOf(kind, v)) /\ Element(kind) # <<>>
<1> DEFINE S == StepsOf(kind, v)
           first == Tag("(")
           comma == Tag(",")
           last == Tag(")")
<1>1. first \in S /\ last \in S /\ comma \in S /\ Str \in S
  BY DEF StepsOf, Tags
<1>2. kind = "output" => Make \in S
  BY DEF StepsOf
<1>3. kind = "input" => InputDrv \in S
  BY DEF StepsOf, InputDrv, Lists
<1> HIDE DEF S, first, comma, last
<1>4. kind = "output"
      => <<first, Str, comma, Str, comma, Str, comma, Str, last, Make>> \in Seq(S)
  BY <1>1, <1>2
<1>5. kind = "input" => <<first, Str, comma, InputDrv, last>> \in Seq(S)
  BY <1>1, <1>3
<1>6. <<Str>> \in Seq(S) /\ <<first, Str, comma, Str, last>> \in Seq(S)
  BY <1>1
<1>7. /\ kind = "output"
         => Element(kind) = <<first, Str, comma, Str, comma, Str, comma, Str, last, Make>>
      /\ kind = "input" => Element(kind) = <<first, Str, comma, InputDrv, last>>
      /\ kind = "string" => Element(kind) = <<Str>>
      /\ kind = "pair" => Element(kind) = <<first, Str, comma, Str, last>>
  BY DEF Element, first, comma, last
<1>8. Element(kind) \in Seq(S)
  BY <1>4, <1>5, <1>6, <1>7 DEF Kinds
<1>9. Element(kind) # <<>>
  BY <1>7 DEF Kinds
<1> QED
  BY <1>8, <1>9 DEF S

\* A derivation begins with the list of its outputs.
LEMMA FieldsSteps ==
  ASSUME NEW v
  PROVE  Fields \in Seq(StepsOf("derivation", v)) /\ Fields # <<>> /\ Head(Fields) = List("output")
<1> DEFINE S == StepsOf("derivation", v)
           outputs == List("output")
           inputs == List("input")
           strings == List("string")
           pairs == List("pair")
           comma == Tag(",")
           last == Tag(")")
<1>1. last \in S /\ comma \in S /\ Str \in S /\ outputs \in S /\ inputs \in S /\ strings \in S
      /\ pairs \in S
  BY DEF StepsOf, Tags, Lists
<1>2. Fields = <<outputs, comma, inputs, comma, strings, comma, Str, comma, Str, comma, strings,
                 comma, pairs, last>>
  BY DEF Fields
<1> HIDE DEF S, outputs, inputs, strings, pairs, comma, last
<1>3. <<outputs, comma, inputs, comma, strings, comma, Str, comma, Str, comma, strings,
        comma, pairs, last>> \in Seq(S)
  BY <1>1
<1>4. Fields # <<>> /\ Head(Fields) = outputs
  BY <1>2
<1> QED
  BY <1>2, <1>3, <1>4 DEF S, outputs

\* A token that is one is within the text.
LEMMA TokenInside ==
  ASSUME text \in Seq(Tokens), NEW i, At(i)[1] = "tag" \/ At(i) \in Strings
  PROVE  i \in 1..Len(text)
  BY DEF At, Strings, Quoted

\* And so is one that is a tag.
LEMMA TagInside ==
  ASSUME text \in Seq(Tokens), NEW i, NEW t, At(i) = Tag(t)
  PROVE  i \in 1..Len(text)
<1>1. At(i)[1] = "tag"
  BY DEF Tag
<1> QED
  BY <1>1, TokenInside

----------------------------------------------------------------------------
(* The parsers under way.                                                  *)

\* The innermost parser, and those that wait for it.
LEMMA TopFacts ==
  ASSUME Kept, frames # <<>>
  PROVE  /\ Len(frames) \in Nat /\ Len(frames) >= 1 /\ Top = frames[Len(frames)]
         /\ Parser(Top, Len(frames), version) /\ Top.saved \in Nat /\ Top.saved <= pos
         /\ IsSeq(Below) /\ Len(Below) = Len(frames) - 1
         /\ \A i \in 1..Len(frames) - 1 : Below[i] = frames[i]
         /\ (Below = <<>>) = (Len(frames) = 1)
<1> DEFINE n == Len(frames)
<1>1. Nested(frames, pos, version) /\ IsSeq(frames)
  BY DEF Kept, Nested
<1>2. /\ n \in Nat /\ n >= 1 /\ Top = frames[n] /\ IsSeq(Below) /\ Len(Below) = n - 1
      /\ \A i \in 1..n - 1 : Below[i] = frames[i]
      /\ (Below = <<>>) = (n = 1)
  BY <1>1, PopStack DEF Top, Below
<1>3. \A i \in 1..n : Parser(frames[i], i, version) /\ frames[i].saved <= pos
  BY <1>1 DEF Nested
<1> HIDE DEF n
<1>4. Parser(Top, n, version) /\ Top.saved <= pos
  BY <1>2, <1>3
<1>5. Top.saved \in Nat
  BY <1>4 DEF Parser
<1> QED
  BY <1>2, <1>4, <1>5 DEF n

\* The innermost parser goes on.
LEMMA ReplaceTop ==
  ASSUME Kept, frames # <<>>, NEW g, Parser(g, Len(frames), version), g.kind = Top.kind,
         Top.saved <= g.saved, NEW q \in Nat, g.saved <= q
  PROVE  Nested(Append(Below, g), q, version) /\ Append(Below, g) # <<>>
<1> DEFINE n == Len(frames)
           t == Append(Below, g)
<1>1. /\ n \in Nat /\ n >= 1 /\ Top = frames[n] /\ IsSeq(Below) /\ Len(Below) = n - 1
      /\ \A i \in 1..n - 1 : Below[i] = frames[i]
      /\ Top.saved \in Nat
  BY TopFacts
<1>2. /\ IsSeq(t) /\ Len(t) = Len(Below) + 1 /\ \A i \in 1..Len(Below) : t[i] = Below[i]
      /\ t[Len(Below) + 1] = g
  BY <1>1, PushStack
<1>3. Nested(frames, pos, version) /\ pos \in Nat
  BY DEF Kept
<1> DEFINE m == n - 1
<1>4. m \in Nat /\ m <= n /\ Len(t) = m + 1 /\ (\A i \in 1..m : t[i] = frames[i]) /\ t[m + 1] = g
  BY <1>1, <1>2
<1>5. g.saved \in Nat /\ m + 1 = n
  BY <1>1 DEF Parser
<1>6. m > 0 => Opened(frames[m], g) /\ frames[m].saved <= g.saved
  <2>1. SUFFICES ASSUME m > 0 PROVE Opened(frames[m], g) /\ frames[m].saved <= g.saved
    OBVIOUS
  <2>2. m \in 1..n /\ n \in 1..n /\ m \in 1..n - 1 /\ m <= n /\ m + 1 = n
    BY <1>1, <2>1
  <2>3. Opened(frames[m], frames[m + 1]) /\ frames[m].saved <= frames[n].saved
        /\ Parser(frames[m], m, version)
    BY <1>3, <2>2 DEF Nested, n
  <2>4. frames[m].saved \in Nat
    BY <2>3 DEF Parser
  <2>5. frames[m].saved <= g.saved
    BY <1>1, <1>5, <2>3, <2>4
  <2>6. Opened(frames[m], g)
    BY <1>1, <2>2, <2>3 DEF Opened
  <2> QED
    BY <2>5, <2>6
<1>7. Parser(g, m + 1, version)
  BY <1>5 DEF n
<1> HIDE DEF t, m
<1>8. m <= Len(frames)
  BY <1>4 DEF n
<1>9. Nested(t, q, version)
  BY <1>2, <1>3, <1>4, <1>6, <1>7, <1>8, Stacked
<1>10. t # <<>>
  BY <1>4
<1> QED
  BY <1>9, <1>10 DEF t

\* The innermost parser comes to a list, and waits for the parser of its elements.
LEMMA PushTop ==
  ASSUME Kept, frames # <<>>, NEW g, Parser(g, Len(frames) + 1, version), Opened(Top, g),
         Top.saved <= g.saved, NEW q \in Nat, g.saved <= q
  PROVE  Nested(Append(frames, g), q, version) /\ Append(frames, g) # <<>>
<1> DEFINE t == Append(frames, g)
           n == Len(frames)
<1>1. n \in Nat /\ n >= 1 /\ Top = frames[n]
  BY TopFacts
<1>2. Nested(frames, pos, version) /\ pos \in Nat /\ IsSeq(frames)
  BY DEF Kept, Nested
<1>3. IsSeq(t) /\ Len(t) = n + 1 /\ (\A i \in 1..n : t[i] = frames[i]) /\ t[n + 1] = g
  BY <1>2, PushStack
<1>4. n > 0 => Opened(frames[n], g) /\ frames[n].saved <= g.saved
  BY <1>1
<1>5. Parser(g, n + 1, version) /\ n <= Len(frames)
  BY <1>1
<1> HIDE DEF t, n
<1>6. Nested(t, q, version)
  BY <1>1, <1>2, <1>3, <1>4, <1>5, Stacked
<1>7. t # <<>>
  BY <1>1, <1>3
<1> QED
  BY <1>6, <1>7 DEF t

\* The list that the innermost parser stands for has ended, and the parser below
\* goes on behind it.
LEMMA DropTop ==
  ASSUME Kept, frames # <<>>, Below # <<>>, NEW items,
         NEW q \in Nat, Top.saved <= q
  PROVE  LET g == [Last(Below) EXCEPT !.todo = Tail(@), !.parts = Append(@, items)]
         IN  /\ Nested(Append(Front(Below), g), q, version)
             /\ Append(Front(Below), g) # <<>>
<1> DEFINE f == Last(Below)
           g == [f EXCEPT !.todo = Tail(@), !.parts = Append(@, items)]
           n == Len(frames)
           t == Append(Front(Below), g)
<1>1. /\ n \in Nat /\ n >= 1 /\ Top = frames[n] /\ IsSeq(Below) /\ Len(Below) = n - 1
      /\ \A i \in 1..n - 1 : Below[i] = frames[i]
      /\ Top.saved \in Nat /\ n # 1
  BY TopFacts
<1>2. /\ f = Below[Len(Below)] /\ IsSeq(Front(Below)) /\ Len(Front(Below)) = Len(Below) - 1
      /\ \A i \in 1..Len(Below) - 1 : Front(Below)[i] = Below[i]
  BY <1>1, PopStack
<1> DEFINE m == n - 2
<1>3. /\ m \in Nat /\ m + 1 \in 1..n /\ m + 1 \in 1..n - 1 /\ m + 2 = n /\ n \in 1..n
      /\ f = frames[m + 1] /\ Len(Front(Below)) = m /\ \A i \in 1..m : Front(Below)[i] = frames[i]
  BY <1>1, <1>2
<1>4. IsSeq(t) /\ Len(t) = m + 1 /\ (\A i \in 1..m : t[i] = frames[i]) /\ t[m + 1] = g
  <2> HIDE DEF g, m
  <2> DEFINE front == Front(Below)
  <2>1. IsSeq(front) /\ Len(front) = m /\ \A i \in 1..m : front[i] = frames[i]
    BY <1>2, <1>3
  <2> HIDE DEF front
  <2>2. /\ IsSeq(Append(front, g)) /\ Len(Append(front, g)) = Len(front) + 1
        /\ \A i \in 1..Len(front) : Append(front, g)[i] = front[i]
        /\ Append(front, g)[Len(front) + 1] = g
    BY <2>1, PushStack
  <2>3. t = Append(front, g)
    BY DEF front
  <2> HIDE DEF t
  <2> QED
    BY <2>1, <2>2, <2>3
<1>5. Nested(frames, pos, version) /\ pos \in Nat
  BY DEF Kept
<1>6. /\ \A i \in 1..n : Parser(frames[i], i, version)
      /\ \A i \in 1..n : \A j \in 1..n : i <= j => frames[i].saved <= frames[j].saved
      /\ \A i \in 1..n - 1 : Opened(frames[i], frames[i + 1])
  BY <1>5 DEF Nested
<1>7. Parser(f, m + 1, version) /\ f.todo # <<>> /\ f.saved <= Top.saved
  <2>1. Parser(f, m + 1, version)
    BY <1>3, <1>6
  <2>2. Opened(f, frames[m + 2])
    <3>1. (m + 1) + 1 = m + 2
      BY <1>3
    <3> QED
      BY <1>3, <1>6, <3>1
  <2>3. f.saved <= frames[n].saved
    <3>1. m + 1 <= n
      BY <1>3
    <3> QED
      BY <1>3, <1>6, <3>1
  <2> QED
    BY <1>1, <2>1, <2>2, <2>3 DEF Opened
<1>8. Parser(g, m + 1, version) /\ g.saved = f.saved /\ g.kind = f.kind
  <2>1. g = [kind |-> f.kind, saved |-> f.saved, items |-> f.items,
             parts |-> Append(f.parts, items), todo |-> Tail(f.todo)]
    BY <1>7, ParserGoesOn
  <2>2. Tail(f.todo) \in Seq(StepsOf(f.kind, version))
    BY <1>7 DEF Parser
  <2> HIDE DEF g, f
  <2> QED
    BY <1>7, <2>1, <2>2 DEF Parser
<1>9. g.saved \in Nat /\ g.saved <= q
  BY <1>1, <1>7, <1>8 DEF Parser
<1>10. m > 0 => Opened(frames[m], g) /\ frames[m].saved <= g.saved
  <2>1. SUFFICES ASSUME m > 0 PROVE Opened(frames[m], g) /\ frames[m].saved <= g.saved
    OBVIOUS
  <2>2. m \in 1..n /\ m \in 1..n - 1 /\ m <= m + 1
    BY <1>1, <1>3, <2>1
  <2>3. Opened(frames[m], f) /\ frames[m].saved <= f.saved
    BY <1>3, <1>6, <2>2
  <2> HIDE DEF g, f
  <2> QED
    BY <1>8, <2>3 DEF Opened
<1>11. m <= Len(frames)
  BY <1>3
<1> HIDE DEF t, m, g
<1>12. Nested(t, q, version)
  BY <1>3, <1>4, <1>5, <1>8, <1>9, <1>10, <1>11, Stacked
<1>13. t # <<>>
  BY <1>3, <1>4
<1> QED
  BY <1>12, <1>13 DEF t, g


\* The step that the innermost parser is at is one of its kind, and so are those
\* that follow.
LEMMA GoalFacts ==
  ASSUME Kept, InElement
  PROVE  /\ frames # <<>> /\ Goal \in StepsOf(Top.kind, version)
         /\ Tail(Top.todo) \in Seq(StepsOf(Top.kind, version))
<1>1. frames # <<>> /\ Top.todo # <<>>
  BY DEF Kept, InElement, Busy
<1>2. Top.todo \in Seq(StepsOf(Top.kind, version))
  BY <1>1, TopFacts DEF Parser
<1> DEFINE todo == Top.todo
           S == StepsOf(Top.kind, version)
<1>3. todo \in Seq(S) /\ todo # <<>>
  BY <1>1, <1>2
<1>4. Goal = Head(todo)
  BY DEF Goal
<1> HIDE DEF todo, S
<1>5. Head(todo) \in S /\ Tail(todo) \in Seq(S)
  BY <1>3
<1> QED
  BY <1>1, <1>4, <1>5 DEF todo, S

\* A step that is done takes a token of the text, or none.
LEMMA AdvanceKeeps ==
  ASSUME Kept, InElement, NEW taken \in {0, 1}, taken = 1 => pos \in 1..Len(text),
         NEW parts, Advance(taken, parts)
  PROVE  pos' \in 1..Len(text) + 1 /\ Nested(frames', pos', version) /\ frames' # <<>>
<1> DEFINE g == [Top EXCEPT !.todo = Tail(@), !.parts = @ \o parts]
<1>1. frames # <<>> /\ Tail(Top.todo) \in Seq(StepsOf(Top.kind, version))
  BY GoalFacts
<1>2. Parser(Top, Len(frames), version) /\ Top.saved \in Nat /\ Top.saved <= pos
  BY <1>1, TopFacts
<1>3. g = [kind |-> Top.kind, saved |-> Top.saved, items |-> Top.items,
           parts |-> Top.parts \o parts, todo |-> Tail(Top.todo)]
  BY <1>2, ParserGoesOn
<1> HIDE DEF g
<1>4. Parser(g, Len(frames), version) /\ g.kind = Top.kind /\ g.saved = Top.saved
  BY <1>1, <1>2, <1>3 DEF Parser
<1>5. pos' = pos + taken /\ frames' = Append(Below, g)
  BY DEF Advance, g
<1>6. pos \in 1..Len(text) + 1 /\ Len(text) \in Nat
  BY DEF Kept
<1>7. pos' \in 1..Len(text) + 1 /\ pos' \in Nat /\ g.saved <= pos' /\ Top.saved <= g.saved
  BY <1>2, <1>4, <1>5, <1>6
<1>8. Nested(Append(Below, g), pos', version) /\ Append(Below, g) # <<>>
  BY <1>1, <1>4, <1>7, ReplaceTop
<1> QED
  BY <1>5, <1>7, <1>8

\* A list ends at a bracket that is not before its elements.
LEMMA EndListKeeps ==
  ASSUME Kept, frames # <<>>, Below # <<>>, NEW items, NEW here \in 1..Len(text), Top.saved <= here,
         EndList(items, here)
  PROVE  pos' \in 1..Len(text) + 1 /\ Nested(frames', pos', version) /\ frames' # <<>>
<1>1. Top.saved \in Nat /\ Len(text) \in Nat
  BY TopFacts DEF Kept
<1>2. pos' = here + 1
  BY DEF EndList
<1>3. pos' \in 1..Len(text) + 1 /\ pos' \in Nat /\ Top.saved <= pos'
  BY <1>1, <1>2
<1> DEFINE g == [Last(Below) EXCEPT !.todo = Tail(@), !.parts = Append(@, items)]
<1>4. frames' = Append(Front(Below), g)
  BY DEF EndList
<1>5. Nested(Append(Front(Below), g), pos', version) /\ Append(Front(Below), g) # <<>>
  BY <1>3, DropTop
<1> QED
  BY <1>3, <1>4, <1>5

\* The parser of an element, with those before it.
Another(kind, saved, items) == [Frame(kind, saved, Element(kind)) EXCEPT !.items = items]

\* It is one that the grammar has, wherever it begins.
LEMMA NewParser ==
  ASSUME NEW kind \in Kinds, NEW saved \in Nat, NEW items, NEW i \in Nat, i # 1, NEW g,
         g = Another(kind, saved, items)
  PROVE  Parser(g, i, version) /\ g.kind = kind /\ g.saved = saved /\ g.todo = Element(kind)
<1> DEFINE todo == Element(kind)
           f == Frame(kind, saved, todo)
<1>1. todo \in Seq(StepsOf(kind, version))
  BY ElementSteps
<1>2. f = [kind |-> kind, saved |-> saved, items |-> <<>>, parts |-> <<>>, todo |-> todo]
  BY DEF Frame
<1>3. g = [f EXCEPT !.items = items]
  BY DEF Another
<1> HIDE DEF todo, f
<1>4. g = [kind |-> kind, saved |-> saved, items |-> items, parts |-> <<>>, todo |-> todo]
  BY <1>2, <1>3
<1>5. /\ g.kind = kind /\ g.saved = saved /\ g.todo = todo /\ g.items = items
      /\ g.parts = <<>>
  BY <1>4
<1>6. kind \in Parsers /\ kind # "derivation"
  BY DEF Parsers, Kinds
<1>7. Parser(g, i, version)
  BY <1>1, <1>4, <1>5, <1>6 DEF Parser
<1> QED
  BY <1>5, <1>7 DEF todo

\* No step leaves the text, the states of the parser, or the grammar.
LEMMA KeptStep == Kept /\ [Next]_vars => Kept'
<1> SUFFICES ASSUME Kept, [Next]_vars PROVE Kept'
  OBVIOUS
<1>0. /\ text \in Seq(Tokens) /\ Len(text) \in Nat /\ pos \in 1..Len(text) + 1
      /\ version \in {"none", "Traditional", "Dynamic"} /\ ctx \in {"ok", "nix"}
      /\ Nested(frames, pos, version) /\ (Busy => frames # <<>>)
      /\ pos \in Nat
  BY DEF Kept
<1>moves. ASSUME text' = text, pc' \in {"version", "parse", "unwind", "done", "converted"},
                 pos' \in 1..Len(text) + 1, version' = version, ctx' \in {"ok", "nix"},
                 pc' \in {"parse", "unwind"} => frames' # <<>>, Nested(frames', pos', version)
          PROVE  Kept'
  BY <1>moves, <1>0 DEF Kept, Busy, Stopped
<1>stops. ASSUME NEW place \in {"refused", "err", "panic"}, Stop(place), ctx' \in {"ok", "nix"}
          PROVE  Kept'
  <2>1. /\ text' = text /\ pc' = place /\ pos' = pos /\ version' = version /\ frames' = <<>>
    BY <1>stops DEF Stop
  <2>2. Nested(<<>>, pos, version)
    <3>1. <<>> \in Seq({}) /\ Len(<<>>) = 0
      OBVIOUS
    <3>2. \A i \in 1..Len(<<>>) : FALSE
      BY <3>1
    <3>3. \A i \in 1..Len(<<>>) - 1 : FALSE
      BY <3>1
    <3> QED
      BY <3>1, <3>2, <3>3 DEF Nested, IsSeq
  <2> QED
    BY <1>0, <1>stops, <2>1, <2>2 DEF Kept, Busy, Stopped
<1>quiet. ASSUME Open \/ Accept \/ Convert PROVE Kept'
  BY <1>quiet, <1>0, <1>moves DEF Open, Accept, Convert
<1>ends. ASSUME Refuse \/ NoVersion \/ UnfinishedPanics \/ NoDerivation PROVE Kept'
  BY <1>ends, <1>0, <1>stops DEF Refuse, NoVersion, UnfinishedPanics, NoDerivation
<1>version. ASSUME ParseVersion PROVE Kept'
  <2>1. PICK v \in {"Traditional", "Dynamic"}, taken \in 1..3 :
          Header(v, taken) /\ version' = v /\ pos' = taken + 1
    BY <1>version DEF ParseVersion
  <2>2. pos' \in 1..Len(text) + 1 /\ pos' >= 1
    <3>1. CASE taken = 1
      <4>1. At(1)[1] = "tag"
        BY <2>1, <3>1 DEF Header, Tag
      <4> QED
        BY <1>0, <2>1, <3>1, <4>1, TokenInside
    <3>2. CASE taken = 2
      <4>1. At(2) \in Strings
        BY <2>1, <3>2 DEF Header
      <4> QED
        BY <1>0, <2>1, <3>2, <4>1, TokenInside
    <3> QED
      BY <2>1, <3>1, <3>2 DEF Header
  <2>3. text' = text /\ pc' = "parse" /\ ctx' = ctx
        /\ frames' = <<Frame("derivation", 1, Fields)>>
    BY <1>version DEF ParseVersion
  <2> DEFINE f == Frame("derivation", 1, Fields)
  <2>4. f = [kind |-> "derivation", saved |-> 1, items |-> <<>>, parts |-> <<>>, todo |-> Fields]
    BY DEF Frame
  <2>5. Fields \in Seq(StepsOf("derivation", v))
    BY FieldsSteps
  <2> HIDE DEF f
  <2>6. Parser(f, 1, v) /\ f.saved = 1
    BY <2>4, <2>5 DEF Parser, Parsers
  <2>7. <<f>> \in Seq({f}) /\ Len(<<f>>) = 1 /\ <<f>>[1] = f /\ <<f>> # <<>>
    OBVIOUS
  <2> DEFINE s == <<f>>
  <2>8. IsSeq(s) /\ Len(s) = 1 /\ s[1] = f /\ s # <<>> /\ frames' = s
    BY <2>3, <2>7 DEF IsSeq, f
  <2> HIDE DEF s
  <2>9. Nested(s, pos', v)
    <3>1. \A i \in 1..Len(s) : i = 1
      BY <2>8
    <3>2. \A i \in 1..Len(s) - 1 : FALSE
      BY <2>8
    <3>3. f.saved <= pos'
      BY <2>2, <2>6, <1>0
    <3> QED
      BY <2>6, <2>8, <3>1, <3>2, <3>3 DEF Nested
  <2> QED
    BY <1>0, <2>1, <2>2, <2>3, <2>8, <2>9 DEF Kept, Busy
<1>tag. ASSUME ParseTag PROVE Kept'
  <2>1. InElement /\ Peek[1] = "tag" /\ Advance(1, <<>>) /\ ctx' = ctx
    BY <1>tag DEF ParseTag
  <2>2. pos \in 1..Len(text)
    BY <1>0, <2>1, TokenInside DEF Peek
  <2>3. text' = text /\ pc' = "parse" /\ version' = version
    BY <2>1 DEF Advance, InElement
  <2>4. pos' \in 1..Len(text) + 1 /\ Nested(frames', pos', version) /\ frames' # <<>>
    BY <2>1, <2>2, AdvanceKeeps
  <2> QED
    BY <1>0, <1>moves, <2>1, <2>3, <2>4
<1>string. ASSUME ParseString PROVE Kept'
  <2>1. InElement /\ Peek \in Strings /\ Advance(1, <<Content[Peek[2]]>>) /\ ctx' = ctx
    BY <1>string DEF ParseString
  <2>2. pos \in 1..Len(text)
    BY <1>0, <2>1, TokenInside DEF Peek
  <2>3. text' = text /\ pc' = "parse" /\ version' = version
    BY <2>1 DEF Advance, InElement
  <2>4. pos' \in 1..Len(text) + 1 /\ Nested(frames', pos', version) /\ frames' # <<>>
    BY <2>1, <2>2, AdvanceKeeps
  <2> QED
    BY <1>0, <1>moves, <2>1, <2>3, <2>4
<1>list. ASSUME OpenList PROVE Kept'
  <2> DEFINE kind == Goal[2]
             g == Frame(kind, pos + 1, Element(kind))
  <2>1. /\ InElement /\ Goal[1] = "list" /\ Peek = Tag("[") /\ frames' = Append(frames, g)
        /\ pos' = pos + 1 /\ text' = text /\ pc' = pc /\ version' = version /\ ctx' = ctx
    BY <1>list DEF OpenList
  <2>2. frames # <<>> /\ Goal \in StepsOf(Top.kind, version)
    BY <2>1, GoalFacts
  <2>3. Goal \in Lists
    BY <2>1, <2>2, ListSteps
  <2>4. kind \in Kinds /\ Goal = List(kind)
    BY <2>3 DEF Lists, List, Kinds
  <2>5. pos \in 1..Len(text)
    BY <1>0, <2>1, TokenInside DEF Peek, Tag
  <2>6. pos + 1 \in Nat /\ pos + 1 \in 1..Len(text) + 1
    BY <1>0, <2>5
  <2>7. /\ Len(frames) + 1 # 1 /\ Len(frames) \in Nat /\ Top.saved \in Nat /\ Top.saved <= pos
        /\ Top = frames[Len(frames)]
    BY <2>2, TopFacts
  <2>8. g = [kind |-> kind, saved |-> pos + 1, items |-> <<>>, parts |-> <<>>,
             todo |-> Element(kind)]
    BY DEF Frame
  <2>9. Element(kind) \in Seq(StepsOf(kind, version))
    BY <2>4, ElementSteps
  <2>10. Opened(Top, g)
    BY <2>1, <2>4, <2>8 DEF Opened, InElement, Goal
  <2> HIDE DEF g, kind
  <2>11. Parser(g, Len(frames) + 1, version) /\ g.saved = pos + 1
    BY <2>4, <2>6, <2>7, <2>8, <2>9 DEF Parser, Parsers, Kinds
  <2>12. Top.saved <= g.saved /\ g.saved <= pos + 1
    BY <1>0, <2>7, <2>11
  <2>13. Nested(frames', pos', version) /\ frames' # <<>>
    BY <2>1, <2>2, <2>6, <2>10, <2>11, <2>12, PushTop
  <2>14. pc' = "parse"
    BY <2>1 DEF InElement
  <2> QED
    BY <1>0, <1>moves, <2>1, <2>6, <2>13, <2>14
<1>next. ASSUME NextElement PROVE Kept'
  <2> DEFINE kind == Top.kind
             items == Items
             g == Another(kind, pos, items)
             n == Len(frames)
  <2>1. /\ AfterElement /\ Peek = Tag(",") /\ frames' = Append(Below, g)
        /\ pos' = pos + 1 /\ text' = text /\ pc' = pc /\ version' = version /\ ctx' = ctx
    BY <1>next DEF NextElement, Another
  <2>2. frames # <<>> /\ Below # <<>> /\ pc' = "parse"
    BY <1>0, <2>1 DEF AfterElement, Busy
  <2>3. pos \in 1..Len(text)
    <3>1. At(pos) = Tag(",")
      BY <2>1 DEF Peek
    <3> QED
      BY <1>0, <3>1, TagInside
  <2>4. pos + 1 \in Nat /\ pos + 1 \in 1..Len(text) + 1 /\ pos <= pos + 1
    BY <1>0, <2>3
  <2>5. /\ n # 1 /\ n \in Nat /\ Top.saved <= pos
        /\ Parser(Top, n, version)
    BY <2>2, TopFacts
  <2>6. kind \in Kinds
    BY <2>5 DEF Parser, Parsers
  <2>7. g = Another(kind, pos, items)
    OBVIOUS
  <2> HIDE DEF g, kind, items, n
  <2>8. Parser(g, n, version) /\ g.kind = kind /\ g.saved = pos
    <3>1. kind \in Kinds /\ pos \in Nat /\ n \in Nat /\ n # 1 /\ g = Another(kind, pos, items)
      BY <1>0, <2>5, <2>6, <2>7
    <3> QED
      BY <3>1, NewParser
  <2>9. Nested(Append(Below, g), pos', version) /\ Append(Below, g) # <<>>
    BY <2>1, <2>2, <2>4, <2>5, <2>8, ReplaceTop DEF kind, n
  <2> QED
    BY <1>0, <1>moves, <2>1, <2>2, <2>4, <2>9 DEF g, items
<1>close. ASSUME CloseList PROVE Kept'
  <2>1. /\ AfterElement /\ Peek = Tag("]") /\ EndList(Items, pos)
        /\ text' = text /\ version' = version /\ ctx' = ctx
    BY <1>close DEF CloseList
  <2>2. frames # <<>> /\ Below # <<>> /\ pc' = "parse"
    BY <1>0, <2>1 DEF AfterElement, Busy, EndList
  <2>3. pos \in 1..Len(text)
    BY <1>0, <2>1, TokenInside DEF Peek, Tag
  <2>4. Top.saved <= pos
    BY <2>2, TopFacts
  <2>5. pos' \in 1..Len(text) + 1 /\ Nested(frames', pos', version) /\ frames' # <<>>
    BY <2>1, <2>2, <2>3, <2>4, EndListKeeps
  <2> QED
    BY <1>0, <1>moves, <2>1, <2>2, <2>5
<1>fail. ASSUME Fail, pc = "parse", ctx' \in {"ok", "nix"} PROVE Kept'
  <2>1. /\ text' = text /\ pc' = "unwind" /\ pos' = pos /\ version' = version /\ frames' = frames
        /\ frames # <<>>
    BY <1>fail, <1>0 DEF Fail, Busy
  <2> QED
    BY <1>0, <1>moves, <1>fail, <2>1
<1>output. ASSUME MakeOutput PROVE Kept'
  <2>1. InElement /\ ctx' \in {"ok", "nix"} /\ (Fail \/ \E kind : Advance(0, <<kind>>))
    BY <1>output, <1>0 DEF MakeOutput
  <2>2. CASE Fail
    BY <1>fail, <2>1, <2>2 DEF InElement
  <2>3. ASSUME NEW kind, Advance(0, <<kind>>) PROVE Kept'
    <3>1. text' = text /\ pc' = "parse" /\ version' = version
      BY <2>1, <2>3 DEF Advance, InElement
    <3>2. pos' \in 1..Len(text) + 1 /\ Nested(frames', pos', version) /\ frames' # <<>>
      BY <2>1, <2>3, AdvanceKeeps
    <3> QED
      BY <1>moves, <2>1, <3>1, <3>2
  <2> QED
    BY <2>1, <2>2, <2>3
<1>mismatch. ASSUME Mismatch PROVE Kept'
  <2>1. Fail /\ ctx' = ctx /\ pc = "parse"
    BY <1>mismatch DEF Mismatch, InElement, AfterElement
  <2> QED
    BY <1>0, <1>fail, <2>1
<1>unwind. ASSUME Unwind PROVE Kept'
  <2>1. /\ pc = "unwind" /\ Below # <<>> /\ text' = text /\ version' = version /\ ctx' = ctx
        /\ frames # <<>>
    BY <1>unwind, <1>0 DEF Unwind, Busy
  <2>2. CASE At(Top.saved) = Tag("]") /\ EndList(Top.items, Top.saved)
    <3>1. Top.saved \in 1..Len(text)
      BY <1>0, <2>2, TokenInside DEF Tag
    <3>2. Top.saved <= Top.saved /\ pc' = "parse"
      BY <1>0, <2>2, <3>1 DEF EndList
    <3>3. pos' \in 1..Len(text) + 1 /\ Nested(frames', pos', version) /\ frames' # <<>>
      BY <2>1, <2>2, <3>1, <3>2, EndListKeeps
    <3> QED
      BY <1>0, <1>moves, <2>1, <3>2, <3>3
  <2>3. CASE frames' = Below /\ UNCHANGED <<pc, pos>>
    <3>1. Nested(Below, pos, version)
      BY <1>0, <2>1, Popped DEF Below
    <3> QED
      BY <1>0, <1>moves, <2>1, <2>3, <3>1
  <2> QED
    BY <1>unwind, <2>2, <2>3 DEF Unwind
<1>stay. ASSUME UNCHANGED vars PROVE Kept'
  BY <1>stay DEF vars, Kept, Busy, Stopped
<1> QED
  BY <1>quiet, <1>ends, <1>version, <1>tag, <1>string, <1>list, <1>next, <1>close, <1>output,
     <1>mismatch, <1>unwind, <1>stay
  DEF Next


----------------------------------------------------------------------------
(* Outputs.                                                                *)

\* The list would end in front of its current element.
EndsHere == At(Top.saved) = Tag("]")

\* The first step of an output is in front of it, or has been taken, and with it
\* a token that no list ends at.
Begun ==
  pc = "parse" /\ Top.kind = "output"
    => ~EndsHere \/ (pos = Top.saved /\ Top.todo = Element("output"))

\* An error of the store is found only after the parser has given up, or where it
\* cannot but do so: in an output that is not the end of its list.
Clean ==
  ctx = "nix" =>
    \/ pc \in {"refused", "err"}
    \/ pc = "unwind" /\ (Below = <<>> \/ (Top.kind = "output" /\ ~EndsHere))

\* What is on top of a stack.
LEMMA LastPushed ==
  ASSUME NEW s, IsSeq(s), NEW f
  PROVE  Last(Append(s, f)) = f
<1>1. Len(s) \in Nat /\ Len(Append(s, f)) = Len(s) + 1 /\ Append(s, f)[Len(s) + 1] = f
  BY PushStack
<1> QED
  BY <1>1 DEF Last

\* A parser that waits for a list is that of the derivation or of an input.
LEMMA Waiting ==
  ASSUME NEW f, NEW i, NEW v, Parser(f, i, v), NEW kind, f.todo # <<>>, Head(f.todo) = List(kind)
  PROVE  /\ f.kind \in {"derivation", "input"}
         /\ kind = "output" => f.kind = "derivation"
<1> DEFINE todo == f.todo
           S == StepsOf(f.kind, v)
<1>1. todo \in Seq(S) /\ todo # <<>>
  BY DEF Parser
<1> HIDE DEF todo, S
<1>2. Head(todo) \in S
  BY <1>1
<1>3. List(kind) \in StepsOf(f.kind, v)
  BY <1>2 DEF todo, S
<1>4. List(kind)[1] = "list" /\ List(kind)[2] = kind /\ List("string")[2] = "string"
  BY DEF List
<1>5. (\A t : Tag(t)[1] = "tag") /\ Str[1] = "string" /\ Make[1] = "new" /\ Unfinished[1] = "todo"
  BY DEF Tag, Str, Make, Unfinished
<1>6. List(kind) \notin Tags \cup {Str, Make, Unfinished}
  BY <1>4, <1>5 DEF Tags
<1>7. f.kind = "derivation" \/ (f.kind = "input" /\ List(kind) = List("string"))
  BY <1>3, <1>6 DEF StepsOf
<1> QED
  BY <1>4, <1>7

\* The outputs are in the list that the derivation itself is at.
LEMMA OutputsAreOuter ==
  ASSUME Kept, frames # <<>>, Top.kind = "output"
  PROVE  Below # <<>> /\ Len(frames) = 2
<1> DEFINE n == Len(frames)
<1>1. n \in Nat /\ n >= 1 /\ Top = frames[n] /\ Parser(Top, n, version) /\ (Below = <<>>) = (n = 1)
  BY TopFacts
<1>2. n # 1
  BY <1>1 DEF Parser
<1>3. /\ \A i \in 1..n : Parser(frames[i], i, version)
      /\ \A i \in 1..n - 1 : Opened(frames[i], frames[i + 1])
  BY DEF Kept, Nested
<1> HIDE DEF n
<1>4. n - 1 \in 1..n /\ n - 1 \in 1..n - 1 /\ (n - 1) + 1 = n
  BY <1>1, <1>2
<1> DEFINE f == frames[n - 1]
<1>5. Parser(f, n - 1, version) /\ f.todo # <<>> /\ Head(f.todo) = List("output")
  BY <1>1, <1>3, <1>4 DEF Opened
<1> HIDE DEF f
<1>6. f.kind = "derivation"
  BY <1>5, Waiting
<1>7. n - 1 = 1
  BY <1>5, <1>6 DEF Parser
<1> QED
  BY <1>1, <1>2, <1>7 DEF n

\* The innermost parser goes on as it was.
LEMMA AdvanceTop ==
  ASSUME Kept, InElement, NEW taken, NEW parts, Advance(taken, parts)
  PROVE  Top'.kind = Top.kind /\ Top'.saved = Top.saved /\ Top'.todo = Tail(Top.todo)
<1> DEFINE g == [Top EXCEPT !.todo = Tail(@), !.parts = @ \o parts]
<1>1. frames # <<>>
  BY GoalFacts
<1>2. Parser(Top, Len(frames), version) /\ IsSeq(Below)
  BY <1>1, TopFacts
<1>3. g = [kind |-> Top.kind, saved |-> Top.saved, items |-> Top.items,
           parts |-> Top.parts \o parts, todo |-> Tail(Top.todo)]
  BY <1>2, ParserGoesOn
<1>4. frames' = Append(Below, g)
  BY DEF Advance
<1> HIDE DEF g
<1>5. Top' = g
  BY <1>2, <1>4, LastPushed DEF Top
<1> QED
  BY <1>3, <1>5

\* Once a list has ended the innermost parser is that of the derivation or of an
\* input.
LEMMA EndListTop ==
  ASSUME Kept, frames # <<>>, Below # <<>>, NEW items, NEW here, EndList(items, here)
  PROVE  Top'.kind \in {"derivation", "input"}
<1> DEFINE f == Last(Below)
           g == [f EXCEPT !.todo = Tail(@), !.parts = Append(@, items)]
           n == Len(frames)
<1>1. /\ n \in Nat /\ n >= 1 /\ Top = frames[n] /\ IsSeq(Below) /\ Len(Below) = n - 1
      /\ \A i \in 1..n - 1 : Below[i] = frames[i]
      /\ n # 1
  BY TopFacts
<1>2. f = Below[Len(Below)] /\ IsSeq(Front(Below))
  BY <1>1, PopStack
<1>3. /\ \A i \in 1..n : Parser(frames[i], i, version)
      /\ \A i \in 1..n - 1 : Opened(frames[i], frames[i + 1])
  BY DEF Kept, Nested
<1>4. n - 1 \in 1..n /\ n - 1 \in 1..n - 1 /\ f = frames[n - 1]
  BY <1>1, <1>2
<1>5. Parser(f, n - 1, version) /\ Opened(f, frames[(n - 1) + 1])
  BY <1>3, <1>4
<1>6. f.kind \in {"derivation", "input"}
  BY <1>5, Waiting DEF Opened
<1>7. g = [kind |-> f.kind, saved |-> f.saved, items |-> f.items,
           parts |-> Append(f.parts, items), todo |-> Tail(f.todo)]
  BY <1>5, ParserGoesOn
<1>8. frames' = Append(Front(Below), g)
  BY DEF EndList
<1> DEFINE rest == Front(Below)
<1>9. IsSeq(rest) /\ frames' = Append(rest, g)
  BY <1>2, <1>8
<1> HIDE DEF g, f, rest
<1>10. Top' = g
  BY <1>9, LastPushed DEF Top
<1> QED
  BY <1>6, <1>7, <1>10

\* An output is not made before its first step, and is the only thing that is.
LEMMA MakingOutput ==
  ASSUME Kept, Begun, InElement, Goal = Make
  PROVE  Top.kind = "output" /\ ~EndsHere
<1>1. Make[1] = "new" /\ (\A t : Tag(t)[1] = "tag" /\ List(t)[1] = "list") /\ Str[1] = "string"
      /\ Unfinished[1] = "todo"
  BY DEF Make, Tag, List, Str, Unfinished
<1>2. Make \notin Tags \cup {Str} /\ Make \notin Lists /\ Make # List("string") /\ Make # Unfinished
  BY <1>1 DEF Tags, Lists
<1>3. Goal \in StepsOf(Top.kind, version)
  BY GoalFacts
<1>4. Top.kind = "output"
  BY <1>2, <1>3 DEF StepsOf
<1>5. Head(Element("output")) = Tag("(")
  BY DEF Element
<1>6. Top.todo # Element("output")
  BY <1>1, <1>5 DEF Goal
<1> QED
  BY <1>4, <1>6 DEF Begun, InElement

\* Neither is an output left before the store has been asked, nor is the error of
\* the store forgotten.
LEMMA CleanStep == Kept /\ Begun /\ Clean /\ [Next]_vars => Begun' /\ Clean'
<1> SUFFICES ASSUME Kept, Begun, Clean, [Next]_vars PROVE Begun' /\ Clean'
  OBVIOUS
<1>same. ASSUME text' = text, Top'.saved = Top.saved PROVE EndsHere' = EndsHere
  BY <1>same DEF EndsHere, At
<1>0. ctx \in {"ok", "nix"} /\ (Busy => frames # <<>>) /\ pos \in Nat
  BY DEF Kept
<1>1. pc \in {"open", "version", "parse", "done"} => ctx = "ok"
  BY <1>0 DEF Clean
<1>ok. ASSUME ctx' = "ok" PROVE Clean'
  BY <1>ok DEF Clean
<1>quiet. ASSUME Open \/ Refuse \/ NoVersion \/ Accept \/ Convert PROVE Begun' /\ Clean'
  BY <1>quiet, <1>1 DEF Open, Refuse, NoVersion, Accept, Convert, Stop, Begun, Clean
<1>version. ASSUME ParseVersion PROVE Begun' /\ Clean'
  <2> DEFINE f == Frame("derivation", 1, Fields)
  <2>1. frames' = <<f>> /\ ctx' = "ok"
    BY <1>version, <1>1 DEF ParseVersion
  <2>2. f.kind = "derivation"
    BY DEF Frame
  <2> HIDE DEF f
  <2>3. Top' = f
    BY <2>1 DEF Top, Last
  <2> QED
    BY <1>ok, <2>1, <2>2, <2>3 DEF Begun
<1>tag. ASSUME ParseTag PROVE Begun' /\ Clean'
  <2>1. InElement /\ Peek = Goal /\ Goal[1] = "tag" /\ Advance(1, <<>>) /\ ctx' = "ok"
        /\ text' = text /\ pc = "parse"
    BY <1>tag, <1>1 DEF ParseTag, InElement, Advance
  <2>2. Top'.kind = Top.kind /\ Top'.saved = Top.saved
    BY <2>1, AdvanceTop
  <2>3. ASSUME Top.kind = "output" PROVE ~EndsHere
    <3>1. CASE pos = Top.saved /\ Top.todo = Element("output")
      <4>1. Head(Element("output")) = Tag("(")
        BY DEF Element
      <4>2. At(pos) = Tag("(")
        BY <2>1, <3>1, <4>1 DEF Peek, Goal
      <4>3. Tag("(") # Tag("]")
        BY DEF Tag
      <4> QED
        BY <3>1, <4>2, <4>3 DEF EndsHere
    <3> QED
      BY <2>1, <2>3, <3>1 DEF Begun
  <2>4. Top'.kind = "output" => ~EndsHere'
    BY <1>same, <2>1, <2>2, <2>3
  <2> QED
    BY <1>ok, <2>1, <2>4 DEF Begun
<1>string. ASSUME ParseString PROVE Begun' /\ Clean'
  <2>1. InElement /\ Goal = Str /\ Advance(1, <<Content[Peek[2]]>>) /\ ctx' = "ok"
        /\ text' = text /\ pc = "parse"
    BY <1>string, <1>1 DEF ParseString, InElement, Advance
  <2>2. Top'.kind = Top.kind /\ Top'.saved = Top.saved
    BY <2>1, AdvanceTop
  <2>3. ASSUME Top.kind = "output" PROVE ~EndsHere
    <3>1. Head(Element("output")) = Tag("(") /\ Tag("(") # Str
      BY DEF Element, Tag, Str
    <3>2. Top.todo # Element("output")
      BY <2>1, <3>1 DEF Goal
    <3> QED
      BY <2>1, <2>3, <3>2 DEF Begun
  <2>4. Top'.kind = "output" => ~EndsHere'
    BY <1>same, <2>1, <2>2, <2>3
  <2> QED
    BY <1>ok, <2>1, <2>4 DEF Begun
<1>list. ASSUME OpenList PROVE Begun' /\ Clean'
  <2> DEFINE g == Frame(Goal[2], pos + 1, Element(Goal[2]))
  <2>1. frames' = Append(frames, g) /\ pos' = pos + 1 /\ ctx' = "ok" /\ version' = version
    BY <1>list, <1>1 DEF OpenList, InElement
  <2>2. /\ g.kind = Goal[2] /\ g.saved = pos + 1 /\ g.todo = Element(Goal[2])
    BY DEF Frame
  <2>3. IsSeq(frames)
    BY DEF Kept, Nested
  <2>4. Element("output")' = Element("output")
    BY DEF Element
  <2> HIDE DEF g
  <2>5. Top' = g
    BY <2>1, <2>3, LastPushed DEF Top
  <2> QED
    BY <1>ok, <2>1, <2>2, <2>4, <2>5 DEF Begun
<1>next. ASSUME NextElement PROVE Begun' /\ Clean'
  <2> DEFINE items == Items
             kind == Top.kind
             g == Another(kind, pos, items)
             n == Len(frames)
  <2>1. /\ AfterElement /\ At(pos) = Tag(",") /\ frames' = Append(Below, g)
        /\ ctx' = "ok" /\ text' = text
    BY <1>next, <1>1 DEF NextElement, Another, Peek, AfterElement
  <2>2. frames # <<>> /\ Below # <<>>
    BY <1>0, <2>1 DEF AfterElement, Busy
  <2>3. IsSeq(Below) /\ n \in Nat /\ n # 1 /\ Parser(Top, n, version)
    BY <2>2, TopFacts
  <2>4. kind \in Kinds /\ g = Another(kind, pos, items)
    BY <2>3 DEF Parser, Parsers
  <2> HIDE DEF g, items, kind, n
  <2>5. g.saved = pos
    <3>1. kind \in Kinds /\ pos \in Nat /\ n \in Nat /\ n # 1 /\ g = Another(kind, pos, items)
      BY <1>0, <2>3, <2>4
    <3> QED
      BY <3>1, NewParser
  <2>6. Top' = g
    BY <2>1, <2>3, LastPushed DEF Top
  <2>7. EndsHere' <=> (Tag(",") = Tag("]"))
    <3>1. Top'.saved = pos /\ text' = text
      BY <2>1, <2>5, <2>6
    <3>2. EndsHere' <=> (At(pos) = Tag("]"))
      BY <3>1 DEF EndsHere, At
    <3> QED
      BY <2>1, <3>2
  <2>8. Tag(",") # Tag("]")
    BY DEF Tag
  <2> QED
    BY <1>ok, <2>1, <2>7, <2>8 DEF Begun
<1>ended. ASSUME frames # <<>>, Below # <<>>, ctx' = "ok", NEW items, NEW here, EndList(items, here)
          PROVE  Begun' /\ Clean'
  BY <1>ok, <1>ended, EndListTop DEF Begun
<1>close. ASSUME CloseList PROVE Begun' /\ Clean'
  <2>1. frames # <<>> /\ Below # <<>> /\ ctx' = "ok" /\ EndList(Items, pos)
    BY <1>0, <1>1, <1>close DEF CloseList, AfterElement, Busy
  <2> QED
    BY <1>ended, <2>1
<1>fails. ASSUME Fail, ctx' = "nix" => Top.kind = "output" /\ ~EndsHere PROVE Begun' /\ Clean'
  <2>1. pc' = "unwind" /\ Top' = Top /\ EndsHere' = EndsHere
    BY <1>fails DEF Fail, Top, EndsHere, At
  <2> QED
    BY <1>fails, <2>1 DEF Begun, Clean
<1>output. ASSUME MakeOutput PROVE Begun' /\ Clean'
  <2>1. Top.kind = "output" /\ ~EndsHere /\ InElement
    BY <1>output, MakingOutput DEF MakeOutput
  <2>2. CASE Fail
    BY <1>fails, <2>1, <2>2
  <2>3. ASSUME NEW kinds, NEW kind \in kinds, Advance(0, <<kind>>),
               ctx' \in {"ok", ctx, IF kinds = {} THEN "nix" ELSE "ok"}
        PROVE  Begun' /\ Clean'
    <3>1. ctx' = "ok" /\ text' = text
      BY <1>1, <2>1, <2>3 DEF InElement, Advance
    <3>2. Top'.saved = Top.saved
      BY <2>1, <2>3, AdvanceTop
    <3>3. ~EndsHere'
      BY <1>same, <2>1, <3>1, <3>2
    <3> QED
      BY <1>ok, <3>1, <3>3 DEF Begun
  <2> DEFINE kinds == OutputKinds(Top.parts[2], Top.parts[3], Top.parts[4])
  <2>4. /\ Fail \/ \E kind \in kinds : Advance(0, <<kind>>)
        /\ ctx' \in {"ok", ctx, IF kinds = {} THEN "nix" ELSE "ok"}
    BY <1>output DEF MakeOutput
  <2> HIDE DEF kinds
  <2> QED
    BY <2>2, <2>3, <2>4
<1>mismatch. ASSUME Mismatch PROVE Begun' /\ Clean'
  <2>1. Fail /\ ctx' = "ok"
    BY <1>mismatch, <1>1 DEF Mismatch, InElement, AfterElement
  <2> QED
    BY <1>fails, <2>1
<1>panics. ASSUME UnfinishedPanics PROVE Begun' /\ Clean'
  BY <1>panics, <1>1, <1>ok DEF UnfinishedPanics, InElement, Stop, Begun
<1>unwind. ASSUME Unwind PROVE Begun' /\ Clean'
  <2>1. pc = "unwind" /\ frames # <<>> /\ Below # <<>> /\ ctx' = ctx
    BY <1>unwind, <1>0 DEF Unwind, Busy
  <2>2. CASE EndsHere /\ EndList(Top.items, Top.saved)
    <3>1. ctx' = "ok"
      BY <1>0, <2>1, <2>2 DEF Clean
    <3> QED
      BY <1>ended, <2>1, <2>2, <3>1
  <2>3. CASE frames' = Below /\ pc' = pc
    <3>1. ctx = "nix" => Below' = <<>>
      <4>1. SUFFICES ASSUME ctx = "nix" PROVE Below' = <<>>
        OBVIOUS
      <4>2. Len(frames) = 2
        BY <2>1, <4>1, OutputsAreOuter DEF Clean
      <4>3. Len(Below) = 1 /\ IsSeq(Below)
        BY <2>1, <4>2, TopFacts
      <4>4. Front(Below) = <<>>
        BY <2>1, <4>3, PopStack
      <4> QED
        BY <2>3, <4>4 DEF Below
    <3> QED
      BY <2>1, <2>3, <3>1 DEF Begun, Clean
  <2> QED
    BY <1>unwind, <2>2, <2>3 DEF Unwind, EndsHere
<1>none. ASSUME NoDerivation PROVE Begun' /\ Clean'
  BY <1>none DEF NoDerivation, Stop, Begun, Clean
<1>stay. ASSUME UNCHANGED vars PROVE Begun' /\ Clean'
  BY <1>stay DEF vars, Begun, Clean, EndsHere, Top, Below, At, Element, InputDrv
<1> QED
  BY <1>quiet, <1>version, <1>tag, <1>string, <1>list, <1>next, <1>close, <1>output, <1>mismatch,
     <1>panics, <1>unwind, <1>none, <1>stay
  DEF Next

----------------------------------------------------------------------------
(* Dynamic derivations.                                                    *)

\* In a file that is taken for a dynamic derivation no comma comes after the
\* version, once the parser has gone on from there.
Dynamics ==
  version = "Dynamic" =>
    /\ At(1) = Tag("DrvWithVersion(")
    /\ \/ At(3) = Tag("[")
       \/ pc = "parse" /\ pos = 3 /\ Below = <<>> /\ Top.todo = Fields
       \/ pc = "unwind" /\ Below = <<>>
       \/ pc = "err"

\* Only what is taken for a dynamic derivation panics.
Panics == pc = "panic" => version = "Dynamic"

\* The list of the outputs is the first thing that is parsed.
LEMMA DynamicStep == Kept /\ Dynamics /\ Panics /\ [Next]_vars => Dynamics' /\ Panics'
<1> SUFFICES ASSUME Kept, Dynamics, Panics, [Next]_vars PROVE Dynamics' /\ Panics'
  OBVIOUS
<1> DEFINE Start == pos = 3 /\ Below = <<>> /\ Top.todo = Fields
<1>0. (Busy => frames # <<>>) /\ List("output")[1] = "list" /\ Head(Fields) = List("output")
      /\ Fields # <<>>
  BY FieldsSteps DEF Kept, List
<1>at. ASSUME text' = text PROVE At(1)' = At(1) /\ At(3)' = At(3)
  BY <1>at DEF At
<1>goal. ASSUME pc = "parse", Start PROVE Goal = List("output") /\ InElement /\ ~AfterElement
  BY <1>0, <1>goal DEF Goal, InElement, AfterElement
<1>moved. ASSUME text' = text, version' = version, pc' # "panic",
                 version = "Dynamic" => At(3) = Tag("[")
          PROVE  Dynamics' /\ Panics'
  BY <1>at, <1>moved DEF Dynamics, Panics
<1>begun. ASSUME version = "Dynamic", pc = "parse", ~Start PROVE At(3) = Tag("[")
  BY <1>begun DEF Dynamics
<1>quiet. ASSUME Open \/ Refuse \/ Convert PROVE Dynamics' /\ Panics'
  <2>1. text' = text /\ version' = version /\ pc' # "panic" /\ pc \in {"open", "done"}
    BY <1>quiet DEF Open, Refuse, Convert, Stop
  <2> QED
    BY <1>moved, <2>1 DEF Dynamics
<1>ends. ASSUME NoVersion \/ NoDerivation PROVE Dynamics' /\ Panics'
  <2>1. text' = text /\ version' = version /\ pc' = "err"
    BY <1>ends DEF NoVersion, NoDerivation, Stop
  <2> QED
    BY <1>at, <2>1 DEF Dynamics, Panics
<1>version. ASSUME ParseVersion PROVE Dynamics' /\ Panics'
  <2> DEFINE f == Frame("derivation", 1, Fields)
  <2>1. frames' = <<f>> /\ pc' = "parse" /\ text' = text
    BY <1>version DEF ParseVersion
  <2>2. f.todo = Fields
    BY DEF Frame
  <2> HIDE DEF f
  <2>3. Top' = f /\ Below' = <<>>
    BY <2>1 DEF Top, Last, Below, Front
  <2>4. version' = "Dynamic" => pos' = 3 /\ At(1) = Tag("DrvWithVersion(")
    BY <1>version DEF ParseVersion, Header
  <2>5. Fields' = Fields
    BY DEF Fields
  <2> QED
    BY <1>at, <2>1, <2>2, <2>3, <2>4, <2>5 DEF Dynamics, Panics
<1>list. ASSUME OpenList PROVE Dynamics' /\ Panics'
  <2>1. /\ text' = text /\ version' = version /\ pc = "parse" /\ pc' = "parse"
        /\ At(pos) = Tag("[")
    BY <1>list DEF OpenList, InElement, Peek
  <2>2. version = "Dynamic" => At(3) = Tag("[")
    BY <1>begun, <2>1
  <2> QED
    BY <1>moved, <2>1, <2>2
<1>inside. ASSUME pc = "parse", text' = text, version' = version, pc' # "panic",
                  ~InElement \/ Goal # List("output")
           PROVE  Dynamics' /\ Panics'
  BY <1>inside, <1>goal, <1>begun, <1>moved
<1>tag. ASSUME ParseTag \/ ParseString PROVE Dynamics' /\ Panics'
  <2>1. /\ pc = "parse" /\ pc' = pc /\ text' = text /\ version' = version
        /\ Goal[1] = "tag" \/ Goal = Str
    BY <1>tag DEF ParseTag, ParseString, InElement, Advance
  <2>2. Goal # List("output")
    <3>1. List("output")[1] = "list" /\ Str[1] = "string"
      BY DEF List, Str
    <3> QED
      BY <2>1, <3>1
  <2> QED
    BY <1>inside, <2>1, <2>2
<1>after. ASSUME NextElement \/ CloseList PROVE Dynamics' /\ Panics'
  <2>1. AfterElement /\ pc' = "parse" /\ text' = text /\ version' = version
    BY <1>after DEF NextElement, CloseList, AfterElement, EndList
  <2>2. pc = "parse" /\ ~InElement
    BY <2>1 DEF InElement, AfterElement
  <2> QED
    BY <1>inside, <2>1, <2>2
<1>output. ASSUME MakeOutput PROVE Dynamics' /\ Panics'
  <2>1. /\ pc = "parse" /\ pc' # "panic" /\ text' = text /\ version' = version /\ Goal = Make
    BY <1>output DEF MakeOutput, InElement, Advance, Fail
  <2>2. Goal # List("output")
    BY <2>1 DEF Make, List
  <2> QED
    BY <1>inside, <2>1, <2>2
<1>accept. ASSUME Accept PROVE Dynamics' /\ Panics'
  <2>1. pc = "parse" /\ pc' = "done" /\ text' = text /\ version' = version /\ ~InElement
    BY <1>accept DEF Accept, InElement
  <2> QED
    BY <1>inside, <2>1
<1>panics. ASSUME UnfinishedPanics PROVE Dynamics' /\ Panics'
  <2>1. InElement /\ Goal = Unfinished /\ text' = text /\ version' = version
    BY <1>panics DEF UnfinishedPanics, Stop
  <2>2. Goal # List("output")
    BY <2>1 DEF Unfinished, List
  <2>3. version = "Dynamic" => At(3) = Tag("[")
    BY <1>goal, <1>begun, <2>1, <2>2 DEF InElement
  <2>4. Goal \in StepsOf(Top.kind, version)
    BY <2>1, GoalFacts
  <2>5. Unfinished \notin Tags \cup {Str, Make} /\ Unfinished \notin Lists
        /\ Unfinished # List("string")
    <3>1. Make[1] = "new" /\ (\A t : Tag(t)[1] = "tag" /\ List(t)[1] = "list") /\ Str[1] = "string"
          /\ Unfinished[1] = "todo"
      BY DEF Make, Tag, List, Str, Unfinished
    <3> QED
      BY <3>1 DEF Tags, Lists
  <2>6. version = "Dynamic"
    BY <2>1, <2>4, <2>5 DEF StepsOf
  <2> QED
    BY <1>at, <2>1, <2>3, <2>6 DEF Dynamics, Panics
<1>mismatch. ASSUME Mismatch PROVE Dynamics' /\ Panics'
  <2>1. pc = "parse" /\ pc' = "unwind" /\ frames' = frames /\ text' = text /\ version' = version
    BY <1>mismatch DEF Mismatch, InElement, AfterElement, Fail
  <2>2. Below' = Below
    BY <2>1 DEF Below
  <2> QED
    BY <1>at, <2>1, <2>2 DEF Dynamics, Panics
<1>unwind. ASSUME Unwind PROVE Dynamics' /\ Panics'
  <2>1. pc = "unwind" /\ Below # <<>> /\ text' = text /\ version' = version
        /\ pc' \in {"parse", "unwind"}
    BY <1>unwind DEF Unwind, EndList
  <2> QED
    BY <1>moved, <2>1 DEF Dynamics
<1>stay. ASSUME UNCHANGED vars PROVE Dynamics' /\ Panics'
  BY <1>stay DEF vars, Dynamics, Panics, Top, Below, At, Fields
<1> QED
  BY <1>quiet, <1>ends, <1>version, <1>list, <1>tag, <1>after, <1>output, <1>accept, <1>panics,
     <1>mismatch, <1>unwind, <1>stay
  DEF Next

----------------------------------------------------------------------------
(* Induction.                                                              *)

\* The order of the natural numbers as a relation.
LEMMA LessThanIsWellFounded ==
  \E R : IsWellFoundedOn(R, Nat) /\ \A x, y \in Nat : y < x => <<y, x>> \in R
<1>1. \A x, y \in Nat : y < x => <<y, x>> \in OpToRel(<, Nat)
  BY DEF OpToRel
<1> QED
  BY <1>1, NatLessThanWellFounded

\* A set of natural numbers with 0 and with every successor has them all.
LEMMA Induction ==
  ASSUME NEW S, 0 \in S, \A n \in Nat : n \in S => n + 1 \in S
  PROVE  Nat \subseteq S
<1> DEFINE T == Nat \ S
<1> SUFFICES ASSUME T # {} PROVE FALSE
  OBVIOUS
<1>1. PICK R : IsWellFoundedOn(R, Nat) /\ \A x, y \in Nat : y < x => <<y, x>> \in R
  BY LessThanIsWellFounded
<1>2. PICK x \in T : \A y \in T : ~ (<<y, x>> \in R)
  BY <1>1, WFMin
<1>3. \A y \in T : ~(y < x)
  BY <1>1, <1>2
<1>4. x # 0 /\ x - 1 \in Nat /\ x - 1 \in S
  BY <1>3
<1> QED
  BY <1>4

----------------------------------------------------------------------------
(* The fold that joins parts with commas.                                  *)

\* The function that MapThenFoldSet chooses, on the positions up to k.
FoldsTo(parts, k, h) ==
  h = [s \in SUBSET (1..k) |->
        IF s = {} THEN <<>> ELSE LET x == Max(s) IN Comma(h[s \ {x}], parts[x])]

\* The last position of a set of them.
LEMMA LastPosition ==
  ASSUME NEW k \in Nat, NEW s \in SUBSET (1..k + 1), s # {}
  PROVE  /\ k + 1 \in s => Max(s) = k + 1
         /\ s \ {Max(s)} \in SUBSET (1..k)
<1>1. ASSUME k + 1 \in s PROVE Max(s) = k + 1
  <2>1. \A y \in s : k + 1 >= y
    OBVIOUS
  <2>2. \A x \in s : (\A y \in s : x >= y) => x = k + 1
    BY <1>1
  <2> QED
    BY <1>1, <2>1, <2>2 DEF Max
<1>2. s \ {Max(s)} \in SUBSET (1..k)
  <2> DEFINE m == Max(s)
  <2>1. k + 1 \in s => m = k + 1
    BY <1>1
  <2> HIDE DEF m
  <2>2. \A x \in s \ {m} : x \in 1..k + 1 /\ x # k + 1
    BY <2>1
  <2>3. \A x \in s \ {m} : x \in 1..k
    BY <2>2
  <2>4. s \ {m} \in SUBSET (1..k)
    BY <2>3
  <2> QED
    BY <2>4 DEF m
<1> QED
  BY <1>1, <1>2

\* There is such a function.
LEMMA FoldExists ==
  ASSUME NEW parts, NEW n \in Nat
  PROVE  \E h : FoldsTo(parts, n, h)
<1> DEFINE S == {k \in Nat : \E h : FoldsTo(parts, k, h)}
<1>1. 0 \in S
  <2> DEFINE h == [s \in SUBSET (1..0) |-> <<>>]
  <2>1. SUBSET (1..0) = {{}}
    OBVIOUS
  <2>2. FoldsTo(parts, 0, h)
    BY <2>1 DEF FoldsTo
  <2> QED
    BY <2>2
<1>2. ASSUME NEW k \in Nat, k \in S PROVE k + 1 \in S
  <2>1. PICK h : FoldsTo(parts, k, h)
    BY <1>2
  <2> DEFINE Value(f, s) == IF s = {} THEN <<>> ELSE Comma(f[s \ {Max(s)}], parts[Max(s)])
             g == [s \in SUBSET (1..k + 1) |-> Value(h, s)]
  <2>2. h = [s \in SUBSET (1..k) |-> Value(h, s)]
    BY <2>1 DEF FoldsTo
  <2>3. ASSUME NEW t \in SUBSET (1..k) PROVE g[t] = h[t]
    <3>1. t \in SUBSET (1..k + 1)
      OBVIOUS
    <3>2. g[t] = Value(h, t)
      BY <3>1
    <3>3. h[t] = Value(h, t)
      BY <2>2, Zenon
    <3> QED
      BY <3>2, <3>3
  <2>4. ASSUME NEW s \in SUBSET (1..k + 1) PROVE Value(h, s) = Value(g, s)
    <3>1. CASE s = {}
      BY <3>1
    <3>2. CASE s # {}
      <4>1. s \ {Max(s)} \in SUBSET (1..k)
        BY <3>2, LastPosition
      <4>2. g[s \ {Max(s)}] = h[s \ {Max(s)}]
        BY <4>1, <2>3
      <4> QED
        BY <3>2, <4>2
    <3> QED
      BY <3>1, <3>2
  <2>5. g = [s \in SUBSET (1..k + 1) |-> Value(g, s)]
    <3> HIDE DEF Value
    <3> QED
      BY <2>4
  <2>6. FoldsTo(parts, k + 1, g)
    BY <2>5, Zenon DEF FoldsTo
  <2> QED
    BY <2>6
<1> HIDE DEF S
<1>3. Nat \subseteq S
  BY <1>1, <1>2, Induction
<1> QED
  BY <1>3 DEF S

\* FoldLeft takes one part after the other.
LEMMA FoldSteps ==
  ASSUME NEW parts, NEW n \in Nat, DOMAIN parts = 1..n
  PROVE  \E g : /\ g[0] = <<>>
                /\ \A m \in 1..n : g[m] = Comma(g[m - 1], parts[m])
                /\ FoldLeft(Comma, <<>>, parts) = g[n]
<1>1. PICK h : FoldsTo(parts, n, h)
  BY FoldExists
<1>2. \E f : FoldsTo(parts, n, f) /\ FoldLeft(Comma, <<>>, parts) = f[DOMAIN parts]
  BY <1>1, Zenon DEF FoldLeft, MapThenFoldSet, FoldsTo
<1>3. PICK f : FoldsTo(parts, n, f) /\ FoldLeft(Comma, <<>>, parts) = f[1..n]
  BY <1>2
<1> DEFINE g == [m \in 0..n |-> f[1..m]]
<1>4. g[0] = <<>>
  <2>1. 1..0 = {} /\ {} \in SUBSET (1..n)
    OBVIOUS
  <2>2. f[{}] = <<>>
    BY <1>3, <2>1 DEF FoldsTo
  <2> QED
    BY <2>1, <2>2
<1>5. ASSUME NEW m \in 1..n PROVE g[m] = Comma(g[m - 1], parts[m])
  <2> DEFINE s == 1..m
  <2>0. m \in s /\ m - 1 \in Nat /\ (m - 1) + 1 = m
    OBVIOUS
  <2>1. s \in SUBSET (1..n) /\ s # {}
    <3>1. \A y \in s : y \in 1..n
      OBVIOUS
    <3> QED
      BY <2>0, <3>1
  <2>2. f[s] = Comma(f[s \ {Max(s)}], parts[Max(s)])
    BY <1>3, <2>1 DEF FoldsTo
  <2> HIDE DEF s
  <2>3. s \in SUBSET (1..(m - 1) + 1)
    BY <2>0, <2>1 DEF s
  <2>4. Max(s) = m
    BY <2>0, <2>1, <2>3, LastPosition
  <2>5. s \ {m} = 1..m - 1
    BY DEF s
  <2>6. g[m] = f[s]
    BY DEF s
  <2>7. g[m - 1] = f[1..m - 1]
    BY <2>0
  <2> HIDE DEF g
  <2> QED
    BY <2>2, <2>4, <2>5, <2>6, <2>7
<1>6. FoldLeft(Comma, <<>>, parts) = g[n]
  BY <1>3
<1> HIDE DEF g
<1> QED
  BY <1>4, <1>5, <1>6

\* What the parts come to, with commas between them.
Join(parts) == FoldLeft(Comma, <<>>, parts)

\* The token between two parts.
Separator == Tag(",")

\* Comma puts it between what is there and the next part.
LEMMA CommaSeparates ==
  ASSUME NEW J, NEW p
  PROVE  Comma(J, p) = IF J = <<>> THEN p ELSE J \o <<Separator>> \o p
BY Zenon DEF Comma, Separator

\* Folding takes the parts one after the other, so that those in front of the last
\* come to what they come to alone.
LEMMA JoinSteps ==
  ASSUME NEW parts, NEW n \in Nat, DOMAIN parts = 1..n, NEW others, DOMAIN others = 1..n + 1,
         \A m \in 1..n : others[m] = parts[m]
  PROVE  Join(others) = Comma(Join(parts), others[n + 1])
<1>1. PICK g : /\ g[0] = <<>>
               /\ \A m \in 1..n : g[m] = Comma(g[m - 1], parts[m])
               /\ Join(parts) = g[n]
  BY FoldSteps DEF Join
<1>2. n + 1 \in Nat
  OBVIOUS
<1>3. PICK h : /\ h[0] = <<>>
               /\ \A m \in 1..n + 1 : h[m] = Comma(h[m - 1], others[m])
               /\ Join(others) = h[n + 1]
  BY <1>2, FoldSteps DEF Join
<1> DEFINE S == {k \in Nat : k <= n => g[k] = h[k]}
<1>4. 0 \in S
  BY <1>1, <1>3
<1>5. ASSUME NEW k \in Nat, k \in S PROVE k + 1 \in S
  <2>1. SUFFICES ASSUME k + 1 <= n PROVE g[k + 1] = h[k + 1]
    OBVIOUS
  <2>2. k + 1 \in 1..n /\ k + 1 \in 1..n + 1 /\ (k + 1) - 1 = k /\ k <= n
    BY <2>1
  <2>3. g[k + 1] = Comma(g[(k + 1) - 1], parts[k + 1])
    BY <1>1, <2>2
  <2>4. h[k + 1] = Comma(h[(k + 1) - 1], others[k + 1])
    BY <1>3, <2>2
  <2>5. g[k] = h[k]
    BY <1>5, <2>2
  <2> QED
    BY <2>2, <2>3, <2>4, <2>5
<1> HIDE DEF S
<1>6. Nat \subseteq S
  BY <1>4, <1>5, Induction
<1>7. g[n] = h[n]
  BY <1>6 DEF S
<1>8. h[n + 1] = Comma(h[(n + 1) - 1], others[n + 1]) /\ (n + 1) - 1 = n
  BY <1>3
<1> QED
  BY <1>1, <1>3, <1>7, <1>8

\* No parts come to nothing.
LEMMA JoinNone ==
  ASSUME NEW parts, DOMAIN parts = 1..0
  PROVE  Join(parts) = <<>>
<1>1. PICK g : g[0] = <<>> /\ Join(parts) = g[0]
  BY FoldSteps DEF Join
<1> QED
  BY <1>1

\* Another part at the end.
LEMMA JoinMore ==
  ASSUME NEW parts, IsSeq(parts), NEW p
  PROVE  Join(Append(parts, p)) = Comma(Join(parts), p)
<1> DEFINE n == Len(parts)
           others == Append(parts, p)
<1>1. /\ IsSeq(others) /\ n \in Nat /\ Len(others) = n + 1
      /\ \A i \in 1..n : others[i] = parts[i]
      /\ others[n + 1] = p
  BY PushStack
<1>2. DOMAIN parts = 1..n /\ DOMAIN others = 1..n + 1
  BY <1>1 DEF IsSeq
<1> HIDE DEF n, others
<1>3. Join(others) = Comma(Join(parts), others[n + 1])
  BY <1>1, <1>2, JoinSteps
<1> QED
  BY <1>1, <1>3 DEF others

----------------------------------------------------------------------------
(* Where tokens lie in the text.                                           *)

\* One sequence behind another.
LEMMA Follows ==
  ASSUME NEW f, IsSeq(f), NEW g, IsSeq(g)
  PROVE  /\ IsSeq(f \o g) /\ Len(f) \in Nat /\ Len(g) \in Nat
         /\ Len(f \o g) = Len(f) + Len(g)
         /\ \A r \in 1..Len(f) : (f \o g)[r] = f[r]
         /\ \A q \in 1..Len(g) : (f \o g)[Len(f) + q] = g[q]
<1>1. PICK S : f \in Seq(S)
  BY DEF IsSeq
<1>2. PICK T : g \in Seq(T)
  BY DEF IsSeq
<1> DEFINE U == S \cup T
<1>3. f \in Seq(U) /\ g \in Seq(U)
  BY <1>1, <1>2
<1> HIDE DEF U
<1>4. /\ f \o g \in Seq(U) /\ Len(f) \in Nat /\ Len(g) \in Nat
      /\ Len(f \o g) = Len(f) + Len(g)
      /\ \A r \in 1..Len(f) : (f \o g)[r] = f[r]
      /\ \A q \in 1..Len(g) : (f \o g)[Len(f) + q] = g[q]
  BY <1>3
<1> QED
  BY <1>4 DEF IsSeq

\* A sequence of one.
LEMMA One ==
  ASSUME NEW c
  PROVE  IsSeq(<<c>>) /\ Len(<<c>>) = 1 /\ <<c>>[1] = c /\ <<c>> # <<>>
<1>1. <<c>> \in Seq({c})
  OBVIOUS
<1> QED
  BY <1>1 DEF IsSeq

\* Between positions i and j the text reads as these tokens.
Span(tokens, i, j) ==
  /\ IsSeq(tokens) /\ i \in Nat /\ j = i + Len(tokens)
  /\ \A q \in 1..Len(tokens) : ReadAs(At(i + q - 1)) = tokens[q]

\* Tokens behind one another lie behind one another.
LEMMA SpanSplits ==
  ASSUME NEW f, IsSeq(f), NEW g, IsSeq(g), NEW i, NEW j, Span(f \o g, i, j)
  PROVE  \E k \in Nat : Span(f, i, k) /\ Span(g, k, j)
<1> DEFINE m == Len(f)
           n == Len(g)
           h == f \o g
<1>1. /\ m \in Nat /\ n \in Nat /\ Len(h) = m + n
      /\ \A r \in 1..m : h[r] = f[r]
      /\ \A q \in 1..n : h[m + q] = g[q]
  BY Follows
<1>2. /\ i \in Nat /\ j = i + Len(h)
      /\ \A q \in 1..Len(h) : ReadAs(At(i + q - 1)) = h[q]
  BY DEF Span
<1> HIDE DEF h
<1>3. ASSUME NEW q \in 1..m PROVE ReadAs(At(i + q - 1)) = f[q]
  BY <1>1, <1>2
<1>4. ASSUME NEW q \in 1..n PROVE ReadAs(At((i + m) + q - 1)) = g[q]
  <2>1. m + q \in 1..Len(h) /\ i + (m + q) - 1 = (i + m) + q - 1
    BY <1>1, <1>2
  <2>2. ReadAs(At(i + (m + q) - 1)) = h[m + q]
    BY <1>2, <2>1
  <2> QED
    BY <1>1, <2>1, <2>2
<1>5. i + m \in Nat /\ j = (i + m) + n
  BY <1>1, <1>2
<1>6. Span(f, i, i + m) /\ Span(g, i + m, j)
  BY <1>2, <1>3, <1>4, <1>5 DEF Span
<1> QED
  BY <1>5, <1>6

\* What lies one behind the other lies there joined.
LEMMA SpansJoin ==
  ASSUME NEW f, NEW g, NEW i, NEW j, NEW k, Span(f, i, k), Span(g, k, j)
  PROVE  Span(f \o g, i, j)
<1> DEFINE m == Len(f)
           n == Len(g)
           h == f \o g
<1>1. /\ m \in Nat /\ n \in Nat /\ Len(h) = m + n /\ IsSeq(h)
      /\ \A r \in 1..m : h[r] = f[r]
      /\ \A q \in 1..n : h[m + q] = g[q]
  <2>1. IsSeq(f) /\ IsSeq(g)
    BY DEF Span
  <2> QED
    BY <2>1, Follows
<1>2. /\ i \in Nat /\ k = i + m /\ j = k + n
      /\ \A q \in 1..m : ReadAs(At(i + q - 1)) = f[q]
      /\ \A q \in 1..n : ReadAs(At(k + q - 1)) = g[q]
  BY DEF Span
<1> HIDE DEF h, m, n
<1>3. ASSUME NEW q \in 1..Len(h) PROVE ReadAs(At(i + q - 1)) = h[q]
  <2>1. CASE q \in 1..m
    BY <1>1, <1>2, <2>1
  <2>2. CASE q \notin 1..m
    <3>1. q - m \in 1..n /\ m + (q - m) = q /\ k + (q - m) - 1 = i + q - 1
      BY <1>1, <1>2, <2>2
    <3>2. ReadAs(At(k + (q - m) - 1)) = g[q - m] /\ h[m + (q - m)] = g[q - m]
      BY <1>1, <1>2, <3>1
    <3> QED
      BY <3>1, <3>2
  <2> QED
    BY <2>1, <2>2
<1>4. j = i + Len(h)
  BY <1>1, <1>2
<1>5. Span(h, i, j)
  BY <1>1, <1>2, <1>3, <1>4 DEF Span
<1> QED
  BY <1>5 DEF h

\* A single token.
LEMMA SpanOfOne ==
  ASSUME NEW c, NEW i, NEW j
  PROVE  Span(<<c>>, i, j) <=> i \in Nat /\ j = i + 1 /\ ReadAs(At(i)) = c
<1>1. IsSeq(<<c>>) /\ Len(<<c>>) = 1 /\ <<c>>[1] = c
  BY One
<1> DEFINE s == <<c>>
<1>2. IsSeq(s) /\ Len(s) = 1 /\ s[1] = c
  BY <1>1
<1> HIDE DEF s
<1>3. i \in Nat => i + 1 - 1 = i
  OBVIOUS
<1>4. Span(s, i, j) <=> i \in Nat /\ j = i + 1 /\ \A q \in 1..1 : ReadAs(At(i + q - 1)) = s[q]
  BY <1>2 DEF Span
<1>5. (\A q \in 1..1 : ReadAs(At(i + q - 1)) = s[q]) <=> ReadAs(At(i + 1 - 1)) = s[1]
  OBVIOUS
<1>6. Span(s, i, j) <=> i \in Nat /\ j = i + 1 /\ ReadAs(At(i)) = c
  BY <1>2, <1>3, <1>4, <1>5
<1> QED
  BY <1>6 DEF s

\* Spans are about positions.
LEMMA SpanRange ==
  ASSUME NEW f, NEW i, NEW j, Span(f, i, j)
  PROVE  i \in Nat /\ j \in Nat /\ i <= j /\ Len(f) \in Nat /\ IsSeq(f)
<1>1. Len(f) \in Nat
  BY DEF Span, IsSeq
<1> QED
  BY <1>1 DEF Span

\* What a token reads as tells what it is.
LEMMA ReadTag ==
  ASSUME NEW token, NEW t, ReadAs(token) = Tag(t)
  PROVE  token = Tag(t)
<1>1. \A c : Quoted(c) # Tag(t) /\ <<"broken", c>> # Tag(t)
  BY DEF Quoted, Tag
<1> QED
  BY <1>1 DEF ReadAs

\* A token that reads as a string is a literal of it.
LEMMA ReadQuoted ==
  ASSUME NEW token, NEW c, ReadAs(token) = Quoted(c)
  PROVE  token \in Strings /\ Content[token[2]] = c
<1>1. <<"broken", token[2]>> # Quoted(c)
  BY DEF Quoted
<1>2. token[1] # "tag"
  <2>1. Quoted(c)[1] # "tag"
    BY DEF Quoted
  <2> QED
    BY <2>1 DEF ReadAs
<1>3. token \in Strings /\ Quoted(Content[token[2]]) = Quoted(c)
  BY <1>1, <1>2 DEF ReadAs
<1>4. \A x, y : Quoted(x) = Quoted(y) => x = y
  BY DEF Quoted
<1> QED
  BY <1>3, <1>4

\* And the other way round.
LEMMA TagReads == \A t : ReadAs(Tag(t)) = Tag(t)
BY DEF ReadAs, Tag

\* And a literal reads as the string that it stands for.
LEMMA StringReads ==
  ASSUME NEW token \in Strings
  PROVE  ReadAs(token) = Quoted(Content[token[2]])
<1>1. token[1] # "tag"
  BY DEF Strings, Quoted
<1> QED
  BY <1>1 DEF ReadAs

\* A part.
Part(p) == IsSeq(p) /\ p # <<>>

\* A sequence is empty if it has no elements.
LEMMA EmptyOrNot ==
  ASSUME NEW s, IsSeq(s)
  PROVE  Len(s) \in Nat /\ DOMAIN s = 1..Len(s) /\ (s = <<>> <=> Len(s) = 0)
<1>1. PICK S : s \in Seq(S)
  BY DEF IsSeq
<1> QED
  BY <1>1

\* With a part more, something is there.
LEMMA CommaParts ==
  ASSUME NEW J, IsSeq(J), NEW p, Part(p)
  PROVE  Part(Comma(J, p))
<1>1. CASE J = <<>>
  BY <1>1, CommaSeparates DEF Part
<1>2. CASE J # <<>>
  <2> DEFINE c == <<Separator>>
             G == J \o c
  <2>1. IsSeq(c) /\ Len(c) = 1
    BY One
  <2> HIDE DEF c
  <2>2. IsSeq(G) /\ Len(G) = Len(J) + 1 /\ Len(J) \in Nat
    <3>1. IsSeq(J \o c) /\ Len(J \o c) = Len(J) + Len(c) /\ Len(J) \in Nat
      BY <2>1, Follows
    <3> QED
      BY <2>1, <3>1
  <2> HIDE DEF G
  <2>3. IsSeq(p)
    BY DEF Part
  <2>4. IsSeq(G \o p) /\ Len(G \o p) = Len(G) + Len(p) /\ Len(p) \in Nat
    BY <2>2, <2>3, Follows
  <2>5. Len(G \o p) # 0
    BY <2>2, <2>4
  <2>6. G \o p # <<>>
    BY <2>4, <2>5, EmptyOrNot
  <2>7. Comma(J, p) = G \o p
    BY <1>2, CommaSeparates DEF G, c
  <2> QED
    BY <2>4, <2>6, <2>7 DEF Part
<1> QED
  BY <1>1, <1>2

\* A part behind others lies behind them and a comma.
LEMMA CommaSpans ==
  ASSUME NEW J, Part(J), NEW p, Part(p), NEW i, NEW j
  PROVE  Span(Comma(J, p), i, j)
         <=> \E k \in Nat : Span(J, i, k) /\ ReadAs(At(k)) = Separator /\ Span(p, k + 1, j)
<1> DEFINE c == <<Separator>>
           G == J \o c
<1>1. IsSeq(c) /\ IsSeq(J) /\ IsSeq(p)
  BY One DEF Part
<1>2. \A k, l : Span(c, k, l) <=> k \in Nat /\ l = k + 1 /\ ReadAs(At(k)) = Separator
  BY SpanOfOne
<1>3. Comma(J, p) = G \o p
  BY CommaSeparates DEF Part
<1> HIDE DEF c
<1>4. IsSeq(G)
  BY <1>1, Follows
<1>5. ASSUME Span(Comma(J, p), i, j)
      PROVE  \E k \in Nat : Span(J, i, k) /\ ReadAs(At(k)) = Separator /\ Span(p, k + 1, j)
  <2> HIDE DEF G
  <2>1. PICK l \in Nat : Span(G, i, l) /\ Span(p, l, j)
    BY <1>1, <1>3, <1>4, <1>5, SpanSplits
  <2>2. Span(J \o c, i, l)
    BY <2>1 DEF G
  <2>3. PICK k \in Nat : Span(J, i, k) /\ Span(c, k, l)
    BY <1>1, <2>2, SpanSplits
  <2> QED
    BY <1>2, <2>1, <2>3
<1>6. ASSUME NEW k \in Nat, Span(J, i, k), ReadAs(At(k)) = Separator, Span(p, k + 1, j)
      PROVE  Span(Comma(J, p), i, j)
  <2>1. Span(c, k, k + 1)
    BY <1>2, <1>6
  <2>2. Span(G, i, k + 1)
    BY <1>6, <2>1, SpansJoin
  <2> HIDE DEF G
  <2>3. Span(G \o p, i, j)
    BY <1>6, <2>2, SpansJoin
  <2> QED
    BY <1>3, <2>3
<1> QED
  BY <1>5, <1>6

\* Parts come to something if there are any.
LEMMA JoinParts ==
  ASSUME NEW parts, NEW n \in Nat, DOMAIN parts = 1..n, \A m \in 1..n : Part(parts[m])
  PROVE  IsSeq(Join(parts)) /\ (Join(parts) = <<>> <=> n = 0)
<1>1. PICK g : /\ g[0] = <<>>
               /\ \A m \in 1..n : g[m] = Comma(g[m - 1], parts[m])
               /\ Join(parts) = g[n]
  BY FoldSteps DEF Join
<1> DEFINE S == {k \in Nat : k <= n => IsSeq(g[k]) /\ (k > 0 => Part(g[k]))}
<1>2. 0 \in S
  <2>1. <<>> \in Seq({})
    OBVIOUS
  <2>2. IsSeq(g[0])
    BY <1>1, <2>1 DEF IsSeq
  <2> QED
    BY <2>2
<1>3. ASSUME NEW k \in Nat, k \in S PROVE k + 1 \in S
  <2>1. SUFFICES ASSUME k + 1 <= n PROVE Part(g[k + 1])
    BY DEF Part
  <2>2. k + 1 \in 1..n /\ (k + 1) - 1 = k /\ k <= n
    BY <2>1
  <2>3. g[k + 1] = Comma(g[(k + 1) - 1], parts[k + 1])
    BY <1>1, <2>2
  <2>4. IsSeq(g[k]) /\ Part(parts[k + 1])
    BY <1>3, <2>2
  <2>5. Part(Comma(g[k], parts[k + 1]))
    BY <2>4, CommaParts
  <2> QED
    BY <2>2, <2>3, <2>5
<1> HIDE DEF S
<1>4. n \in S
  BY <1>2, <1>3, Induction
<1> QED
  BY <1>1, <1>4 DEF S, Part

\* Where the parts lie: from Q[m] to the comma, or to what comes behind the last.
Cuts(parts, n, Q, i, j) ==
  /\ Q[1] = i /\ Q[n + 1] = j + 1
  /\ \A m \in 1..n : /\ Q[m] \in Nat /\ Q[m + 1] \in Nat /\ Span(parts[m], Q[m], Q[m + 1] - 1)
                     /\ m < n => ReadAs(At(Q[m + 1] - 1)) = Separator

\* Joined parts are cut at commas, each part where it lies.
LEMMA JoinCuts ==
  ASSUME NEW parts, NEW n \in Nat \ {0}, DOMAIN parts = 1..n, \A m \in 1..n : Part(parts[m]),
         NEW i, NEW j, Span(Join(parts), i, j)
  PROVE  \E Q : Cuts(parts, n, Q, i, j)
<1>1. PICK g : /\ g[0] = <<>>
               /\ \A m \in 1..n : g[m] = Comma(g[m - 1], parts[m])
               /\ Join(parts) = g[n]
  BY FoldSteps DEF Join
<1> DEFINE S == {k \in Nat : k \in 1..n =>
                   /\ Part(g[k])
                   /\ \A e : Span(g[k], i, e) => \E Q : Cuts(parts, k, Q, i, e)}
<1>2. 0 \in S
  OBVIOUS
<1>3. ASSUME NEW k \in Nat, k \in S PROVE k + 1 \in S
  <2>1. SUFFICES ASSUME k + 1 \in 1..n
                 PROVE  /\ Part(g[k + 1])
                        /\ \A e : Span(g[k + 1], i, e) => \E Q : Cuts(parts, k + 1, Q, i, e)
    OBVIOUS
  <2>2. g[k + 1] = Comma(g[k], parts[k + 1]) /\ Part(parts[k + 1])
    <3>1. g[k + 1] = Comma(g[(k + 1) - 1], parts[k + 1]) /\ (k + 1) - 1 = k
      BY <1>1, <2>1
    <3> QED
      BY <2>1, <3>1
  <2> DEFINE p == parts[k + 1]
  <2>3. CASE k = 0
    <3>1. g[k + 1] = p
      BY <1>1, <2>2, <2>3, CommaSeparates
    <3>2. ASSUME NEW e, Span(p, i, e) PROVE \E Q : Cuts(parts, k + 1, Q, i, e)
      <4> DEFINE Q == <<i, e + 1>>
      <4>1. i \in Nat /\ e \in Nat /\ (e + 1) - 1 = e
        BY <3>2, SpanRange
      <4>2. Q[1] = i /\ Q[2] = e + 1 /\ parts[1] = p
        BY <2>3
      <4> HIDE DEF Q, p
      <4>3. Cuts(parts, 1, Q, i, e)
        <5>1. \A m \in 1..1 : m = 1
          OBVIOUS
        <5>2. 1 + 1 = 2
          OBVIOUS
        <5>3. Span(parts[1], Q[1], Q[2] - 1)
          BY <3>2, <4>1, <4>2
        <5> QED
          BY <4>1, <4>2, <5>1, <5>2, <5>3 DEF Cuts
      <4> QED
        BY <2>3, <4>3
    <3> QED
      BY <2>2, <3>1, <3>2
  <2>4. CASE k # 0
    <3>1. k \in 1..n
      BY <2>1, <2>4
    <3>2. Part(g[k]) /\ \A e : Span(g[k], i, e) => \E Q : Cuts(parts, k, Q, i, e)
      BY <1>3, <3>1
    <3>3. Part(g[k + 1])
      BY <2>2, <3>2, CommaParts DEF Part
    <3>4. ASSUME NEW e, Span(g[k + 1], i, e) PROVE \E Q : Cuts(parts, k + 1, Q, i, e)
      <4>1. PICK l \in Nat : Span(g[k], i, l) /\ ReadAs(At(l)) = Separator /\ Span(p, l + 1, e)
        BY <2>2, <3>2, <3>4, CommaSpans
      <4>2. PICK Q : Cuts(parts, k, Q, i, l)
        BY <3>2, <4>1
      <4> DEFINE R == [m \in 1..k + 2 |-> IF m = k + 2 THEN e + 1 ELSE Q[m]]
      <4>3. /\ \A m \in 1..k + 1 : R[m] = Q[m]
            /\ R[k + 2] = e + 1 /\ (k + 1) + 1 = k + 2
        BY <3>1
      <4> HIDE DEF R
      <4>4. Q[1] = i /\ Q[k + 1] = l + 1
            /\ \A m \in 1..k : /\ Q[m] \in Nat /\ Q[m + 1] \in Nat
                               /\ Span(parts[m], Q[m], Q[m + 1] - 1)
                               /\ m < k => ReadAs(At(Q[m + 1] - 1)) = Separator
        BY <4>2 DEF Cuts
      <4>5. R[1] = i /\ R[(k + 1) + 1] = e + 1
        BY <3>1, <4>3, <4>4
      <4>6. ASSUME NEW m \in 1..k + 1
            PROVE  /\ R[m] \in Nat /\ R[m + 1] \in Nat /\ Span(parts[m], R[m], R[m + 1] - 1)
                   /\ m < k + 1 => ReadAs(At(R[m + 1] - 1)) = Separator
        <5>1. CASE m = k + 1
          <6>1. e \in Nat /\ (e + 1) - 1 = e
            BY <4>1, SpanRange
          <6>2. R[m] = l + 1 /\ R[m + 1] = e + 1
            BY <3>1, <4>3, <4>4, <5>1
          <6> QED
            BY <4>1, <5>1, <6>1, <6>2
        <5>2. CASE m \in 1..k
          <6>1. R[m] = Q[m] /\ R[m + 1] = Q[m + 1]
            BY <4>3, <5>2
          <6>2. (l + 1) - 1 = l
            OBVIOUS
          <6>3. m = k => ReadAs(At(R[m + 1] - 1)) = Separator
            BY <4>1, <4>4, <6>1, <6>2
          <6> QED
            BY <4>4, <5>2, <6>1, <6>3
        <5> QED
          BY <5>1, <5>2
      <4>7. Cuts(parts, k + 1, R, i, e)
        BY <4>5, <4>6 DEF Cuts
      <4> QED
        BY <4>7
    <3> QED
      BY <3>3, <3>4
  <2> QED
    BY <2>3, <2>4
<1> HIDE DEF S
<1>4. n \in S
  BY <1>2, <1>3, Induction
<1> QED
  BY <1>1, <1>4 DEF S

\* What is between brackets.
LEMMA BetweenSpans ==
  ASSUME NEW open, NEW parts, NEW close, IsSeq(Join(parts)), NEW i, NEW j
  PROVE  /\ Span(Between(open, parts, close), i, j)
            <=> \E k \in Nat : /\ i \in Nat /\ ReadAs(At(i)) = Tag(open)
                               /\ Span(Join(parts), i + 1, k)
                               /\ ReadAs(At(k)) = Tag(close) /\ j = k + 1
         /\ Part(Between(open, parts, close))
<1> DEFINE a == <<Tag(open)>>
           c == <<Tag(close)>>
           J == Join(parts)
           G == a \o J
<1>1. IsSeq(a) /\ IsSeq(c) /\ IsSeq(J) /\ Len(a) = 1
  BY One
<1>2. /\ \A k, l : Span(a, k, l) <=> k \in Nat /\ l = k + 1 /\ ReadAs(At(k)) = Tag(open)
      /\ \A k, l : Span(c, k, l) <=> k \in Nat /\ l = k + 1 /\ ReadAs(At(k)) = Tag(close)
  BY SpanOfOne
<1>3. Between(open, parts, close) = G \o c
  BY Zenon DEF Between, Join
<1> HIDE DEF a, c, J
<1>4. IsSeq(G) /\ Len(G) = 1 + Len(J) /\ Len(J) \in Nat
  <2>1. IsSeq(a \o J) /\ Len(a \o J) = Len(a) + Len(J) /\ Len(J) \in Nat
    BY <1>1, Follows
  <2> QED
    BY <1>1, <2>1
<1>5. ASSUME Span(Between(open, parts, close), i, j)
      PROVE  \E k \in Nat : /\ i \in Nat /\ ReadAs(At(i)) = Tag(open) /\ Span(J, i + 1, k)
                            /\ ReadAs(At(k)) = Tag(close) /\ j = k + 1
  <2> HIDE DEF G
  <2>1. PICK k \in Nat : Span(G, i, k) /\ Span(c, k, j)
    BY <1>1, <1>3, <1>4, <1>5, SpanSplits
  <2>2. Span(a \o J, i, k)
    BY <2>1 DEF G
  <2>3. PICK l \in Nat : Span(a, i, l) /\ Span(J, l, k)
    BY <1>1, <2>2, SpanSplits
  <2> QED
    BY <1>2, <2>1, <2>3
<1>6. ASSUME NEW k \in Nat, i \in Nat, ReadAs(At(i)) = Tag(open), Span(J, i + 1, k),
             ReadAs(At(k)) = Tag(close), j = k + 1
      PROVE  Span(Between(open, parts, close), i, j)
  <2>1. Span(a, i, i + 1) /\ Span(c, k, j)
    BY <1>2, <1>6
  <2>2. Span(G, i, k)
    BY <1>6, <2>1, SpansJoin
  <2> HIDE DEF G
  <2>3. Span(G \o c, i, j)
    BY <2>1, <2>2, SpansJoin
  <2> QED
    BY <1>3, <2>3
<1>7. Part(Between(open, parts, close))
  <2> HIDE DEF G
  <2>1. IsSeq(G \o c) /\ Len(G \o c) = Len(G) + Len(c) /\ Len(c) \in Nat
    BY <1>1, <1>4, Follows
  <2>2. Len(G \o c) # 0
    BY <1>4, <2>1
  <2> QED
    BY <1>3, <2>1, <2>2, EmptyOrNot DEF Part
<1> QED
  BY <1>5, <1>6, <1>7 DEF J

\* One part more, after a comma.
LEMMA JoinedSpans ==
  ASSUME NEW parts, IsSeq(parts), Part(Join(parts)), NEW p, Part(p), NEW others,
         others = Append(parts, p)
  PROVE  /\ Part(Join(others))
         /\ \A i, j : Span(Join(others), i, j)
                      <=> \E k \in Nat : /\ Span(Join(parts), i, k)
                                         /\ ReadAs(At(k)) = Separator /\ Span(p, k + 1, j)
<1> DEFINE J == Join(parts)
<1>1. Join(others) = Comma(J, p)
  BY JoinMore
<1>2. Part(J) /\ IsSeq(J)
  BY DEF Part
<1> HIDE DEF J
<1>3. Part(Comma(J, p))
  BY <1>2, CommaParts
<1>4. \A i, j : Span(Comma(J, p), i, j)
                <=> \E k \in Nat : /\ Span(J, i, k)
                                   /\ ReadAs(At(k)) = Separator /\ Span(p, k + 1, j)
  BY <1>2, CommaSpans
<1> QED
  BY <1>1, <1>3, <1>4 DEF J

\* One, two, four and seven parts.
LEMMA JoinedOne ==
  ASSUME NEW a, Part(a)
  PROVE  Join(<<a>>) = a
<1>1. <<>> \in Seq({}) /\ DOMAIN <<>> = 1..0 /\ <<a>> = Append(<<>>, a)
  OBVIOUS
<1>2. IsSeq(<<>>)
  BY <1>1 DEF IsSeq
<1>3. Join(<<>>) = <<>>
  BY <1>1, JoinNone
<1>4. Join(<<a>>) = Comma(Join(<<>>), a)
  BY <1>1, <1>2, JoinMore
<1> QED
  BY <1>3, <1>4, CommaSeparates

\* Where two joined parts lie there is the one, a comma, and the other.
LEMMA JoinedTwo ==
  ASSUME NEW a, Part(a), NEW b, Part(b)
  PROVE  /\ Part(Join(<<a, b>>))
         /\ \A i, j : Span(Join(<<a, b>>), i, j)
                      <=> \E k \in Nat : /\ Span(a, i, k) /\ ReadAs(At(k)) = Separator
                                         /\ Span(b, k + 1, j)
<1> DEFINE one == <<a>>
           two == <<a, b>>
<1>1. two = Append(one, b) /\ IsSeq(one)
  BY One
<1>2. Join(one) = a
  BY JoinedOne
<1> HIDE DEF one, two
<1>3. /\ Part(Join(two))
      /\ \A i, j : Span(Join(two), i, j)
                   <=> \E k \in Nat : /\ Span(Join(one), i, k) /\ ReadAs(At(k)) = Separator
                                      /\ Span(b, k + 1, j)
  BY <1>1, <1>2, JoinedSpans
<1> QED
  BY <1>2, <1>3 DEF two

\* And so with four.
LEMMA JoinedFour ==
  ASSUME NEW a, Part(a), NEW b, Part(b), NEW c, Part(c), NEW d, Part(d)
  PROVE  /\ Part(Join(<<a, b, c, d>>))
         /\ \A i, j : Span(Join(<<a, b, c, d>>), i, j)
                      <=> \E k, l, m \in Nat :
                             /\ Span(a, i, k) /\ ReadAs(At(k)) = Separator
                             /\ Span(b, k + 1, l) /\ ReadAs(At(l)) = Separator
                             /\ Span(c, l + 1, m) /\ ReadAs(At(m)) = Separator
                             /\ Span(d, m + 1, j)
<1> DEFINE two == <<a, b>>
           three == <<a, b, c>>
           four == <<a, b, c, d>>
<1>1. three = Append(two, c) /\ four = Append(three, d)
  OBVIOUS
<1>2. two \in Seq({a, b}) /\ three \in Seq({a, b, c})
  OBVIOUS
<1>3. IsSeq(two) /\ IsSeq(three)
  BY <1>2 DEF IsSeq
<1>4. /\ Part(Join(two))
      /\ \A i, j : Span(Join(two), i, j)
                   <=> \E k \in Nat : Span(a, i, k) /\ ReadAs(At(k)) = Separator
                                      /\ Span(b, k + 1, j)
  BY JoinedTwo
<1> HIDE DEF two, three, four
<1>5. /\ Part(Join(three))
      /\ \A i, j : Span(Join(three), i, j)
                   <=> \E l \in Nat : Span(Join(two), i, l) /\ ReadAs(At(l)) = Separator
                                      /\ Span(c, l + 1, j)
  BY <1>1, <1>3, <1>4, JoinedSpans
<1>6. /\ Part(Join(four))
      /\ \A i, j : Span(Join(four), i, j)
                   <=> \E m \in Nat : Span(Join(three), i, m) /\ ReadAs(At(m)) = Separator
                                      /\ Span(d, m + 1, j)
  BY <1>1, <1>3, <1>5, JoinedSpans
<1>7. \A i, j : Span(Join(four), i, j)
                <=> \E k, l, m \in Nat :
                       /\ Span(a, i, k) /\ ReadAs(At(k)) = Separator
                       /\ Span(b, k + 1, l) /\ ReadAs(At(l)) = Separator
                       /\ Span(c, l + 1, m) /\ ReadAs(At(m)) = Separator
                       /\ Span(d, m + 1, j)
  BY <1>4, <1>5, <1>6
<1> QED
  BY <1>6, <1>7 DEF four

\* Seven of them, and the commas in between.
SevenAt(a, b, c, d, e, f, g, i, j) ==
  \E k, l, m, n, o, p \in Nat :
    /\ Span(a, i, k) /\ ReadAs(At(k)) = Separator
    /\ Span(b, k + 1, l) /\ ReadAs(At(l)) = Separator
    /\ Span(c, l + 1, m) /\ ReadAs(At(m)) = Separator
    /\ Span(d, m + 1, n) /\ ReadAs(At(n)) = Separator
    /\ Span(e, n + 1, o) /\ ReadAs(At(o)) = Separator
    /\ Span(f, o + 1, p) /\ ReadAs(At(p)) = Separator
    /\ Span(g, p + 1, j)

\* And with seven.
LEMMA JoinedSeven ==
  ASSUME NEW a, Part(a), NEW b, Part(b), NEW c, Part(c), NEW d, Part(d), NEW e, Part(e),
         NEW f, Part(f), NEW g, Part(g)
  PROVE  /\ Part(Join(<<a, b, c, d, e, f, g>>))
         /\ \A i, j : Span(Join(<<a, b, c, d, e, f, g>>), i, j) <=> SevenAt(a, b, c, d, e, f, g, i, j)
<1> DEFINE four == <<a, b, c, d>>
           five == <<a, b, c, d, e>>
           six == <<a, b, c, d, e, f>>
           seven == <<a, b, c, d, e, f, g>>
<1>1. five = Append(four, e) /\ six = Append(five, f) /\ seven = Append(six, g)
  OBVIOUS
<1>2. four \in Seq({a, b, c, d}) /\ five \in Seq({a, b, c, d, e}) /\ six \in Seq({a, b, c, d, e, f})
  OBVIOUS
<1>3. IsSeq(four) /\ IsSeq(five) /\ IsSeq(six)
  BY <1>2 DEF IsSeq
<1>4. /\ Part(Join(four))
      /\ \A i, j : Span(Join(four), i, j)
                   <=> \E k, l, m \in Nat :
                          /\ Span(a, i, k) /\ ReadAs(At(k)) = Separator
                          /\ Span(b, k + 1, l) /\ ReadAs(At(l)) = Separator
                          /\ Span(c, l + 1, m) /\ ReadAs(At(m)) = Separator
                          /\ Span(d, m + 1, j)
  BY JoinedFour
<1> HIDE DEF four, five, six, seven
<1>5. /\ Part(Join(five))
      /\ \A i, j : Span(Join(five), i, j)
                   <=> \E n \in Nat : Span(Join(four), i, n) /\ ReadAs(At(n)) = Separator
                                      /\ Span(e, n + 1, j)
  BY <1>1, <1>3, <1>4, JoinedSpans
<1>6. /\ Part(Join(six))
      /\ \A i, j : Span(Join(six), i, j)
                   <=> \E o \in Nat : Span(Join(five), i, o) /\ ReadAs(At(o)) = Separator
                                      /\ Span(f, o + 1, j)
  BY <1>1, <1>3, <1>5, JoinedSpans
<1>7. /\ Part(Join(seven))
      /\ \A i, j : Span(Join(seven), i, j)
                   <=> \E p \in Nat : Span(Join(six), i, p) /\ ReadAs(At(p)) = Separator
                                      /\ Span(g, p + 1, j)
  BY <1>1, <1>3, <1>6, JoinedSpans
<1>8. \A i, j : Span(Join(six), i, j)
                <=> \E k, l, m, n, o \in Nat :
                       /\ Span(a, i, k) /\ ReadAs(At(k)) = Separator
                       /\ Span(b, k + 1, l) /\ ReadAs(At(l)) = Separator
                       /\ Span(c, l + 1, m) /\ ReadAs(At(m)) = Separator
                       /\ Span(d, m + 1, n) /\ ReadAs(At(n)) = Separator
                       /\ Span(e, n + 1, o) /\ ReadAs(At(o)) = Separator
                       /\ Span(f, o + 1, j)
  <2>1. \A i, j : Span(Join(five), i, j)
                  <=> \E k, l, m, n \in Nat :
                         /\ Span(a, i, k) /\ ReadAs(At(k)) = Separator
                         /\ Span(b, k + 1, l) /\ ReadAs(At(l)) = Separator
                         /\ Span(c, l + 1, m) /\ ReadAs(At(m)) = Separator
                         /\ Span(d, m + 1, n) /\ ReadAs(At(n)) = Separator
                         /\ Span(e, n + 1, j)
    BY <1>4, <1>5
  <2> QED
    BY <1>6, <2>1
<1>9. ASSUME NEW i, NEW j
      PROVE  Span(Join(seven), i, j) <=> SevenAt(a, b, c, d, e, f, g, i, j)
  <2> DEFINE Six(k, l, m, n, o, p) ==
               /\ Span(a, i, k) /\ ReadAs(At(k)) = Separator
               /\ Span(b, k + 1, l) /\ ReadAs(At(l)) = Separator
               /\ Span(c, l + 1, m) /\ ReadAs(At(m)) = Separator
               /\ Span(d, m + 1, n) /\ ReadAs(At(n)) = Separator
               /\ Span(e, n + 1, o) /\ ReadAs(At(o)) = Separator
               /\ Span(f, o + 1, p)
  <2>1. \A p : Span(Join(six), i, p) <=> \E k, l, m, n, o \in Nat : Six(k, l, m, n, o, p)
    BY <1>8
  <2>2. SevenAt(a, b, c, d, e, f, g, i, j)
        <=> \E k, l, m, n, o, p \in Nat :
               Six(k, l, m, n, o, p) /\ ReadAs(At(p)) = Separator /\ Span(g, p + 1, j)
    BY DEF SevenAt
  <2> HIDE DEF Six
  <2> QED
    BY <1>7, <2>1, <2>2
<1> QED
  BY <1>7, <1>9 DEF seven

----------------------------------------------------------------------------
(* Elements and lists, as nix writes them.                                 *)

\* What nix writes of an element of a list, as the parser knows it: an input
\* without the outputs of its outputs.
Rendered(kind, x) ==
  CASE kind = "string" -> Word(x)
    [] kind = "pair"   -> Pair(x)
    [] kind = "output" -> Output(x)
    [] kind = "input"  -> Input(Append(x, <<>>))

RenderedAll(kind, xs) == [q \in DOMAIN xs |-> Rendered(kind, xs[q])]

\* What a parser of elements yields.
Well(kind, x) ==
  /\ kind = "pair" => x = <<x[1], x[2]>>
  /\ kind = "output" => x = <<x[1], x[2], x[3], x[4], x[5]>>
  /\ kind = "input" => x = <<x[1], x[2]>> /\ IsSeq(x[2])

\* A list of elements from i to j.
Listed(kind, xs, i, j) ==
  /\ IsSeq(xs) /\ \A q \in 1..Len(xs) : Well(kind, xs[q])
  /\ Span(Between("[", RenderedAll(kind, xs), "]"), i, j)

\* A string as nix writes it is a part.
LEMMA WordIsPart == \A x : Part(Word(x))
BY One DEF Word, Part

\* A list comes to something.
LEMMA ListIsPart ==
  ASSUME NEW kind, NEW xs, IsSeq(xs), \A q \in 1..Len(xs) : Part(Rendered(kind, xs[q]))
  PROVE  /\ DOMAIN RenderedAll(kind, xs) = 1..Len(xs) /\ Len(xs) \in Nat
         /\ \A q \in 1..Len(xs) : RenderedAll(kind, xs)[q] = Rendered(kind, xs[q])
         /\ IsSeq(Join(RenderedAll(kind, xs)))
         /\ (Join(RenderedAll(kind, xs)) = <<>> <=> xs = <<>>)
         /\ Part(Between("[", RenderedAll(kind, xs), "]"))
<1> DEFINE n == Len(xs)
           rs == RenderedAll(kind, xs)
<1>1. n \in Nat /\ DOMAIN xs = 1..n /\ (xs = <<>> <=> n = 0)
  BY EmptyOrNot
<1>2. DOMAIN rs = 1..n /\ \A q \in 1..n : rs[q] = Rendered(kind, xs[q])
  BY <1>1 DEF RenderedAll
<1>3. \A q \in 1..n : Part(rs[q])
  BY <1>2
<1> HIDE DEF rs, n
<1>4. IsSeq(Join(rs)) /\ (Join(rs) = <<>> <=> n = 0)
  BY <1>1, <1>2, <1>3, JoinParts
<1>5. Part(Between("[", rs, "]"))
  BY <1>4, BetweenSpans
<1> QED
  BY <1>1, <1>2, <1>4, <1>5 DEF rs, n

\* The strings of a list.
LEMMA WordsAreListed ==
  ASSUME NEW ss, IsSeq(ss)
  PROVE  /\ Words(ss) = Between("[", RenderedAll("string", ss), "]")
         /\ Part(Words(ss))
<1>1. \A x : Rendered("string", x) = Word(x)
  BY DEF Rendered
<1>2. [i \in DOMAIN ss |-> Word(ss[i])] = RenderedAll("string", ss)
  BY <1>1 DEF RenderedAll
<1>3. Words(ss) = Between("[", RenderedAll("string", ss), "]")
  BY <1>2, Zenon DEF Words, ListOf
<1>4. Part(Between("[", RenderedAll("string", ss), "]"))
  BY <1>1, WordIsPart, ListIsPart
<1> QED
  BY <1>3, <1>4

----------------------------------------------------------------------------
(* The steps of a parser, and where they are taken.                        *)

Opening == Tag("(")
Closing == Tag(")")

\* The steps of a parser.
Script(kind) == IF kind = "derivation" THEN Fields ELSE Element(kind)

Length(kind) ==
  CASE kind = "derivation" -> 14
    [] kind = "output" -> 10
    [] kind = "input" -> 5
    [] kind = "pair" -> 5
    [] kind = "string" -> 1

\* The parts that the parser has before it takes step s.
Count(kind, s) == IF kind \in {"derivation", "string"} THEN s \div 2 ELSE (s - 1) \div 2

\* What the step takes lies between i and j, and yields the part v if it yields one.
StepAt(step, v, i, j) ==
  \/ step[1] = "tag" /\ Span(<<step>>, i, j)
  \/ step = Str /\ Span(Word(v), i, j)
  \/ step[1] = "list" /\ Listed(step[2], v, i, j)
  \/ step = Make /\ i \in Nat /\ j = i

\* Step r is taken at P[r], and the next one at P[r + 1].
TakenAt(kind, V, P, r) == StepAt(Script(kind)[r], V[Count(kind, r) + 1], P[r], P[r + 1])

\* The steps of each parser, one by one.
LEMMA Scripts ==
  /\ Script("derivation") = <<List("output"), Separator, List("input"), Separator, List("string"),
                              Separator, Str, Separator, Str, Separator, List("string"), Separator,
                              List("pair"), Closing>>
  /\ Script("output") = <<Opening, Str, Separator, Str, Separator, Str, Separator, Str, Closing, Make>>
  /\ Script("input") = <<Opening, Str, Separator, InputDrv, Closing>>
  /\ Script("string") = <<Str>>
  /\ Script("pair") = <<Opening, Str, Separator, Str, Closing>>
BY Zenon DEF Script, Fields, Element, Opening, Closing, Separator

\* The steps are told apart by what they take.
LEMMA Kinded ==
  /\ Opening[1] = "tag" /\ Separator[1] = "tag" /\ Closing[1] = "tag"
  /\ Str[1] = "string" /\ Make[1] = "new" /\ Unfinished[1] = "todo"
  /\ \A kind : List(kind)[1] = "list" /\ List(kind)[2] = kind
  /\ InputDrv \in {Unfinished, List("string")}
<1>1. \A t : Tag(t)[1] = "tag"
  BY DEF Tag
<1>2. Opening[1] = "tag" /\ Separator[1] = "tag" /\ Closing[1] = "tag"
  BY <1>1 DEF Opening, Separator, Closing
<1> QED
  BY <1>2 DEF Str, Make, Unfinished, List, InputDrv

\* What the steps take.
LEMMA StepsAt ==
  ASSUME NEW v, NEW i, NEW j
  PROVE  /\ \A step \in {Opening, Separator, Closing} :
              StepAt(step, v, i, j) <=> i \in Nat /\ j = i + 1 /\ ReadAs(At(i)) = step
         /\ StepAt(Str, v, i, j) <=> Span(Word(v), i, j)
         /\ \A kind : StepAt(List(kind), v, i, j) <=> Listed(kind, v, i, j)
         /\ StepAt(Make, v, i, j) <=> i \in Nat /\ j = i
         /\ ~StepAt(Unfinished, v, i, j)
<1>1. ASSUME NEW step \in {Opening, Separator, Closing}
      PROVE  StepAt(step, v, i, j) <=> i \in Nat /\ j = i + 1 /\ ReadAs(At(i)) = step
  <2>1. step[1] = "tag"
    BY Kinded
  <2>2. step # Str /\ step # Make /\ step[1] # "list"
    BY <2>1, Kinded
  <2>3. StepAt(step, v, i, j) <=> Span(<<step>>, i, j)
    BY <2>1, <2>2 DEF StepAt
  <2> QED
    BY <2>3, SpanOfOne
<1>2. StepAt(Str, v, i, j) <=> Span(Word(v), i, j)
  <2>1. Str[1] # "tag" /\ Str # Make /\ Str[1] # "list"
    BY Kinded
  <2> QED
    BY <2>1 DEF StepAt
<1>3. ASSUME NEW kind PROVE StepAt(List(kind), v, i, j) <=> Listed(kind, v, i, j)
  <2>1. List(kind)[1] = "list" /\ List(kind)[2] = kind /\ List(kind) # Str /\ List(kind) # Make
    BY Kinded
  <2> QED
    BY <2>1 DEF StepAt
<1>4. StepAt(Make, v, i, j) <=> i \in Nat /\ j = i
  <2>1. Make[1] # "tag" /\ Make # Str /\ Make[1] # "list"
    BY Kinded
  <2> QED
    BY <2>1 DEF StepAt
<1>5. ~StepAt(Unfinished, v, i, j)
  <2>1. /\ Unfinished[1] # "tag" /\ Unfinished # Str /\ Unfinished[1] # "list"
        /\ Unfinished # Make
    BY Kinded
  <2> QED
    BY <2>1 DEF StepAt
<1> QED
  BY <1>1, <1>2, <1>3, <1>4, <1>5

\* A tag takes the one token that reads as it.
LEMMA TagsAt ==
  /\ \A v, i, j : StepAt(Opening, v, i, j) <=> i \in Nat /\ j = i + 1 /\ ReadAs(At(i)) = Opening
  /\ \A v, i, j : StepAt(Separator, v, i, j) <=> i \in Nat /\ j = i + 1 /\ ReadAs(At(i)) = Separator
  /\ \A v, i, j : StepAt(Closing, v, i, j) <=> i \in Nat /\ j = i + 1 /\ ReadAs(At(i)) = Closing
BY StepsAt

\* A string and a list take what nix writes of them, and an output takes nothing
\* more.
LEMMA PartsAt ==
  /\ \A v, i, j : StepAt(Str, v, i, j) <=> Span(Word(v), i, j)
  /\ \A kind, v, i, j : StepAt(List(kind), v, i, j) <=> Listed(kind, v, i, j)
  /\ \A v, i, j : StepAt(Make, v, i, j) <=> i \in Nat /\ j = i
  /\ \A v, i, j : ~StepAt(Unfinished, v, i, j)
BY StepsAt

\* Tuples are sequences.
LEMMA ShortTuples ==
  ASSUME NEW a, NEW b, NEW c, NEW d, NEW e
  PROVE  /\ IsSeq(<<a, b>>) /\ IsSeq(<<a, b, c, d, e>>)
<1>1. <<a, b>> \in Seq({a, b}) /\ <<a, b, c, d, e>> \in Seq({a, b, c, d, e})
  OBVIOUS
<1> QED
  BY <1>1 DEF IsSeq

\* And so are longer ones.
LEMMA LongTuples ==
  ASSUME NEW a, NEW b, NEW c, NEW d, NEW e, NEW f, NEW g, NEW h, NEW k, NEW l, NEW m, NEW n, NEW o,
         NEW p
  PROVE  /\ IsSeq(<<a, b, c, d, e, f, g>>)
         /\ IsSeq(<<a, b, c, d, e, f, g, h, k, l>>)
         /\ IsSeq(<<a, b, c, d, e, f, g, h, k, l, m, n, o, p>>)
<1> DEFINE S == {a, b, c, d, e, f, g, h, k, l, m, n, o, p}
<1>1. /\ a \in S /\ b \in S /\ c \in S /\ d \in S /\ e \in S /\ f \in S /\ g \in S
      /\ h \in S /\ k \in S /\ l \in S /\ m \in S /\ n \in S /\ o \in S /\ p \in S
  OBVIOUS
<1> HIDE DEF S
<1>2. /\ <<a, b, c, d, e, f, g>> \in Seq(S)
      /\ <<a, b, c, d, e, f, g, h, k, l>> \in Seq(S)
      /\ <<a, b, c, d, e, f, g, h, k, l, m, n, o, p>> \in Seq(S)
  BY <1>1
<1> QED
  BY <1>2 DEF IsSeq

\* The steps of a kind of parser.
LEMMA Lengths ==
  ASSUME NEW kind \in Parsers
  PROVE  /\ IsSeq(Script(kind)) /\ Len(Script(kind)) = Length(kind) /\ Length(kind) \in Nat \ {0}
         /\ Count(kind, 1) = 0
         /\ \A s \in 1..Length(kind) :
              /\ Count(kind, s) \in Nat
              /\ Count(kind, s + 1) = IF Script(kind)[s][1] = "tag" THEN Count(kind, s)
                                      ELSE Count(kind, s) + 1
<1>0. /\ Opening[1] = "tag" /\ Separator[1] = "tag" /\ Closing[1] = "tag"
      /\ Str[1] # "tag" /\ Make[1] # "tag" /\ \A k : List(k)[1] # "tag"
      /\ InputDrv[1] # "tag"
  BY Kinded
<1>2. IsSeq(Script(kind))
  <2>1. CASE kind = "derivation"
    BY <2>1, Scripts, LongTuples, Zenon
  <2>2. CASE kind = "output"
    BY <2>2, Scripts, LongTuples, Zenon
  <2>3. CASE kind = "input"
    BY <2>3, Scripts, ShortTuples, Zenon
  <2>4. CASE kind = "pair"
    BY <2>4, Scripts, ShortTuples, Zenon
  <2>5. CASE kind = "string"
    BY <2>5, Scripts, One, Zenon
  <2> QED
    BY <2>1, <2>2, <2>3, <2>4, <2>5 DEF Parsers, Kinds
<1>3. CASE kind = "derivation"
  <2>1. \A s \in 1..14 : \/ s = 1 \/ s = 2 \/ s = 3 \/ s = 4 \/ s = 5 \/ s = 6 \/ s = 7
                         \/ s = 8 \/ s = 9 \/ s = 10 \/ s = 11 \/ s = 12 \/ s = 13 \/ s = 14
    OBVIOUS
  <2>2. Length(kind) = 14 /\ \A s : Count(kind, s) = s \div 2
    BY <1>3 DEF Length, Count
  <2> DEFINE f == Script(kind)
  <2>3. f = <<List("output"), Separator, List("input"), Separator, List("string"),
                              Separator, Str, Separator, Str, Separator, List("string"), Separator,
                              List("pair"), Closing>>
    BY <1>3, Scripts
  <2> HIDE DEF f
  <2>4. /\ Len(f) = 14
        /\ f[1][1] # "tag" /\ f[3][1] # "tag" /\ f[5][1] # "tag" /\ f[7][1] # "tag"
        /\ f[9][1] # "tag" /\ f[11][1] # "tag" /\ f[13][1] # "tag"
        /\ f[2][1] = "tag" /\ f[4][1] = "tag" /\ f[6][1] = "tag" /\ f[8][1] = "tag"
        /\ f[10][1] = "tag" /\ f[12][1] = "tag" /\ f[14][1] = "tag"
    BY <1>0, <2>3
  <2>5. ASSUME NEW s \in 1..14
        PROVE  /\ s \div 2 \in Nat
               /\ (s + 1) \div 2 = IF f[s][1] = "tag" THEN s \div 2 ELSE (s \div 2) + 1
    BY <2>1, <2>4
  <2>6. Count(kind, 1) = 0
    BY <2>2
  <2>7. ASSUME NEW s \in 1..Length(kind)
        PROVE  /\ Count(kind, s) \in Nat
               /\ Count(kind, s + 1) = IF f[s][1] = "tag" THEN Count(kind, s)
                                       ELSE Count(kind, s) + 1
    BY <2>2, <2>5
  <2> QED
    BY <1>2, <2>2, <2>4, <2>6, <2>7 DEF f
<1>4. CASE kind = "output"
  <2>1. \A s \in 1..10 : \/ s = 1 \/ s = 2 \/ s = 3 \/ s = 4 \/ s = 5 \/ s = 6 \/ s = 7
                         \/ s = 8 \/ s = 9 \/ s = 10
    OBVIOUS
  <2>2. Length(kind) = 10 /\ \A s : Count(kind, s) = (s - 1) \div 2
    BY <1>4 DEF Length, Count
  <2> DEFINE f == Script(kind)
  <2>3. f = <<Opening, Str, Separator, Str, Separator, Str, Separator, Str, Closing, Make>>
    BY <1>4, Scripts
  <2> HIDE DEF f
  <2>4. /\ Len(f) = 10
        /\ f[2][1] # "tag" /\ f[4][1] # "tag" /\ f[6][1] # "tag" /\ f[8][1] # "tag"
        /\ f[10][1] # "tag"
        /\ f[1][1] = "tag" /\ f[3][1] = "tag" /\ f[5][1] = "tag" /\ f[7][1] = "tag"
        /\ f[9][1] = "tag"
    BY <1>0, <2>3
  <2>5. ASSUME NEW s \in 1..10
        PROVE  /\ (s - 1) \div 2 \in Nat
               /\ ((s + 1) - 1) \div 2 = IF f[s][1] = "tag" THEN (s - 1) \div 2
                                         ELSE ((s - 1) \div 2) + 1
    BY <2>1, <2>4
  <2>6. Count(kind, 1) = 0
    BY <2>2
  <2>7. ASSUME NEW s \in 1..Length(kind)
        PROVE  /\ Count(kind, s) \in Nat
               /\ Count(kind, s + 1) = IF f[s][1] = "tag" THEN Count(kind, s)
                                       ELSE Count(kind, s) + 1
    BY <2>2, <2>5
  <2> QED
    BY <1>2, <2>2, <2>4, <2>6, <2>7 DEF f
<1>5. CASE kind = "input" \/ kind = "pair"
  <2>1. \A s \in 1..5 : s = 1 \/ s = 2 \/ s = 3 \/ s = 4 \/ s = 5
    OBVIOUS
  <2>2. Length(kind) = 5 /\ \A s : Count(kind, s) = (s - 1) \div 2
    BY <1>5 DEF Length, Count
  <2> DEFINE f == Script(kind)
  <2>3. f = <<Opening, Str, Separator, InputDrv, Closing>>
        \/ f = <<Opening, Str, Separator, Str, Closing>>
    BY <1>5, Scripts
  <2> HIDE DEF f
  <2>4. /\ Len(f) = 5
        /\ f[2][1] # "tag" /\ f[4][1] # "tag"
        /\ f[1][1] = "tag" /\ f[3][1] = "tag" /\ f[5][1] = "tag"
    BY <1>0, <2>3
  <2>5. ASSUME NEW s \in 1..5
        PROVE  /\ (s - 1) \div 2 \in Nat
               /\ ((s + 1) - 1) \div 2 = IF f[s][1] = "tag" THEN (s - 1) \div 2
                                         ELSE ((s - 1) \div 2) + 1
    BY <2>1, <2>4
  <2>6. Count(kind, 1) = 0
    BY <2>2
  <2>7. ASSUME NEW s \in 1..Length(kind)
        PROVE  /\ Count(kind, s) \in Nat
               /\ Count(kind, s + 1) = IF f[s][1] = "tag" THEN Count(kind, s)
                                       ELSE Count(kind, s) + 1
    BY <2>2, <2>5
  <2> QED
    BY <1>2, <2>2, <2>4, <2>6, <2>7 DEF f
<1>6. CASE kind = "string"
  <2>2. Length(kind) = 1 /\ \A s : Count(kind, s) = s \div 2
    BY <1>6 DEF Length, Count
  <2> DEFINE f == Script(kind)
  <2>3. f = <<Str>>
    BY <1>6, Scripts
  <2> HIDE DEF f
  <2>4. Len(f) = 1 /\ f[1][1] # "tag"
    BY <1>0, <2>3
  <2>5. ASSUME NEW s \in 1..1
        PROVE  /\ s \div 2 \in Nat
               /\ (s + 1) \div 2 = IF f[s][1] = "tag" THEN s \div 2 ELSE (s \div 2) + 1
    BY <2>4
  <2>6. Count(kind, 1) = 0
    BY <2>2
  <2>7. ASSUME NEW s \in 1..Length(kind)
        PROVE  /\ Count(kind, s) \in Nat
               /\ Count(kind, s + 1) = IF f[s][1] = "tag" THEN Count(kind, s)
                                       ELSE Count(kind, s) + 1
    BY <2>2, <2>5
  <2> QED
    BY <1>2, <2>2, <2>4, <2>6, <2>7 DEF f
<1> QED
  BY <1>3, <1>4, <1>5, <1>6 DEF Parsers, Kinds

----------------------------------------------------------------------------
(* The steps that an element is taken in.                                  *)

\* The parts that make an element.
PartsOf(kind, x) == IF kind = "string" THEN <<x>> ELSE x

\* What nix writes of an element, between brackets.
LEMMA RenderedAs ==
  ASSUME NEW x
  PROVE  /\ Rendered("string", x) = Word(x)
         /\ Rendered("pair", x) = Between("(", <<Word(x[1]), Word(x[2])>>, ")")
         /\ Rendered("output", x)
              = Between("(", <<Word(x[1]), Word(x[2]), Word(x[3]), Word(x[4])>>, ")")
         /\ Well("input", x)
            => Rendered("input", x)
                 = Between("(", <<Word(x[1]), Between("[", RenderedAll("string", x[2]), "]")>>, ")")
<1>1. Rendered("string", x) = Word(x)
  BY DEF Rendered
<1>2. Rendered("pair", x) = Between("(", <<Word(x[1]), Word(x[2])>>, ")")
  BY DEF Rendered, Pair
<1>3. Rendered("output", x)
        = Between("(", <<Word(x[1]), Word(x[2]), Word(x[3]), Word(x[4])>>, ")")
  BY DEF Rendered, Output
<1>4. ASSUME Well("input", x)
      PROVE  Rendered("input", x)
               = Between("(", <<Word(x[1]), Between("[", RenderedAll("string", x[2]), "]")>>, ")")
  <2> DEFINE y == Append(x, <<>>)
             a == x[1]
             b == x[2]
  <2>1. x = <<a, b>> /\ IsSeq(b)
    BY <1>4 DEF Well
  <2> HIDE DEF a, b
  <2>2. /\ \A i \in 1..Len(x) : Append(x, <<>>)[i] = x[i]
        /\ Append(x, <<>>)[Len(x) + 1] = <<>>
    BY <2>1, ShortTuples, PushStack
  <2>3. y[1] = a /\ y[2] = b /\ y[3] = <<>>
    BY <2>1, <2>2
  <2>4. Rendered("input", x) = Input(y)
    BY DEF Rendered
  <2> HIDE DEF y
  <2>5. Input(y) = Between("(", <<Word(a), Words(b)>>, ")")
    BY <2>3, Zenon DEF Input
  <2>6. Words(b) = Between("[", RenderedAll("string", b), "]")
    BY <2>1, WordsAreListed
  <2> QED
    BY <2>4, <2>5, <2>6 DEF a, b
<1> QED
  BY <1>1, <1>2, <1>3, <1>4

\* An element as nix writes it is a part.
LEMMA RenderedIsPart ==
  ASSUME NEW kind \in Kinds, NEW x, Well(kind, x)
  PROVE  Part(Rendered(kind, x))
<1>1. CASE kind = "string"
  BY <1>1, RenderedAs, WordIsPart
<1>2. ASSUME NEW parts, Part(Join(parts)) PROVE Part(Between("(", parts, ")"))
  BY <1>2, BetweenSpans DEF Part
<1>3. CASE kind = "pair"
  <2>1. Part(Join(<<Word(x[1]), Word(x[2])>>))
    BY WordIsPart, JoinedTwo
  <2> QED
    BY <1>2, <1>3, <2>1, RenderedAs
<1>4. CASE kind = "output"
  <2>1. Part(Join(<<Word(x[1]), Word(x[2]), Word(x[3]), Word(x[4])>>))
    BY WordIsPart, JoinedFour
  <2> QED
    BY <1>2, <1>4, <2>1, RenderedAs
<1>5. CASE kind = "input"
  <2> DEFINE w == Between("[", RenderedAll("string", x[2]), "]")
  <2>1. IsSeq(x[2])
    BY <1>5 DEF Well
  <2>2. Part(w)
    BY <2>1, WordsAreListed
  <2> HIDE DEF w
  <2>3. Part(Join(<<Word(x[1]), w>>))
    BY <2>2, WordIsPart, JoinedTwo
  <2>4. Part(Between("(", <<Word(x[1]), w>>, ")"))
    BY <1>2, <2>3
  <2> QED
    BY <1>5, <2>4, RenderedAs DEF w
<1> QED
  BY <1>1, <1>3, <1>4, <1>5 DEF Kinds

\* What is between parentheses, with a comma in between.
LEMMA BracketsOfTwo ==
  ASSUME NEW a, Part(a), NEW b, Part(b), NEW i, NEW j
  PROVE  Span(Between("(", <<a, b>>, ")"), i, j)
         <=> \E l, k \in Nat : /\ i \in Nat /\ ReadAs(At(i)) = Opening
                               /\ Span(a, i + 1, l) /\ ReadAs(At(l)) = Separator
                               /\ Span(b, l + 1, k) /\ ReadAs(At(k)) = Closing /\ j = k + 1
<1> DEFINE parts == <<a, b>>
<1>1. /\ Part(Join(parts))
      /\ \A e, f : Span(Join(parts), e, f)
                   <=> \E l \in Nat : Span(a, e, l) /\ ReadAs(At(l)) = Separator
                                      /\ Span(b, l + 1, f)
  BY JoinedTwo
<1> HIDE DEF parts
<1>2. IsSeq(Join(parts))
  BY <1>1 DEF Part
<1>3. Span(Between("(", parts, ")"), i, j)
      <=> \E k \in Nat : /\ i \in Nat /\ ReadAs(At(i)) = Opening /\ Span(Join(parts), i + 1, k)
                         /\ ReadAs(At(k)) = Closing /\ j = k + 1
  BY <1>2, BetweenSpans DEF Opening, Closing
<1> QED
  BY <1>1, <1>3 DEF parts

\* What lies where there are brackets around four parts.
LEMMA BracketsOfFour ==
  ASSUME NEW a, Part(a), NEW b, Part(b), NEW c, Part(c), NEW d, Part(d), NEW i, NEW j
  PROVE  Span(Between("(", <<a, b, c, d>>, ")"), i, j)
         <=> \E l, m, n, k \in Nat :
                /\ i \in Nat /\ ReadAs(At(i)) = Opening
                /\ Span(a, i + 1, l) /\ ReadAs(At(l)) = Separator
                /\ Span(b, l + 1, m) /\ ReadAs(At(m)) = Separator
                /\ Span(c, m + 1, n) /\ ReadAs(At(n)) = Separator
                /\ Span(d, n + 1, k) /\ ReadAs(At(k)) = Closing /\ j = k + 1
<1> DEFINE parts == <<a, b, c, d>>
<1>1. /\ Part(Join(parts))
      /\ \A e, f : Span(Join(parts), e, f)
                   <=> \E l, m, n \in Nat :
                             /\ Span(a, e, l) /\ ReadAs(At(l)) = Separator
                             /\ Span(b, l + 1, m) /\ ReadAs(At(m)) = Separator
                             /\ Span(c, m + 1, n) /\ ReadAs(At(n)) = Separator
                             /\ Span(d, n + 1, f)
  BY JoinedFour
<1> HIDE DEF parts
<1>2. IsSeq(Join(parts))
  BY <1>1 DEF Part
<1>3. Span(Between("(", parts, ")"), i, j)
      <=> \E k \in Nat : /\ i \in Nat /\ ReadAs(At(i)) = Opening /\ Span(Join(parts), i + 1, k)
                         /\ ReadAs(At(k)) = Closing /\ j = k + 1
  BY <1>2, BetweenSpans DEF Opening, Closing
<1> QED
  BY <1>1, <1>3 DEF parts

\* A sequence of two, or of five.
LEMMA TuplesOf ==
  ASSUME NEW V, IsSeq(V)
  PROVE  /\ Len(V) = 2 => V = <<V[1], V[2]>>
         /\ Len(V) = 5 => V = <<V[1], V[2], V[3], V[4], V[5]>>
<1>1. PICK S : V \in Seq(S)
  BY DEF IsSeq
<1>2. ASSUME Len(V) = 2 PROVE V = <<V[1], V[2]>>
  BY <1>1, <1>2
<1>3. ASSUME Len(V) = 5 PROVE V = <<V[1], V[2], V[3], V[4], V[5]>>
  <2>1. V \in [1..5 -> S]
    <3>1. V \in [1..Len(V) -> S]
      BY <1>1
    <3> QED
      BY <1>3, <3>1
  <2>2. <<V[1], V[2], V[3], V[4], V[5]>> \in [1..5 -> S]
    BY <2>1
  <2>3. \A i \in 1..5 : i = 1 \/ i = 2 \/ i = 3 \/ i = 4 \/ i = 5
    OBVIOUS
  <2> QED
    BY <2>1, <2>2, <2>3
<1> QED
  BY <1>2, <1>3

\* The steps of an element have taken what nix writes of it.
LEMMA ElementTaken ==
  ASSUME NEW kind \in Kinds, NEW V, IsSeq(V), Len(V) = Count(kind, Length(kind) + 1), NEW P,
         \A r \in 1..Length(kind) : TakenAt(kind, V, P, r)
  PROVE  /\ Well(kind, Item(kind, V))
         /\ Span(Rendered(kind, Item(kind, V)), P[1], P[Length(kind) + 1])
<1> DEFINE step(r) == Script(kind)[r]
<1>0. \A r \in 1..Length(kind) : StepAt(Script(kind)[r], V[Count(kind, r) + 1], P[r], P[r + 1])
  BY DEF TakenAt
<1>1. CASE kind = "string"
  <2>1. Length(kind) = 1 /\ Count(kind, 1) = 0 /\ Script(kind) = <<Str>>
    BY <1>1, Scripts DEF Length, Count
  <2>2. StepAt(Str, V[1], P[1], P[2])
    BY <1>0, <2>1
  <2>3. Span(Word(V[1]), P[1], P[2])
    BY <2>2, PartsAt
  <2>4. Rendered("string", V[1]) = Word(V[1])
    BY RenderedAs
  <2>5. Well(kind, Item(kind, V)) /\ Item(kind, V) = V[1]
    BY <1>1 DEF Well, Item
  <2> QED
    BY <1>1, <2>1, <2>3, <2>4, <2>5
<1>2. CASE kind = "pair"
  <2>1. /\ Length(kind) = 5 /\ Count(kind, 2) = 0 /\ Count(kind, 4) = 1 /\ Count(kind, 6) = 2
        /\ Script(kind) = <<Opening, Str, Separator, Str, Closing>>
    BY <1>2, Scripts DEF Length, Count
  <2> DEFINE f == Script(kind)
  <2>2. f[1] = Opening /\ f[2] = Str /\ f[3] = Separator /\ f[4] = Str /\ f[5] = Closing
    BY <2>1
  <2> HIDE DEF f
  <2>3. /\ \A r \in 1..5 : StepAt(f[r], V[Count(kind, r) + 1], P[r], P[r + 1])
    BY <1>0, <2>1 DEF f
  <2>4. /\ StepAt(Opening, V[Count(kind, 1) + 1], P[1], P[2]) /\ StepAt(Str, V[1], P[2], P[3])
        /\ StepAt(Separator, V[Count(kind, 3) + 1], P[3], P[4]) /\ StepAt(Str, V[2], P[4], P[5])
        /\ StepAt(Closing, V[Count(kind, 5) + 1], P[5], P[6])
    BY <2>1, <2>2, <2>3
  <2>5. /\ P[1] \in Nat /\ P[2] = P[1] + 1 /\ ReadAs(At(P[1])) = Opening
        /\ Span(Word(V[1]), P[2], P[3])
        /\ P[3] \in Nat /\ P[4] = P[3] + 1 /\ ReadAs(At(P[3])) = Separator
        /\ Span(Word(V[2]), P[4], P[5])
        /\ P[5] \in Nat /\ P[6] = P[5] + 1 /\ ReadAs(At(P[5])) = Closing
    BY <2>4, TagsAt, PartsAt
  <2>6. Span(Between("(", <<Word(V[1]), Word(V[2])>>, ")"), P[1], P[6])
    BY <2>5, WordIsPart, BracketsOfTwo
  <2>7. Item(kind, V) = V /\ V = <<V[1], V[2]>>
    <3>1. Item(kind, V) = V
      BY <1>2 DEF Item
    <3>2. Len(V) = 2
      BY <2>1
    <3> QED
      BY <3>1, <3>2, TuplesOf
  <2>8. Well(kind, V)
    BY <1>2, <2>7 DEF Well
  <2>9. Span(Rendered(kind, V), P[1], P[6])
    BY <1>2, <2>6, RenderedAs
  <2>10. Length(kind) + 1 = 6
    BY <2>1
  <2> QED
    BY <2>7, <2>8, <2>9, <2>10
<1>3. CASE kind = "output"
  <2>1. /\ Length(kind) = 10 /\ Count(kind, 2) = 0 /\ Count(kind, 4) = 1 /\ Count(kind, 6) = 2
        /\ Count(kind, 8) = 3 /\ Count(kind, 11) = 5
        /\ Script(kind)
             = <<Opening, Str, Separator, Str, Separator, Str, Separator, Str, Closing, Make>>
    BY <1>3, Scripts DEF Length, Count
  <2> DEFINE f == Script(kind)
  <2>2. /\ f[1] = Opening /\ f[2] = Str /\ f[3] = Separator /\ f[4] = Str /\ f[5] = Separator
        /\ f[6] = Str /\ f[7] = Separator /\ f[8] = Str /\ f[9] = Closing /\ f[10] = Make
    BY <2>1
  <2> HIDE DEF f
  <2>3. \A r \in 1..10 : StepAt(f[r], V[Count(kind, r) + 1], P[r], P[r + 1])
    BY <1>0, <2>1 DEF f
  <2>4. /\ StepAt(Opening, V[Count(kind, 1) + 1], P[1], P[2]) /\ StepAt(Str, V[1], P[2], P[3])
        /\ StepAt(Separator, V[Count(kind, 3) + 1], P[3], P[4]) /\ StepAt(Str, V[2], P[4], P[5])
        /\ StepAt(Separator, V[Count(kind, 5) + 1], P[5], P[6]) /\ StepAt(Str, V[3], P[6], P[7])
        /\ StepAt(Separator, V[Count(kind, 7) + 1], P[7], P[8]) /\ StepAt(Str, V[4], P[8], P[9])
        /\ StepAt(Closing, V[Count(kind, 9) + 1], P[9], P[10])
        /\ StepAt(Make, V[Count(kind, 10) + 1], P[10], P[11])
    BY <2>1, <2>2, <2>3
  <2>5. /\ P[1] \in Nat /\ P[2] = P[1] + 1 /\ ReadAs(At(P[1])) = Opening
        /\ Span(Word(V[1]), P[2], P[3])
        /\ P[3] \in Nat /\ P[4] = P[3] + 1 /\ ReadAs(At(P[3])) = Separator
        /\ Span(Word(V[2]), P[4], P[5])
        /\ P[5] \in Nat /\ P[6] = P[5] + 1 /\ ReadAs(At(P[5])) = Separator
        /\ Span(Word(V[3]), P[6], P[7])
        /\ P[7] \in Nat /\ P[8] = P[7] + 1 /\ ReadAs(At(P[7])) = Separator
        /\ Span(Word(V[4]), P[8], P[9])
        /\ P[9] \in Nat /\ P[10] = P[9] + 1 /\ ReadAs(At(P[9])) = Closing
        /\ P[11] = P[10]
    <3>1. /\ P[1] \in Nat /\ P[2] = P[1] + 1 /\ ReadAs(At(P[1])) = Opening
          /\ P[9] \in Nat /\ P[10] = P[9] + 1 /\ ReadAs(At(P[9])) = Closing
      <4>1. /\ StepAt(Opening, V[Count(kind, 1) + 1], P[1], P[2])
            /\ StepAt(Closing, V[Count(kind, 9) + 1], P[9], P[10])
        BY <2>4
      <4> QED
        BY <4>1, TagsAt
    <3>2. /\ P[3] \in Nat /\ P[4] = P[3] + 1 /\ ReadAs(At(P[3])) = Separator
          /\ P[5] \in Nat /\ P[6] = P[5] + 1 /\ ReadAs(At(P[5])) = Separator
          /\ P[7] \in Nat /\ P[8] = P[7] + 1 /\ ReadAs(At(P[7])) = Separator
      <4>1. /\ StepAt(Separator, V[Count(kind, 3) + 1], P[3], P[4])
            /\ StepAt(Separator, V[Count(kind, 5) + 1], P[5], P[6])
            /\ StepAt(Separator, V[Count(kind, 7) + 1], P[7], P[8])
        BY <2>4
      <4> QED
        BY <4>1, TagsAt
    <3>4. P[11] = P[10]
      BY <2>4, PartsAt
    <3>3. /\ Span(Word(V[1]), P[2], P[3]) /\ Span(Word(V[2]), P[4], P[5])
          /\ Span(Word(V[3]), P[6], P[7]) /\ Span(Word(V[4]), P[8], P[9])
      BY <2>4, PartsAt
    <3> QED
      BY <3>1, <3>2, <3>3, <3>4
  <2>6. Span(Between("(", <<Word(V[1]), Word(V[2]), Word(V[3]), Word(V[4])>>, ")"), P[1], P[11])
    <3>1. Part(Word(V[1])) /\ Part(Word(V[2])) /\ Part(Word(V[3])) /\ Part(Word(V[4]))
      BY WordIsPart
    <3> QED
      BY <2>5, <3>1, BracketsOfFour, SMTT(60)
  <2>7. Item(kind, V) = V /\ V = <<V[1], V[2], V[3], V[4], V[5]>>
    <3>1. Item(kind, V) = V
      BY <1>3 DEF Item
    <3>2. Len(V) = 5
      BY <2>1
    <3> QED
      BY <3>1, <3>2, TuplesOf
  <2>8. Well(kind, V)
    BY <1>3, <2>7 DEF Well
  <2>9. Span(Rendered(kind, V), P[1], P[11])
    BY <1>3, <2>6, RenderedAs
  <2>10. Length(kind) + 1 = 11
    BY <2>1
  <2> QED
    BY <2>7, <2>8, <2>9, <2>10
<1>4. CASE kind = "input"
  <2>1. /\ Length(kind) = 5 /\ Count(kind, 2) = 0 /\ Count(kind, 4) = 1 /\ Count(kind, 6) = 2
        /\ Script(kind) = <<Opening, Str, Separator, InputDrv, Closing>>
    BY <1>4, Scripts DEF Length, Count
  <2> DEFINE f == Script(kind)
  <2>2. f[1] = Opening /\ f[2] = Str /\ f[3] = Separator /\ f[4] = InputDrv /\ f[5] = Closing
    BY <2>1
  <2> HIDE DEF f
  <2>3. \A r \in 1..5 : StepAt(f[r], V[Count(kind, r) + 1], P[r], P[r + 1])
    BY <1>0, <2>1 DEF f
  <2>4. /\ StepAt(Opening, V[Count(kind, 1) + 1], P[1], P[2]) /\ StepAt(Str, V[1], P[2], P[3])
        /\ StepAt(Separator, V[Count(kind, 3) + 1], P[3], P[4]) /\ StepAt(InputDrv, V[2], P[4], P[5])
        /\ StepAt(Closing, V[Count(kind, 5) + 1], P[5], P[6])
    BY <2>1, <2>2, <2>3
  <2>5. /\ P[1] \in Nat /\ P[2] = P[1] + 1 /\ ReadAs(At(P[1])) = Opening
        /\ Span(Word(V[1]), P[2], P[3])
        /\ P[3] \in Nat /\ P[4] = P[3] + 1 /\ ReadAs(At(P[3])) = Separator
        /\ Listed("string", V[2], P[4], P[5])
        /\ P[5] \in Nat /\ P[6] = P[5] + 1 /\ ReadAs(At(P[5])) = Closing
    <3>1. /\ P[1] \in Nat /\ P[2] = P[1] + 1 /\ ReadAs(At(P[1])) = Opening
          /\ P[3] \in Nat /\ P[4] = P[3] + 1 /\ ReadAs(At(P[3])) = Separator
          /\ P[5] \in Nat /\ P[6] = P[5] + 1 /\ ReadAs(At(P[5])) = Closing
      BY <2>4, TagsAt
    <3>2. Span(Word(V[1]), P[2], P[3])
      BY <2>4, PartsAt
    <3>3. InputDrv = List("string")
      BY <2>4, PartsAt, Kinded
    <3>4. Listed("string", V[2], P[4], P[5])
      <4>1. StepAt(List("string"), V[2], P[4], P[5])
        BY <2>4, <3>3
      <4> QED
        BY <4>1, PartsAt
    <3> QED
      BY <3>1, <3>2, <3>4
  <2> DEFINE w == Between("[", RenderedAll("string", V[2]), "]")
  <2>6. IsSeq(V[2]) /\ Span(w, P[4], P[5])
    BY <2>5 DEF Listed
  <2>7. Part(w)
    BY <2>6, WordsAreListed
  <2>8. Item(kind, V) = V /\ V = <<V[1], V[2]>>
    <3>1. Item(kind, V) = V
      BY <1>4 DEF Item
    <3>2. Len(V) = 2
      BY <2>1
    <3> QED
      BY <3>1, <3>2, TuplesOf
  <2>9. Well(kind, V)
    BY <1>4, <2>6, <2>8 DEF Well
  <2>10. Rendered(kind, V) = Between("(", <<Word(V[1]), w>>, ")")
    BY <1>4, <2>9, RenderedAs
  <2> HIDE DEF w
  <2>11. Span(Between("(", <<Word(V[1]), w>>, ")"), P[1], P[6])
    BY <2>5, <2>6, <2>7, WordIsPart, BracketsOfTwo
  <2> QED
    BY <2>1, <2>8, <2>9, <2>10, <2>11
<1> QED
  BY <1>1, <1>2, <1>3, <1>4 DEF Kinds

\* And where what nix wrote of an element lies, its steps can be taken.
LEMMA ElementCuts ==
  ASSUME NEW kind \in Kinds, InputDrv = List("string"), NEW x, Well(kind, x), NEW i, NEW j,
         Span(Rendered(kind, x), i, j)
  PROVE  \E P : /\ P[1] = i /\ P[Length(kind) + 1] = j
                /\ \A r \in 1..Length(kind) : TakenAt(kind, PartsOf(kind, x), P, r)
<1> DEFINE V == PartsOf(kind, x)
<1>0. \A P, r : StepAt(Script(kind)[r], V[Count(kind, r) + 1], P[r], P[r + 1])
                => TakenAt(kind, V, P, r)
  BY DEF TakenAt
<1>1. CASE kind = "string"
  <2> DEFINE P == <<i, j>>
  <2>1. /\ Length(kind) = 1 /\ Count(kind, 1) = 0 /\ Script(kind) = <<Str>>
        /\ V[1] = x /\ P[1] = i /\ P[2] = j
    BY <1>1, Scripts DEF Length, Count, PartsOf
  <2>2. Span(Word(x), i, j)
    BY <1>1, RenderedAs
  <2>3. StepAt(Str, x, i, j)
    BY <2>2, PartsAt
  <2> HIDE DEF P, V
  <2>4. TakenAt(kind, V, P, 1)
    BY <1>0, <2>1, <2>3
  <2> QED
    BY <2>1, <2>4 DEF V
<1>2. CASE kind \in {"pair", "input"}
  <2>0. V = x
    BY <1>2 DEF PartsOf
  <2> HIDE DEF V
  <2>1. PICK w : /\ Part(w) /\ Span(Between("(", <<Word(x[1]), w>>, ")"), i, j)
                 /\ \A k, l : Span(w, k, l) => StepAt(Script(kind)[4], x[2], k, l)
    <3>1. CASE kind = "pair"
      <4>1. Script(kind)[4] = Str
        BY <3>1, Scripts
      <4>2. Span(Between("(", <<Word(x[1]), Word(x[2])>>, ")"), i, j)
        BY <3>1, RenderedAs
      <4>3. \A k, l : Span(Word(x[2]), k, l) => StepAt(Script(kind)[4], x[2], k, l)
        BY <4>1, PartsAt
      <4>4. Part(Word(x[2]))
        BY WordIsPart
      <4> QED
        BY <4>2, <4>3, <4>4
    <3>2. CASE kind = "input"
      <4> DEFINE w == Between("[", RenderedAll("string", x[2]), "]")
      <4>1. Script(kind)[4] = InputDrv
        BY <3>2, Scripts
      <4>2. Span(Between("(", <<Word(x[1]), w>>, ")"), i, j)
        BY <3>2, RenderedAs
      <4>3. IsSeq(x[2])
        BY <3>2 DEF Well
      <4>4. Part(w)
        BY <4>3, WordsAreListed
      <4>5. \A k, l : Span(w, k, l) => Listed("string", x[2], k, l)
        BY <4>3 DEF Listed, Well
      <4> HIDE DEF w
      <4>6. \A k, l : Span(w, k, l) => StepAt(Script(kind)[4], x[2], k, l)
        BY <4>1, <4>5, PartsAt
      <4> QED
        BY <4>2, <4>4, <4>6
    <3> QED
      BY <1>2, <3>1, <3>2
  <2>2. PICK l, k \in Nat : /\ i \in Nat /\ ReadAs(At(i)) = Opening
                            /\ Span(Word(x[1]), i + 1, l) /\ ReadAs(At(l)) = Separator
                            /\ Span(w, l + 1, k) /\ ReadAs(At(k)) = Closing /\ j = k + 1
    BY <2>1, WordIsPart, BracketsOfTwo
  <2> DEFINE P == <<i, i + 1, l, l + 1, k, k + 1>>
             f == Script(kind)
  <2>3. /\ P[1] = i /\ P[2] = i + 1 /\ P[3] = l /\ P[4] = l + 1 /\ P[5] = k /\ P[6] = k + 1
    OBVIOUS
  <2>4. f[1] = Opening /\ f[2] = Str /\ f[3] = Separator /\ f[5] = Closing
    BY <1>2, Scripts
  <2>5. Length(kind) = 5 /\ Count(kind, 2) = 0 /\ Count(kind, 4) = 1
    BY <1>2 DEF Length, Count
  <2> HIDE DEF P, f
  <2>6. /\ \A v : StepAt(Opening, v, i, i + 1) /\ StepAt(Separator, v, l, l + 1)
                  /\ StepAt(Closing, v, k, k + 1)
        /\ StepAt(Str, x[1], i + 1, l)
    BY <2>2, TagsAt, PartsAt
  <2>7. StepAt(f[4], x[2], l + 1, k)
    BY <2>1, <2>2 DEF f
  <2>8. /\ TakenAt(kind, V, P, 1) /\ TakenAt(kind, V, P, 2) /\ TakenAt(kind, V, P, 3)
        /\ TakenAt(kind, V, P, 4) /\ TakenAt(kind, V, P, 5)
    BY <2>0, <2>3, <2>4, <2>5, <2>6, <2>7 DEF TakenAt, f
  <2>9. \A r \in 1..5 : r = 1 \/ r = 2 \/ r = 3 \/ r = 4 \/ r = 5
    OBVIOUS
  <2>10. \A r \in 1..Length(kind) : TakenAt(kind, V, P, r)
    BY <2>5, <2>8, <2>9
  <2>11. P[Length(kind) + 1] = j
    BY <2>2, <2>3, <2>5
  <2> QED
    BY <2>3, <2>10, <2>11 DEF V
<1>3. CASE kind = "output"
  <2>0. V = x
    BY <1>3 DEF PartsOf
  <2> HIDE DEF V
  <2>1. Span(Between("(", <<Word(x[1]), Word(x[2]), Word(x[3]), Word(x[4])>>, ")"), i, j)
    BY <1>3, RenderedAs
  <2>2. PICK l, m, n, k \in Nat :
                /\ i \in Nat /\ ReadAs(At(i)) = Opening
                /\ Span(Word(x[1]), i + 1, l) /\ ReadAs(At(l)) = Separator
                /\ Span(Word(x[2]), l + 1, m) /\ ReadAs(At(m)) = Separator
                /\ Span(Word(x[3]), m + 1, n) /\ ReadAs(At(n)) = Separator
                /\ Span(Word(x[4]), n + 1, k) /\ ReadAs(At(k)) = Closing /\ j = k + 1
    BY <2>1, WordIsPart, BracketsOfFour
  <2> DEFINE P == <<i, i + 1, l, l + 1, m, m + 1, n, n + 1, k, k + 1, k + 1>>
             f == Script(kind)
  <2>3. /\ P[1] = i /\ P[2] = i + 1 /\ P[3] = l /\ P[4] = l + 1 /\ P[5] = m /\ P[6] = m + 1
        /\ P[7] = n /\ P[8] = n + 1 /\ P[9] = k /\ P[10] = k + 1 /\ P[11] = k + 1
    OBVIOUS
  <2>4. /\ f[1] = Opening /\ f[2] = Str /\ f[3] = Separator /\ f[4] = Str /\ f[5] = Separator
        /\ f[6] = Str /\ f[7] = Separator /\ f[8] = Str /\ f[9] = Closing /\ f[10] = Make
    BY <1>3, Scripts
  <2>5. /\ Length(kind) = 10 /\ Count(kind, 2) = 0 /\ Count(kind, 4) = 1 /\ Count(kind, 6) = 2
        /\ Count(kind, 8) = 3
    BY <1>3 DEF Length, Count
  <2> HIDE DEF P, f
  <2>6. /\ \A v : StepAt(Opening, v, i, i + 1) /\ StepAt(Separator, v, l, l + 1)
                  /\ StepAt(Separator, v, m, m + 1) /\ StepAt(Separator, v, n, n + 1)
                  /\ StepAt(Closing, v, k, k + 1) /\ StepAt(Make, v, k + 1, k + 1)
        /\ StepAt(Str, x[1], i + 1, l) /\ StepAt(Str, x[2], l + 1, m)
        /\ StepAt(Str, x[3], m + 1, n) /\ StepAt(Str, x[4], n + 1, k)
    <3>1. \A v : StepAt(Opening, v, i, i + 1) /\ StepAt(Separator, v, l, l + 1)
                  /\ StepAt(Separator, v, m, m + 1) /\ StepAt(Separator, v, n, n + 1)
                  /\ StepAt(Closing, v, k, k + 1)
      BY <2>2, TagsAt
    <3>2. /\ StepAt(Str, x[1], i + 1, l) /\ StepAt(Str, x[2], l + 1, m)
          /\ StepAt(Str, x[3], m + 1, n) /\ StepAt(Str, x[4], n + 1, k)
          /\ \A v : StepAt(Make, v, k + 1, k + 1)
      BY <2>2, PartsAt
    <3> QED
      BY <3>1, <3>2
  <2>7. /\ TakenAt(kind, V, P, 1) /\ TakenAt(kind, V, P, 2) /\ TakenAt(kind, V, P, 3)
        /\ TakenAt(kind, V, P, 4) /\ TakenAt(kind, V, P, 5)
    BY <2>0, <2>3, <2>4, <2>5, <2>6 DEF TakenAt, f
  <2>8. /\ TakenAt(kind, V, P, 6) /\ TakenAt(kind, V, P, 7) /\ TakenAt(kind, V, P, 8)
        /\ TakenAt(kind, V, P, 9) /\ TakenAt(kind, V, P, 10)
    BY <2>0, <2>3, <2>4, <2>5, <2>6 DEF TakenAt, f
  <2>9. \A r \in 1..10 : \/ r = 1 \/ r = 2 \/ r = 3 \/ r = 4 \/ r = 5 \/ r = 6 \/ r = 7
                         \/ r = 8 \/ r = 9 \/ r = 10
    OBVIOUS
  <2>10. \A r \in 1..Length(kind) : TakenAt(kind, V, P, r)
    BY <2>5, <2>7, <2>8, <2>9
  <2>11. P[Length(kind) + 1] = j
    BY <2>2, <2>3, <2>5
  <2> QED
    BY <2>3, <2>10, <2>11 DEF V
<1> QED
  BY <1>1, <1>2, <1>3 DEF Kinds

\* h is f and then g.
Concatenates(f, g, h) ==
  /\ IsSeq(h) /\ Len(f) \in Nat /\ Len(g) \in Nat /\ Len(h) = Len(f) + Len(g)
  /\ \A r \in 1..Len(f) : h[r] = f[r]
  /\ \A q \in 1..Len(g) : h[Len(f) + q] = g[q]

\* Joined sequences are one behind the other.
LEMMA Concatenated ==
  ASSUME NEW f, IsSeq(f), NEW g, IsSeq(g)
  PROVE  Concatenates(f, g, f \o g)
BY Follows DEF Concatenates

\* What is left of what is between brackets, without the first.
LEMMA TailSpans ==
  ASSUME NEW open, NEW parts, IsSeq(Join(parts)), NEW i, NEW j
  PROVE  Span(Tail(Between(open, parts, ")")), i, j)
         <=> \E k \in Nat : Span(Join(parts), i, k) /\ ReadAs(At(k)) = Closing /\ j = k + 1
<1> DEFINE a == <<Tag(open)>>
           c == <<Closing>>
           J == Join(parts)
           G == a \o J
           H == G \o c
           K == J \o c
<1>1. IsSeq(a) /\ IsSeq(c) /\ IsSeq(J) /\ Len(a) = 1 /\ Len(c) = 1
  BY One
<1>2. \A k, l : Span(c, k, l) <=> k \in Nat /\ l = k + 1 /\ ReadAs(At(k)) = Closing
  BY SpanOfOne
<1>3. Between(open, parts, ")") = H
  BY Zenon DEF Between, Join, Closing
<1> HIDE DEF a, c, J
<1>4. /\ IsSeq(G) /\ Len(J) \in Nat /\ Len(G) = 1 + Len(J)
      /\ \A q \in 1..Len(J) : G[1 + q] = J[q]
  <2>1. Concatenates(a, J, G)
    BY <1>1, Concatenated DEF G
  <2> QED
    BY <1>1, <2>1 DEF Concatenates
<1> HIDE DEF G
<1>5. /\ IsSeq(H) /\ Len(H) = Len(G) + 1
      /\ \A r \in 1..Len(G) : H[r] = G[r]
      /\ \A q \in 1..1 : H[Len(G) + q] = c[q]
  <2>1. Concatenates(G, c, H)
    BY <1>1, <1>4, Concatenated DEF H
  <2> QED
    BY <1>1, <2>1 DEF Concatenates
<1>6. /\ IsSeq(K) /\ Len(K) = Len(J) + 1
      /\ \A r \in 1..Len(J) : K[r] = J[r]
      /\ \A q \in 1..1 : K[Len(J) + q] = c[q]
  <2>1. Concatenates(J, c, K)
    BY <1>1, Concatenated DEF K
  <2> QED
    BY <1>1, <2>1 DEF Concatenates
<1> HIDE DEF H, K
<1>7. Tail(H) = K
  <2>1. PICK S : H \in Seq(S)
    BY <1>5 DEF IsSeq
  <2>2. PICK T : K \in Seq(T)
    BY <1>6 DEF IsSeq
  <2> DEFINE n == Len(J)
  <2>3. n \in Nat /\ Len(H) = n + 2 /\ Len(K) = n + 1
    BY <1>4, <1>5, <1>6
  <2>4. \A q \in 1..n + 1 : H[q + 1] = K[q]
    <3>1. ASSUME NEW q \in 1..n PROVE H[q + 1] = K[q]
      <4>1. q + 1 \in 1..Len(G) /\ q + 1 = 1 + q
        BY <1>4
      <4> QED
        BY <1>4, <1>5, <1>6, <4>1
    <3>2. H[(n + 1) + 1] = K[n + 1]
      <4>1. (n + 1) + 1 = Len(G) + 1
        BY <1>4
      <4> QED
        BY <1>5, <1>6, <4>1
    <3> QED
      BY <2>3, <3>1, <3>2
  <2> HIDE DEF n
  <2>5. K = [q \in 1..n + 1 |-> K[q]]
    BY <2>2, <2>3
  <2>6. Tail(H) = [q \in 1..n + 1 |-> H[q + 1]]
    <3>1. H # <<>>
      BY <2>1, <2>3
    <3>2. Tail(H) \in Seq(S) /\ Len(Tail(H)) = n + 1
      BY <2>1, <2>3, <3>1
    <3>3. \A q \in 1..n + 1 : Tail(H)[q] = H[q + 1]
      BY <2>1, <2>3, <3>1
    <3> DEFINE t == Tail(H)
    <3>4. t \in Seq(S) /\ Len(t) = n + 1 /\ \A q \in 1..n + 1 : t[q] = H[q + 1]
      BY <3>2, <3>3
    <3> HIDE DEF t
    <3>5. t = [q \in 1..n + 1 |-> t[q]]
      BY <3>4
    <3>6. t = [q \in 1..n + 1 |-> H[q + 1]]
      BY <3>4, <3>5
    <3> QED
      BY <3>6 DEF t
  <2> QED
    BY <2>4, <2>5, <2>6
<1>8. ASSUME Span(K, i, j)
      PROVE  \E k \in Nat : Span(J, i, k) /\ ReadAs(At(k)) = Closing /\ j = k + 1
  <2>1. Span(J \o c, i, j)
    BY <1>8 DEF K
  <2>2. PICK k \in Nat : Span(J, i, k) /\ Span(c, k, j)
    BY <1>1, <2>1, SpanSplits
  <2> QED
    BY <1>2, <2>2
<1>9. ASSUME NEW k \in Nat, Span(J, i, k), ReadAs(At(k)) = Closing, j = k + 1
      PROVE  Span(K, i, j)
  <2>1. Span(c, k, j)
    BY <1>2, <1>9
  <2> QED
    BY <1>9, <2>1, SpansJoin DEF K
<1> QED
  BY <1>3, <1>7, <1>8, <1>9 DEF J

\* The elements of a list of that kind.
AllWell(kind, xs) == IsSeq(xs) /\ \A q \in 1..Len(xs) : Well(kind, xs[q])

\* A list as nix writes it.
ListTokens(kind, xs) == Between("[", RenderedAll(kind, xs), "]")

\* It is a part, and lies where its elements are listed.
LEMMA ListTokensIsPart ==
  ASSUME NEW kind \in Kinds, NEW xs, AllWell(kind, xs)
  PROVE  /\ Part(ListTokens(kind, xs))
         /\ \A i, j : Listed(kind, xs, i, j) <=> Span(ListTokens(kind, xs), i, j)
<1>1. Part(ListTokens(kind, xs))
  BY RenderedIsPart, ListIsPart DEF AllWell, ListTokens
<1> QED
  BY <1>1 DEF AllWell, ListTokens, Listed

\* A derivation with the fields that are the parts of parse_derivation.
HasFields(d, V) ==
  /\ d.outputs = V[1] /\ d.srcs = V[3] /\ d.platform = V[4] /\ d.builder = V[5]
  /\ d.args = V[6] /\ d.env = V[7]
  /\ DOMAIN d.inputs = 1..Len(V[2]) /\ \A q \in 1..Len(V[2]) : d.inputs[q] = Append(V[2][q], <<>>)
  /\ AllWell("output", V[1]) /\ AllWell("input", V[2]) /\ AllWell("string", V[3])
  /\ AllWell("string", V[6]) /\ AllWell("pair", V[7])

\* What nix writes of those.
Written7(V) ==
  <<ListTokens("output", V[1]), ListTokens("input", V[2]), ListTokens("string", V[3]), Word(V[4]),
    Word(V[5]), ListTokens("string", V[6]), ListTokens("pair", V[7])>>

\* Those are joined between some token, which is dropped, and a bracket.
LEMMA BodyIs ==
  ASSUME NEW d, NEW V, HasFields(d, V)
  PROVE  \E open : Body(d) = Tail(Between(open, Written7(V), ")"))
<1>1. ListOf(Output, d.outputs) = ListTokens("output", V[1])
  <2>1. \A x : Rendered("output", x) = Output(x)
    BY DEF Rendered
  <2>2. [q \in DOMAIN V[1] |-> Output(V[1][q])] = RenderedAll("output", V[1])
    BY <2>1 DEF RenderedAll
  <2> QED
    BY <2>2, Zenon DEF ListOf, ListTokens, HasFields
<1>2. ListOf(Input, d.inputs) = ListTokens("input", V[2])
  <2>1. \A x : Rendered("input", x) = Input(Append(x, <<>>))
    BY DEF Rendered
  <2>2. DOMAIN V[2] = 1..Len(V[2])
    BY EmptyOrNot DEF HasFields, AllWell
  <2>3. [q \in DOMAIN d.inputs |-> Input(d.inputs[q])] = RenderedAll("input", V[2])
    <3> DEFINE n == Len(V[2])
    <3>1. DOMAIN d.inputs = 1..n /\ \A q \in 1..n : d.inputs[q] = Append(V[2][q], <<>>)
      BY DEF HasFields
    <3>2. RenderedAll("input", V[2]) = [q \in 1..n |-> Rendered("input", V[2][q])]
      BY <2>2 DEF RenderedAll
    <3> HIDE DEF n
    <3> QED
      BY <2>1, <3>1, <3>2, Zenon
  <2> QED
    BY <2>3, Zenon DEF ListOf, ListTokens
<1>3. Words(d.srcs) = ListTokens("string", V[3]) /\ Words(d.args) = ListTokens("string", V[6])
  BY WordsAreListed DEF HasFields, AllWell, ListTokens
<1>4. ListOf(Pair, d.env) = ListTokens("pair", V[7])
  <2>1. \A x : Rendered("pair", x) = Pair(x)
    BY DEF Rendered
  <2>2. [q \in DOMAIN V[7] |-> Pair(V[7][q])] = RenderedAll("pair", V[7])
    BY <2>1 DEF RenderedAll
  <2> QED
    BY <2>2, Zenon DEF ListOf, ListTokens, HasFields
<1>5. d.platform = V[4] /\ d.builder = V[5]
  BY DEF HasFields
<1> QED
  BY <1>1, <1>2, <1>3, <1>4, <1>5, Zenon DEF Body, Written7

\* The fields of a derivation lie where the steps of parse_derivation are taken.
LEMMA BodySpans ==
  ASSUME NEW d, NEW V, HasFields(d, V), NEW i, NEW j
  PROVE  Span(Body(d), i, j)
         <=> \E P : /\ P[1] = i /\ P[15] = j
                    /\ \A r \in 1..14 : TakenAt("derivation", V, P, r)
<1> DEFINE a == ListTokens("output", V[1])
           b == ListTokens("input", V[2])
           c == ListTokens("string", V[3])
           e == Word(V[4])
           f == Word(V[5])
           g == ListTokens("string", V[6])
           h == ListTokens("pair", V[7])
           parts == Written7(V)
<1>1. /\ Part(a) /\ Part(b) /\ Part(c) /\ Part(e) /\ Part(f) /\ Part(g) /\ Part(h)
      /\ \A k, l : Listed("output", V[1], k, l) <=> Span(a, k, l)
      /\ \A k, l : Listed("input", V[2], k, l) <=> Span(b, k, l)
      /\ \A k, l : Listed("string", V[3], k, l) <=> Span(c, k, l)
      /\ \A k, l : Listed("string", V[6], k, l) <=> Span(g, k, l)
      /\ \A k, l : Listed("pair", V[7], k, l) <=> Span(h, k, l)
  <2>1. /\ "output" \in Kinds /\ "input" \in Kinds /\ "string" \in Kinds /\ "pair" \in Kinds
        /\ AllWell("output", V[1]) /\ AllWell("input", V[2]) /\ AllWell("string", V[3])
        /\ AllWell("string", V[6]) /\ AllWell("pair", V[7])
    BY DEF HasFields, Kinds
  <2> QED
    BY <2>1, ListTokensIsPart, WordIsPart
<1>2. parts = <<a, b, c, e, f, g, h>>
  BY DEF Written7
<1>3. PICK open : Body(d) = Tail(Between(open, parts, ")"))
  BY BodyIs
<1> HIDE DEF a, b, c, e, f, g, h, parts
<1>4. /\ Part(Join(parts))
      /\ \A s, t : Span(Join(parts), s, t) <=> SevenAt(a, b, c, e, f, g, h, s, t)
  BY <1>1, <1>2, JoinedSeven
<1>5. IsSeq(Join(parts))
  BY <1>4 DEF Part
<1>6. Span(Body(d), i, j)
      <=> \E z \in Nat : Span(Join(parts), i, z) /\ ReadAs(At(z)) = Closing /\ j = z + 1
  <2>1. Span(Tail(Between(open, parts, ")")), i, j)
        <=> \E z \in Nat : Span(Join(parts), i, z) /\ ReadAs(At(z)) = Closing /\ j = z + 1
    BY <1>5, TailSpans
  <2> QED
    BY <1>3, <2>1
<1> DEFINE s == Script("derivation")
           At7(P) == /\ StepAt(s[1], V[1], P[1], P[2]) /\ StepAt(s[3], V[2], P[3], P[4])
                     /\ StepAt(s[5], V[3], P[5], P[6]) /\ StepAt(s[7], V[4], P[7], P[8])
                     /\ StepAt(s[9], V[5], P[9], P[10]) /\ StepAt(s[11], V[6], P[11], P[12])
                     /\ StepAt(s[13], V[7], P[13], P[14])
           Tags7(P) == /\ StepAt(s[2], V[2], P[2], P[3]) /\ StepAt(s[4], V[3], P[4], P[5])
                       /\ StepAt(s[6], V[4], P[6], P[7]) /\ StepAt(s[8], V[5], P[8], P[9])
                       /\ StepAt(s[10], V[6], P[10], P[11]) /\ StepAt(s[12], V[7], P[12], P[13])
                       /\ StepAt(s[14], V[8], P[14], P[15])
<1>7. ASSUME NEW P
      PROVE  (\A r \in 1..14 : TakenAt("derivation", V, P, r)) <=> At7(P) /\ Tags7(P)
  <2> DEFINE T(r) == StepAt(s[r], V[Count("derivation", r) + 1], P[r], P[r + 1])
  <2>1. \A r : TakenAt("derivation", V, P, r) <=> T(r)
    BY DEF TakenAt
  <2>2. /\ Count("derivation", 1) + 1 = 1 /\ Count("derivation", 2) + 1 = 2
        /\ Count("derivation", 3) + 1 = 2 /\ Count("derivation", 4) + 1 = 3
        /\ Count("derivation", 5) + 1 = 3 /\ Count("derivation", 6) + 1 = 4
        /\ Count("derivation", 7) + 1 = 4 /\ Count("derivation", 8) + 1 = 5
        /\ Count("derivation", 9) + 1 = 5 /\ Count("derivation", 10) + 1 = 6
        /\ Count("derivation", 11) + 1 = 6 /\ Count("derivation", 12) + 1 = 7
        /\ Count("derivation", 13) + 1 = 7 /\ Count("derivation", 14) + 1 = 8
    BY DEF Count
  <2> HIDE DEF s
  <2>3. (T(1) /\ T(3) /\ T(5) /\ T(7) /\ T(9) /\ T(11) /\ T(13)) <=> At7(P)
    BY <2>2
  <2>4. (T(2) /\ T(4) /\ T(6) /\ T(8) /\ T(10) /\ T(12) /\ T(14)) <=> Tags7(P)
    BY <2>2
  <2> HIDE DEF T
  <2>5. (\A r \in 1..14 : T(r)) <=> /\ T(1) /\ T(3) /\ T(5) /\ T(7) /\ T(9) /\ T(11) /\ T(13)
                                    /\ T(2) /\ T(4) /\ T(6) /\ T(8) /\ T(10) /\ T(12) /\ T(14)
    <3>1. \A r \in 1..14 : \/ r = 1 \/ r = 2 \/ r = 3 \/ r = 4 \/ r = 5 \/ r = 6 \/ r = 7
                           \/ r = 8 \/ r = 9 \/ r = 10 \/ r = 11 \/ r = 12 \/ r = 13 \/ r = 14
      OBVIOUS
    <3> QED
      BY <3>1
  <2> HIDE DEF At7, Tags7
  <2> QED
    BY <2>1, <2>3, <2>4, <2>5
<1>8. /\ s[1] = List("output") /\ s[2] = Separator /\ s[3] = List("input") /\ s[4] = Separator
      /\ s[5] = List("string") /\ s[6] = Separator /\ s[7] = Str /\ s[8] = Separator
      /\ s[9] = Str /\ s[10] = Separator /\ s[11] = List("string") /\ s[12] = Separator
      /\ s[13] = List("pair") /\ s[14] = Closing
  <2> DEFINE k1 == List("output")
             k2 == List("input")
             k3 == List("string")
             k4 == List("pair")
  <2>1. s = <<k1, Separator, k2, Separator, k3, Separator, Str, Separator, Str, Separator, k3,
              Separator, k4, Closing>>
    BY Scripts
  <2> HIDE DEF s, k1, k2, k3, k4
  <2>2. /\ s[1] = k1 /\ s[2] = Separator /\ s[3] = k2 /\ s[4] = Separator
        /\ s[5] = k3 /\ s[6] = Separator /\ s[7] = Str /\ s[8] = Separator
        /\ s[9] = Str /\ s[10] = Separator /\ s[11] = k3 /\ s[12] = Separator
        /\ s[13] = k4 /\ s[14] = Closing
    BY <2>1
  <2> QED
    BY <2>2 DEF k1, k2, k3, k4
<1> HIDE DEF s
<1>9. ASSUME NEW P
      PROVE  At7(P) <=> /\ Span(a, P[1], P[2]) /\ Span(b, P[3], P[4]) /\ Span(c, P[5], P[6])
                        /\ Span(e, P[7], P[8]) /\ Span(f, P[9], P[10]) /\ Span(g, P[11], P[12])
                        /\ Span(h, P[13], P[14])
  <2>1. StepAt(s[1], V[1], P[1], P[2]) <=> Span(a, P[1], P[2])
    BY <1>1, <1>8, PartsAt
  <2>2. StepAt(s[3], V[2], P[3], P[4]) <=> Span(b, P[3], P[4])
    BY <1>1, <1>8, PartsAt
  <2>3. StepAt(s[5], V[3], P[5], P[6]) <=> Span(c, P[5], P[6])
    BY <1>1, <1>8, PartsAt
  <2>4. StepAt(s[7], V[4], P[7], P[8]) <=> Span(e, P[7], P[8])
    BY <1>8, PartsAt DEF e
  <2>5. StepAt(s[9], V[5], P[9], P[10]) <=> Span(f, P[9], P[10])
    BY <1>8, PartsAt DEF f
  <2>6. StepAt(s[11], V[6], P[11], P[12]) <=> Span(g, P[11], P[12])
    BY <1>1, <1>8, PartsAt
  <2>7. StepAt(s[13], V[7], P[13], P[14]) <=> Span(h, P[13], P[14])
    BY <1>1, <1>8, PartsAt
  <2> QED
    BY <2>1, <2>2, <2>3, <2>4, <2>5, <2>6, <2>7
<1>10. ASSUME NEW P
       PROVE  Tags7(P) <=> /\ P[2] \in Nat /\ P[3] = P[2] + 1 /\ ReadAs(At(P[2])) = Separator
                           /\ P[4] \in Nat /\ P[5] = P[4] + 1 /\ ReadAs(At(P[4])) = Separator
                           /\ P[6] \in Nat /\ P[7] = P[6] + 1 /\ ReadAs(At(P[6])) = Separator
                           /\ P[8] \in Nat /\ P[9] = P[8] + 1 /\ ReadAs(At(P[8])) = Separator
                           /\ P[10] \in Nat /\ P[11] = P[10] + 1 /\ ReadAs(At(P[10])) = Separator
                           /\ P[12] \in Nat /\ P[13] = P[12] + 1 /\ ReadAs(At(P[12])) = Separator
                           /\ P[14] \in Nat /\ P[15] = P[14] + 1 /\ ReadAs(At(P[14])) = Closing
  <2> DEFINE Sep(k, l) == k \in Nat /\ l = k + 1 /\ ReadAs(At(k)) = Separator
  <2>1. \A v, k, l : StepAt(Separator, v, k, l) <=> Sep(k, l)
    BY TagsAt
  <2>2. StepAt(s[14], V[8], P[14], P[15])
        <=> P[14] \in Nat /\ P[15] = P[14] + 1 /\ ReadAs(At(P[14])) = Closing
    BY <1>8, TagsAt
  <2> HIDE DEF Sep
  <2>3. /\ StepAt(s[2], V[2], P[2], P[3]) <=> Sep(P[2], P[3])
        /\ StepAt(s[4], V[3], P[4], P[5]) <=> Sep(P[4], P[5])
        /\ StepAt(s[6], V[4], P[6], P[7]) <=> Sep(P[6], P[7])
        /\ StepAt(s[8], V[5], P[8], P[9]) <=> Sep(P[8], P[9])
        /\ StepAt(s[10], V[6], P[10], P[11]) <=> Sep(P[10], P[11])
        /\ StepAt(s[12], V[7], P[12], P[13]) <=> Sep(P[12], P[13])
    BY <1>8, <2>1
  <2> QED
    BY <2>2, <2>3 DEF Sep
<1> HIDE DEF At7, Tags7
<1>11. ASSUME Span(Body(d), i, j)
       PROVE  \E P : /\ P[1] = i /\ P[15] = j
                     /\ \A r \in 1..14 : TakenAt("derivation", V, P, r)
  <2>1. PICK z \in Nat : Span(Join(parts), i, z) /\ ReadAs(At(z)) = Closing /\ j = z + 1
    BY <1>6, <1>11
  <2>2. PICK k, l, m, n, o, p \in Nat :
                             /\ Span(a, i, k) /\ ReadAs(At(k)) = Separator
                             /\ Span(b, k + 1, l) /\ ReadAs(At(l)) = Separator
                             /\ Span(c, l + 1, m) /\ ReadAs(At(m)) = Separator
                             /\ Span(e, m + 1, n) /\ ReadAs(At(n)) = Separator
                             /\ Span(f, n + 1, o) /\ ReadAs(At(o)) = Separator
                             /\ Span(g, o + 1, p) /\ ReadAs(At(p)) = Separator
                             /\ Span(h, p + 1, z)
    BY <1>4, <2>1 DEF SevenAt
  <2> DEFINE P == <<i, k, k + 1, l, l + 1, m, m + 1, n, n + 1, o, o + 1, p, p + 1, z, z + 1>>
  <2>3. /\ P[1] = i /\ P[2] = k /\ P[3] = k + 1 /\ P[4] = l /\ P[5] = l + 1 /\ P[6] = m
        /\ P[7] = m + 1 /\ P[8] = n /\ P[9] = n + 1 /\ P[10] = o /\ P[11] = o + 1 /\ P[12] = p
        /\ P[13] = p + 1 /\ P[14] = z /\ P[15] = z + 1
    OBVIOUS
  <2> HIDE DEF P
  <2>4. At7(P)
    BY <1>9, <2>2, <2>3
  <2>5. Tags7(P)
    BY <1>10, <2>1, <2>2, <2>3
  <2> QED
    BY <1>7, <2>1, <2>3, <2>4, <2>5
<1>12. ASSUME NEW P, P[1] = i, P[15] = j, \A r \in 1..14 : TakenAt("derivation", V, P, r)
       PROVE  Span(Body(d), i, j)
  <2>1. At7(P) /\ Tags7(P)
    BY <1>7, <1>12
  <2>2. /\ Span(a, P[1], P[2]) /\ Span(b, P[3], P[4]) /\ Span(c, P[5], P[6])
        /\ Span(e, P[7], P[8]) /\ Span(f, P[9], P[10]) /\ Span(g, P[11], P[12])
        /\ Span(h, P[13], P[14])
    BY <1>9, <2>1
  <2>3. /\ P[2] \in Nat /\ P[3] = P[2] + 1 /\ ReadAs(At(P[2])) = Separator
                           /\ P[4] \in Nat /\ P[5] = P[4] + 1 /\ ReadAs(At(P[4])) = Separator
                           /\ P[6] \in Nat /\ P[7] = P[6] + 1 /\ ReadAs(At(P[6])) = Separator
                           /\ P[8] \in Nat /\ P[9] = P[8] + 1 /\ ReadAs(At(P[8])) = Separator
                           /\ P[10] \in Nat /\ P[11] = P[10] + 1 /\ ReadAs(At(P[10])) = Separator
                           /\ P[12] \in Nat /\ P[13] = P[12] + 1 /\ ReadAs(At(P[12])) = Separator
                           /\ P[14] \in Nat /\ P[15] = P[14] + 1 /\ ReadAs(At(P[14])) = Closing
    BY <1>10, <2>1
  <2>4. Span(Join(parts), i, P[14])
    <3>1. SevenAt(a, b, c, e, f, g, h, i, P[14])
      <4> P[2] \in Nat /\ P[4] \in Nat /\ P[6] \in Nat /\ P[8] \in Nat /\ P[10] \in Nat
          /\ P[12] \in Nat
        BY <2>3
      <4> USE DEF SevenAt
      <4> WITNESS P[2] \in Nat, P[4] \in Nat, P[6] \in Nat, P[8] \in Nat, P[10] \in Nat, P[12] \in Nat
      <4> HIDE DEF SevenAt
      <4> QED
        BY <1>12, <2>2, <2>3
    <3> QED
      BY <1>4, <3>1
  <2> QED
    BY <1>6, <1>12, <2>3, <2>4
<1> QED
  BY <1>11, <1>12

----------------------------------------------------------------------------
(* What a parser has taken.                                                *)

\* A sequence without its first element.
LEMMA PopHead ==
  ASSUME NEW s, IsSeq(s), s # <<>>
  PROVE  /\ Len(s) \in Nat \ {0} /\ Head(s) = s[1]
         /\ IsSeq(Tail(s)) /\ Len(Tail(s)) = Len(s) - 1
         /\ \A q \in 1..Len(s) - 1 : Tail(s)[q] = s[q + 1]
<1>1. PICK S : s \in Seq(S)
  BY DEF IsSeq
<1>2. Tail(s) \in Seq(S)
  BY <1>1
<1> QED
  BY <1>1, <1>2 DEF IsSeq

\* The steps from s on are still to come.
Remaining(todo, kind, s) ==
  /\ IsSeq(todo) /\ Len(todo) = Length(kind) + 1 - s
  /\ \A q \in 1..Len(todo) : todo[q] = Script(kind)[s + q - 1]

\* At first all steps are to come.
LEMMA AllRemaining ==
  ASSUME NEW kind \in Parsers
  PROVE  Remaining(Script(kind), kind, 1)
<1>1. IsSeq(Script(kind)) /\ Len(Script(kind)) = Length(kind) /\ Length(kind) \in Nat
  BY Lengths
<1>2. \A q \in 1..Length(kind) : 1 + q - 1 = q
  BY <1>1
<1> QED
  BY <1>1, <1>2 DEF Remaining

\* The first of them is the next one, and the others remain after it; when none is
\* left all are taken.
LEMMA StepRemaining ==
  ASSUME NEW kind \in Parsers, NEW s \in 1..Length(kind) + 1, NEW todo, Remaining(todo, kind, s)
  PROVE  /\ todo = <<>> => s = Length(kind) + 1
         /\ todo # <<>> => /\ s \in 1..Length(kind) /\ Head(todo) = Script(kind)[s]
                           /\ Remaining(Tail(todo), kind, s + 1)
<1>1. Length(kind) \in Nat
  BY Lengths
<1> DEFINE n == Length(kind)
           script == Script(kind)
<1>2. /\ IsSeq(todo) /\ Len(todo) = n + 1 - s
      /\ \A q \in 1..Len(todo) : todo[q] = script[s + q - 1]
  BY DEF Remaining
<1>3. n \in Nat /\ s \in 1..n + 1
  BY <1>1
<1> HIDE DEF n, script
<1>4. ASSUME todo = <<>> PROVE s = n + 1
  <2>1. Len(todo) = 0
    BY <1>2, <1>4, EmptyOrNot
  <2> QED
    BY <1>2, <1>3, <2>1
<1>5. ASSUME todo # <<>>
      PROVE  s \in 1..n /\ Head(todo) = script[s]
             /\ IsSeq(Tail(todo)) /\ Len(Tail(todo)) = n + 1 - (s + 1)
             /\ \A q \in 1..Len(Tail(todo)) : Tail(todo)[q] = script[(s + 1) + q - 1]
  <2>1. /\ Len(todo) \in Nat \ {0} /\ Head(todo) = todo[1]
        /\ IsSeq(Tail(todo)) /\ Len(Tail(todo)) = Len(todo) - 1
        /\ \A q \in 1..Len(todo) - 1 : Tail(todo)[q] = todo[q + 1]
    BY <1>2, <1>5, PopHead
  <2>2. s \in 1..n /\ Len(Tail(todo)) = n + 1 - (s + 1)
    BY <1>2, <1>3, <2>1
  <2>3. 1 \in 1..Len(todo) /\ s + 1 - 1 = s
    BY <1>3, <2>1
  <2>4. Head(todo) = script[s]
    BY <1>2, <2>1, <2>3
  <2>5. ASSUME NEW q \in 1..Len(Tail(todo)) PROVE Tail(todo)[q] = script[(s + 1) + q - 1]
    <3>1. q \in 1..Len(todo) - 1 /\ q + 1 \in 1..Len(todo) /\ s + (q + 1) - 1 = (s + 1) + q - 1
      BY <1>3, <2>1
    <3>2. todo[q + 1] = script[s + (q + 1) - 1]
      BY <1>2, <3>1
    <3> QED
      BY <2>1, <3>1, <3>2
  <2> QED
    BY <2>1, <2>2, <2>4, <2>5
<1> QED
  BY <1>4, <1>5 DEF n, script, Remaining

\* The elements that a parser of a list has, from the bracket at a, and where its
\* current element begins.
Before(f, a, b) ==
  IF f.kind = "derivation" THEN b = a
  ELSE /\ a \in Nat /\ ReadAs(At(a)) = Tag("[")
       /\ AllWell(f.kind, f.items)
       /\ Span(Join(RenderedAll(f.kind, f.items)), a + 1, f.saved)
       /\ f.items = <<>> => b = f.saved
       /\ f.items # <<>> => ReadAs(At(f.saved)) = Separator /\ b = f.saved + 1

\* A parser that was begun at a and is at p: the steps up to s are taken.
ParsedTo(f, a, p, P, s) ==
  /\ s \in 1..Length(f.kind) + 1 /\ Remaining(f.todo, f.kind, s)
  /\ IsSeq(f.parts) /\ Len(f.parts) = Count(f.kind, s)
  /\ Before(f, a, P[1]) /\ P[s] = p
  /\ \A r \in 1..s - 1 : TakenAt(f.kind, f.parts, P, r)

Parsed(f, a, p) == \E P, s : ParsedTo(f, a, p, P, s)

\* The parts of the steps before s are among the first ones.
LEMMA PartsAreBefore ==
  ASSUME NEW kind \in Parsers, NEW s \in 1..Length(kind) + 1, NEW r \in 1..s - 1
  PROVE  /\ r \in 1..Length(kind)
         /\ Script(kind)[r][1] # "tag" => Count(kind, r) + 1 \in 1..Count(kind, s)
<1>1. /\ Length(kind) \in Nat
      /\ \A q \in 1..Length(kind) :
              /\ Count(kind, q) \in Nat
              /\ Count(kind, q + 1) = IF Script(kind)[q][1] = "tag" THEN Count(kind, q)
                                      ELSE Count(kind, q) + 1
  BY Lengths
<1>2. r \in 1..Length(kind) /\ r + 1 <= s /\ s \in Nat
  BY <1>1
<1>3. Count(kind, r + 1) <= Count(kind, s) /\ Count(kind, s) \in Int
  BY <1>2 DEF Count
<1> QED
  BY <1>1, <1>2, <1>3

\* A step that is taken stays taken when more parts follow.
LEMMA StillTaken ==
  ASSUME NEW kind \in Parsers, NEW s \in 1..Length(kind) + 1, NEW r \in 1..s - 1,
         NEW V, NEW W, \A m \in 1..Count(kind, s) : W[m] = V[m],
         NEW P, NEW Q, Q[r] = P[r], Q[r + 1] = P[r + 1], TakenAt(kind, V, P, r)
  PROVE  TakenAt(kind, W, Q, r)
<1> DEFINE step == Script(kind)[r]
           c == Count(kind, r) + 1
<1>1. step[1] # "tag" => c \in 1..Count(kind, s)
  BY PartsAreBefore
<1>2. StepAt(step, V[c], P[r], P[r + 1])
  BY DEF TakenAt
<1> HIDE DEF step, c
<1>3. StepAt(step, W[c], P[r], P[r + 1])
  <2>1. CASE step[1] = "tag"
    BY <1>2, <2>1, Kinded DEF StepAt
  <2>2. CASE step[1] # "tag"
    BY <1>1, <1>2, <2>2
  <2> QED
    BY <2>1, <2>2
<1> QED
  BY <1>3 DEF TakenAt, step, c

\* A step more, and the part that it yields.
LEMMA StepTaken ==
  ASSUME NEW f, f.kind \in Parsers, NEW a, NEW p, Parsed(f, a, p), f.todo # <<>>, NEW v, NEW q,
         StepAt(Head(f.todo), v, p, q), NEW g, g.kind = f.kind, g.saved = f.saved,
         g.items = f.items, g.todo = Tail(f.todo),
         g.parts = IF Head(f.todo)[1] = "tag" THEN f.parts ELSE Append(f.parts, v)
  PROVE  Parsed(g, a, q)
<1>1. PICK P, s : ParsedTo(f, a, p, P, s)
  BY DEF Parsed
<1> DEFINE kind == f.kind
           n == Length(kind)
           c == Count(kind, s)
<1>2. /\ s \in 1..n + 1 /\ Remaining(f.todo, kind, s) /\ IsSeq(f.parts) /\ Len(f.parts) = c
      /\ Before(f, a, P[1]) /\ P[s] = p
      /\ \A r \in 1..s - 1 : TakenAt(kind, f.parts, P, r)
  BY <1>1 DEF ParsedTo
<1>3. s \in 1..n /\ Head(f.todo) = Script(kind)[s] /\ Remaining(g.todo, kind, s + 1)
  BY <1>2, StepRemaining
<1>4. /\ n \in Nat \ {0} /\ Count(kind, 1) = 0
      /\ \A r \in 1..n :
              /\ Count(kind, r) \in Nat
              /\ Count(kind, r + 1) = IF Script(kind)[r][1] = "tag" THEN Count(kind, r)
                                      ELSE Count(kind, r) + 1
  BY Lengths
<1>5. /\ IsSeq(g.parts) /\ Len(g.parts) = Count(kind, s + 1)
      /\ \A m \in 1..c : g.parts[m] = f.parts[m]
      /\ Head(f.todo)[1] # "tag" => g.parts[c + 1] = v
  <2>1. CASE Head(f.todo)[1] = "tag"
    BY <1>2, <1>3, <1>4, <2>1
  <2>2. CASE Head(f.todo)[1] # "tag"
    <3>1. g.parts = Append(f.parts, v)
      BY <2>2
    <3>2. /\ IsSeq(Append(f.parts, v)) /\ Len(Append(f.parts, v)) = Len(f.parts) + 1
          /\ \A m \in 1..Len(f.parts) : Append(f.parts, v)[m] = f.parts[m]
          /\ Append(f.parts, v)[Len(f.parts) + 1] = v
      BY <1>2, PushStack
    <3>3. Count(kind, s + 1) = c + 1
      BY <1>3, <1>4, <2>2
    <3> QED
      BY <1>2, <3>1, <3>2, <3>3
  <2> QED
    BY <2>1, <2>2
<1> DEFINE Q == [r \in 1..s + 1 |-> IF r = s + 1 THEN q ELSE P[r]]
<1>6. Q[s + 1] = q /\ \A r \in 1..s : Q[r] = P[r]
  BY <1>3
<1> HIDE DEF Q
<1>7. ASSUME NEW r \in 1..s PROVE TakenAt(kind, g.parts, Q, r)
  <2>1. CASE r = s
    <3>1. TakenAt(kind, g.parts, Q, s) <=> StepAt(Head(f.todo), g.parts[c + 1], p, q)
      BY <1>2, <1>3, <1>6 DEF TakenAt
    <3>2. CASE Head(f.todo)[1] = "tag"
      BY <2>1, <3>1, <3>2, Kinded DEF StepAt
    <3>3. CASE Head(f.todo)[1] # "tag"
      BY <1>5, <2>1, <3>1, <3>3
    <3> QED
      BY <3>2, <3>3
  <2>2. CASE r # s
    <3>1. r \in 1..s - 1 /\ r + 1 \in 1..s
      BY <1>3, <1>4, <2>2
    <3>2. Q[r] = P[r] /\ Q[r + 1] = P[r + 1]
      BY <1>6, <3>1
    <3>3. TakenAt(kind, f.parts, P, r)
      BY <1>2, <3>1
    <3> QED
      BY <1>2, <1>5, <3>1, <3>2, <3>3, StillTaken
  <2> QED
    BY <2>1, <2>2
<1>8. Before(g, a, Q[1])
  <2>1. Q[1] = P[1]
    BY <1>3, <1>4, <1>6
  <2> QED
    BY <1>2, <2>1 DEF Before
<1>9. s + 1 \in 1..n + 1 /\ (s + 1) - 1 = s
  BY <1>3, <1>4
<1>10. ParsedTo(g, a, q, Q, s + 1)
  BY <1>3, <1>5, <1>6, <1>7, <1>8, <1>9 DEF ParsedTo
<1> QED
  BY <1>10 DEF Parsed

----------------------------------------------------------------------------
(* Lists, from their brackets to their ends.                               *)

\* An element more.
LEMMA ItemsRendered ==
  ASSUME NEW kind \in Kinds, NEW xs, AllWell(kind, xs), NEW x, Well(kind, x), NEW ys,
         ys = Append(xs, x)
  PROVE  /\ AllWell(kind, ys) /\ ys # <<>>
         /\ Join(RenderedAll(kind, ys)) = Comma(Join(RenderedAll(kind, xs)), Rendered(kind, x))
<1> DEFINE n == Len(xs)
           rs == RenderedAll(kind, xs)
           ts == RenderedAll(kind, ys)
<1>1. IsSeq(xs) /\ \A q \in 1..n : Well(kind, xs[q])
  BY DEF AllWell
<1>2. /\ IsSeq(Append(xs, x)) /\ n \in Nat /\ Len(Append(xs, x)) = n + 1
      /\ \A i \in 1..n : Append(xs, x)[i] = xs[i]
      /\ Append(xs, x)[n + 1] = x
  BY <1>1, PushStack
<1> HIDE DEF n
<1>3. /\ IsSeq(ys) /\ n \in Nat /\ Len(ys) = n + 1 /\ (\A i \in 1..n : ys[i] = xs[i])
      /\ ys[n + 1] = x /\ n + 1 \in 1..n + 1
  BY <1>2
<1>4. ASSUME NEW q \in 1..Len(ys) PROVE Well(kind, ys[q])
  BY <1>1, <1>3
<1>5. AllWell(kind, ys)
  BY <1>3, <1>4 DEF AllWell
<1>6. ys # <<>>
  BY <1>3, EmptyOrNot
<1>7. DOMAIN xs = 1..n /\ DOMAIN ys = 1..n + 1
  BY <1>1, <1>3, EmptyOrNot DEF n
<1>8. DOMAIN rs = 1..n /\ DOMAIN ts = 1..n + 1
  BY <1>7 DEF RenderedAll
<1>9. \A q \in 1..n : q \in 1..n + 1
  BY <1>3
<1>10. \A q \in 1..n : ts[q] = rs[q]
  BY <1>3, <1>7, <1>9 DEF RenderedAll
<1>11. ts[n + 1] = Rendered(kind, x)
  BY <1>3, <1>7 DEF RenderedAll
<1> HIDE DEF rs, ts
<1>12. Join(ts) = Comma(Join(rs), ts[n + 1])
  BY <1>3, <1>8, <1>10, JoinSteps
<1> QED
  BY <1>5, <1>6, <1>11, <1>12 DEF rs, ts

\* The elements of a list that was begun at a, up to p.
ListedTo(kind, xs, a, p) ==
  /\ a \in Nat /\ ReadAs(At(a)) = Tag("[") /\ AllWell(kind, xs)
  /\ Span(Join(RenderedAll(kind, xs)), a + 1, p)

\* No elements.
LEMMA NoneListed ==
  ASSUME NEW kind, NEW a \in Nat, ReadAs(At(a)) = Tag("[")
  PROVE  ListedTo(kind, <<>>, a, a + 1)
<1>1. IsSeq(<<>>) /\ Len(<<>>) = 0
  <2>1. <<>> \in Seq({}) /\ Len(<<>>) = 0
    OBVIOUS
  <2> QED
    BY <2>1 DEF IsSeq
<1>2. AllWell(kind, <<>>)
  BY <1>1 DEF AllWell
<1>3. DOMAIN RenderedAll(kind, <<>>) = 1..0
  BY <1>1, EmptyOrNot DEF RenderedAll
<1>4. Join(RenderedAll(kind, <<>>)) = <<>>
  BY <1>3, JoinNone
<1>5. Span(<<>>, a + 1, a + 1)
  BY <1>1 DEF Span
<1> QED
  BY <1>2, <1>4, <1>5 DEF ListedTo

\* What is before the current element.
LEMMA BeforeListed ==
  ASSUME NEW f, f.kind \in Kinds, NEW a, NEW b
  PROVE  Before(f, a, b)
         <=> /\ ListedTo(f.kind, f.items, a, f.saved)
             /\ f.items = <<>> => b = f.saved
             /\ f.items # <<>> => ReadAs(At(f.saved)) = Separator /\ b = f.saved + 1
BY DEF Before, ListedTo, Kinds

\* An element that is parsed is one more.
LEMMA ElementListed ==
  ASSUME NEW f, f.kind \in Kinds, NEW a, NEW p, Parsed(f, a, p), f.todo = <<>>, NEW ys,
         ys = Append(f.items, Item(f.kind, f.parts))
  PROVE  ListedTo(f.kind, ys, a, p) /\ ys # <<>>
<1> DEFINE kind == f.kind
           xs == f.items
           x == Item(kind, f.parts)
           J == Join(RenderedAll(kind, xs))
           r == Rendered(kind, x)
<1>1. PICK P, s : ParsedTo(f, a, p, P, s)
  BY DEF Parsed
<1>2. kind \in Parsers
  BY DEF Parsers
<1>3. /\ s \in 1..Length(kind) + 1 /\ Remaining(f.todo, kind, s) /\ IsSeq(f.parts)
      /\ Len(f.parts) = Count(kind, s) /\ Before(f, a, P[1]) /\ P[s] = p
      /\ \A q \in 1..s - 1 : TakenAt(kind, f.parts, P, q)
  BY <1>1 DEF ParsedTo
<1>4. s = Length(kind) + 1 /\ Length(kind) \in Nat
  BY <1>2, <1>3, StepRemaining, Lengths
<1>5. s - 1 = Length(kind)
  BY <1>4
<1>6. Well(kind, x) /\ Span(r, P[1], p)
  BY <1>3, <1>4, <1>5, ElementTaken
<1>7. /\ ListedTo(kind, xs, a, f.saved)
      /\ xs = <<>> => P[1] = f.saved
      /\ xs # <<>> => ReadAs(At(f.saved)) = Separator /\ P[1] = f.saved + 1
  BY <1>3, BeforeListed
<1>8. /\ a \in Nat /\ ReadAs(At(a)) = Tag("[") /\ AllWell(kind, xs) /\ Span(J, a + 1, f.saved)
  BY <1>7 DEF ListedTo
<1>9. AllWell(kind, ys) /\ ys # <<>> /\ Join(RenderedAll(kind, ys)) = Comma(J, r)
  <2>1. ys = Append(xs, x) /\ kind \in Kinds /\ Well(kind, x) /\ AllWell(kind, xs)
    BY <1>6, <1>8
  <2> HIDE DEF x, xs, kind
  <2> QED
    BY <2>1, ItemsRendered
<1>10. IsSeq(xs) /\ \A q \in 1..Len(xs) : Part(Rendered(kind, xs[q]))
  BY <1>8, RenderedIsPart DEF AllWell
<1>11. Part(r) /\ IsSeq(J) /\ (J = <<>> <=> xs = <<>>)
  BY <1>6, <1>10, RenderedIsPart, ListIsPart
<1> HIDE DEF J, r
<1>12. Span(Comma(J, r), a + 1, p)
  <2>1. CASE xs = <<>>
    <3>1. Comma(J, r) = r
      BY <1>11, <2>1, CommaSeparates
    <3>2. Span(J, a + 1, f.saved) /\ Len(J) = 0
      BY <1>8, <1>11, <2>1, EmptyOrNot
    <3>3. f.saved = a + 1
      BY <1>8, <3>2 DEF Span
    <3> QED
      BY <1>6, <1>7, <2>1, <3>1, <3>3
  <2>2. CASE xs # <<>>
    <3>1. Part(J)
      BY <1>11, <2>2 DEF Part
    <3>2. f.saved \in Nat
      BY <1>8, SpanRange
    <3> QED
      BY <1>6, <1>7, <1>8, <1>11, <2>2, <3>1, <3>2, CommaSpans
  <2> QED
    BY <2>1, <2>2
<1> QED
  BY <1>8, <1>9, <1>12 DEF ListedTo

\* A parser of an element at its beginning.
LEMMA ElementBegun ==
  ASSUME NEW g, g.kind \in Kinds, NEW a, NEW b, Before(g, a, b),
         g.todo = Element(g.kind), g.parts = <<>>
  PROVE  Parsed(g, a, b)
<1>1. g.kind \in Parsers /\ g.kind # "derivation"
  BY DEF Parsers, Kinds
<1>2. g.todo = Script(g.kind)
  BY <1>1 DEF Script
<1>3. Remaining(g.todo, g.kind, 1) /\ Length(g.kind) \in Nat \ {0} /\ Count(g.kind, 1) = 0
  BY <1>1, <1>2, AllRemaining, Lengths
<1>4. IsSeq(g.parts) /\ Len(g.parts) = 0
  <2>1. <<>> \in Seq({}) /\ Len(<<>>) = 0
    OBVIOUS
  <2> QED
    BY <2>1 DEF IsSeq
<1>5. 1 \in 1..Length(g.kind) + 1 /\ \A r \in 1..1 - 1 : FALSE
  BY <1>3
<1> DEFINE P == [q \in {1} |-> b]
<1>6. P[1] = b
  OBVIOUS
<1> HIDE DEF P
<1>7. ParsedTo(g, a, b, P, 1)
  BY <1>3, <1>4, <1>5, <1>6 DEF ParsedTo
<1> QED
  BY <1>7 DEF Parsed

\* The parser of the first element of a list.
LEMMA ListBegun ==
  ASSUME NEW g, g.kind \in Kinds, NEW a \in Nat, ReadAs(At(a)) = Tag("["),
         g.todo = Element(g.kind), g.parts = <<>>, g.items = <<>>, g.saved = a + 1
  PROVE  Parsed(g, a, a + 1)
<1>1. ListedTo(g.kind, g.items, a, g.saved)
  BY NoneListed
<1>2. Before(g, a, a + 1)
  BY <1>1, BeforeListed
<1> QED
  BY <1>2, ElementBegun

\* And of another one.
LEMMA ListGoesOn ==
  ASSUME NEW g, g.kind \in Kinds, NEW a, NEW p, ListedTo(g.kind, g.items, a, p), g.items # <<>>,
         ReadAs(At(p)) = Separator,
         g.todo = Element(g.kind), g.parts = <<>>, g.saved = p
  PROVE  Parsed(g, a, p + 1)
<1>1. Before(g, a, p + 1)
  BY BeforeListed
<1> QED
  BY <1>1, ElementBegun

\* A list that ends.
LEMMA ListEnds ==
  ASSUME NEW kind \in Kinds, NEW xs, NEW a, NEW p, ListedTo(kind, xs, a, p),
         ReadAs(At(p)) = Tag("]")
  PROVE  Listed(kind, xs, a, p + 1)
<1>1. /\ a \in Nat /\ ReadAs(At(a)) = Tag("[") /\ AllWell(kind, xs)
      /\ Span(Join(RenderedAll(kind, xs)), a + 1, p)
  BY DEF ListedTo
<1>2. IsSeq(Join(RenderedAll(kind, xs))) /\ p \in Nat
  BY <1>1, SpanRange
<1>3. Span(Between("[", RenderedAll(kind, xs), "]"), a, p + 1)
  BY <1>1, <1>2, BetweenSpans
<1> QED
  BY <1>1, <1>3 DEF Listed, AllWell

----------------------------------------------------------------------------
(* What the parsers under way have taken.                                  *)

\* The text and its version stay what they are, and so does what lies where.
LEMMA Unmoved ==
  ASSUME text' = text, version' = version
  PROVE  \A f, a, p : Parsed(f, a, p)' <=> Parsed(f, a, p)
<1>1. \A i : At(i)' = At(i)
  BY DEF At
<1>2. \A t, i, j : Span(t, i, j)' <=> Span(t, i, j)
  BY <1>1 DEF Span
<1>3. \A kind, xs, i, j : Listed(kind, xs, i, j)' <=> Listed(kind, xs, i, j)
  BY <1>2 DEF Listed
<1>4. \A step, v, i, j : StepAt(step, v, i, j)' <=> StepAt(step, v, i, j)
  BY <1>2, <1>3 DEF StepAt
<1>5. \A kind : Script(kind)' = Script(kind)
  <2>1. InputDrv' = InputDrv
    BY DEF InputDrv
  <2> QED
    BY <2>1 DEF Script, Element
<1>6. \A kind, V, P, r : TakenAt(kind, V, P, r)' <=> TakenAt(kind, V, P, r)
  BY <1>4, <1>5 DEF TakenAt
<1>7. \A todo, kind, s : Remaining(todo, kind, s)' <=> Remaining(todo, kind, s)
  BY <1>5 DEF Remaining
<1>8. \A f, a, b : Before(f, a, b)' <=> Before(f, a, b)
  BY <1>1, <1>2 DEF Before
<1>9. \A f, a, p, P, s : ParsedTo(f, a, p, P, s)' <=> ParsedTo(f, a, p, P, s)
  BY <1>6, <1>7, <1>8 DEF ParsedTo
<1> QED
  BY <1>9 DEF Parsed

\* The parsers of a stack, each begun where the one below it is, from a to p.
Chain(s, A, a, p) ==
  /\ A[1] = a /\ A[Len(s) + 1] = p
  /\ \A i \in 1..Len(s) : Parsed(s[i], A[i], A[i + 1])

\* A chain of parsers depends on nothing but the text and the version.
LEMMA ChainUnmoved ==
  ASSUME text' = text, version' = version
  PROVE  \A s, A, a, p : Chain(s, A, a, p)' <=> Chain(s, A, a, p)
BY Unmoved DEF Chain

\* The upper parsers give way to one that begins where the lowest of them did.
LEMMA Rechained ==
  ASSUME NEW s, NEW A, NEW a, NEW p, Chain(s, A, a, p), NEW m \in Nat, Len(s) \in Nat, m <= Len(s),
         NEW t, Len(t) = m + 1, \A i \in 1..m : t[i] = s[i], NEW q, Parsed(t[m + 1], A[m + 1], q)
  PROVE  \E B : Chain(t, B, a, q)
<1> DEFINE B == [i \in 1..m + 2 |-> IF i = m + 2 THEN q ELSE A[i]]
<1>1. B[m + 2] = q /\ \A i \in 1..m + 1 : B[i] = A[i]
  OBVIOUS
<1> HIDE DEF B
<1>2. ASSUME NEW i \in 1..m + 1 PROVE Parsed(t[i], B[i], B[i + 1])
  <2>1. CASE i = m + 1
    <3>1. B[i] = A[m + 1] /\ B[i + 1] = q
      <4>1. i + 1 = m + 2
        BY <2>1
      <4> QED
        BY <1>1, <2>1, <4>1
    <3> QED
      BY <2>1, <3>1
  <2>2. CASE i # m + 1
    <3>1. i \in 1..m /\ i + 1 \in 1..m + 1 /\ i \in 1..Len(s)
      BY <2>2
    <3>2. t[i] = s[i] /\ B[i] = A[i] /\ B[i + 1] = A[i + 1]
      BY <1>1, <3>1
    <3> QED
      BY <3>1, <3>2 DEF Chain
  <2> QED
    BY <2>1, <2>2
<1>3. B[1] = a /\ Len(t) + 1 = m + 2
  BY <1>1 DEF Chain
<1> QED
  BY <1>1, <1>2, <1>3 DEF Chain

\* The parts that a step yields.
LEMMA PartsFollow ==
  ASSUME NEW s, IsSeq(s), NEW v
  PROVE  s \o <<>> = s /\ s \o <<v>> = Append(s, v)
<1>1. PICK S : s \in Seq(S)
  BY DEF IsSeq
<1> DEFINE T == S \cup {v}
<1>2. s \in Seq(T) /\ v \in T
  BY <1>1
<1> HIDE DEF T
<1> QED
  BY <1>2

\* A step of the innermost parser takes what lies at pos.
LEMMA AdvanceChains ==
  ASSUME Kept, InElement, NEW A, NEW a, Chain(frames, A, a, pos), NEW v, NEW taken, NEW parts,
         parts = IF Goal[1] = "tag" THEN <<>> ELSE <<v>>,
         StepAt(Goal, v, pos, pos + taken), Advance(taken, parts)
  PROVE  \E B : Chain(frames', B, a, pos')
<1> DEFINE n == Len(frames)
           m == n - 1
           g == [Top EXCEPT !.todo = Tail(@), !.parts = @ \o parts]
           t == Append(Below, g)
<1>1. frames # <<>> /\ Top.todo # <<>> /\ Goal = Head(Top.todo)
  BY GoalFacts DEF InElement, Goal
<1>2. /\ n \in Nat /\ n >= 1 /\ Top = frames[n] /\ Parser(Top, n, version)
      /\ IsSeq(Below) /\ Len(Below) = n - 1 /\ \A i \in 1..n - 1 : Below[i] = frames[i]
  BY <1>1, TopFacts
<1>3. frames' = t /\ pos' = pos + taken
  BY DEF Advance
<1>4. g = [kind |-> Top.kind, saved |-> Top.saved, items |-> Top.items,
           parts |-> Top.parts \o parts, todo |-> Tail(Top.todo)]
  <2> DEFINE others == Top.parts \o parts
             todo == Tail(Top.todo)
  <2>1. g = [Top EXCEPT !.todo = todo, !.parts = others]
    BY <1>2 DEF Parser
  <2>3. Parser(Top, n, version)
    BY <1>2
  <2> HIDE DEF g, t, m, n, others, todo
  <2>2. [Top EXCEPT !.todo = todo, !.parts = others]
          = [kind |-> Top.kind, saved |-> Top.saved, items |-> Top.items,
             parts |-> others, todo |-> todo]
    BY <2>3, ParserGoesOn
  <2> QED
    BY <2>1, <2>2 DEF others, todo
<1>5. m \in Nat /\ m + 1 = n /\ m <= n /\ n \in 1..n /\ Len(Below) = m
  BY <1>2
<1>6. Parsed(Top, A[n], pos) /\ Top.kind \in Parsers
  BY <1>2, <1>5 DEF Chain, Parser
<1>7. IsSeq(Top.parts)
  BY <1>6 DEF Parsed, ParsedTo
<1>8. Top.parts \o parts = IF Goal[1] = "tag" THEN Top.parts ELSE Append(Top.parts, v)
  BY <1>7, PartsFollow
<1> HIDE DEF g, m, n
<1>9. Parsed(g, A[n], pos')
  <2>1. /\ g.kind = Top.kind /\ g.saved = Top.saved /\ g.items = Top.items
        /\ g.todo = Tail(Top.todo)
        /\ g.parts = IF Goal[1] = "tag" THEN Top.parts ELSE Append(Top.parts, v)
    BY <1>4, <1>8
  <2> QED
    BY <1>1, <1>3, <1>6, <2>1, StepTaken
<1>10. Len(t) = m + 1 /\ (\A i \in 1..m : t[i] = frames[i]) /\ t[m + 1] = g
  <2>1. /\ Len(Append(Below, g)) = Len(Below) + 1
        /\ \A i \in 1..Len(Below) : Append(Below, g)[i] = Below[i]
        /\ Append(Below, g)[Len(Below) + 1] = g
    BY <1>2, PushStack
  <2> QED
    BY <1>2, <1>5, <2>1 DEF m, n
<1> HIDE DEF t
<1>11. \E B : Chain(t, B, a, pos')
  <2>1. Parsed(t[m + 1], A[m + 1], pos')
    BY <1>5, <1>9, <1>10
  <2>2. m \in Nat /\ Len(frames) \in Nat /\ m <= Len(frames)
    BY <1>2, <1>5 DEF n
  <2> QED
    BY <1>10, <2>1, <2>2, Rechained
<1> QED
  BY <1>3, <1>11

\* And so does the list that it parses, when that ends.
LEMMA EndListChains ==
  ASSUME Kept, frames # <<>>, Below # <<>>, NEW A, NEW a, NEW p, Chain(frames, A, a, p), NEW items,
         NEW here, Listed(Top.kind, items, A[Len(frames)], here + 1), EndList(items, here)
  PROVE  \E B : Chain(frames', B, a, pos')
<1> DEFINE n == Len(frames)
           m == n - 2
           f == Last(Below)
           g == [f EXCEPT !.todo = Tail(@), !.parts = Append(@, items)]
           t == Append(Front(Below), g)
<1>1. /\ n \in Nat /\ n >= 1 /\ Top = frames[n] /\ IsSeq(Below) /\ Len(Below) = n - 1
      /\ \A i \in 1..n - 1 : Below[i] = frames[i]
      /\ n # 1
  BY TopFacts
<1>2. /\ f = Below[Len(Below)] /\ IsSeq(Front(Below)) /\ Len(Front(Below)) = Len(Below) - 1
      /\ \A i \in 1..Len(Below) - 1 : Front(Below)[i] = Below[i]
  BY <1>1, PopStack
<1>3. /\ m \in Nat /\ m + 1 \in 1..n - 1 /\ m + 1 \in 1..n /\ m + 2 = n /\ (m + 1) + 1 = n
      /\ m <= n
      /\ f = frames[m + 1] /\ Len(Front(Below)) = m /\ \A i \in 1..m : Front(Below)[i] = frames[i]
  BY <1>1, <1>2
<1>4. frames' = t /\ pos' = here + 1
  BY DEF EndList
<1>5. /\ \A i \in 1..n : Parser(frames[i], i, version)
      /\ \A i \in 1..n - 1 : Opened(frames[i], frames[i + 1])
  BY DEF Kept, Nested
<1>6. Parser(f, m + 1, version) /\ Opened(f, Top)
  BY <1>1, <1>3, <1>5
<1>7. f.todo # <<>> /\ Head(f.todo) = List(Top.kind) /\ f.kind \in Parsers
  BY <1>6 DEF Opened, Parser
<1>8. Parsed(f, A[m + 1], A[n])
  BY <1>3 DEF Chain
<1>9. g = [kind |-> f.kind, saved |-> f.saved, items |-> f.items,
           parts |-> Append(f.parts, items), todo |-> Tail(f.todo)]
  BY <1>6, ParserGoesOn
<1> HIDE DEF g, m, n, f
<1>10. Parsed(g, A[m + 1], here + 1)
  <2>1. /\ g.kind = f.kind /\ g.saved = f.saved /\ g.items = f.items /\ g.todo = Tail(f.todo)
        /\ g.parts = Append(f.parts, items)
    BY <1>9
  <2>2. Head(f.todo)[1] # "tag"
    BY <1>7, Kinded
  <2>3. StepAt(Head(f.todo), items, A[n], here + 1)
    BY <1>7, PartsAt DEF n
  <2> QED
    BY <1>7, <1>8, <2>1, <2>2, <2>3, StepTaken
<1>11. Len(t) = m + 1 /\ (\A i \in 1..m : t[i] = frames[i]) /\ t[m + 1] = g
  <2> DEFINE front == Front(Below)
  <2>1. IsSeq(front) /\ Len(front) = m /\ \A i \in 1..m : front[i] = frames[i]
    BY <1>2, <1>3
  <2> HIDE DEF front
  <2>2. /\ IsSeq(Append(front, g)) /\ Len(Append(front, g)) = Len(front) + 1
        /\ \A i \in 1..Len(front) : Append(front, g)[i] = front[i]
        /\ Append(front, g)[Len(front) + 1] = g
    BY <2>1, PushStack
  <2>3. t = Append(front, g)
    BY DEF front
  <2> HIDE DEF t
  <2> QED
    BY <2>1, <2>2, <2>3
<1> HIDE DEF t
<1>12. \E B : Chain(t, B, a, here + 1)
  BY <1>1, <1>3, <1>10, <1>11, Rechained DEF n
<1> QED
  BY <1>4, <1>12

\* The inductive invariant: what the parsers under way have taken is, one after the
\* other, what comes after the version.  Only what a parser took before it failed
\* is not accounted for.
Start == IF version = "Traditional" THEN 2 ELSE 3

Accounted ==
  /\ Busy \/ Finished => \E A, p : Chain(frames, A, Start, p) /\ (pc # "unwind" => p = pos)
  /\ Finished => Len(frames) = 1 /\ frames[1].todo = <<>>

\* The innermost parser of a list, and where that began.
LEMMA TopElement ==
  ASSUME Kept, frames # <<>>, Below # <<>>, NEW A, NEW a, NEW p, Chain(frames, A, a, p)
  PROVE  /\ Top.kind \in Kinds /\ Parsed(Top, A[Len(frames)], p)
         /\ ListedTo(Top.kind, Top.items, A[Len(frames)], Top.saved)
<1> DEFINE n == Len(frames)
<1>1. n \in Nat /\ n >= 1 /\ Top = frames[n] /\ Parser(Top, n, version) /\ n # 1
  BY TopFacts
<1>2. n \in 1..n
  BY <1>1
<1> HIDE DEF n
<1>3. Top.kind \in Kinds
  BY <1>1 DEF Parser, Parsers
<1>4. Parsed(Top, A[n], p)
  BY <1>1, <1>2 DEF Chain, n
<1>5. \E b : Before(Top, A[n], b)
  BY <1>4 DEF Parsed, ParsedTo
<1>6. ListedTo(Top.kind, Top.items, A[n], Top.saved)
  BY <1>3, <1>5, BeforeListed
<1> QED
  BY <1>3, <1>4, <1>6 DEF n

\* No step loses what was taken.
LEMMA AccountedStep == Kept /\ Accounted /\ [Next]_vars => Accounted'
<1> SUFFICES ASSUME Kept, Accounted, [Next]_vars PROVE Accounted'
  OBVIOUS
<1>0. /\ text \in Seq(Tokens) /\ Len(text) \in Nat /\ pos \in 1..Len(text) + 1
      /\ (Busy => frames # <<>>) /\ pos \in Nat
  BY DEF Kept
<1>1. /\ Busy \/ Finished => \E A, p : Chain(frames, A, Start, p) /\ (pc # "unwind" => p = pos)
      /\ Finished => Len(frames) = 1 /\ frames[1].todo = <<>>
  BY DEF Accounted
<1>moves. ASSUME text' = text, version' = version, pc' \in {"parse", "unwind"},
                 \E A, p : Chain(frames', A, Start, p) /\ (pc' # "unwind" => p = pos')
          PROVE  Accounted'
  <2>1. PICK A, p : Chain(frames', A, Start, p) /\ (pc' # "unwind" => p = pos')
    BY <1>moves
  <2>2. Start' = Start
    BY <1>moves DEF Start
  <2>3. Chain(frames, A, Start, p)'
    BY <1>moves, <2>1, <2>2, ChainUnmoved
  <2>4. ~Finished'
    BY <1>moves DEF Finished
  <2> QED
    BY <2>1, <2>3, <2>4 DEF Accounted
<1>stops. ASSUME pc' \in {"version", "refused", "err", "panic"} PROVE Accounted'
  BY <1>stops DEF Accounted, Busy, Finished
<1>quiet. ASSUME Open \/ Refuse \/ NoVersion \/ UnfinishedPanics \/ NoDerivation PROVE Accounted'
  BY <1>quiet, <1>stops DEF Open, Refuse, NoVersion, UnfinishedPanics, NoDerivation, Stop
<1>same. ASSUME text' = text, version' = version, frames' = frames, pos' = pos,
                Finished \/ pc = "parse", pc' \in {"done", "converted"},
                Len(frames) = 1 /\ frames[1].todo = <<>>
         PROVE  Accounted'
  <2>1. PICK A, p : Chain(frames, A, Start, p) /\ (pc # "unwind" => p = pos)
    BY <1>1, <1>same DEF Busy
  <2>2. Start' = Start /\ p = pos' /\ frames' = frames
    BY <1>same, <2>1 DEF Start, Finished
  <2>3. Chain(frames, A, Start, p)'
    BY <1>same, <2>1, <2>2, ChainUnmoved
  <2>4. Len(frames') = 1 /\ frames'[1].todo = <<>>
    BY <1>same
  <2> QED
    BY <2>2, <2>3, <2>4 DEF Accounted
<1>accept. ASSUME Accept PROVE Accounted'
  <2>1. /\ pc = "parse" /\ Below = <<>> /\ Top.todo = <<>> /\ pc' = "done" /\ frames' = frames
        /\ text' = text /\ version' = version /\ pos' = pos
    BY <1>accept DEF Accept
  <2>2. frames # <<>>
    BY <1>0, <2>1 DEF Busy
  <2>3. Len(frames) = 1 /\ frames[1].todo = <<>>
    <3>1. Top = frames[Len(frames)] /\ (Below = <<>>) = (Len(frames) = 1)
      BY <2>2, TopFacts
    <3> QED
      BY <2>1, <3>1
  <2> QED
    BY <1>same, <2>1, <2>3
<1>convert. ASSUME Convert PROVE Accounted'
  BY <1>1, <1>same, <1>convert DEF Convert, Finished
<1>version. ASSUME ParseVersion PROVE Accounted'
  <2>0. PICK a : a = Start'
    OBVIOUS
  <2> DEFINE f == Frame("derivation", 1, Fields)
             A == [i \in {1, 2} |-> a]
             P == [i \in {1} |-> a]
             s == <<f>>
  <2>1. PICK v \in {"Traditional", "Dynamic"}, taken \in 1..3 :
          Header(v, taken) /\ version' = v /\ pos' = taken + 1
    BY <1>version DEF ParseVersion
  <2>2. frames' = <<f>> /\ pc' = "parse" /\ text' = text
    BY <1>version DEF ParseVersion
  <2>3. pos' = Start'
    BY <2>1 DEF Header, Start
  <2>4. A[1] = a /\ A[2] = a /\ P[1] = a
    OBVIOUS
  <2>5. /\ f.kind = "derivation" /\ f.todo = Fields /\ f.parts = <<>>
    BY DEF Frame
  <2>6. /\ Remaining(Script("derivation"), "derivation", 1)
        /\ Length("derivation") \in Nat \ {0} /\ Count("derivation", 1) = 0
    BY AllRemaining, Lengths DEF Parsers
  <2>7. Script("derivation") = Fields /\ Script("derivation")' = Fields
    BY DEF Script
  <2>8. Remaining(Fields, "derivation", 1)'
    BY <2>6, <2>7 DEF Remaining
  <2>9. IsSeq(<<>>) /\ Len(<<>>) = 0
    <3>1. <<>> \in Seq({}) /\ Len(<<>>) = 0
      OBVIOUS
    <3> QED
      BY <3>1 DEF IsSeq
  <2>10. Before(f, A[1], P[1])'
    BY <2>4, <2>5 DEF Before
  <2>11. 1 \in 1..Length("derivation") + 1 /\ \A r \in 1..1 - 1 : FALSE
    BY <2>6
  <2> HIDE DEF f, A, P
  <2>12. ParsedTo(f, A[1], A[2], P, 1)'
    BY <2>4, <2>5, <2>6, <2>8, <2>9, <2>10, <2>11 DEF ParsedTo
  <2>13. Parsed(f, A[1], A[2])'
    BY <2>12 DEF Parsed
  <2>14. Len(s) = 1 /\ s[1] = f /\ frames' = s
    BY <2>2
  <2> HIDE DEF s
  <2>15. Chain(s, A, a, a)'
    <3>1. \A i \in 1..Len(s) : i = 1
      BY <2>14
    <3>2. \A i \in 1..Len(s) : Parsed(s[i], A[i], A[i + 1])'
      BY <2>13, <2>14, <3>1
    <3> QED
      BY <2>4, <2>14, <3>2 DEF Chain
  <2> QED
    BY <2>0, <2>2, <2>3, <2>14, <2>15 DEF Accounted, Finished
<1>advance. ASSUME InElement, NEW v, NEW taken, NEW parts,
                   parts = IF Goal[1] = "tag" THEN <<>> ELSE <<v>>,
                   StepAt(Goal, v, pos, pos + taken), Advance(taken, parts)
            PROVE  Accounted'
  <2>1. PICK A : Chain(frames, A, Start, pos)
    BY <1>1, <1>advance DEF InElement, Busy
  <2>2. \E B : Chain(frames', B, Start, pos')
    BY <1>advance, <2>1, AdvanceChains
  <2>3. text' = text /\ version' = version /\ pc' = "parse"
    BY <1>advance DEF Advance, InElement
  <2> QED
    BY <1>moves, <2>2, <2>3
<1>tag. ASSUME ParseTag PROVE Accounted'
  <2>1. InElement /\ Goal[1] = "tag" /\ At(pos) = Goal /\ Advance(1, <<>>)
    BY <1>tag DEF ParseTag, Peek
  <2>2. ReadAs(At(pos)) = Goal
    BY <2>1 DEF ReadAs
  <2>3. Span(<<Goal>>, pos, pos + 1)
    BY <1>0, <2>2, SpanOfOne
  <2>4. StepAt(Goal, None, pos, pos + 1)
    BY <2>1, <2>3 DEF StepAt
  <2>5. <<>> = IF Goal[1] = "tag" THEN <<>> ELSE <<None>>
    BY <2>1
  <2> QED
    BY <1>advance, <2>1, <2>4, <2>5
<1>string. ASSUME ParseString PROVE Accounted'
  <2> DEFINE v == Content[Peek[2]]
  <2>1. InElement /\ Goal = Str /\ At(pos) \in Strings /\ Advance(1, <<v>>) /\ Peek = At(pos)
    BY <1>string DEF ParseString, Peek
  <2>2. ReadAs(At(pos)) = Quoted(v)
    BY <2>1, StringReads
  <2>3. Span(<<Quoted(v)>>, pos, pos + 1)
    BY <1>0, <2>2, SpanOfOne
  <2>4. StepAt(Goal, v, pos, pos + 1)
    BY <2>1, <2>3, PartsAt DEF Word
  <2>5. Goal[1] # "tag"
    BY <2>1, Kinded
  <2> HIDE DEF v
  <2> QED
    BY <1>advance, <2>1, <2>4, <2>5
<1>fail. ASSUME Fail, pc = "parse" PROVE Accounted'
  <2>1. /\ text' = text /\ pc' = "unwind" /\ pos' = pos /\ version' = version /\ frames' = frames
    BY <1>fail DEF Fail
  <2> QED
    BY <1>1, <1>fail, <1>moves, <2>1 DEF Busy
<1>output. ASSUME MakeOutput PROVE Accounted'
  <2>1. InElement /\ Goal = Make /\ (Fail \/ \E kind : Advance(0, <<kind>>))
    BY <1>output DEF MakeOutput
  <2>2. CASE Fail
    BY <1>fail, <2>1, <2>2 DEF InElement
  <2>3. ASSUME NEW kind, Advance(0, <<kind>>) PROVE Accounted'
    <3>1. Goal[1] # "tag"
      BY <2>1, Kinded
    <3>2. pos + 0 = pos
      BY <1>0
    <3>3. StepAt(Goal, kind, pos, pos + 0)
      BY <1>0, <2>1, <3>2, PartsAt
    <3> QED
      BY <1>advance, <2>1, <2>3, <3>1, <3>3
  <2> QED
    BY <2>1, <2>2, <2>3
<1>mismatch. ASSUME Mismatch PROVE Accounted'
  <2>1. Fail /\ pc = "parse"
    BY <1>mismatch DEF Mismatch, InElement, AfterElement
  <2> QED
    BY <1>fail, <2>1
<1>list. ASSUME OpenList PROVE Accounted'
  <2> DEFINE kind == Goal[2]
             g == Frame(kind, pos + 1, Element(kind))
             t == Append(frames, g)
             n == Len(frames)
  <2>1. /\ InElement /\ Goal[1] = "list" /\ At(pos) = Tag("[") /\ frames' = t
        /\ pos' = pos + 1 /\ text' = text /\ pc' = pc /\ version' = version
    BY <1>list DEF OpenList, Peek
  <2>2. frames # <<>> /\ Goal \in StepsOf(Top.kind, version)
    BY <2>1, GoalFacts
  <2>3. Goal \in Lists
    BY <2>1, <2>2, ListSteps
  <2>4. kind \in Kinds
    BY <2>3 DEF Lists, List, Kinds
  <2>5. PICK A : Chain(frames, A, Start, pos)
    BY <1>1, <2>1 DEF InElement, Busy
  <2>6. g = [kind |-> kind, saved |-> pos + 1, items |-> <<>>, parts |-> <<>>,
             todo |-> Element(kind)]
    BY DEF Frame
  <2>7. IsSeq(frames)
    BY DEF Kept, Nested
  <2> HIDE DEF g, kind
  <2>8. /\ Len(t) = n + 1 /\ n \in Nat /\ n <= n /\ (\A i \in 1..n : t[i] = frames[i])
        /\ t[n + 1] = g
    BY <2>7, PushStack
  <2>9. /\ g.kind \in Kinds /\ g.todo = Element(g.kind) /\ g.parts = <<>> /\ g.items = <<>>
        /\ g.saved = pos + 1
    BY <2>4, <2>6
  <2>10. ReadAs(At(pos)) = Tag("[")
    BY <2>1, TagReads
  <2>11. Parsed(g, pos, pos + 1)
    BY <1>0, <2>9, <2>10, ListBegun
  <2>12. A[n + 1] = pos
    BY <2>5 DEF Chain
  <2>13. Parsed(t[n + 1], A[n + 1], pos + 1)
    BY <2>8, <2>11, <2>12
  <2> HIDE DEF t
  <2>14. \E B : Chain(t, B, Start, pos + 1)
    BY <2>5, <2>8, <2>13, Rechained
  <2> QED
    BY <1>moves, <2>1, <2>14 DEF InElement
<1>next. ASSUME NextElement PROVE Accounted'
  <2> DEFINE kind == Top.kind
             items == Items
             g == Another(kind, pos, items)
             n == Len(frames)
             m == n - 1
             t == Append(Below, g)
  <2>1. /\ AfterElement /\ At(pos) = Separator /\ frames' = t
        /\ pos' = pos + 1 /\ text' = text /\ pc' = pc /\ version' = version
    BY <1>next DEF NextElement, Another, Peek, Separator
  <2>2. frames # <<>> /\ Below # <<>> /\ pc' = "parse" /\ Top.todo = <<>> /\ pc = "parse"
    BY <1>0, <2>1 DEF AfterElement, Busy
  <2>3. PICK A : Chain(frames, A, Start, pos)
    BY <1>1, <2>2 DEF Busy
  <2>4. kind \in Kinds /\ Parsed(Top, A[n], pos)
    BY <2>2, <2>3, TopElement
  <2>5. ListedTo(kind, items, A[n], pos) /\ items # <<>>
    BY <2>2, <2>4, ElementListed DEF Items
  <2>6. /\ n \in Nat /\ n >= 1 /\ IsSeq(Below) /\ Len(Below) = n - 1
        /\ \A i \in 1..n - 1 : Below[i] = frames[i]
    BY <2>2, TopFacts
  <2> HIDE DEF kind, items
  <2>7. /\ g.kind = kind /\ g.saved = pos /\ g.items = items /\ g.parts = <<>>
        /\ g.todo = Element(kind)
    BY DEF Another, Frame
  <2>8. ReadAs(At(pos)) = Separator
    BY <2>1, TagReads DEF Separator
  <2> HIDE DEF g
  <2>9. Parsed(g, A[n], pos + 1)
    BY <2>4, <2>5, <2>7, <2>8, ListGoesOn
  <2>10. m \in Nat /\ m + 1 = n /\ m <= n /\ Len(Below) = m
    BY <2>6
  <2>11. /\ Len(t) = m + 1 /\ (\A i \in 1..m : t[i] = frames[i]) /\ t[m + 1] = g
    BY <2>6, <2>10, PushStack
  <2>12. Parsed(t[m + 1], A[m + 1], pos + 1) /\ Len(frames) \in Nat /\ m <= Len(frames)
    BY <2>6, <2>9, <2>10, <2>11
  <2> HIDE DEF t, m, n
  <2>13. \E B : Chain(t, B, Start, pos + 1)
    BY <2>3, <2>10, <2>11, <2>12, Rechained
  <2> QED
    BY <1>moves, <2>1, <2>2, <2>13
<1>ends. ASSUME frames # <<>>, Below # <<>>, text' = text, version' = version, NEW A, NEW p,
                Chain(frames, A, Start, p), NEW items, NEW here,
                ListedTo(Top.kind, items, A[Len(frames)], here), At(here) = Tag("]"),
                EndList(items, here)
         PROVE  Accounted'
  <2>1. Top.kind \in Kinds
    BY <1>ends, TopElement
  <2>2. Listed(Top.kind, items, A[Len(frames)], here + 1)
    BY <1>ends, <2>1, TagReads, ListEnds
  <2>3. \E B : Chain(frames', B, Start, pos')
    BY <1>ends, <2>2, EndListChains
  <2>4. pc' = "parse"
    BY <1>ends DEF EndList
  <2> QED
    BY <1>ends, <1>moves, <2>3, <2>4
<1>close. ASSUME CloseList PROVE Accounted'
  <2>1. /\ AfterElement /\ At(pos) = Tag("]") /\ EndList(Items, pos)
        /\ text' = text /\ version' = version
    BY <1>close DEF CloseList, Peek
  <2>2. frames # <<>> /\ Below # <<>> /\ Top.todo = <<>> /\ pc = "parse"
    BY <1>0, <2>1 DEF AfterElement, Busy
  <2>3. PICK A : Chain(frames, A, Start, pos)
    BY <1>1, <2>2 DEF Busy
  <2>4. Top.kind \in Kinds /\ Parsed(Top, A[Len(frames)], pos)
    BY <2>2, <2>3, TopElement
  <2>5. ListedTo(Top.kind, Items, A[Len(frames)], pos)
    BY <2>2, <2>4, ElementListed DEF Items
  <2> QED
    BY <1>ends, <2>1, <2>2, <2>3, <2>5
<1>unwind. ASSUME Unwind PROVE Accounted'
  <2>1. /\ pc = "unwind" /\ Below # <<>> /\ text' = text /\ version' = version
        /\ frames # <<>>
    BY <1>unwind, <1>0 DEF Unwind, Busy
  <2>2. PICK A, p : Chain(frames, A, Start, p)
    BY <1>1, <2>1 DEF Busy
  <2>3. CASE At(Top.saved) = Tag("]") /\ EndList(Top.items, Top.saved)
    <3>1. ListedTo(Top.kind, Top.items, A[Len(frames)], Top.saved)
      BY <2>1, <2>2, TopElement
    <3> QED
      BY <1>ends, <2>1, <2>2, <2>3, <3>1
  <2>4. CASE frames' = Below /\ UNCHANGED <<pc, pos>>
    <3> DEFINE n == Len(frames)
    <3>1. /\ n \in Nat /\ n >= 1 /\ Len(Below) = n - 1
          /\ \A i \in 1..n - 1 : Below[i] = frames[i]
      BY <2>1, TopFacts
    <3>2. \A i \in 1..n - 1 : i \in 1..n /\ Below[i] = frames[i]
      BY <3>1
    <3>3. A[1] = Start /\ \A i \in 1..n - 1 : Parsed(Below[i], A[i], A[i + 1])
      BY <2>2, <3>2 DEF Chain
    <3>4. Chain(Below, A, Start, A[Len(Below) + 1])
      BY <3>1, <3>3 DEF Chain
    <3>5. Chain(frames', A, Start, A[Len(Below) + 1])
      BY <2>4, <3>4
    <3> QED
      BY <1>moves, <2>1, <2>4, <3>5
  <2> QED
    BY <1>unwind, <2>3, <2>4 DEF Unwind
<1>stay. ASSUME UNCHANGED vars PROVE Accounted'
  <2>1. /\ text' = text /\ version' = version /\ pc' = pc /\ frames' = frames /\ pos' = pos
    BY <1>stay DEF vars
  <2>2. CASE Finished
    BY <1>1, <1>same, <2>1, <2>2 DEF Finished
  <2>3. CASE Busy
    BY <1>1, <1>moves, <2>1, <2>3 DEF Busy
  <2>4. CASE ~Finished /\ ~Busy
    BY <2>1, <2>4 DEF Accounted, Finished, Busy
  <2> QED
    BY <2>2, <2>3, <2>4
<1> QED
  BY <1>quiet, <1>accept, <1>convert, <1>version, <1>tag, <1>string, <1>list, <1>next, <1>close,
     <1>output, <1>mismatch, <1>unwind, <1>stay
  DEF Next

\* Tokens that lie between two positions are what is read there.
LEMMA SpanReads ==
  ASSUME text \in Seq(Tokens), NEW tokens, NEW i \in Nat \ {0}, NEW j, j \in 1..Len(text) + 1,
         Span(tokens, i, j)
  PROVE  Reads(SubSeq(text, i, j - 1)) = tokens
<1> DEFINE n == Len(tokens)
           part == SubSeq(text, i, j - 1)
<1>1. /\ IsSeq(tokens) /\ n \in Nat /\ j = i + n /\ DOMAIN tokens = 1..n
      /\ \A q \in 1..n : ReadAs(At(i + q - 1)) = tokens[q]
  BY EmptyOrNot DEF Span
<1>2. Len(text) \in Nat
  OBVIOUS
<1> HIDE DEF n
<1>3. Len(part) = n /\ DOMAIN part = 1..n /\ \A q \in 1..n : part[q] = text[i + q - 1]
  BY <1>1, <1>2
<1>4. ASSUME NEW q \in 1..n PROVE ReadAs(part[q]) = tokens[q]
  <2>1. i + q - 1 \in 1..Len(text)
    BY <1>1, <1>2
  <2>2. At(i + q - 1) = text[i + q - 1]
    BY <2>1 DEF At
  <2> QED
    BY <1>1, <1>3, <2>2
<1> HIDE DEF part
<1>5. Reads(part) = [q \in 1..n |-> tokens[q]]
  BY <1>3, <1>4 DEF Reads
<1>6. tokens = [q \in 1..n |-> tokens[q]]
  <2>1. PICK S : tokens \in Seq(S)
    BY <1>1 DEF IsSeq
  <2> QED
    BY <1>1, <2>1
<1> QED
  BY <1>5, <1>6 DEF part

\* A derivation that is parsed is there, one part after the other.
LEMMA FieldsTaken ==
  ASSUME Kept, Accounted, Finished
  PROVE  LET V == frames[1].parts
         IN  /\ AllWell("output", V[1]) /\ AllWell("input", V[2]) /\ AllWell("string", V[3])
             /\ AllWell("string", V[6]) /\ AllWell("pair", V[7])
             /\ \E P : /\ P[1] = Start /\ P[15] = pos
                       /\ \A r \in 1..14 : TakenAt("derivation", V, P, r)
<1> DEFINE f == frames[1]
           V == f.parts
<1>1. Len(frames) = 1 /\ f.todo = <<>>
  BY DEF Accounted
<1>2. PICK A : A[1] = Start /\ Parsed(f, A[1], pos)
  <2>1. PICK A : Chain(frames, A, Start, pos)
    BY DEF Accounted, Finished
  <2>2. 1 \in 1..Len(frames) /\ Len(frames) + 1 = 2 /\ 1 + 1 = 2
    BY <1>1
  <2>3. A[1] = Start /\ A[2] = pos /\ Parsed(f, A[1], A[2])
    BY <2>1, <2>2 DEF Chain
  <2> QED
    BY <2>3
<1>3. f.kind = "derivation"
  <2>1. 1 \in 1..Len(frames)
    BY <1>1
  <2>2. Parser(f, 1, version)
    BY <2>1 DEF Kept, Nested
  <2> QED
    BY <2>2 DEF Parser
<1> HIDE DEF f
<1>4. PICK P, s : ParsedTo(f, A[1], pos, P, s)
  BY <1>2 DEF Parsed
<1>5. /\ s \in 1..Length("derivation") + 1 /\ Remaining(f.todo, "derivation", s)
      /\ Before(f, A[1], P[1]) /\ P[s] = pos
      /\ \A r \in 1..s - 1 : TakenAt("derivation", V, P, r)
  BY <1>3, <1>4 DEF ParsedTo
<1>6. "derivation" \in Parsers /\ Length("derivation") = 14
  BY DEF Parsers, Length
<1>7. s = 15
  BY <1>1, <1>5, <1>6, StepRemaining DEF f
<1>8. P[1] = Start
  BY <1>2, <1>3, <1>5 DEF Before
<1>9. s - 1 = 14
  BY <1>7
<1> HIDE DEF V
<1>10. \A r \in 1..14 : TakenAt("derivation", V, P, r)
  BY <1>5, <1>9
<1> DEFINE S == Script("derivation")
<1>11. /\ S[1] = List("output") /\ S[3] = List("input") /\ S[5] = List("string")
       /\ S[11] = List("string") /\ S[13] = List("pair")
  BY Scripts
<1>12. /\ Count("derivation", 1) + 1 = 1 /\ Count("derivation", 3) + 1 = 2
       /\ Count("derivation", 5) + 1 = 3 /\ Count("derivation", 11) + 1 = 6
       /\ Count("derivation", 13) + 1 = 7
  BY DEF Count
<1>13. \A r \in 1..14 : StepAt(S[r], V[Count("derivation", r) + 1], P[r], P[r + 1])
  BY <1>10 DEF TakenAt
<1> HIDE DEF S
<1>14. /\ StepAt(List("output"), V[1], P[1], P[1 + 1])
       /\ StepAt(List("input"), V[2], P[3], P[3 + 1])
       /\ StepAt(List("string"), V[3], P[5], P[5 + 1])
       /\ StepAt(List("string"), V[6], P[11], P[11 + 1])
       /\ StepAt(List("pair"), V[7], P[13], P[13 + 1])
  <2>1. 1 \in 1..14 /\ 3 \in 1..14 /\ 5 \in 1..14 /\ 11 \in 1..14 /\ 13 \in 1..14
    OBVIOUS
  <2> QED
    BY <1>11, <1>12, <1>13, <2>1
<1>15. \A kind, v, i, j : StepAt(List(kind), v, i, j) => AllWell(kind, v)
  BY PartsAt DEF Listed, AllWell
<1>16. /\ AllWell("output", V[1]) /\ AllWell("input", V[2]) /\ AllWell("string", V[3])
       /\ AllWell("string", V[6]) /\ AllWell("pair", V[7])
  BY <1>14, <1>15
<1>17. P[15] = pos
  BY <1>5, <1>7
<1> QED
  BY <1>8, <1>10, <1>16, <1>17 DEF V, f

\* Of the parts of a derivation that is finished nix would have written what was
\* read.
LEMMA AccountedFor == Kept /\ Accounted => NothingLost
<1> SUFFICES ASSUME Kept, Accounted, Finished PROVE NothingLost
  BY DEF NothingLost
<1> DEFINE V == frames[1].parts
           d == [outputs |-> V[1],
                 inputs |-> [i \in DOMAIN V[2] |-> Append(V[2][i], <<>>)],
                 srcs |-> V[3], platform |-> V[4], builder |-> V[5],
                 args |-> V[6], env |-> V[7]]
<1>1. /\ AllWell("output", V[1]) /\ AllWell("input", V[2]) /\ AllWell("string", V[3])
      /\ AllWell("string", V[6]) /\ AllWell("pair", V[7])
      /\ \E P : /\ P[1] = Start /\ P[15] = pos
                /\ \A r \in 1..14 : TakenAt("derivation", V, P, r)
  BY FieldsTaken
<1> HIDE DEF V
<1>2. DOMAIN V[2] = 1..Len(V[2])
  BY <1>1, EmptyOrNot DEF AllWell
<1>3. /\ d.outputs = V[1] /\ d.srcs = V[3] /\ d.platform = V[4] /\ d.builder = V[5]
      /\ d.args = V[6] /\ d.env = V[7]
      /\ DOMAIN d.inputs = 1..Len(V[2])
      /\ \A q \in 1..Len(V[2]) : d.inputs[q] = Append(V[2][q], <<>>)
  BY <1>2
<1>4. NothingLost <=> Reads(SubSeq(text, Start, pos - 1)) = Body(d)
  BY DEF NothingLost, Start, V
<1> HIDE DEF d
<1>5. HasFields(d, V)
  BY <1>1, <1>3 DEF HasFields
<1>6. Span(Body(d), Start, pos)
  BY <1>1, <1>5, BodySpans
<1>7. text \in Seq(Tokens) /\ pos \in 1..Len(text) + 1 /\ Start \in Nat \ {0}
  BY DEF Kept, Start
<1> QED
  BY <1>4, <1>6, <1>7, SpanReads

----------------------------------------------------------------------------
(* What a parser will take.                                                *)

\* At p the parser is about to take the steps that bring it to e, with parts V.
OnAt(f, p, V, e, P, s) ==
  /\ s \in 1..Length(f.kind) + 1 /\ Remaining(f.todo, f.kind, s)
  /\ IsSeq(f.parts) /\ Len(f.parts) = Count(f.kind, s)
  /\ IsSeq(V) /\ Len(V) = Count(f.kind, Length(f.kind) + 1)
  /\ \A q \in 1..Count(f.kind, s) : f.parts[q] = V[q]
  /\ P[s] = p /\ P[Length(f.kind) + 1] = e
  /\ \A r \in s..Length(f.kind) : TakenAt(f.kind, V, P, r)

On(f, p, V, e) == \E P, s : OnAt(f, p, V, e, P, s)

\* What becomes of a parser whose step yields v.
Advanced(f, v, g) ==
  /\ g.kind = f.kind /\ g.items = f.items /\ g.todo = Tail(f.todo)
  /\ g.parts = IF Head(f.todo)[1] = "tag" THEN f.parts ELSE Append(f.parts, v)

\* The outputs are made by a step of their own, and are the first part.
LEMMA OutputSteps ==
  ASSUME NEW kind \in Parsers, NEW s \in 1..Length(kind)
  PROVE  /\ Script(kind)[s] = Make => kind = "output" /\ Count(kind, s) = 4
         /\ kind = "derivation" /\ Script(kind)[s] = List("output") => Count(kind, s) = 0
<1>0. /\ Opening # Make /\ Separator # Make /\ Closing # Make /\ Str # Make /\ InputDrv # Make
      /\ \A k : List(k) # Make
  BY Kinded
<1>1. List("input") # List("output") /\ List("string") # List("output")
      /\ List("pair") # List("output") /\ Separator # List("output") /\ Str # List("output")
      /\ Closing # List("output")
  <2>1. /\ "input" # "output" /\ "string" # "output" /\ "pair" # "output"
    OBVIOUS
  <2>2. \A k : List(k)[2] = k /\ List(k)[1] = "list"
    BY Kinded
  <2>3. Separator[1] # "list" /\ Str[1] # "list" /\ Closing[1] # "list"
    BY Kinded
  <2>4. List("input") # List("output") /\ List("string") # List("output")
        /\ List("pair") # List("output")
    BY <2>1, <2>2
  <2> QED
    BY <2>2, <2>3, <2>4
<1> DEFINE f == Script(kind)
<1>2. CASE kind = "derivation"
  <2>1. Length(kind) = 14 /\ Count(kind, 1) = 0
    BY <1>2 DEF Length, Count
  <2>2. f = <<List("output"), Separator, List("input"), Separator, List("string"),
              Separator, Str, Separator, Str, Separator, List("string"), Separator,
              List("pair"), Closing>>
    BY <1>2, Scripts
  <2> HIDE DEF f
  <2>3. \A r \in 1..14 : \/ r = 1 \/ r = 2 \/ r = 3 \/ r = 4 \/ r = 5 \/ r = 6 \/ r = 7
                         \/ r = 8 \/ r = 9 \/ r = 10 \/ r = 11 \/ r = 12 \/ r = 13 \/ r = 14
    OBVIOUS
  <2>4. /\ f[1] # Make /\ f[2] # Make /\ f[3] # Make /\ f[4] # Make /\ f[5] # Make /\ f[6] # Make
        /\ f[7] # Make /\ f[8] # Make /\ f[9] # Make /\ f[10] # Make /\ f[11] # Make
        /\ f[12] # Make /\ f[13] # Make /\ f[14] # Make
    BY <1>0, <2>2
  <2>5. /\ f[2] # List("output") /\ f[3] # List("output") /\ f[4] # List("output")
        /\ f[5] # List("output") /\ f[6] # List("output") /\ f[7] # List("output")
        /\ f[8] # List("output") /\ f[9] # List("output") /\ f[10] # List("output")
        /\ f[11] # List("output") /\ f[12] # List("output") /\ f[13] # List("output")
        /\ f[14] # List("output")
    BY <1>1, <2>2
  <2>6. \A r \in 1..14 : f[r] # Make /\ (f[r] = List("output") => r = 1)
    BY <2>3, <2>4, <2>5
  <2> QED
    BY <2>1, <2>6 DEF f
<1>3. CASE kind = "output"
  <2>1. Length(kind) = 10 /\ Count(kind, 10) = 4
    BY <1>3 DEF Length, Count
  <2>2. f = <<Opening, Str, Separator, Str, Separator, Str, Separator, Str, Closing, Make>>
    BY <1>3, Scripts
  <2> HIDE DEF f
  <2>3. \A r \in 1..10 : \/ r = 1 \/ r = 2 \/ r = 3 \/ r = 4 \/ r = 5 \/ r = 6 \/ r = 7
                         \/ r = 8 \/ r = 9 \/ r = 10
    OBVIOUS
  <2>4. /\ f[1] # Make /\ f[2] # Make /\ f[3] # Make /\ f[4] # Make /\ f[5] # Make /\ f[6] # Make
        /\ f[7] # Make /\ f[8] # Make /\ f[9] # Make
    BY <1>0, <2>2
  <2>5. \A r \in 1..10 : f[r] = Make => r = 10
    BY <2>3, <2>4
  <2> QED
    BY <1>3, <2>1, <2>5 DEF f
<1>4. CASE kind \in {"input", "pair"}
  <2>1. Length(kind) = 5
    BY <1>4 DEF Length
  <2>2. \/ f = <<Opening, Str, Separator, InputDrv, Closing>>
        \/ f = <<Opening, Str, Separator, Str, Closing>>
    BY <1>4, Scripts
  <2> HIDE DEF f
  <2>3. \A r \in 1..5 : r = 1 \/ r = 2 \/ r = 3 \/ r = 4 \/ r = 5
    OBVIOUS
  <2>4. f[1] # Make /\ f[2] # Make /\ f[3] # Make /\ f[4] # Make /\ f[5] # Make
    BY <1>0, <2>2
  <2> QED
    BY <1>4, <2>1, <2>3, <2>4 DEF f
<1>5. CASE kind = "string"
  <2>1. Length(kind) = 1 /\ f = <<Str>>
    BY <1>5, Scripts DEF Length
  <2> HIDE DEF f
  <2>2. f[1] # Make
    BY <1>0, <2>1
  <2> QED
    BY <1>5, <2>1, <2>2 DEF f
<1> QED
  BY <1>2, <1>3, <1>4, <1>5 DEF Parsers, Kinds

\* The next step, and what becomes of the parser.
OnTakes(f, v, p, q, V, e) ==
  /\ StepAt(Head(f.todo), v, p, q)
  /\ Head(f.todo) = Make => /\ f.kind = "output" /\ v = V[5]
                            /\ f.parts[2] = V[2] /\ f.parts[3] = V[3] /\ f.parts[4] = V[4]
  /\ f.kind = "derivation" /\ Head(f.todo) = List("output") => v = V[1]
  /\ \A g : Advanced(f, v, g) => On(g, q, V, e)

\* A parser with parts ahead of it has a step that lies where it is.
LEMMA OnStep ==
  ASSUME NEW f, f.kind \in Parsers, NEW p, NEW V, NEW e, On(f, p, V, e), f.todo # <<>>
  PROVE  \E v, q : OnTakes(f, v, p, q, V, e)
<1>1. PICK P, s : OnAt(f, p, V, e, P, s)
  BY DEF On
<1> DEFINE kind == f.kind
           n == Length(kind)
           c == Count(kind, s)
           v == V[c + 1]
           q == P[s + 1]
<1>2. /\ s \in 1..n + 1 /\ Remaining(f.todo, kind, s)
      /\ IsSeq(f.parts) /\ Len(f.parts) = c
      /\ IsSeq(V) /\ Len(V) = Count(kind, n + 1)
      /\ \A m \in 1..c : f.parts[m] = V[m]
      /\ P[s] = p /\ P[n + 1] = e
      /\ \A r \in s..n : TakenAt(kind, V, P, r)
  BY <1>1 DEF OnAt
<1>3. s \in 1..n /\ Head(f.todo) = Script(kind)[s] /\ Remaining(Tail(f.todo), kind, s + 1)
  BY <1>2, StepRemaining
<1>4. /\ n \in Nat \ {0}
      /\ \A r \in 1..n :
              /\ Count(kind, r) \in Nat
              /\ Count(kind, r + 1) = IF Script(kind)[r][1] = "tag" THEN Count(kind, r)
                                      ELSE Count(kind, r) + 1
  BY Lengths
<1>5. TakenAt(kind, V, P, s) /\ c \in Nat
  BY <1>2, <1>3, <1>4
<1>6. StepAt(Head(f.todo), v, p, q)
  BY <1>2, <1>3, <1>5 DEF TakenAt
<1>7. /\ Head(f.todo) = Make => kind = "output" /\ c = 4
      /\ kind = "derivation" /\ Head(f.todo) = List("output") => c = 0
  BY <1>3, OutputSteps
<1>8. Head(f.todo) = Make => /\ kind = "output" /\ v = V[5]
                             /\ f.parts[2] = V[2] /\ f.parts[3] = V[3] /\ f.parts[4] = V[4]
  <2>1. SUFFICES ASSUME Head(f.todo) = Make
                 PROVE  /\ kind = "output" /\ v = V[5]
                        /\ f.parts[2] = V[2] /\ f.parts[3] = V[3] /\ f.parts[4] = V[4]
    OBVIOUS
  <2>2. kind = "output" /\ c = 4
    BY <1>7, <2>1
  <2>3. 2 \in 1..c /\ 3 \in 1..c /\ 4 \in 1..c /\ c + 1 = 5
    BY <2>2
  <2> HIDE DEF c
  <2> QED
    BY <1>2, <2>2, <2>3
<1>9. kind = "derivation" /\ Head(f.todo) = List("output") => v = V[1]
  BY <1>7
<1>10. ASSUME NEW g, Advanced(f, v, g) PROVE On(g, q, V, e)
  <2>1. /\ g.kind = kind /\ g.todo = Tail(f.todo)
        /\ g.parts = IF Head(f.todo)[1] = "tag" THEN f.parts ELSE Append(f.parts, v)
    BY <1>10 DEF Advanced
  <2>2. Remaining(g.todo, kind, s + 1) /\ s + 1 \in 1..n + 1
    BY <1>3, <1>4, <2>1
  <2>3. /\ IsSeq(g.parts) /\ Len(g.parts) = Count(kind, s + 1)
        /\ \A m \in 1..Count(kind, s + 1) : g.parts[m] = V[m]
    <3>1. CASE Head(f.todo)[1] = "tag"
      BY <1>2, <1>3, <1>4, <2>1, <3>1
    <3>2. CASE Head(f.todo)[1] # "tag"
      <4>1. g.parts = Append(f.parts, v) /\ Count(kind, s + 1) = c + 1
        BY <1>3, <1>4, <2>1, <3>2
      <4>2. /\ IsSeq(Append(f.parts, v)) /\ Len(Append(f.parts, v)) = c + 1
            /\ \A m \in 1..c : Append(f.parts, v)[m] = f.parts[m]
            /\ Append(f.parts, v)[c + 1] = v
        BY <1>2, PushStack
      <4> HIDE DEF c
      <4>3. \A m \in 1..c + 1 : m \in 1..c \/ m = c + 1
        BY <1>5
      <4> QED
        BY <1>2, <4>1, <4>2, <4>3
    <3> QED
      BY <3>1, <3>2
  <2>4. \A r \in s + 1..n : r \in s..n
    BY <1>3, <1>4
  <2>5. OnAt(g, q, V, e, P, s + 1)
    BY <1>2, <2>1, <2>2, <2>3, <2>4 DEF OnAt
  <2> QED
    BY <2>5 DEF On
<1>11. OnTakes(f, v, p, q, V, e)
  BY <1>6, <1>8, <1>9, <1>10 DEF OnTakes
<1> QED
  BY <1>11

\* Sequences are the same when their elements are.
LEMMA SameSeq ==
  ASSUME NEW s, IsSeq(s), NEW t, IsSeq(t), Len(s) = Len(t), \A i \in 1..Len(s) : s[i] = t[i]
  PROVE  s = t
<1>1. PICK S : s \in Seq(S)
  BY DEF IsSeq
<1>2. PICK T : t \in Seq(T)
  BY DEF IsSeq
<1> QED
  BY <1>1, <1>2

\* When all steps are taken, the parts are there.
LEMMA OnEnds ==
  ASSUME NEW f, f.kind \in Parsers, NEW p, NEW V, NEW e, On(f, p, V, e), f.todo = <<>>
  PROVE  f.parts = V /\ p = e
<1>1. PICK P, s : OnAt(f, p, V, e, P, s)
  BY DEF On
<1>2. s = Length(f.kind) + 1
  BY <1>1, StepRemaining DEF OnAt
<1>3. f.parts = V
  BY <1>1, <1>2, SameSeq DEF OnAt
<1> QED
  BY <1>1, <1>2, <1>3 DEF OnAt

\* The parts of an element, and where they will be taken.
LEMMA OnBegins ==
  ASSUME NEW kind \in Kinds, InputDrv = List("string"), NEW x, Well(kind, x), NEW i, NEW j,
         Span(Rendered(kind, x), i, j), NEW g, g.kind = kind, g.todo = Element(kind),
         g.parts = <<>>
  PROVE  On(g, i, PartsOf(kind, x), j)
<1> DEFINE V == PartsOf(kind, x)
           n == Length(kind)
<1>1. PICK P : P[1] = i /\ P[n + 1] = j /\ \A r \in 1..n : TakenAt(kind, V, P, r)
  BY ElementCuts
<1>2. kind \in Parsers /\ kind # "derivation"
  BY DEF Parsers, Kinds
<1>3. g.todo = Script(kind)
  BY <1>2 DEF Script
<1>4. Remaining(g.todo, kind, 1) /\ n \in Nat \ {0} /\ Count(kind, 1) = 0
  BY <1>2, <1>3, AllRemaining, Lengths
<1>5. IsSeq(g.parts) /\ Len(g.parts) = 0
  <2>1. <<>> \in Seq({}) /\ Len(<<>>) = 0
    OBVIOUS
  <2> QED
    BY <2>1 DEF IsSeq
<1>6. IsSeq(V) /\ Len(V) = Count(kind, n + 1)
  <2>1. CASE kind = "string"
    <3>1. V = <<x>> /\ n = 1
      BY <2>1 DEF PartsOf, Length
    <3>2. Count(kind, 1 + 1) = 1
      BY <2>1 DEF Count
    <3> QED
      BY <3>1, <3>2, One
  <2>2. CASE kind \in {"pair", "input"}
    <3>1. V = x /\ x = <<x[1], x[2]>> /\ n = 5
      BY <2>2 DEF PartsOf, Length, Well
    <3>2. Count(kind, 5 + 1) = 2
      BY <2>2 DEF Count
    <3>3. \A a, b : IsSeq(<<a, b>>) /\ Len(<<a, b>>) = 2
      BY ShortTuples
    <3> QED
      BY <3>1, <3>2, <3>3
  <2>3. CASE kind = "output"
    <3>1. V = x /\ x = <<x[1], x[2], x[3], x[4], x[5]>> /\ n = 10
      BY <2>3 DEF PartsOf, Length, Well
    <3>2. Count(kind, 10 + 1) = 5
      BY <2>3 DEF Count
    <3>3. \A a, b, c, d, e : IsSeq(<<a, b, c, d, e>>) /\ Len(<<a, b, c, d, e>>) = 5
      BY ShortTuples
    <3> QED
      BY <3>1, <3>2, <3>3
  <2> QED
    BY <2>1, <2>2, <2>3 DEF Kinds
<1>7. 1 \in 1..n + 1 /\ \A q \in 1..0 : FALSE
  BY <1>4
<1> HIDE DEF V, n
<1>8. OnAt(g, i, V, j, P, 1)
  BY <1>1, <1>4, <1>5, <1>6, <1>7 DEF OnAt, n
<1> QED
  BY <1>8 DEF On, V

\* Each output is of the kind that it says, and of no other.
Known(outputs) ==
  \A q \in 1..Len(outputs) :
    OutputKinds(outputs[q][2], outputs[q][3], outputs[q][4]) = {outputs[q][5]}

\* The parser is at element m of a list with a bracket at j.
WorkingAt(f, p, O, Q, m, j) ==
  /\ AllWell(f.kind, O) /\ (f.kind = "output" => Known(O)) /\ m \in 1..Len(O)
  /\ IsSeq(f.items) /\ Len(f.items) = m - 1 /\ \A q \in 1..m - 1 : f.items[q] = O[q]
  /\ Cuts(RenderedAll(f.kind, O), Len(O), Q, Q[1], j) /\ j \in Nat /\ ReadAs(At(j)) = Tag("]")
  /\ On(f, p, PartsOf(f.kind, O[m]), Q[m + 1] - 1)

\* From p the parser goes on to E, where the list that it parses is O, or the parts
\* of the derivation are.
Working(f, p, E, O) ==
  IF f.kind = "derivation" THEN Known(O[1]) /\ On(f, p, O, E)
  ELSE \E Q, m, j : E = j + 1 /\ WorkingAt(f, p, O, Q, m, j)

\* Its next step, and what becomes of it.
Takes(f, v, p, q, E, O) ==
  /\ StepAt(Head(f.todo), v, p, q)
  /\ Head(f.todo) = Make => OutputKinds(f.parts[2], f.parts[3], f.parts[4]) = {v}
  /\ f.kind = "derivation" /\ Head(f.todo) = List("output") => Known(v)
  /\ \A g : Advanced(f, v, g) => Working(g, q, E, O)

\* So has one that is at an element of a list, and an output is made of its one kind.
LEMMA WorkingStep ==
  ASSUME NEW f, f.kind \in Parsers, NEW p, NEW E, NEW O, Working(f, p, E, O), f.todo # <<>>
  PROVE  \E v, q : Takes(f, v, p, q, E, O)
<1>1. CASE f.kind = "derivation"
  <2>1. Known(O[1]) /\ On(f, p, O, E)
    BY <1>1 DEF Working
  <2>2. PICK v, q : OnTakes(f, v, p, q, O, E)
    BY <2>1, OnStep
  <2>3. /\ StepAt(Head(f.todo), v, p, q)
        /\ Head(f.todo) = Make => f.kind = "output"
        /\ Head(f.todo) = List("output") => v = O[1]
        /\ \A g : Advanced(f, v, g) => On(g, q, O, E)
    BY <1>1, <2>2 DEF OnTakes
  <2>4. \A g : Advanced(f, v, g) => Working(g, q, E, O)
    BY <1>1, <2>1, <2>3 DEF Advanced, Working
  <2>5. Takes(f, v, p, q, E, O)
    BY <1>1, <2>1, <2>3, <2>4 DEF Takes
  <2> QED
    BY <2>5
<1>2. CASE f.kind # "derivation"
  <2>1. PICK Q, m, j : E = j + 1 /\ WorkingAt(f, p, O, Q, m, j)
    BY <1>2 DEF Working
  <2> DEFINE V == PartsOf(f.kind, O[m])
  <2>2. On(f, p, V, Q[m + 1] - 1)
    BY <2>1 DEF WorkingAt
  <2> HIDE DEF V
  <2>3. PICK v, q : OnTakes(f, v, p, q, V, Q[m + 1] - 1)
    BY <2>2, OnStep
  <2>4. /\ StepAt(Head(f.todo), v, p, q)
        /\ Head(f.todo) = Make => /\ f.kind = "output" /\ v = V[5]
                                  /\ f.parts[2] = V[2] /\ f.parts[3] = V[3] /\ f.parts[4] = V[4]
        /\ \A g : Advanced(f, v, g) => On(g, q, V, Q[m + 1] - 1)
    BY <2>3 DEF OnTakes
  <2>5. Head(f.todo) = Make => OutputKinds(f.parts[2], f.parts[3], f.parts[4]) = {v}
    <3>1. SUFFICES ASSUME Head(f.todo) = Make
                   PROVE  OutputKinds(f.parts[2], f.parts[3], f.parts[4]) = {v}
      OBVIOUS
    <3>2. V = O[m]
      BY <2>4, <3>1 DEF V, PartsOf
    <3>3. OutputKinds(O[m][2], O[m][3], O[m][4]) = {O[m][5]}
      BY <2>1, <2>4, <3>1 DEF WorkingAt, Known
    <3> QED
      BY <2>4, <3>1, <3>2, <3>3
  <2>6. ASSUME NEW g, Advanced(f, v, g) PROVE Working(g, q, E, O)
    <3>1. g.kind = f.kind /\ g.items = f.items /\ On(g, q, PartsOf(g.kind, O[m]), Q[m + 1] - 1)
      BY <2>4, <2>6 DEF Advanced, V
    <3>2. WorkingAt(g, q, O, Q, m, j)
      BY <2>1, <3>1 DEF WorkingAt
    <3> QED
      BY <1>2, <2>1, <3>1, <3>2 DEF Working
  <2>7. Takes(f, v, p, q, E, O)
    BY <1>2, <2>4, <2>5, <2>6 DEF Takes
  <2> QED
    BY <2>7
<1> QED
  BY <1>1, <1>2

\* An element is what its parts make.
LEMMA ItemOfParts ==
  ASSUME NEW kind, NEW x
  PROVE  Item(kind, PartsOf(kind, x)) = x
BY DEF Item, PartsOf

\* After the last element comes the bracket, and after each other one a comma and
\* the next.
LEMMA WorkingEnds ==
  ASSUME NEW f, f.kind \in Kinds, InputDrv = List("string"), NEW p, NEW E, NEW O,
         Working(f, p, E, O), f.todo = <<>>, NEW ys, ys = Append(f.items, Item(f.kind, f.parts))
  PROVE  \/ ReadAs(At(p)) = Tag("]") /\ E = p + 1 /\ ys = O
         \/ /\ ReadAs(At(p)) = Separator
            /\ \A g : g.kind = f.kind /\ g.items = ys /\ g.todo = Element(f.kind) /\ g.parts = <<>>
                        => Working(g, p + 1, E, O)
<1> DEFINE kind == f.kind
           n == Len(O)
           rs == RenderedAll(kind, O)
<1>0. kind \in Parsers /\ kind # "derivation"
  BY DEF Parsers, Kinds
<1>1. PICK Q, m, j : E = j + 1 /\ WorkingAt(f, p, O, Q, m, j)
  BY <1>0 DEF Working
<1>2. /\ AllWell(kind, O) /\ (kind = "output" => Known(O)) /\ m \in 1..n
      /\ IsSeq(f.items) /\ Len(f.items) = m - 1 /\ \A q \in 1..m - 1 : f.items[q] = O[q]
      /\ Cuts(rs, n, Q, Q[1], j) /\ j \in Nat /\ ReadAs(At(j)) = Tag("]")
      /\ On(f, p, PartsOf(kind, O[m]), Q[m + 1] - 1)
  BY <1>1 DEF WorkingAt
<1>3. f.parts = PartsOf(kind, O[m]) /\ p = Q[m + 1] - 1
  BY <1>0, <1>2, OnEnds
<1>4. ys = Append(f.items, O[m])
  BY <1>3, ItemOfParts
<1>5. n \in Nat /\ IsSeq(O) /\ \A q \in 1..n : Well(kind, O[q])
  BY <1>2, EmptyOrNot DEF AllWell
<1>6. /\ DOMAIN rs = 1..n /\ \A q \in 1..n : rs[q] = Rendered(kind, O[q])
  BY <1>5, EmptyOrNot DEF RenderedAll
<1> HIDE DEF n, rs
<1>7. m \in Nat /\ m \in 1..n /\ m >= 1
  BY <1>2, <1>5
<1>8. /\ Q[n + 1] = j + 1
      /\ \A r \in 1..n : /\ Q[r] \in Nat /\ Q[r + 1] \in Nat /\ Span(rs[r], Q[r], Q[r + 1] - 1)
                         /\ r < n => ReadAs(At(Q[r + 1] - 1)) = Separator
  BY <1>2 DEF Cuts
<1>9. /\ IsSeq(ys) /\ Len(ys) = m /\ \A q \in 1..m : ys[q] = O[q]
  <2>1. /\ IsSeq(Append(f.items, O[m])) /\ Len(Append(f.items, O[m])) = (m - 1) + 1
        /\ \A i \in 1..m - 1 : Append(f.items, O[m])[i] = f.items[i]
        /\ Append(f.items, O[m])[(m - 1) + 1] = O[m]
    BY <1>2, PushStack
  <2>2. (m - 1) + 1 = m /\ \A q \in 1..m : q \in 1..m - 1 \/ q = m
    BY <1>7
  <2> QED
    BY <1>2, <1>4, <2>1, <2>2
<1>10. CASE m = n
  <2>1. p = j
    <3>1. Q[m + 1] = j + 1
      BY <1>8, <1>10
    <3>2. j \in Nat /\ p = Q[m + 1] - 1
      BY <1>2, <1>3
    <3> QED
      BY <3>1, <3>2
  <2>2. ys = O
    BY <1>5, <1>9, <1>10, SameSeq DEF n
  <2> QED
    BY <1>1, <1>2, <2>1, <2>2
<1>11. CASE m # n
  <2>1. m < n /\ m + 1 \in 1..n
    BY <1>5, <1>7, <1>11
  <2>2. /\ Q[m + 1] \in Nat /\ ReadAs(At(Q[m + 1] - 1)) = Separator
        /\ Span(rs[m + 1], Q[m + 1], Q[m + 1 + 1] - 1)
    BY <1>7, <1>8, <2>1
  <2>3. ReadAs(At(p)) = Separator /\ p + 1 = Q[m + 1]
    BY <1>3, <2>2
  <2>4. ASSUME NEW g, g.kind = kind, g.items = ys, g.todo = Element(kind), g.parts = <<>>
        PROVE  Working(g, p + 1, E, O)
    <3>1. Well(kind, O[m + 1]) /\ rs[m + 1] = Rendered(kind, O[m + 1])
      BY <1>5, <1>6, <2>1
    <3> DEFINE e == Q[m + 1 + 1] - 1
    <3>2. Span(Rendered(kind, O[m + 1]), p + 1, e)
      BY <2>2, <2>3, <3>1
    <3> HIDE DEF e
    <3>3. On(g, p + 1, PartsOf(kind, O[m + 1]), e)
      BY <2>4, <3>1, <3>2, OnBegins
    <3>4. (m + 1) - 1 = m
      BY <1>7
    <3>5. WorkingAt(g, p + 1, O, Q, m + 1, j)
      BY <1>2, <1>9, <2>1, <2>4, <3>3, <3>4 DEF WorkingAt, n, rs, e
    <3> QED
      BY <1>0, <1>1, <2>4, <3>5 DEF Working
  <2> QED
    BY <2>3, <2>4
<1> QED
  BY <1>10, <1>11

\* Where a list lies there is its bracket, and behind it another or the first element.
LEMMA WorkingBegins ==
  ASSUME NEW kind \in Kinds, InputDrv = List("string"), NEW O, NEW p, NEW E, Listed(kind, O, p, E),
         kind = "output" => Known(O)
  PROVE  /\ p \in Nat /\ ReadAs(At(p)) = Tag("[")
         /\ \/ O = <<>> /\ ReadAs(At(p + 1)) = Tag("]") /\ E = p + 2
            \/ \A g : g.kind = kind /\ g.items = <<>> /\ g.todo = Element(kind) /\ g.parts = <<>>
                        => Working(g, p + 1, E, O)
<1> DEFINE n == Len(O)
           rs == RenderedAll(kind, O)
<1>0. kind \in Parsers /\ kind # "derivation"
  BY DEF Parsers, Kinds
<1>1. IsSeq(O) /\ (\A q \in 1..n : Well(kind, O[q])) /\ Span(Between("[", rs, "]"), p, E)
  BY DEF Listed
<1>2. AllWell(kind, O) /\ \A q \in 1..n : Part(Rendered(kind, O[q]))
  BY <1>1, RenderedIsPart DEF AllWell
<1>3. /\ DOMAIN rs = 1..n /\ n \in Nat /\ \A q \in 1..n : rs[q] = Rendered(kind, O[q])
      /\ IsSeq(Join(rs)) /\ (Join(rs) = <<>> <=> O = <<>>)
  BY <1>1, <1>2, ListIsPart
<1> HIDE DEF rs
<1>4. PICK j \in Nat : /\ p \in Nat /\ ReadAs(At(p)) = Tag("[") /\ Span(Join(rs), p + 1, j)
                       /\ ReadAs(At(j)) = Tag("]") /\ E = j + 1
  BY <1>1, <1>3, BetweenSpans
<1>5. CASE O = <<>>
  <2>1. Len(Join(rs)) = 0
    BY <1>3, <1>5, EmptyOrNot
  <2>2. j = p + 1
    BY <1>4, <2>1 DEF Span
  <2> QED
    BY <1>4, <1>5, <2>2
<1>6. CASE O # <<>>
  <2>1. n # 0 /\ 1 \in 1..n /\ n \in Nat \ {0}
    BY <1>1, <1>3, <1>6, EmptyOrNot
  <2>2. \A q \in 1..n : Part(rs[q])
    BY <1>2, <1>3
  <2> HIDE DEF n
  <2>3. PICK Q : Cuts(rs, n, Q, p + 1, j)
    BY <1>3, <1>4, <2>1, <2>2, JoinCuts
  <2>4. Q[1] = p + 1 /\ Span(rs[1], Q[1], Q[1 + 1] - 1)
    BY <2>1, <2>3 DEF Cuts
  <2> DEFINE e == Q[1 + 1] - 1
  <2>5. Span(Rendered(kind, O[1]), p + 1, e) /\ Well(kind, O[1])
    BY <1>1, <1>3, <2>1, <2>4 DEF n
  <2> HIDE DEF e
  <2>6. ASSUME NEW g, g.kind = kind, g.items = <<>>, g.todo = Element(kind), g.parts = <<>>
        PROVE  Working(g, p + 1, E, O)
    <3>1. On(g, p + 1, PartsOf(kind, O[1]), e)
      BY <2>5, <2>6, OnBegins
    <3>2. IsSeq(<<>>) /\ Len(<<>>) = 0
      <4>1. <<>> \in Seq({}) /\ Len(<<>>) = 0
        OBVIOUS
      <4> QED
        BY <4>1 DEF IsSeq
    <3>3. 1 - 1 = 0 /\ \A q \in 1..1 - 1 : FALSE
      OBVIOUS
    <3>4. WorkingAt(g, p + 1, O, Q, 1, j)
      BY <1>2, <1>4, <2>1, <2>3, <2>4, <2>6, <3>1, <3>2, <3>3 DEF WorkingAt, n, rs, e
    <3> QED
      BY <1>0, <1>4, <2>6, <3>4 DEF Working
  <2> QED
    BY <1>4, <2>6
<1> QED
  BY <1>5, <1>6

----------------------------------------------------------------------------
(* A text that nix wrote.                                                  *)

\* The parser waits for a list, which is xs and ends at j, to go on behind it.
Waits(f, xs, j, E, O) ==
  f.todo # <<>> /\ \A g : Advanced(f, xs, g) => Working(g, j, E, O)

\* The parsers of a stack will be done at the positions E, with what is in O: those
\* below the top when the lists that they are at are.
Line(s, E, O, w) ==
  O[1] = w /\ \A i \in 1..Len(s) - 1 : Waits(s[i], O[i + 1], E[i + 1], E[i], O[i])

\* The parser of an element that is none: the list is empty.
Vain(f, p, E, O) ==
  /\ O = <<>> /\ f.items = <<>> /\ f.saved = p /\ f.todo = Element(f.kind)
  /\ p \in Nat /\ At(p) = Tag("]") /\ E = p + 1

\* The parsers will yield w, and those of an empty list will when they have failed.
Heading(s, p, w) ==
  \E E, O : Line(s, E, O, w) /\ Working(s[Len(s)], p, E[Len(s)], O[Len(s)])

Failing(s, p, w) ==
  Len(s) # 1 /\ \E E, O : Line(s, E, O, w) /\ Vain(s[Len(s)], p, E[Len(s)], O[Len(s)])

\* Where tokens lie depends on nothing but the text.
LEMMA StepsUnmoved ==
  ASSUME text' = text
  PROVE  /\ \A i : At(i)' = At(i)
         /\ \A t, i, j : Span(t, i, j)' <=> Span(t, i, j)
         /\ \A step, v, i, j : StepAt(step, v, i, j)' <=> StepAt(step, v, i, j)
<1>1. \A i : At(i)' = At(i)
  BY DEF At
<1>2. \A t, i, j : Span(t, i, j)' <=> Span(t, i, j)
  BY <1>1 DEF Span
<1>3. \A kind, xs, i, j : Listed(kind, xs, i, j)' <=> Listed(kind, xs, i, j)
  BY <1>2 DEF Listed
<1>4. \A step, v, i, j : StepAt(step, v, i, j)' <=> StepAt(step, v, i, j)
  BY <1>2, <1>3 DEF StepAt
<1> QED
  BY <1>1, <1>2, <1>4

\* Nor does where the parsers are heading, but for the version.
LEMMA HeadingUnmoved ==
  ASSUME text' = text, version' = version
  PROVE  /\ \A s, p, w : Heading(s, p, w)' <=> Heading(s, p, w)
         /\ \A s, p, w : Failing(s, p, w)' <=> Failing(s, p, w)
<1>1. /\ \A i : At(i)' = At(i)
      /\ \A t, i, j : Span(t, i, j)' <=> Span(t, i, j)
      /\ \A step, v, i, j : StepAt(step, v, i, j)' <=> StepAt(step, v, i, j)
  BY StepsUnmoved
<1>2. \A kind : Element(kind)' = Element(kind) /\ Script(kind)' = Script(kind)
  <2>1. InputDrv' = InputDrv
    BY DEF InputDrv
  <2> QED
    BY <2>1 DEF Script, Element
<1>3. \A kind, V, P, r : TakenAt(kind, V, P, r)' <=> TakenAt(kind, V, P, r)
  BY <1>1, <1>2 DEF TakenAt
<1>4. \A todo, kind, s : Remaining(todo, kind, s)' <=> Remaining(todo, kind, s)
  BY <1>2 DEF Remaining
<1>5. \A f, p, V, e, P, s : OnAt(f, p, V, e, P, s)' <=> OnAt(f, p, V, e, P, s)
  BY <1>3, <1>4 DEF OnAt
<1>6. \A f, p, V, e : On(f, p, V, e)' <=> On(f, p, V, e)
  BY <1>5 DEF On
<1>7. \A parts, n, Q, i, j : Cuts(parts, n, Q, i, j)' <=> Cuts(parts, n, Q, i, j)
  BY <1>1 DEF Cuts
<1>8. \A f, p, O, Q, m, j : WorkingAt(f, p, O, Q, m, j)' <=> WorkingAt(f, p, O, Q, m, j)
  BY <1>1, <1>6, <1>7 DEF WorkingAt
<1>9. \A f, p, E, O : Working(f, p, E, O)' <=> Working(f, p, E, O)
  BY <1>6, <1>8 DEF Working
<1>10. \A f, xs, j, E, O : Waits(f, xs, j, E, O)' <=> Waits(f, xs, j, E, O)
  BY <1>9 DEF Waits
<1>11. \A s, E, O, w : Line(s, E, O, w)' <=> Line(s, E, O, w)
  BY <1>10 DEF Line
<1>12. \A f, p, E, O : Vain(f, p, E, O)' <=> Vain(f, p, E, O)
  BY <1>1, <1>2 DEF Vain
<1> QED
  BY <1>9, <1>11, <1>12 DEF Heading, Failing

\* The lower part of a stack.
LEMMA Relined ==
  ASSUME NEW s, Len(s) \in Nat, NEW E, NEW O, NEW w, Line(s, E, O, w), NEW m \in Nat,
         m + 1 <= Len(s), NEW t, Len(t) = m + 1, \A i \in 1..m : t[i] = s[i]
  PROVE  Line(t, E, O, w)
<1>1. \A i \in 1..Len(t) - 1 : i \in 1..m /\ i \in 1..Len(s) - 1
  OBVIOUS
<1> QED
  BY <1>1 DEF Line

\* And a stack with a parser more.
LEMMA Lengthened ==
  ASSUME NEW s, Len(s) \in Nat, Len(s) >= 1, NEW E, NEW O, NEW w, Line(s, E, O, w), NEW t,
         Len(t) = Len(s) + 1, \A i \in 1..Len(s) : t[i] = s[i], NEW xs, NEW j,
         Waits(s[Len(s)], xs, j, E[Len(s)], O[Len(s)])
  PROVE  \E F, U : Line(t, F, U, w) /\ F[Len(t)] = j /\ U[Len(t)] = xs
<1> DEFINE n == Len(s)
           F == [i \in 1..n + 1 |-> IF i = n + 1 THEN j ELSE E[i]]
           U == [i \in 1..n + 1 |-> IF i = n + 1 THEN xs ELSE O[i]]
<1>1. /\ F[n + 1] = j /\ U[n + 1] = xs /\ \A i \in 1..n : F[i] = E[i] /\ U[i] = O[i]
  OBVIOUS
<1>2. Len(t) = n + 1 /\ n \in Nat /\ n >= 1
  OBVIOUS
<1> HIDE DEF F, U
<1>3. U[1] = w
  BY <1>1, <1>2 DEF Line
<1>4. ASSUME NEW i \in 1..Len(t) - 1 PROVE Waits(t[i], U[i + 1], F[i + 1], F[i], U[i])
  <2>1. i \in 1..n /\ t[i] = s[i] /\ F[i] = E[i] /\ U[i] = O[i]
    BY <1>1, <1>2
  <2>2. CASE i = n
    BY <1>1, <2>1, <2>2
  <2>3. CASE i # n
    <3>1. i \in 1..n - 1 /\ i + 1 \in 1..n
      BY <1>2, <2>1, <2>3
    <3>2. Waits(s[i], O[i + 1], E[i + 1], E[i], O[i])
      BY <3>1 DEF Line
    <3> QED
      BY <1>1, <2>1, <3>1, <3>2
  <2> QED
    BY <2>2, <2>3
<1>5. Line(t, F, U, w)
  BY <1>3, <1>4 DEF Line
<1> QED
  BY <1>1, <1>2, <1>5

\* What lies where a step is taken.
LEMMA StepShows ==
  ASSUME NEW step, NEW v, NEW p, NEW q, StepAt(step, v, p, q)
  PROVE  /\ step[1] = "tag" => q = p + 1 /\ At(p) = step
         /\ step = Str => q = p + 1 /\ At(p) \in Strings /\ v = Content[At(p)[2]]
         /\ step[1] = "list" => Listed(step[2], v, p, q)
         /\ step = Make => p \in Nat /\ q = p
         /\ step # Unfinished
<1>1. /\ Str[1] = "string" /\ Make[1] = "new" /\ Unfinished[1] = "todo"
  BY Kinded
<1>2. ASSUME step[1] = "tag" PROVE q = p + 1 /\ At(p) = step
  <2>1. Span(<<step>>, p, q)
    BY <1>1, <1>2 DEF StepAt
  <2>2. q = p + 1 /\ ReadAs(At(p)) = step
    BY <2>1, SpanOfOne
  <2>3. At(p) = step
    BY <1>2, <2>2 DEF ReadAs, Quoted
  <2> QED
    BY <2>2, <2>3
<1>3. ASSUME step = Str PROVE q = p + 1 /\ At(p) \in Strings /\ v = Content[At(p)[2]]
  <2>1. Span(<<Quoted(v)>>, p, q)
    BY <1>3, PartsAt DEF Word
  <2>2. q = p + 1 /\ ReadAs(At(p)) = Quoted(v)
    BY <2>1, SpanOfOne
  <2> QED
    BY <2>2, ReadQuoted
<1>4. ASSUME step[1] = "list" PROVE Listed(step[2], v, p, q)
  BY <1>1, <1>4 DEF StepAt
<1>5. ASSUME step = Make PROVE p \in Nat /\ q = p
  BY <1>5, PartsAt
<1>6. step # Unfinished
  BY PartsAt
<1> QED
  BY <1>2, <1>3, <1>4, <1>5, <1>6

\* A step of the innermost parser leaves the parsers heading where they did.
LEMMA AdvanceHeads ==
  ASSUME Kept, InElement, NEW E, NEW O, NEW w, Line(frames, E, O, w), NEW v, NEW q,
         Takes(Top, v, pos, q, E[Len(frames)], O[Len(frames)]), NEW taken, NEW parts,
         IsSeq(Top.parts), parts = IF Goal[1] = "tag" THEN <<>> ELSE <<v>>, pos + taken = q,
         Advance(taken, parts)
  PROVE  Heading(frames', pos', w)
<1> DEFINE n == Len(frames)
           m == n - 1
           g == [Top EXCEPT !.todo = Tail(@), !.parts = @ \o parts]
           t == Append(Below, g)
<1>1. frames # <<>> /\ Goal = Head(Top.todo)
  BY GoalFacts DEF Goal
<1>2. /\ n \in Nat /\ n >= 1 /\ Top = frames[n] /\ Parser(Top, n, version)
      /\ IsSeq(Below) /\ Len(Below) = n - 1 /\ \A i \in 1..n - 1 : Below[i] = frames[i]
  BY <1>1, TopFacts
<1>3. frames' = t /\ pos' = q
  BY DEF Advance
<1>4. g = [kind |-> Top.kind, saved |-> Top.saved, items |-> Top.items,
           parts |-> Top.parts \o parts, todo |-> Tail(Top.todo)]
  <2> DEFINE others == Top.parts \o parts
             todo == Tail(Top.todo)
  <2>1. g = [Top EXCEPT !.todo = todo, !.parts = others]
    BY <1>2 DEF Parser
  <2>3. Parser(Top, n, version)
    BY <1>2
  <2> HIDE DEF g, t, m, n, others, todo
  <2>2. [Top EXCEPT !.todo = todo, !.parts = others]
          = [kind |-> Top.kind, saved |-> Top.saved, items |-> Top.items,
             parts |-> others, todo |-> todo]
    BY <2>3, ParserGoesOn
  <2> QED
    BY <2>1, <2>2 DEF others, todo
<1>5. m \in Nat /\ m + 1 = n /\ m + 1 <= n /\ Len(Below) = m
  BY <1>2
<1>6. Top.parts \o parts = IF Goal[1] = "tag" THEN Top.parts ELSE Append(Top.parts, v)
  BY PartsFollow
<1> HIDE DEF g, m, n
<1>7. Advanced(Top, v, g)
  <2>1. /\ g.kind = Top.kind /\ g.items = Top.items /\ g.todo = Tail(Top.todo)
        /\ g.parts = IF Goal[1] = "tag" THEN Top.parts ELSE Append(Top.parts, v)
    BY <1>4, <1>6
  <2> QED
    BY <1>1, <2>1 DEF Advanced
<1>8. Working(g, q, E[n], O[n])
  BY <1>7 DEF Takes, n
<1>9. Len(t) = m + 1 /\ (\A i \in 1..m : t[i] = frames[i]) /\ t[m + 1] = g
  <2>1. /\ Len(Append(Below, g)) = Len(Below) + 1
        /\ \A i \in 1..Len(Below) : Append(Below, g)[i] = Below[i]
        /\ Append(Below, g)[Len(Below) + 1] = g
    BY <1>2, PushStack
  <2> QED
    BY <1>2, <1>5, <2>1 DEF m, n
<1> HIDE DEF t
<1>10. Line(t, E, O, w)
  <2>1. m \in Nat /\ Len(frames) \in Nat /\ m + 1 <= Len(frames)
    BY <1>2, <1>5 DEF n
  <2> QED
    BY <1>9, <2>1, Relined
<1>11. Len(t) = n /\ t[Len(t)] = g
  BY <1>5, <1>9
<1> QED
  BY <1>3, <1>8, <1>10, <1>11 DEF Heading

\* A list that ends where it should leaves the parsers around it so too.
LEMMA EndListHeads ==
  ASSUME Kept, frames # <<>>, Below # <<>>, NEW E, NEW O, NEW w, Line(frames, E, O, w), NEW items,
         items = O[Len(frames)], NEW here, E[Len(frames)] = here + 1, EndList(items, here)
  PROVE  Heading(frames', pos', w)
<1> DEFINE n == Len(frames)
           m == n - 2
           f == Last(Below)
           g == [f EXCEPT !.todo = Tail(@), !.parts = Append(@, items)]
           t == Append(Front(Below), g)
<1>1. /\ n \in Nat /\ n >= 1 /\ Top = frames[n] /\ IsSeq(Below) /\ Len(Below) = n - 1
      /\ \A i \in 1..n - 1 : Below[i] = frames[i]
      /\ n # 1
  BY TopFacts
<1>2. /\ f = Below[Len(Below)] /\ IsSeq(Front(Below)) /\ Len(Front(Below)) = Len(Below) - 1
      /\ \A i \in 1..Len(Below) - 1 : Front(Below)[i] = Below[i]
  BY <1>1, PopStack
<1>3. /\ m \in Nat /\ m + 1 \in 1..n - 1 /\ m + 1 \in 1..n /\ m + 2 = n /\ (m + 1) + 1 = n
      /\ m + 1 <= n
      /\ f = frames[m + 1] /\ Len(Front(Below)) = m /\ \A i \in 1..m : Front(Below)[i] = frames[i]
  BY <1>1, <1>2
<1>4. frames' = t /\ pos' = here + 1
  BY DEF EndList
<1>5. /\ \A i \in 1..n : Parser(frames[i], i, version)
      /\ \A i \in 1..n - 1 : Opened(frames[i], frames[i + 1])
  BY DEF Kept, Nested
<1>6. Parser(f, m + 1, version) /\ Opened(f, Top)
  BY <1>1, <1>3, <1>5
<1>7. f.todo # <<>> /\ Head(f.todo) = List(Top.kind)
  BY <1>6 DEF Opened
<1>8. Waits(f, O[n], E[n], E[m + 1], O[m + 1])
  BY <1>3 DEF Line
<1>9. g = [kind |-> f.kind, saved |-> f.saved, items |-> f.items,
           parts |-> Append(f.parts, items), todo |-> Tail(f.todo)]
  <2> DEFINE others == Append(f.parts, items)
             todo == Tail(f.todo)
  <2>1. g = [f EXCEPT !.todo = todo, !.parts = others]
    BY <1>6 DEF Parser
  <2> HIDE DEF g, t, m, n, f, others, todo
  <2>2. [f EXCEPT !.todo = todo, !.parts = others]
          = [kind |-> f.kind, saved |-> f.saved, items |-> f.items,
             parts |-> others, todo |-> todo]
    BY <1>6, ParserGoesOn
  <2> QED
    BY <2>1, <2>2 DEF others, todo
<1> HIDE DEF g, m, n, f
<1>10. Working(g, here + 1, E[m + 1], O[m + 1])
  <2>1. /\ g.kind = f.kind /\ g.items = f.items /\ g.todo = Tail(f.todo)
        /\ g.parts = Append(f.parts, items)
    BY <1>9
  <2>2. Head(f.todo)[1] # "tag"
    BY <1>7, Kinded
  <2>3. Advanced(f, items, g)
    BY <2>1, <2>2 DEF Advanced
  <2> QED
    BY <1>8, <2>3 DEF Waits, n
<1>11. Len(t) = m + 1 /\ (\A i \in 1..m : t[i] = frames[i]) /\ t[m + 1] = g
  <2> DEFINE front == Front(Below)
  <2>1. IsSeq(front) /\ Len(front) = m /\ \A i \in 1..m : front[i] = frames[i]
    BY <1>2, <1>3
  <2> HIDE DEF front
  <2>2. /\ IsSeq(Append(front, g)) /\ Len(Append(front, g)) = Len(front) + 1
        /\ \A i \in 1..Len(front) : Append(front, g)[i] = front[i]
        /\ Append(front, g)[Len(front) + 1] = g
    BY <2>1, PushStack
  <2>3. t = Append(front, g)
    BY DEF front
  <2> HIDE DEF t
  <2> QED
    BY <2>1, <2>2, <2>3
<1> HIDE DEF t
<1>12. Line(t, E, O, w)
  BY <1>1, <1>3, <1>11, Relined DEF n
<1>13. Len(t) = m + 1 /\ t[Len(t)] = g
  BY <1>11
<1> QED
  BY <1>4, <1>10, <1>12, <1>13 DEF Heading

\* What is between brackets comes to something.
LEMMA BetweenIsPart ==
  ASSUME NEW parts, NEW n \in Nat, DOMAIN parts = 1..n, \A q \in 1..n : Part(parts[q])
  PROVE  \A open, close : Part(Between(open, parts, close))
<1>1. IsSeq(Join(parts))
  BY JoinParts
<1> QED
  BY <1>1, BetweenSpans

\* And so does a list.
LEMMA EachIsPart ==
  ASSUME NEW xs, IsSeq(xs), NEW parts, DOMAIN parts = DOMAIN xs,
         \A q \in 1..Len(xs) : Part(parts[q])
  PROVE  \A open, close : Part(Between(open, parts, close))
<1>1. Len(xs) \in Nat /\ DOMAIN parts = 1..Len(xs)
  BY EmptyOrNot
<1> DEFINE n == Len(xs)
<1>2. n \in Nat /\ DOMAIN parts = 1..n /\ \A q \in 1..n : Part(parts[q])
  BY <1>1
<1> HIDE DEF n
<1> QED
  BY <1>2, BetweenIsPart

\* Brackets around two parts are a part.
LEMMA TwoAreParts ==
  ASSUME NEW a, Part(a), NEW b, Part(b)
  PROVE  \A open, close : Part(Between(open, <<a, b>>, close))
<1> DEFINE t == <<a, b>>
<1>1. DOMAIN t = 1..2 /\ t[1] = a /\ t[2] = b
  OBVIOUS
<1> HIDE DEF t
<1>2. \A q \in 1..2 : q = 1 \/ q = 2
  OBVIOUS
<1>3. \A q \in 1..2 : Part(t[q])
  BY <1>1, <1>2
<1>4. \A open, close : Part(Between(open, t, close))
  BY <1>1, <1>3, BetweenIsPart
<1> QED
  BY <1>4 DEF t

\* And around four.
LEMMA FourAreParts ==
  ASSUME NEW a, Part(a), NEW b, Part(b), NEW c, Part(c), NEW d, Part(d)
  PROVE  \A open, close : Part(Between(open, <<a, b, c, d>>, close))
<1> DEFINE t == <<a, b, c, d>>
<1>1. DOMAIN t = 1..4 /\ t[1] = a /\ t[2] = b /\ t[3] = c /\ t[4] = d
  OBVIOUS
<1> HIDE DEF t
<1>2. \A q \in 1..4 : q = 1 \/ q = 2 \/ q = 3 \/ q = 4
  OBVIOUS
<1>3. \A q \in 1..4 : Part(t[q])
  BY <1>1, <1>2
<1>4. \A open, close : Part(Between(open, t, close))
  BY <1>1, <1>3, BetweenIsPart
<1> QED
  BY <1>4 DEF t

\* And around seven.
LEMMA SevenAreParts ==
  ASSUME NEW a, Part(a), NEW b, Part(b), NEW c, Part(c), NEW d, Part(d), NEW e, Part(e),
         NEW f, Part(f), NEW g, Part(g)
  PROVE  \A open, close : Part(Between(open, <<a, b, c, d, e, f, g>>, close))
<1> DEFINE t == <<a, b, c, d, e, f, g>>
<1>1. /\ DOMAIN t = 1..7 /\ t[1] = a /\ t[2] = b /\ t[3] = c /\ t[4] = d /\ t[5] = e /\ t[6] = f
      /\ t[7] = g
  OBVIOUS
<1> HIDE DEF t
<1>2. \A q \in 1..7 : q = 1 \/ q = 2 \/ q = 3 \/ q = 4 \/ q = 5 \/ q = 6 \/ q = 7
  OBVIOUS
<1>3. \A q \in 1..7 : Part(t[q])
  BY <1>1, <1>2
<1>4. \A open, close : Part(Between(open, t, close))
  BY <1>1, <1>3, BetweenIsPart
<1> QED
  BY <1>4 DEF t

\* The fields of a derivation are sequences, and so are those of its inputs.
LEMMA FieldSeqs ==
  ASSUME NEW d \in Drvs
  PROVE  /\ IsSeq(d.outputs) /\ IsSeq(d.inputs) /\ IsSeq(d.srcs) /\ IsSeq(d.args) /\ IsSeq(d.env)
         /\ \A q \in 1..Len(d.outputs) : Well("output", d.outputs[q])
         /\ \A q \in 1..Len(d.env) : Well("pair", d.env[q])
         /\ \A q \in 1..Len(d.inputs) :
              LET i == d.inputs[q]
              IN  /\ i = <<i[1], i[2], i[3]>> /\ IsSeq(i[2]) /\ IsSeq(i[3])
                  /\ \A r \in 1..Len(i[3]) : IsSeq(i[3][r][2])
<1>1. /\ d.outputs \in Seq(STRING \X STRING \X STRING \X STRING \X STRING)
      /\ d.inputs \in Seq(STRING \X Seq(STRING) \X Seq(STRING \X Seq(STRING)))
      /\ d.srcs \in Seq(STRING) /\ d.args \in Seq(STRING)
      /\ d.env \in Seq(STRING \X STRING)
  BY DrvsType
<1>2. IsSeq(d.outputs) /\ IsSeq(d.inputs) /\ IsSeq(d.srcs) /\ IsSeq(d.args) /\ IsSeq(d.env)
  BY <1>1 DEF IsSeq
<1>3. ASSUME NEW q \in 1..Len(d.outputs) PROVE Well("output", d.outputs[q])
  <2>1. d.outputs[q] \in STRING \X STRING \X STRING \X STRING \X STRING
    BY <1>1
  <2> DEFINE x == d.outputs[q]
  <2> HIDE DEF x
  <2>2. x \in STRING \X STRING \X STRING \X STRING \X STRING
    BY <2>1 DEF x
  <2>3. x = <<x[1], x[2], x[3], x[4], x[5]>>
    BY <2>2
  <2> QED
    BY <2>3 DEF Well, x
<1>4. ASSUME NEW q \in 1..Len(d.env) PROVE Well("pair", d.env[q])
  <2>1. d.env[q] \in STRING \X STRING
    BY <1>1
  <2> DEFINE x == d.env[q]
  <2> HIDE DEF x
  <2>2. x = <<x[1], x[2]>>
    BY <2>1 DEF x
  <2> QED
    BY <2>2 DEF Well, x
<1>5. ASSUME NEW q \in 1..Len(d.inputs)
      PROVE  LET i == d.inputs[q]
             IN  /\ i = <<i[1], i[2], i[3]>> /\ IsSeq(i[2]) /\ IsSeq(i[3])
                 /\ \A r \in 1..Len(i[3]) : IsSeq(i[3][r][2])
  <2> DEFINE x == d.inputs[q]
  <2>1. x \in STRING \X Seq(STRING) \X Seq(STRING \X Seq(STRING))
    BY <1>1
  <2> HIDE DEF x
  <2>2. x = <<x[1], x[2], x[3]>> /\ x[2] \in Seq(STRING) /\ x[3] \in Seq(STRING \X Seq(STRING))
    BY <2>1
  <2>3. ASSUME NEW r \in 1..Len(x[3]) PROVE IsSeq(x[3][r][2])
    <3>1. x[3][r] \in STRING \X Seq(STRING)
      BY <2>2
    <3>2. x[3][r][2] \in Seq(STRING)
      BY <3>1
    <3> QED
      BY <3>2 DEF IsSeq
  <2>4. IsSeq(x[2]) /\ IsSeq(x[3])
    BY <2>2 DEF IsSeq
  <2> QED
    BY <2>2, <2>3, <2>4 DEF x
<1> QED
  BY <1>2, <1>3, <1>4, <1>5

\* What nix writes of an input, with or without the outputs of its outputs.
LEMMA InputIsPart ==
  ASSUME NEW x, IsSeq(x[2]), IsSeq(x[3]), \A r \in 1..Len(x[3]) : IsSeq(x[3][r][2])
  PROVE  Part(Input(x))
<1> DEFINE children == [r \in DOMAIN x[3] |-> Child(x[3][r])]
           wanted == IF x[3] = <<>> THEN Words(x[2])
                     ELSE Between("(", <<Words(x[2]), ListOf(Child, x[3])>>, ")")
<1>1. Part(Words(x[2])) /\ Part(Word(x[1]))
  BY WordsAreListed, WordIsPart
<1>2. DOMAIN children = DOMAIN x[3] /\ Len(x[3]) \in Nat /\ DOMAIN x[3] = 1..Len(x[3])
  BY EmptyOrNot
<1>3. ASSUME NEW r \in 1..Len(x[3]) PROVE Part(children[r])
  <2> DEFINE y == x[3][r]
  <2>1. Part(Words(y[2])) /\ Part(Word(y[1]))
    BY WordsAreListed, WordIsPart
  <2> HIDE DEF y
  <2>2. Part(Child(y))
    BY <2>1, TwoAreParts, Zenon DEF Child
  <2>3. children[r] = Child(y)
    BY <1>2 DEF y
  <2> QED
    BY <2>2, <2>3
<1>4. ListOf(Child, x[3]) = Between("[", children, "]")
  BY Zenon DEF ListOf
<1> HIDE DEF children
<1>5. Part(ListOf(Child, x[3]))
  BY <1>2, <1>3, <1>4, EachIsPart
<1>6. Part(Between("(", <<Words(x[2]), ListOf(Child, x[3])>>, ")"))
  BY <1>1, <1>5, TwoAreParts, Zenon
<1>7. Part(wanted)
  BY <1>1, <1>6
<1>8. Input(x) = Between("(", <<Word(x[1]), wanted>>, ")")
  BY Zenon DEF Input
<1> HIDE DEF wanted
<1>9. Part(Between("(", <<Word(x[1]), wanted>>, ")"))
  BY <1>1, <1>7, TwoAreParts, Zenon
<1> QED
  BY <1>8, <1>9

\* What nix writes of a derivation is a sequence, dynamic or not.
LEMMA BodyIsSeq ==
  ASSUME NEW d \in Drvs
  PROVE  IsSeq(Body(d))
<1>0. /\ IsSeq(d.outputs) /\ IsSeq(d.inputs) /\ IsSeq(d.srcs) /\ IsSeq(d.args) /\ IsSeq(d.env)
      /\ \A q \in 1..Len(d.inputs) :
           LET i == d.inputs[q]
           IN  /\ IsSeq(i[2]) /\ IsSeq(i[3])
               /\ \A r \in 1..Len(i[3]) : IsSeq(i[3][r][2])
  BY FieldSeqs
<1>1. Part(ListOf(Output, d.outputs))
  <2> DEFINE parts == [q \in DOMAIN d.outputs |-> Output(d.outputs[q])]
  <2>1. \A x : Part(Output(x))
    BY WordIsPart, FourAreParts, Zenon DEF Output
  <2>2. DOMAIN parts = DOMAIN d.outputs /\ \A q \in 1..Len(d.outputs) : Part(parts[q])
    BY <1>0, <2>1, EmptyOrNot
  <2>3. ListOf(Output, d.outputs) = Between("[", parts, "]")
    BY Zenon DEF ListOf
  <2> HIDE DEF parts
  <2> QED
    BY <1>0, <2>2, <2>3, EachIsPart
<1>2. Part(ListOf(Input, d.inputs))
  <2> DEFINE parts == [q \in DOMAIN d.inputs |-> Input(d.inputs[q])]
  <2>1. \A q \in 1..Len(d.inputs) : Part(Input(d.inputs[q]))
    BY <1>0, InputIsPart
  <2>2. DOMAIN parts = DOMAIN d.inputs /\ \A q \in 1..Len(d.inputs) : Part(parts[q])
    BY <1>0, <2>1, EmptyOrNot
  <2>3. ListOf(Input, d.inputs) = Between("[", parts, "]")
    BY Zenon DEF ListOf
  <2> HIDE DEF parts
  <2> QED
    BY <1>0, <2>2, <2>3, EachIsPart
<1>3. Part(ListOf(Pair, d.env))
  <2> DEFINE parts == [q \in DOMAIN d.env |-> Pair(d.env[q])]
  <2>1. \A x : Part(Pair(x))
    BY WordIsPart, TwoAreParts, Zenon DEF Pair
  <2>2. DOMAIN parts = DOMAIN d.env /\ \A q \in 1..Len(d.env) : Part(parts[q])
    BY <1>0, <2>1, EmptyOrNot
  <2>3. ListOf(Pair, d.env) = Between("[", parts, "]")
    BY Zenon DEF ListOf
  <2> HIDE DEF parts
  <2> QED
    BY <1>0, <2>2, <2>3, EachIsPart
<1>4. Part(Words(d.srcs)) /\ Part(Words(d.args)) /\ Part(Word(d.platform)) /\ Part(Word(d.builder))
  BY <1>0, WordsAreListed, WordIsPart
<1>5. \E open :
        Body(d) = Tail(Between(open, <<ListOf(Output, d.outputs), ListOf(Input, d.inputs),
                                       Words(d.srcs), Word(d.platform), Word(d.builder),
                                       Words(d.args), ListOf(Pair, d.env)>>, ")"))
  BY Zenon DEF Body
<1> DEFINE a == ListOf(Output, d.outputs)
           b == ListOf(Input, d.inputs)
           c == Words(d.srcs)
           e == Word(d.platform)
           f == Word(d.builder)
           g == Words(d.args)
           h == ListOf(Pair, d.env)
<1>6. PICK open : Body(d) = Tail(Between(open, <<a, b, c, e, f, g, h>>, ")"))
  BY <1>5
<1>7. Part(a) /\ Part(b) /\ Part(c) /\ Part(e) /\ Part(f) /\ Part(g) /\ Part(h)
  BY <1>1, <1>2, <1>3, <1>4
<1> HIDE DEF a, b, c, e, f, g, h
<1>8. Part(Between(open, <<a, b, c, e, f, g, h>>, ")"))
  BY <1>7, SevenAreParts
<1> QED
  BY <1>6, <1>8, PopHead DEF Part

\* A prefix agrees with what it is one of.
LEMMA PrefixAgrees ==
  ASSUME NEW r, IsSeq(r), NEW t, IsSeq(t), IsPrefix(r, t)
  PROVE  /\ Len(r) \in Nat /\ Len(t) \in Nat /\ Len(r) <= Len(t)
         /\ \A i \in 1..Len(r) : r[i] = t[i]
<1>0. PICK S, T : r \in Seq(S) /\ t \in Seq(T)
  BY DEF IsSeq
<1> DEFINE n == Len(r)
<1>1. n \in Nat /\ Len(t) \in Nat /\ n <= Len(t)
  BY <1>0 DEF IsPrefix
<1>2. SubSeq(r, 1, n) = SubSeq(t, 1, n)
  BY <1>0 DEF IsPrefix
<1>3. ASSUME NEW i \in 1..n PROVE r[i] = t[i]
  <2>1. n \in 0..Len(r) /\ n \in 0..Len(t)
    BY <1>1
  <2> HIDE DEF n
  <2>2. SubSeq(r, 1, n)[i] = r[i] /\ SubSeq(t, 1, n)[i] = t[i]
    BY <1>0, <1>1, <1>3, <2>1
  <2> QED
    BY <1>2, <2>2
<1> QED
  BY <1>1, <1>3

\* What nix writes of a derivation, from its version on, lies where the file begins.
LEMMA WrittenLies ==
  ASSUME text \in Seq(Tokens), NEW d, Written(d), d \in Drvs, IsSeq(Rendering(d))
  PROVE  Span(Rendering(d), 1, 1 + Len(Rendering(d)))
<1> DEFINE r == Rendering(d)
           t == Reads(text)
           n == Len(text)
<1>1. IsPrefix(r, t)
  BY DEF Written, Renderings
<1>2. n \in Nat /\ DOMAIN text = 1..n
  OBVIOUS
<1>3. t = [i \in 1..n |-> ReadAs(text[i])]
  BY DEF Reads
<1>4. IsSeq(t) /\ Len(t) = n /\ \A i \in 1..n : t[i] = ReadAs(text[i])
  <2> DEFINE T == {ReadAs(text[i]) : i \in 1..n}
  <2>1. \A i \in 1..n : ReadAs(text[i]) \in T
    OBVIOUS
  <2> HIDE DEF T, n
  <2>2. t \in Seq(T) /\ Len(t) = n
    <3>1. t \in [1..n -> T]
      BY <1>3, <2>1
    <3> QED
      BY <1>2, <3>1
  <2> QED
    BY <1>3, <2>2 DEF IsSeq
<1> HIDE DEF r, t
<1>5. /\ Len(r) \in Nat /\ Len(r) <= n /\ \A i \in 1..Len(r) : r[i] = t[i]
  <2>1. IsSeq(r)
    BY DEF r
  <2> QED
    BY <1>1, <1>4, <2>1, PrefixAgrees
<1>6. ASSUME NEW q \in 1..Len(r) PROVE ReadAs(At(1 + q - 1)) = r[q]
  <2>1. q \in 1..n /\ 1 + q - 1 = q
    BY <1>2, <1>5
  <2>2. At(1 + q - 1) = text[q]
    BY <2>1 DEF At
  <2> QED
    BY <1>4, <1>5, <2>1, <2>2
<1> QED
  BY <1>5, <1>6 DEF Span, r

\* A traditional one is the tag and the fields.
LEMMA TraditionalLies ==
  ASSUME text \in Seq(Tokens), NEW d \in Drvs, Written(d), ~IsDynamic(d)
  PROVE  At(1) = Tag("Derive(") /\ \E e : Span(Body(d), 2, e)
<1> DEFINE a == <<Tag("Derive(")>>
           body == Body(d)
<1>1. IsSeq(a) /\ IsSeq(body)
  BY One, BodyIsSeq
<1>2. Rendering(d) = a \o body
  BY DEF Rendering
<1> HIDE DEF body, a
<1>3. IsSeq(Rendering(d))
  BY <1>1, <1>2, Follows
<1> DEFINE N == 1 + Len(Rendering(d))
<1>4. Span(a \o body, 1, N)
  BY <1>2, <1>3, WrittenLies
<1> HIDE DEF N
<1>5. PICK k \in Nat : Span(a, 1, k) /\ Span(body, k, N)
  BY <1>1, <1>4, SpanSplits
<1>6. ReadAs(At(1)) = Tag("Derive(") /\ k = 2
  BY <1>5, SpanOfOne DEF a
<1>7. At(1) = Tag("Derive(")
  BY <1>6, ReadTag
<1> QED
  BY <1>5, <1>6, <1>7 DEF body

\* A dynamic one has its version, and a comma behind it.
LEMMA DynamicLies ==
  ASSUME text \in Seq(Tokens), NEW d \in Drvs, Written(d), IsDynamic(d)
  PROVE  At(1) = Tag("DrvWithVersion(") /\ At(3) = Separator
<1> DEFINE a == <<Tag("DrvWithVersion("), Quoted("xp-dyn-drv"), Separator>>
           body == Body(d)
<1>1. IsSeq(a) /\ Len(a) = 3 /\ a[1] = Tag("DrvWithVersion(") /\ a[3] = Separator
  <2> DEFINE x == Tag("DrvWithVersion(")
             y == Quoted("xp-dyn-drv")
  <2>1. a = <<x, y, Separator>>
    OBVIOUS
  <2> HIDE DEF x, y, a
  <2>2. a \in Seq({x, y, Separator}) /\ Len(a) = 3 /\ a[1] = x /\ a[3] = Separator
    BY <2>1
  <2> QED
    BY <2>2 DEF IsSeq, x
<1>2. Rendering(d) = a \o body
  BY Zenon DEF Rendering, Separator
<1>3. IsSeq(body)
  BY BodyIsSeq
<1> HIDE DEF body, a
<1>4. IsSeq(Rendering(d))
  BY <1>1, <1>2, <1>3, Follows
<1> DEFINE N == 1 + Len(Rendering(d))
<1>5. Span(a \o body, 1, N)
  BY <1>2, <1>4, WrittenLies
<1> HIDE DEF N
<1>6. PICK k \in Nat : Span(a, 1, k)
  BY <1>1, <1>3, <1>5, SpanSplits
<1>7. 1 \in 1..Len(a) /\ 3 \in 1..Len(a) /\ 1 + 1 - 1 = 1 /\ 1 + 3 - 1 = 3
  BY <1>1
<1>8. ReadAs(At(1)) = Tag("DrvWithVersion(") /\ ReadAs(At(3)) = Separator
  BY <1>1, <1>6, <1>7 DEF Span
<1> QED
  BY <1>8, ReadTag, Zenon DEF Separator

\* A file that begins as what nix writes of a derivation, and is taken for a
\* dynamic one, has a comma after the version.
LEMMA DynamicRendering ==
  ASSUME text \in Seq(Tokens), NEW d \in Drvs, Written(d), At(1) = Tag("DrvWithVersion(")
  PROVE  At(3) = Tag(",")
<1>1. Tag("DrvWithVersion(") # Tag("Derive(")
  BY DEF Tag
<1>2. IsDynamic(d)
  BY <1>1, TraditionalLies
<1> QED
  BY <1>2, DynamicLies, Zenon DEF Separator

----------------------------------------------------------------------------
(* What a derivation should be parsed to.                                  *)

\* The parts of a traditional derivation.
Plan(d) ==
  <<d.outputs, [i \in DOMAIN d.inputs |-> <<d.inputs[i][1], d.inputs[i][2]>>],
    d.srcs, d.platform, d.builder, d.args, d.env>>

\* What a derivation means is what its parts make.
LEMMA PlanIsMeant ==
  ASSUME NEW d
  PROVE  Meaning(d) = Derivation(Plan(d))
BY DEF Meaning, Plan

\* An output that nix wrote is taken for what it is.
LEMMA OutputIsKnown ==
  ASSUME NEW d \in Drvs
  PROVE  Known(d.outputs)
<1> SUFFICES ASSUME NEW q \in 1..Len(d.outputs)
             PROVE  OutputKinds(d.outputs[q][2], d.outputs[q][3], d.outputs[q][4])
                      = {d.outputs[q][5]}
  BY DEF Known
<1> DEFINE path == d.outputs[q][2]
           algo == d.outputs[q][3]
           hash == d.outputs[q][4]
           kind == d.outputs[q][5]
<1>1. q \in DOMAIN d.outputs
  BY FieldSeqs, EmptyOrNot
<1>2. \/ kind = "InputAddressed" /\ path \in StorePaths /\ algo = "" /\ hash = ""
      \/ kind = "CAFixed" /\ path \in StorePaths /\ algo \in Algorithms /\ hash \notin {"", "impure"}
      \/ kind = "CAFloating" /\ path = "" /\ algo \in Algorithms /\ hash = ""
      \/ kind = "Impure" /\ path = "" /\ algo \in Algorithms /\ hash = "impure"
      \/ kind = "Deferred" /\ path = "" /\ algo = "" /\ hash = ""
  BY <1>1, OutputsAreKnown, Zenon
<1> HIDE DEF path, algo, hash, kind
<1>3. "" \notin Algorithms /\ "" \notin StorePaths
  BY NoAlgorithmIsEmpty
<1>4. PICK e : e = ""
  OBVIOUS
<1>5. ASSUME NEW k
      PROVE  k \in OutputKinds(path, algo, hash)
             <=> /\ k \in {"Impure", "CAFixed", "CAFloating", "Deferred", "InputAddressed"}
                 /\ \/ k = "Impure" /\ algo \in Algorithms /\ hash = "impure" /\ path = e
                    \/ k = "CAFixed" /\ algo \in Algorithms /\ hash \notin {e, "impure"}
                    \/ k = "CAFloating" /\ algo \in Algorithms /\ hash = e /\ path = e
                    \/ k = "Deferred" /\ algo = e /\ path = e
                    \/ k = "InputAddressed" /\ algo = e /\ path \in StorePaths
  BY <1>4, Zenon DEF OutputKinds
<1>6. \/ kind = "InputAddressed" /\ path \in StorePaths /\ algo = e /\ hash = e
      \/ kind = "CAFixed" /\ path \in StorePaths /\ algo \in Algorithms /\ hash \notin {e, "impure"}
      \/ kind = "CAFloating" /\ path = e /\ algo \in Algorithms /\ hash = e
      \/ kind = "Impure" /\ path = e /\ algo \in Algorithms /\ hash = "impure"
      \/ kind = "Deferred" /\ path = e /\ algo = e /\ hash = e
  BY <1>2, <1>4, Zenon
<1>7. e \notin Algorithms /\ e \notin StorePaths /\ e # "impure"
  BY <1>3, <1>4, Zenon
<1> HIDE <1>4
<1>8. \A k : k \in OutputKinds(path, algo, hash) <=> k = kind
  BY <1>5, <1>6, <1>7
<1> QED
  BY <1>8 DEF path, algo, hash, kind

\* The parts of a traditional derivation are its fields.
LEMMA PlanFields ==
  ASSUME NEW d \in Drvs, ~IsDynamic(d)
  PROVE  HasFields(d, Plan(d)) /\ IsSeq(Plan(d)) /\ Len(Plan(d)) = 7 /\ Plan(d)[1] = d.outputs
<1> DEFINE inputs == [i \in DOMAIN d.inputs |-> <<d.inputs[i][1], d.inputs[i][2]>>]
           V == <<d.outputs, inputs, d.srcs, d.platform, d.builder, d.args, d.env>>
           n == Len(d.inputs)
<1>1. V = Plan(d)
  BY DEF Plan
<1>2. /\ IsSeq(d.outputs) /\ IsSeq(d.inputs) /\ IsSeq(d.srcs) /\ IsSeq(d.args) /\ IsSeq(d.env)
      /\ \A q \in 1..Len(d.outputs) : Well("output", d.outputs[q])
      /\ \A q \in 1..Len(d.env) : Well("pair", d.env[q])
      /\ \A q \in 1..n :
              LET i == d.inputs[q]
              IN  i = <<i[1], i[2], i[3]>> /\ IsSeq(i[2])
  BY FieldSeqs
<1>3. n \in Nat /\ DOMAIN d.inputs = 1..n
  BY <1>2, EmptyOrNot
<1>4. DOMAIN inputs = 1..n /\ \A q \in 1..n : inputs[q] = <<d.inputs[q][1], d.inputs[q][2]>>
  BY <1>3
<1> HIDE DEF n, inputs
<1>5. IsSeq(inputs) /\ Len(inputs) = n
  <2> DEFINE T == {inputs[q] : q \in 1..n}
  <2>1. inputs \in [1..n -> T]
    <3>1. inputs = [q \in 1..n |-> inputs[q]]
      BY <1>4 DEF inputs
    <3> QED
      BY <3>1
  <2>2. inputs \in Seq(T) /\ Len(inputs) = n
    <3> HIDE DEF T
    <3> QED
      BY <1>3, <2>1
  <2> QED
    BY <2>2 DEF IsSeq
<1>6. ASSUME NEW q \in 1..n
      PROVE  Well("input", inputs[q]) /\ d.inputs[q] = Append(inputs[q], <<>>)
  <2> DEFINE x == d.inputs[q]
             y == inputs[q]
  <2>1. x = <<x[1], x[2], x[3]>> /\ IsSeq(x[2]) /\ x[3] = <<>>
    BY <1>2, <1>3 DEF IsDynamic
  <2>2. y = <<x[1], x[2]>>
    BY <1>4
  <2> HIDE DEF x, y
  <2>3. y = <<y[1], y[2]>> /\ y[2] = x[2]
    BY <2>2
  <2>4. Well("input", y)
    BY <2>1, <2>3 DEF Well
  <2>5. x = Append(y, <<>>)
    <3> DEFINE a == x[1]
               b == x[2]
               c == x[3]
    <3>1. x = <<a, b, c>> /\ y = <<a, b>> /\ c = <<>>
      BY <2>1, <2>2
    <3> HIDE DEF a, b, c
    <3>2. Append(<<a, b>>, c) = <<a, b, c>>
      <4> DEFINE t == <<a, b>>
                 u == <<a, b, c>>
      <4>1. t \in Seq({a, b, c}) /\ Len(t) = 2 /\ t[1] = a /\ t[2] = b
        OBVIOUS
      <4>2. u \in Seq({a, b, c}) /\ Len(u) = 3 /\ u[1] = a /\ u[2] = b /\ u[3] = c
        OBVIOUS
      <4> HIDE DEF t, u
      <4>3. Append(t, c) \in Seq({a, b, c}) /\ Len(Append(t, c)) = 3 /\ Append(t, c)[1] = a
            /\ Append(t, c)[2] = b /\ Append(t, c)[3] = c
        BY <4>1
      <4>4. \A i \in 1..3 : i = 1 \/ i = 2 \/ i = 3
        OBVIOUS
      <4>5. Append(t, c) = u
        BY <4>2, <4>3, <4>4, SameSeq DEF IsSeq
      <4> QED
        BY <4>5 DEF t, u
    <3> QED
      BY <3>1, <3>2
  <2> QED
    BY <2>4, <2>5 DEF x, y
<1>7. /\ AllWell("output", d.outputs) /\ AllWell("pair", d.env) /\ AllWell("input", inputs)
  BY <1>2, <1>5, <1>6 DEF AllWell
<1>8. AllWell("string", d.srcs) /\ AllWell("string", d.args)
  BY <1>2 DEF AllWell, Well
<1>9. /\ V[1] = d.outputs /\ V[2] = inputs /\ V[3] = d.srcs /\ V[4] = d.platform
      /\ V[5] = d.builder /\ V[6] = d.args /\ V[7] = d.env /\ Len(V) = 7
  OBVIOUS
<1>10. IsSeq(V)
  <2> DEFINE a == d.outputs
             b == d.srcs
             c == d.platform
             e == d.builder
             f == d.args
             g == d.env
  <2>1. V = <<a, inputs, b, c, e, f, g>>
    OBVIOUS
  <2> HIDE DEF a, b, c, e, f, g, V
  <2> QED
    BY <2>1, LongTuples
<1> HIDE DEF V
<1>11. HasFields(d, V)
  BY <1>3, <1>5, <1>6, <1>7, <1>8, <1>9 DEF HasFields
<1> QED
  BY <1>1, <1>9, <1>10, <1>11

----------------------------------------------------------------------------
(* The parser keeps to what nix wrote.                                     *)

\* An element begins with a bracket or with a string.
LEMMA Beginnings ==
  ASSUME NEW kind \in Kinds
  PROVE  Element(kind) # <<>> /\ Head(Element(kind)) \in {Opening, Str}
<1>1. kind # "derivation" /\ kind \in {"output", "input", "string", "pair"}
  BY DEF Kinds
<1>2. Element(kind) # <<>>
  BY ElementSteps
<1>3. Script(kind) = Element(kind)
  BY <1>1 DEF Script
<1>4. Head(Element(kind)) \in {Opening, Str}
  <2> DEFINE e == Element(kind)
  <2>1. \/ e = <<Opening, Str, Separator, Str, Separator, Str, Separator, Str, Closing, Make>>
        \/ e = <<Opening, Str, Separator, InputDrv, Closing>>
        \/ e = <<Str>>
        \/ e = <<Opening, Str, Separator, Str, Closing>>
    BY <1>1, <1>3, Scripts
  <2> HIDE DEF e
  <2>2. Head(e) \in {Opening, Str}
    BY <2>1
  <2> QED
    BY <2>2 DEF e
<1> QED
  BY <1>2, <1>4

\* The parts of a parser are a sequence.
LEMMA WorkingParts ==
  ASSUME NEW f, NEW p, NEW E, NEW O, Working(f, p, E, O)
  PROVE  IsSeq(f.parts)
<1>1. \E V, e : On(f, p, V, e)
  BY DEF Working, WorkingAt
<1> QED
  BY <1>1 DEF On, OnAt

\* What becomes of the state of the parser.
Onward(w) ==
  /\ text' = text /\ version' = version
  /\ \/ pc' = "parse" /\ (Heading(frames', pos', w) \/ Failing(frames', pos', w))
     \/ pc' = "unwind" /\ Failing(frames', pos', w)
     \/ pc' = "done" /\ drv' = Derivation(w)

\* A parser that is at a list finds its bracket.
LEMMA HeadingOpens ==
  ASSUME Kept, version = "Traditional", InElement, Goal[1] = "list", NEW E, NEW O, NEW w,
         Line(frames, E, O, w), NEW v, NEW q, Takes(Top, v, pos, q, E[Len(frames)], O[Len(frames)])
  PROVE  At(pos) = Tag("[") /\ (OpenList => Onward(w))
<1> DEFINE n == Len(frames)
           kind == Goal[2]
           g == Frame(kind, pos + 1, Element(kind))
           t == Append(frames, g)
<1>1. frames # <<>> /\ Goal \in StepsOf(Top.kind, version) /\ Goal = Head(Top.todo)
      /\ Top.todo # <<>> /\ pc = "parse"
  BY GoalFacts DEF Goal, InElement
<1>2. /\ n \in Nat /\ n >= 1 /\ Top = frames[n] /\ Parser(Top, n, version) /\ IsSeq(frames)
  BY <1>1, TopFacts DEF Kept, Nested
<1>3. kind \in Kinds /\ Goal = List(kind)
  <2>1. Goal \in Lists
    BY <1>1, ListSteps
  <2> QED
    BY <2>1 DEF Lists, List, Kinds
<1>4. kind = "output" => Top.kind = "derivation"
  BY <1>1, <1>2, <1>3, Waiting
<1>5. /\ StepAt(Goal, v, pos, q)
      /\ kind = "output" => Known(v)
      /\ \A f : Advanced(Top, v, f) => Working(f, q, E[n], O[n])
  BY <1>1, <1>3, <1>4 DEF Takes
<1>6. Listed(kind, v, pos, q)
  BY <1>5, StepShows
<1>7. InputDrv = List("string")
  BY DEF InputDrv
<1>8. pos \in Nat
  BY DEF Kept
<1>9. Waits(frames[n], v, q, E[n], O[n])
  BY <1>1, <1>2, <1>5 DEF Waits
<1>10. g = [kind |-> kind, saved |-> pos + 1, items |-> <<>>, parts |-> <<>>,
            todo |-> Element(kind)]
  BY DEF Frame
<1> HIDE DEF g, kind
<1>11. /\ g.kind = kind /\ g.saved = pos + 1 /\ g.items = <<>> /\ g.parts = <<>>
       /\ g.todo = Element(kind)
  BY <1>10
<1>12. /\ ReadAs(At(pos)) = Tag("[")
       /\ \/ v = <<>> /\ ReadAs(At(pos + 1)) = Tag("]") /\ q = pos + 2
          \/ Working(g, pos + 1, q, v)
  <2>1. /\ ReadAs(At(pos)) = Tag("[")
        /\ \/ v = <<>> /\ ReadAs(At(pos + 1)) = Tag("]") /\ q = pos + 2
           \/ \A f : f.kind = kind /\ f.items = <<>> /\ f.todo = Element(kind) /\ f.parts = <<>>
                       => Working(f, pos + 1, q, v)
    BY <1>3, <1>5, <1>6, <1>7, WorkingBegins
  <2> QED
    BY <1>11, <2>1
<1>13. At(pos) = Tag("[")
  BY <1>12, ReadTag
<1>14. ASSUME OpenList PROVE Onward(w)
  <2>1. frames' = t /\ pos' = pos + 1 /\ text' = text /\ version' = version /\ pc' = "parse"
    BY <1>1, <1>14 DEF OpenList, g, kind
  <2>2. /\ Len(t) = n + 1 /\ (\A i \in 1..n : t[i] = frames[i]) /\ t[n + 1] = g
    BY <1>2, PushStack
  <2> HIDE DEF t
  <2>3. PICK F, U : Line(t, F, U, w) /\ F[Len(t)] = q /\ U[Len(t)] = v
    <3>1. /\ Len(frames) \in Nat /\ Len(frames) >= 1 /\ Len(t) = Len(frames) + 1
          /\ \A i \in 1..Len(frames) : t[i] = frames[i]
      BY <1>2, <2>2
    <3>2. Waits(frames[Len(frames)], v, q, E[Len(frames)], O[Len(frames)])
      BY <1>9
    <3> QED
      BY <3>1, <3>2, Lengthened
  <2>4. t[Len(t)] = g /\ Len(t) # 1
    BY <1>2, <2>2
  <2>5. CASE Working(g, pos + 1, q, v)
    BY <2>1, <2>3, <2>4, <2>5 DEF Onward, Heading
  <2>6. CASE v = <<>> /\ ReadAs(At(pos + 1)) = Tag("]") /\ q = pos + 2
    <3>1. At(pos + 1) = Tag("]") /\ pos + 1 \in Nat /\ q = (pos + 1) + 1
      BY <1>8, <2>6, ReadTag
    <3>2. Vain(g, pos + 1, q, v)
      BY <1>11, <2>6, <3>1 DEF Vain
    <3> QED
      BY <2>1, <2>3, <2>4, <3>2 DEF Onward, Failing
  <2> QED
    BY <1>12, <2>5, <2>6
<1> QED
  BY <1>13, <1>14

\* Behind an element the list goes on or ends.
LEMMA HeadingGoesOn ==
  ASSUME Kept, version = "Traditional", AfterElement, NEW E, NEW O, NEW w, Line(frames, E, O, w),
         Working(Top, pos, E[Len(frames)], O[Len(frames)])
  PROVE  /\ At(pos) \in {Separator, Tag("]")}
         /\ NextElement \/ CloseList => Onward(w)
<1> DEFINE n == Len(frames)
           m == n - 1
           kind == Top.kind
           ys == Items
           g == Another(kind, pos, ys)
           t == Append(Below, g)
<1>1. Below # <<>> /\ Top.todo = <<>> /\ pc = "parse" /\ frames # <<>>
  BY DEF AfterElement, Kept, Busy
<1>2. /\ n \in Nat /\ n >= 1 /\ Top = frames[n] /\ Parser(Top, n, version) /\ n # 1
      /\ IsSeq(Below) /\ Len(Below) = n - 1 /\ \A i \in 1..n - 1 : Below[i] = frames[i]
  BY <1>1, TopFacts
<1>3. kind \in Kinds /\ InputDrv = List("string")
  BY <1>2 DEF Parser, Parsers, InputDrv
<1>4. /\ g.kind = kind /\ g.items = ys /\ g.parts = <<>> /\ g.todo = Element(kind)
  BY DEF Another, Frame
<1>5. \/ ReadAs(At(pos)) = Tag("]") /\ E[n] = pos + 1 /\ ys = O[n]
      \/ ReadAs(At(pos)) = Separator /\ Working(g, pos + 1, E[n], O[n])
  <2>1. ys = Append(Top.items, Item(Top.kind, Top.parts))
    BY DEF Items
  <2> HIDE DEF ys, g
  <2>2. \/ ReadAs(At(pos)) = Tag("]") /\ E[n] = pos + 1 /\ ys = O[n]
        \/ /\ ReadAs(At(pos)) = Separator
           /\ \A f : f.kind = Top.kind /\ f.items = ys /\ f.todo = Element(Top.kind) /\ f.parts = <<>>
                       => Working(f, pos + 1, E[n], O[n])
    BY <1>1, <1>3, <2>1, WorkingEnds
  <2> QED
    BY <1>4, <2>2
<1>6. Separator # Tag("]")
  <2>1. \A s, u : Tag(s) = Tag(u) => s = u
    BY DEF Tag
  <2> QED
    BY <2>1, Zenon DEF Separator
<1>7. /\ ReadAs(At(pos)) = Tag("]") => At(pos) = Tag("]")
      /\ ReadAs(At(pos)) = Separator => At(pos) = Separator
  BY ReadTag, Zenon DEF Separator
<1>8. At(pos) \in {Separator, Tag("]")}
  BY <1>5, <1>7
<1>9. ASSUME CloseList PROVE Onward(w)
  <2>1. /\ At(pos) = Tag("]") /\ EndList(ys, pos) /\ text' = text /\ version' = version
    BY <1>9 DEF CloseList, Peek
  <2>2. E[n] = pos + 1 /\ ys = O[n]
    BY <1>5, <1>6, <1>7, <2>1
  <2> HIDE DEF ys
  <2>3. Heading(frames', pos', w)
    BY <1>1, <2>1, <2>2, EndListHeads
  <2>4. pc' = "parse"
    BY <2>1 DEF EndList
  <2> QED
    BY <2>1, <2>3, <2>4 DEF Onward
<1>10. ASSUME NextElement PROVE Onward(w)
  <2>1. /\ At(pos) = Separator /\ frames' = t /\ pos' = pos + 1 /\ text' = text /\ pc' = "parse"
        /\ version' = version
    BY <1>1, <1>10 DEF NextElement, Another, Peek, Separator
  <2>2. Working(g, pos + 1, E[n], O[n])
    BY <1>5, <1>6, <1>7, <2>1
  <2> HIDE DEF g
  <2>3. m \in Nat /\ m + 1 = n /\ m + 1 <= n /\ Len(Below) = m
    BY <1>2
  <2>4. /\ Len(t) = m + 1 /\ (\A i \in 1..m : t[i] = frames[i]) /\ t[m + 1] = g
    BY <1>2, <2>3, PushStack
  <2>5. Len(t) = n /\ t[Len(t)] = g
    BY <2>3, <2>4
  <2>6. Len(frames) \in Nat /\ m + 1 <= Len(frames)
    BY <1>2, <2>3
  <2> HIDE DEF t, m, n
  <2>7. Line(t, E, O, w)
    BY <2>3, <2>4, <2>6, Relined
  <2> QED
    BY <2>1, <2>2, <2>5, <2>7 DEF Onward, Heading
<1> QED
  BY <1>8, <1>9, <1>10

\* The step that the innermost parser is about to take is one that it can take, and
\* takes it to where nix meant it to be.
LEMMA GoalHeads ==
  ASSUME Kept, version = "Traditional", InElement, NEW E, NEW O, NEW w, Line(frames, E, O, w),
         Working(Top, pos, E[Len(frames)], O[Len(frames)]), Next
  PROVE  Onward(w)
<1> DEFINE n == Len(frames)
<1>1. /\ frames # <<>> /\ Goal \in StepsOf(Top.kind, version) /\ Goal = Head(Top.todo)
      /\ Top.todo # <<>> /\ pc = "parse" /\ ~AfterElement /\ pos \in Nat
  BY GoalFacts DEF Goal, InElement, AfterElement, Kept
<1>2. /\ Top = frames[n] /\ Parser(Top, n, version) /\ Top.kind \in Parsers
  BY <1>1, TopFacts DEF Parser
<1>3. IsSeq(Top.parts)
  BY WorkingParts
<1>4. PICK v, q : Takes(Top, v, pos, q, E[n], O[n])
  BY <1>1, <1>2, WorkingStep
<1>5. /\ StepAt(Goal, v, pos, q)
      /\ Goal = Make => OutputKinds(Top.parts[2], Top.parts[3], Top.parts[4]) = {v}
  BY <1>1, <1>4 DEF Takes
<1>6. /\ Goal[1] = "tag" => q = pos + 1 /\ At(pos) = Goal
      /\ Goal = Str => q = pos + 1 /\ At(pos) \in Strings /\ v = Content[At(pos)[2]]
      /\ Goal = Make => q = pos
      /\ Goal # Unfinished
  BY <1>5, StepShows
<1>7. Str[1] = "string" /\ Make[1] = "new" /\ Unfinished[1] = "todo"
  BY Kinded
<1>heads. ASSUME NEW taken, NEW parts, parts = IF Goal[1] = "tag" THEN <<>> ELSE <<v>>,
                 pos + taken = q, Advance(taken, parts)
          PROVE  Onward(w)
  <2>1. Heading(frames', pos', w)
    BY <1>3, <1>4, <1>heads, AdvanceHeads
  <2>2. text' = text /\ version' = version /\ pc' = "parse"
    BY <1>1, <1>heads DEF Advance
  <2> QED
    BY <2>1, <2>2 DEF Onward
<1>tag. ASSUME ParseTag PROVE Onward(w)
  <2>1. Goal[1] = "tag" /\ Advance(1, <<>>)
    BY <1>tag DEF ParseTag
  <2> QED
    BY <1>6, <1>heads, <2>1
<1>string. ASSUME ParseString PROVE Onward(w)
  <2>1. Goal = Str /\ Advance(1, <<Content[At(pos)[2]]>>)
    BY <1>string DEF ParseString, Peek
  <2>2. Goal[1] # "tag" /\ Content[At(pos)[2]] = v /\ pos + 1 = q
    BY <1>6, <1>7, <2>1
  <2> QED
    BY <1>heads, <2>1, <2>2
<1>output. ASSUME MakeOutput PROVE Onward(w)
  <2> DEFINE kinds == OutputKinds(Top.parts[2], Top.parts[3], Top.parts[4])
  <2>1. Goal = Make /\ ((\E kind \in kinds : Advance(0, <<kind>>)) \/ kinds = {})
    BY <1>output DEF MakeOutput
  <2>2. kinds = {v}
    BY <1>5, <2>1
  <2> HIDE DEF kinds
  <2>3. Advance(0, <<v>>)
    BY <2>1, <2>2
  <2>4. Goal[1] # "tag" /\ pos + 0 = q
    BY <1>1, <1>6, <1>7, <2>1
  <2> QED
    BY <1>heads, <2>3, <2>4
<1>list. ASSUME Goal[1] = "list" PROVE At(pos) = Tag("[") /\ (OpenList => Onward(w))
  BY <1>4, <1>list, HeadingOpens
<1>8. OpenList => Onward(w)
  BY <1>list DEF OpenList
<1>9. ~Mismatch
  <2> SUFFICES ASSUME Mismatch PROVE FALSE
    OBVIOUS
  <2>1. \/ Goal[1] = "tag" /\ At(pos) # Goal
        \/ Goal = Str /\ At(pos) \notin Strings
        \/ Goal[1] = "list" /\ At(pos) # Tag("[")
    BY <1>1 DEF Mismatch, Peek
  <2> QED
    BY <1>6, <1>list, <2>1
<1>10. /\ ~Open /\ ~Refuse /\ ~ParseVersion /\ ~NoVersion /\ ~Unwind /\ ~NoDerivation /\ ~Convert
       /\ ~(Stopped /\ UNCHANGED vars)
  BY <1>1 DEF Open, Refuse, ParseVersion, NoVersion, Unwind, NoDerivation, Convert, Stopped
<1>11. ~NextElement /\ ~CloseList /\ ~Accept /\ ~UnfinishedPanics
  BY <1>1, <1>6 DEF NextElement, CloseList, Accept, UnfinishedPanics
<1> QED
  BY <1>tag, <1>string, <1>output, <1>8, <1>9, <1>10, <1>11 DEF Next

\* Every step keeps the parsers heading to what nix meant, and the last one gets there.
LEMMA HeadingStep ==
  ASSUME Kept, version = "Traditional", pc = "parse", NEW w, Heading(frames, pos, w), Next
  PROVE  Onward(w)
<1> DEFINE n == Len(frames)
<1>1. frames # <<>>
  BY DEF Kept, Busy
<1>2. /\ n \in Nat /\ n >= 1 /\ Top = frames[n] /\ Parser(Top, n, version)
      /\ (Below = <<>>) = (n = 1)
  BY <1>1, TopFacts
<1>3. PICK E, O : Line(frames, E, O, w) /\ Working(Top, pos, E[n], O[n])
  BY <1>2 DEF Heading
<1>4. CASE Top.todo # <<>>
  <2>1. InElement
    BY <1>4 DEF InElement
  <2> QED
    BY <1>3, <2>1, GoalHeads
<1>5. CASE Top.todo = <<>>
  <2>1. /\ ~Open /\ ~Refuse /\ ~ParseVersion /\ ~NoVersion /\ ~Unwind /\ ~NoDerivation /\ ~Convert
        /\ ~(Stopped /\ UNCHANGED vars)
    BY DEF Open, Refuse, ParseVersion, NoVersion, Unwind, NoDerivation, Convert, Stopped
  <2>2. /\ ~InElement /\ ~ParseTag /\ ~ParseString /\ ~OpenList /\ ~MakeOutput /\ ~UnfinishedPanics
    BY <1>5 DEF InElement, ParseTag, ParseString, OpenList, MakeOutput, UnfinishedPanics
  <2>3. CASE Below = <<>>
    <3>1. n = 1 /\ Top.kind = "derivation" /\ Top.kind \in Parsers
      BY <1>2, <2>3 DEF Parser
    <3>2. O[n] = w
      BY <1>3, <3>1 DEF Line
    <3>3. On(Top, pos, w, E[n])
      BY <1>3, <3>1, <3>2 DEF Working
    <3>4. Top.parts = w
      BY <1>5, <3>1, <3>3, OnEnds
    <3>5. ~NextElement /\ ~CloseList /\ ~Mismatch
      BY <2>2, <2>3 DEF NextElement, CloseList, Mismatch, AfterElement
    <3>6. Accept
      BY <2>1, <2>2, <3>5 DEF Next
    <3> QED
      BY <3>4, <3>6 DEF Accept, Onward
  <2>4. CASE Below # <<>>
    <3>1. AfterElement
      BY <1>5, <2>4 DEF AfterElement
    <3>2. At(pos) \in {Separator, Tag("]")} /\ (NextElement \/ CloseList => Onward(w))
      BY <1>3, <3>1, HeadingGoesOn
    <3>3. ~Mismatch
      <4>1. Mismatch => At(pos) \notin {Separator, Tag("]")}
        BY <2>2, Zenon DEF Mismatch, Peek, Separator
      <4> QED
        BY <3>2, <4>1
    <3>4. ~Accept
      BY <2>4 DEF Accept
    <3> QED
      BY <2>1, <2>2, <3>2, <3>3, <3>4 DEF Next
  <2> QED
    BY <2>3, <2>4
<1> QED
  BY <1>4, <1>5

\* The element that an empty list lacks fails, and the list ends in front of it.
LEMMA FailingStep ==
  ASSUME Kept, version = "Traditional", pc \in {"parse", "unwind"}, NEW w,
         Failing(frames, pos, w), Next
  PROVE  Onward(w)
<1> DEFINE n == Len(frames)
<1>1. frames # <<>>
  BY DEF Kept, Busy
<1>2. /\ n \in Nat /\ n >= 1 /\ Top = frames[n] /\ Parser(Top, n, version)
      /\ (Below = <<>>) = (n = 1)
  BY <1>1, TopFacts
<1>3. PICK E, O : Line(frames, E, O, w) /\ Vain(Top, pos, E[n], O[n])
  BY <1>2 DEF Failing
<1>4. Below # <<>> /\ Top.kind \in Kinds
  BY <1>2 DEF Failing, Parser, Parsers
<1>5. /\ O[n] = <<>> /\ Top.items = <<>> /\ Top.saved = pos /\ Top.todo = Element(Top.kind)
      /\ At(pos) = Tag("]") /\ E[n] = pos + 1
  BY <1>3 DEF Vain
<1>6. Top.todo # <<>> /\ Goal \in {Opening, Str}
  BY <1>4, <1>5, Beginnings DEF Goal
<1>7. /\ ~Open /\ ~Refuse /\ ~ParseVersion /\ ~NoVersion /\ ~Convert /\ ~Accept /\ ~NoDerivation
      /\ ~(Stopped /\ UNCHANGED vars) /\ ~NextElement /\ ~CloseList
  BY <1>4, <1>6
  DEF Open, Refuse, ParseVersion, NoVersion, Convert, Stopped, Accept, NoDerivation, NextElement,
      CloseList, AfterElement
<1>8. Opening[1] = "tag" /\ Str[1] = "string" /\ Make[1] = "new" /\ Unfinished[1] = "todo"
  BY Kinded
<1>9. Opening # Tag("]") /\ Tag("]") \notin Strings
  BY DEF Opening, Tag, Strings, Quoted
<1>10. ~ParseTag /\ ~ParseString /\ ~OpenList /\ ~MakeOutput /\ ~UnfinishedPanics
  BY <1>5, <1>6, <1>8, <1>9
  DEF ParseTag, ParseString, OpenList, MakeOutput, UnfinishedPanics, Peek
<1>11. ASSUME Mismatch PROVE Onward(w)
  BY <1>11 DEF Mismatch, Fail, Onward
<1>12. ASSUME Unwind PROVE Onward(w)
  <2>1. EndList(Top.items, pos) /\ text' = text /\ version' = version
    BY <1>5, <1>12 DEF Unwind
  <2>2. Heading(frames', pos', w)
    BY <1>1, <1>3, <1>4, <1>5, <2>1, EndListHeads
  <2>3. pc' = "parse"
    BY <2>1 DEF EndList
  <2> QED
    BY <2>1, <2>2, <2>3 DEF Onward
<1> QED
  BY <1>7, <1>10, <1>11, <1>12 DEF Next

\* After the version of a traditional derivation its fields lie ahead.
LEMMA VersionHeads ==
  ASSUME Kept, NEW d \in Drvs, Written(d), ~IsDynamic(d), pc = "version", Next
  PROVE  /\ text' = text /\ version' = "Traditional" /\ pc' = "parse"
         /\ Heading(frames, pos, Plan(d))'
<1> DEFINE f == Frame("derivation", 1, Fields)
           V == Plan(d)
           s == <<f>>
<1>1. text \in Seq(Tokens)
  BY DEF Kept
<1>2. PICK e : At(1) = Tag("Derive(") /\ Span(Body(d), 2, e)
  BY <1>1, TraditionalLies
<1>3. Tag("Derive(") # Tag("DrvWithVersion(")
  BY DEF Tag
<1>4. Header("Traditional", 1)
  BY <1>2 DEF Header
<1>5. ParseVersion
  BY <1>4
  DEF Next, Open, Refuse, NoVersion, ParseTag, ParseString, OpenList, NextElement, CloseList,
      MakeOutput, UnfinishedPanics, Mismatch, Unwind, NoDerivation, Accept, Convert, Stopped,
      InElement, AfterElement
<1>6. text' = text /\ version' = "Traditional" /\ pc' = "parse" /\ frames' = s /\ pos' = 2
  BY <1>2, <1>3, <1>5 DEF ParseVersion, Header
<1>7. HasFields(d, V) /\ IsSeq(V) /\ Len(V) = 7 /\ V[1] = d.outputs
  BY PlanFields
<1>8. Known(V[1])
  BY <1>7, OutputIsKnown
<1> HIDE DEF V
<1>9. PICK P : P[1] = 2 /\ P[15] = e /\ \A r \in 1..14 : TakenAt("derivation", V, P, r)
  BY <1>2, <1>7, BodySpans
<1>10. f.kind = "derivation" /\ f.todo = Fields /\ f.parts = <<>>
  BY DEF Frame
<1>11. /\ Remaining(Script("derivation"), "derivation", 1)
       /\ Length("derivation") = 14 /\ Count("derivation", 1) = 0 /\ Count("derivation", 14 + 1) = 7
  BY AllRemaining DEF Parsers, Length, Count
<1>12. Script("derivation") = Fields /\ Script("derivation")' = Fields
  BY DEF Script
<1>13. Remaining(Fields, "derivation", 1)'
  BY <1>11, <1>12 DEF Remaining
<1>14. \A r \in 1..14 : TakenAt("derivation", V, P, r)'
  <2>1. \A step, v, i, j : StepAt(step, v, i, j)' <=> StepAt(step, v, i, j)
    BY <1>6, StepsUnmoved
  <2> QED
    BY <1>9, <1>12, <2>1 DEF TakenAt
<1>15. IsSeq(<<>>) /\ Len(<<>>) = 0
  <2>1. <<>> \in Seq({}) /\ Len(<<>>) = 0
    OBVIOUS
  <2> QED
    BY <2>1 DEF IsSeq
<1>16. 1 \in 1..14 + 1 /\ \A q \in 1..0 : FALSE
  OBVIOUS
<1> HIDE DEF f
<1>17. OnAt(f, 2, V, e, P, 1)'
  BY <1>7, <1>9, <1>10, <1>11, <1>13, <1>14, <1>15, <1>16 DEF OnAt
<1>18. On(f, 2, V, e)'
  BY <1>17 DEF On
<1>19. Working(f, 2, e, V)'
  BY <1>8, <1>10, <1>18 DEF Working
<1>20. Len(s) = 1 /\ s[1] = f
  OBVIOUS
<1> HIDE DEF s
<1> DEFINE E == <<e>>
           O == <<V>>
<1>21. E[1] = e /\ O[1] = V
  OBVIOUS
<1> HIDE DEF E, O
<1>22. Line(s, E, O, V)'
  BY <1>20, <1>21 DEF Line
<1>23. Heading(s, 2, V)'
  BY <1>19, <1>20, <1>21, <1>22 DEF Heading
<1> QED
  BY <1>6, <1>23 DEF V

\* What they mean.
Meanings == [d \in Drvs |-> Meaning(d)]

\* The inductive invariant: where a traditional derivation is written, the parser has
\* not begun, or has refused the file, or is on its way to what nix meant, or has it.
OnTrack(d) ==
  \/ pc \in {"open", "version", "refused"}
  \/ /\ version = "Traditional"
     /\ \/ pc = "parse" /\ (Heading(frames, pos, Plan(d)) \/ Failing(frames, pos, Plan(d)))
        \/ pc = "unwind" /\ Failing(frames, pos, Plan(d))
        \/ Finished /\ drv = Meanings[d]

Tracked == \A d \in Drvs : ~IsDynamic(d) /\ Written(d) => OnTrack(d)

\* The text is never changed.
LEMMA TextStays == [Next]_vars => text' = text
BY DEF Next, vars, Open, Refuse, ParseVersion, NoVersion, ParseTag, ParseString, OpenList,
       NextElement, CloseList, MakeOutput, UnfinishedPanics, Mismatch, Unwind, NoDerivation, Accept,
       Convert, Advance, Fail, Stop

\* No step leaves the way.
LEMMA TrackedStep == Kept /\ Tracked /\ [Next]_vars => Tracked'
<1> SUFFICES ASSUME Kept, Tracked, [Next]_vars, NEW d \in Drvs, (~IsDynamic(d) /\ Written(d))'
             PROVE  OnTrack(d)'
  BY DEF Tracked
<1>1. text' = text
  BY TextStays
<1>2. ~IsDynamic(d) /\ Written(d)
  <2>1. Written(d)' <=> Written(d)
    BY <1>1 DEF Written, Reads, ReadAs
  <2> QED
    BY <2>1 DEF IsDynamic
<1>3. OnTrack(d)
  BY <1>2 DEF Tracked
<1> DEFINE v == Plan(d)
<1>4. PICK w : w = v
  OBVIOUS
<1>5. Plan(d)' = w
  BY <1>4 DEF Plan
<1>6. Plan(d) = w
  BY <1>4
<1> HIDE DEF v
<1>onward. ASSUME version = "Traditional", Onward(w) PROVE OnTrack(d)'
  <2>1. text' = text /\ version' = version
    BY <1>onward DEF Onward
  <2>2. /\ Heading(frames, pos, w)' <=> Heading(frames', pos', w)
        /\ Failing(frames, pos, w)' <=> Failing(frames', pos', w)
    BY <2>1, HeadingUnmoved
  <2>3. CASE pc' = "parse" /\ (Heading(frames', pos', w) \/ Failing(frames', pos', w))
    BY <1>5, <1>onward, <2>1, <2>2, <2>3 DEF OnTrack
  <2>4. CASE pc' = "unwind" /\ Failing(frames', pos', w)
    BY <1>5, <1>onward, <2>1, <2>2, <2>4 DEF OnTrack
  <2>5. CASE pc' = "done" /\ drv' = Derivation(w)
    <3>1. drv' = Meanings[d]
      BY <1>6, <2>5, PlanIsMeant DEF Meanings
    <3> QED
      BY <1>onward, <2>1, <2>5, <3>1 DEF OnTrack, Finished
  <2> QED
    BY <1>onward, <2>3, <2>4, <2>5 DEF Onward
<1>7. CASE UNCHANGED vars
  <2>1. /\ text' = text /\ version' = version /\ pc' = pc /\ frames' = frames /\ pos' = pos
        /\ drv' = drv
    BY <1>7 DEF vars
  <2>2. CASE pc \in {"open", "version", "refused"}
    BY <2>1, <2>2 DEF OnTrack
  <2>3. CASE version = "Traditional" /\ pc \in {"parse", "unwind"}
    <3>1. Onward(w)
      BY <1>3, <1>6, <2>1, <2>3 DEF OnTrack, Onward, Finished
    <3> QED
      BY <1>onward, <2>3, <3>1
  <2>4. CASE version = "Traditional" /\ Finished /\ drv = Meanings[d]
    BY <2>1, <2>4 DEF OnTrack, Finished
  <2> QED
    BY <1>3, <2>2, <2>3, <2>4 DEF OnTrack
<1>8. CASE Next
  <2>1. CASE pc = "open"
    <3>1. Open \/ Refuse
      BY <1>8, <2>1
      DEF Next, ParseVersion, NoVersion, ParseTag, ParseString, OpenList, NextElement, CloseList,
          MakeOutput, UnfinishedPanics, Mismatch, Unwind, NoDerivation, Accept, Convert, Stopped,
          InElement, AfterElement
    <3> QED
      BY <3>1 DEF Open, Refuse, Stop, OnTrack
  <2>2. CASE pc = "version"
    <3>1. /\ version' = "Traditional" /\ pc' = "parse" /\ Heading(frames, pos, Plan(d))'
      BY <1>2, <1>8, <2>2, VersionHeads
    <3> QED
      BY <3>1 DEF OnTrack
  <2>3. CASE pc = "refused"
    <3>1. pc' = pc
      BY <1>8, <2>3
      DEF Next, Open, Refuse, ParseVersion, NoVersion, ParseTag, ParseString, OpenList, NextElement,
          CloseList, MakeOutput, UnfinishedPanics, Mismatch, Unwind, NoDerivation, Accept, Convert,
          Stopped, InElement, AfterElement, vars
    <3> QED
      BY <2>3, <3>1 DEF OnTrack
  <2>4. CASE version = "Traditional" /\ pc = "parse" /\ Heading(frames, pos, w)
    BY <1>8, <1>onward, <2>4, HeadingStep
  <2>5. CASE version = "Traditional" /\ pc \in {"parse", "unwind"} /\ Failing(frames, pos, w)
    BY <1>8, <1>onward, <2>5, FailingStep
  <2>6. CASE version = "Traditional" /\ Finished /\ drv = Meanings[d]
    <3>1. version' = version /\ drv' = drv /\ pc' = "converted"
      BY <1>8, <2>6
      DEF Next, Open, Refuse, ParseVersion, NoVersion, ParseTag, ParseString, OpenList, NextElement,
          CloseList, MakeOutput, UnfinishedPanics, Mismatch, Unwind, NoDerivation, Accept, Convert,
          Stopped, InElement, AfterElement, vars, Finished
    <3> QED
      BY <2>6, <3>1 DEF OnTrack, Finished
  <2> QED
    BY <1>3, <1>6, <2>1, <2>2, <2>3, <2>4, <2>5, <2>6 DEF OnTrack
<1> QED
  BY <1>7, <1>8

\* A traditional derivation that nix wrote is parsed to what nix meant.
LEMMA TrackedAccepts == Tracked => GrammarAccepted
<1> SUFFICES ASSUME Tracked, Finished \/ pc \in {"err", "panic"}, NEW d \in Drvs,
                    ~IsDynamic(d), Written(d)
             PROVE  Finished /\ drv = Meaning(d)
  BY DEF GrammarAccepted
<1>1. OnTrack(d)
  BY DEF Tracked
<1>2. pc \notin {"open", "version", "refused", "parse", "unwind"}
  BY DEF Finished
<1>3. Finished /\ drv = Meanings[d]
  BY <1>1, <1>2 DEF OnTrack
<1> QED
  BY <1>3 DEF Meanings

----------------------------------------------------------------------------
(* The conversion.                                                         *)

\* A set of positions has a last one.
LEMMA LastOfSome ==
  ASSUME NEW n \in Nat, NEW I \in SUBSET (1..n), I # {}
  PROVE  Max(I) \in I
<1> DEFINE T == {n - i : i \in I}
<1>1. PICK R : IsWellFoundedOn(R, Nat) /\ \A x, y \in Nat : y < x => <<y, x>> \in R
  BY LessThanIsWellFounded
<1>2. T \subseteq Nat /\ T # {}
  <2>1. \A i \in I : n - i \in Nat
    <3>1. \A i \in I : i \in 1..n
      OBVIOUS
    <3> QED
      BY <3>1
  <2> QED
    BY <2>1
<1>3. PICK x \in T : \A y \in T : ~(<<y, x>> \in R)
  BY <1>1, <1>2, WFMin
<1>4. \A y \in T : x <= y
  <2> HIDE DEF T
  <2>1. x \in Nat /\ \A y \in T : y \in Nat
    BY <1>2, <1>3
  <2>2. \A y \in T : ~(y < x)
    BY <1>1, <1>3, <2>1
  <2> QED
    BY <2>1, <2>2
<1>5. PICK i \in I : x = n - i
  BY <1>3
<1>6. \A j \in I : i >= j
  <2> TAKE j \in I
  <2>1. n - j \in T
    OBVIOUS
  <2> HIDE DEF T
  <2>2. n - i <= n - j
    BY <1>4, <1>5, <2>1
  <2> QED
    BY <2>2
<1> QED
  BY <1>5, <1>6 DEF Max

\* Where the last pair with a key is.
LastWith(pairs, key) == SelectLastInSeq(pairs, LAMBDA pair : pair[1] = key)

\* That is a pair with that key.
LEMMA SelectsPair ==
  ASSUME NEW pairs, IsSeq(pairs), NEW key, NEW i \in 1..Len(pairs), pairs[i][1] = key
  PROVE  \E j \in 1..Len(pairs) : pairs[j][1] = key /\ LastWith(pairs, key) = j
<1> DEFINE I == {j \in 1..Len(pairs) : pairs[j][1] = key}
<1>1. Len(pairs) \in Nat
  BY EmptyOrNot
<1>2. I # {} /\ I \in SUBSET (1..Len(pairs))
  OBVIOUS
<1>3. LastWith(pairs, key) = IF I # {} THEN Max(I) ELSE 0
  BY DEF LastWith, SelectLastInSeq
<1>4. Max(I) \in I
  <2> HIDE DEF I
  <2> QED
    BY <1>1, <1>2, LastOfSome
<1> QED
  BY <1>2, <1>3, <1>4

\* The map of pairs has their keys, and for each the value of a pair with that key.
MapsTo(m, pairs, place) ==
  /\ DOMAIN m = {pairs[i][1] : i \in 1..Len(pairs)}
  /\ \A key \in DOMAIN m : \E j \in 1..Len(pairs) : pairs[j][1] = key /\ m[key] = pairs[j][place]

\* That is what AsMap makes of a sequence of pairs.
LEMMA AsMapMaps ==
  ASSUME NEW pairs, IsSeq(pairs), NEW place
  PROVE  MapsTo(AsMap(pairs, place), pairs, place)
<1> DEFINE m == AsMap(pairs, place)
           keys == {pairs[i][1] : i \in 1..Len(pairs)}
<1>1. DOMAIN pairs = 1..Len(pairs)
  BY EmptyOrNot
<1>2. {pair[1] : pair \in ToSet(pairs)} = keys
  BY <1>1 DEF ToSet
<1>3. m = [key \in keys |-> pairs[LastWith(pairs, key)][place]]
  BY <1>2 DEF AsMap, LastWith
<1>4. DOMAIN m = keys
  BY <1>3
<1>5. ASSUME NEW key \in keys
      PROVE  \E j \in 1..Len(pairs) : pairs[j][1] = key /\ m[key] = pairs[j][place]
  <2>1. PICK i \in 1..Len(pairs) : pairs[i][1] = key
    OBVIOUS
  <2>2. PICK j \in 1..Len(pairs) : pairs[j][1] = key /\ LastWith(pairs, key) = j
    BY <2>1, SelectsPair
  <2>3. m[key] = pairs[LastWith(pairs, key)][place]
    BY <1>3
  <2> QED
    BY <2>2, <2>3
<1> HIDE DEF m, keys
<1> QED
  BY <1>4, <1>5 DEF MapsTo, m, keys

\* The elements of a set, in any order, are all of them.
LEMMA SeqsOfSet ==
  ASSUME NEW S, IsFiniteSet(S), NEW f \in SetToSeqs(S)
  PROVE  ToSet(f) = S
<1> DEFINE n == Cardinality(S)
           D == 1..n
<1>1. n \in Nat
  BY FS_CardinalityType
<1>2. f \in [D -> S] /\ \A i, j \in D : i # j => f[i] # f[j]
  BY DEF SetToSeqs
<1>3. IsFiniteSet(D) /\ Cardinality(D) = n
  <2>1. 1 \in Int /\ n \in Int
    BY <1>1
  <2>2. IsFiniteSet(1..n) /\ Cardinality(1..n) = IF 1 > n THEN 0 ELSE n - 1 + 1
    BY <2>1, FS_Interval
  <2> HIDE DEF n
  <2> QED
    BY <1>1, <2>2
<1> HIDE DEF D, n
<1>4. f \in Injection(D, S)
  BY <1>2 DEF Injection, IsInjective
<1>5. f \in Surjection(D, S)
  BY <1>3, <1>4, FS_Injection DEF n
<1>6. \A x \in S : \E i \in D : f[i] = x
  BY <1>5 DEF Surjection
<1> QED
  BY <1>2, <1>6 DEF ToSet

\* The arguments that a derivation is converted to.
Arguments(x, outputs) ==
  Over([name    |-> <<"string", DrvName>>,
        builder |-> <<"path", x.builder>>,
        system  |-> <<"string", x.platform>>,
        args    |-> <<"list", x.args>>,
        outputs |-> <<"list", outputs>>],
       [key \in DOMAIN x.env |-> <<"string", x.env[key]>>])

IsConverted(x, a) == \E outputs \in SetToSeqs(DOMAIN x.outputs) : a = Arguments(x, outputs)

\* The version is that of the header, and what is converted is what was parsed.
Converted ==
  /\ version = "Traditional" => At(1) = Tag("Derive(")
  /\ version = "none" => pc \in {"open", "version", "refused", "err"}
  /\ pc = "converted" => IsConverted(drv, args)

\* No step changes that.
LEMMA ConvertedStep == Kept /\ Converted /\ [Next]_vars => Converted'
<1> SUFFICES ASSUME Kept, Converted, [Next]_vars PROVE Converted'
  OBVIOUS
<1>1. /\ text' = text /\ At(1)' = At(1)
  BY TextStays DEF At
<1>2. /\ version = "Traditional" => At(1) = Tag("Derive(")
      /\ version = "none" => pc \in {"open", "version", "refused", "err"}
      /\ pc = "converted" => IsConverted(drv, args)
  BY DEF Converted
<1>3. \A x, a : IsConverted(x, a)' <=> IsConverted(x, a)
  BY DEF IsConverted, Arguments, Over
<1>4. CASE UNCHANGED vars
  <2>1. version' = version /\ pc' = pc /\ drv' = drv /\ args' = args
    BY <1>4 DEF vars
  <2>2. pc' = "converted" => IsConverted(drv', args')
    BY <1>2, <2>1
  <2>3. IsConverted(drv, args)' <=> IsConverted(drv', args')
    BY <1>3
  <2> QED
    BY <1>1, <1>2, <2>1, <2>2, <2>3 DEF Converted
<1>5. CASE ParseVersion
  <2>1. version' = "Traditional" => At(1) = Tag("Derive(")
    BY <1>5 DEF ParseVersion, Header
  <2>2. version' # "none" /\ pc' = "parse"
    BY <1>5 DEF ParseVersion
  <2> QED
    BY <1>1, <2>1, <2>2 DEF Converted
<1>6. CASE Convert
  <2>1. pc = "done" /\ version' = version /\ drv' = drv
    BY <1>6 DEF Convert
  <2>2. IsConverted(drv, args')
    BY <1>6, Zenon DEF Convert, IsConverted, Arguments
  <2>3. IsConverted(drv, args)'
    BY <1>3, <2>1, <2>2
  <2> QED
    BY <1>1, <1>2, <2>1, <2>3 DEF Converted
<1>7. ASSUME version' = version, pc' # "converted", pc \in {"open", "version"} => pc' # "parse",
             version = "none" => pc' \in {"open", "version", "refused", "err"}
      PROVE  Converted'
  BY <1>1, <1>2, <1>7 DEF Converted
<1>8. CASE Open \/ Refuse \/ NoVersion
  BY <1>2, <1>7, <1>8 DEF Open, Refuse, NoVersion, Stop
<1>9. CASE ParseTag \/ ParseString \/ OpenList \/ NextElement \/ CloseList \/ MakeOutput
           \/ UnfinishedPanics \/ Mismatch
  <2>1. /\ pc = "parse" /\ version' = version /\ pc' \in {"parse", "unwind", "panic"}
    BY <1>9
    DEF ParseTag, ParseString, OpenList, NextElement, CloseList, MakeOutput, UnfinishedPanics, Mismatch,
        InElement, AfterElement, Advance, EndList, Fail, Stop
  <2> QED
    BY <1>2, <1>7, <2>1
<1>10. CASE Unwind \/ NoDerivation \/ Accept
  <2>1. /\ pc \in {"parse", "unwind"} /\ version' = version /\ pc' \in {"parse", "unwind", "err", "done"}
    BY <1>10 DEF Unwind, NoDerivation, Accept, EndList, Stop
  <2> QED
    BY <1>2, <1>7, <2>1
<1> QED
  BY <1>4, <1>5, <1>6, <1>8, <1>9, <1>10 DEF Next

\* What is returned of a file that nix wrote is what nix meant.
LEMMA FinishedIsMeant ==
  ASSUME Kept, Dynamics, Converted, Tracked, pc = "converted", NEW d \in Drvs, Written(d)
  PROVE  ~IsDynamic(d) /\ drv = Meaning(d)
<1>1. ~IsDynamic(d)
  <2> SUFFICES ASSUME IsDynamic(d) PROVE FALSE
    OBVIOUS
  <2>1. At(1) = Tag("DrvWithVersion(") /\ At(3) = Separator
    BY DynamicLies DEF Kept
  <2>2. Tag("Derive(") # Tag("DrvWithVersion(") /\ Tag("[") # Separator
    <3>1. \A s, u : Tag(s) = Tag(u) => s = u
      BY DEF Tag
    <3> QED
      BY <3>1, Zenon DEF Separator
  <2>3. version = "Dynamic"
    BY <2>1, <2>2 DEF Converted, Kept
  <2>4. At(3) = Tag("[")
    BY <2>3 DEF Dynamics
  <2> QED
    BY <2>1, <2>2, <2>4
<1>2. OnTrack(d)
  BY <1>1 DEF Tracked
<1>3. drv = Meanings[d]
  BY <1>2 DEF OnTrack
<1> QED
  BY <1>1, <1>3 DEF Meanings

\* The fields of what nix meant.
LEMMA MeantFields ==
  ASSUME NEW d \in Drvs
  PROVE  /\ Meaning(d).platform = d.platform /\ Meaning(d).builder = d.builder
         /\ Meaning(d).args = d.args /\ MapsTo(Meaning(d).env, d.env, 2)
         /\ DOMAIN Meaning(d).outputs = {o[1] : o \in ToSet(d.outputs)}
         /\ IsFiniteSet(DOMAIN Meaning(d).outputs)
<1> DEFINE n == Len(d.outputs)
           pairs == [i \in DOMAIN d.outputs |-> <<d.outputs[i][1], d.outputs[i][5]>>]
           m == AsMap(pairs, 2)
           env == AsMap(d.env, 2)
<1>0. IsSeq(d.outputs) /\ IsSeq(d.env)
  BY FieldSeqs
<1>1. DOMAIN d.outputs = 1..n /\ n \in Nat
  BY <1>0, EmptyOrNot
<1>2. /\ Meaning(d).platform = d.platform /\ Meaning(d).builder = d.builder
      /\ Meaning(d).args = d.args /\ Meaning(d).env = env /\ Meaning(d).outputs = m
  BY DEF Meaning, Derivation
<1>3. MapsTo(env, d.env, 2)
  BY <1>0, AsMapMaps
<1>4. IsSeq(pairs) /\ Len(pairs) = n /\ \A i \in 1..n : pairs[i][1] = d.outputs[i][1]
  <2> DEFINE T == {pairs[i] : i \in 1..n}
  <2>1. pairs = [i \in 1..n |-> pairs[i]] /\ \A i \in 1..n : pairs[i] \in T
    BY <1>1
  <2>2. \A i \in 1..n : pairs[i][1] = d.outputs[i][1]
    BY <1>1
  <2> HIDE DEF T, n, pairs
  <2>3. pairs \in [1..n -> T]
    BY <2>1
  <2>4. pairs \in Seq(T) /\ Len(pairs) = n
    BY <1>1, <2>3
  <2> QED
    BY <2>2, <2>4 DEF IsSeq
<1> HIDE DEF pairs
<1>5. MapsTo(m, pairs, 2)
  BY <1>4, AsMapMaps
<1> HIDE DEF m
<1> DEFINE S == {d.outputs[i][1] : i \in 1..n}
<1>6. DOMAIN m = S
  BY <1>4, <1>5 DEF MapsTo
<1>7. {o[1] : o \in ToSet(d.outputs)} = S
  BY <1>1 DEF ToSet
<1>8. IsFiniteSet(S)
  <2> DEFINE f == [i \in 1..n |-> d.outputs[i][1]]
  <2>1. f \in Surjection(1..n, S)
    BY DEF Surjection
  <2>2. IsFiniteSet(1..n)
    <3> HIDE DEF n
    <3>1. 1 \in Int /\ n \in Int
      BY <1>1
    <3> QED
      BY <3>1, FS_Interval
  <2> HIDE DEF f, S, n
  <2> QED
    BY <2>1, <2>2, FS_Surjection
<1> QED
  BY <1>2, <1>3, <1>6, <1>7, <1>8

\* What a derivation of nix is converted to has all its fields.
LEMMA KeepsFields ==
  ASSUME Kept, Dynamics, Converted, Tracked
  PROVE  RebuildKeepsFields
<1> SUFFICES ASSUME pc = "converted", NEW d \in Drvs, Written(d)
             PROVE  LET env == Meaning(d).env
                        own == {"name", "builder", "system", "args", "outputs"}
                    IN /\ DOMAIN args = DOMAIN env \cup own
                       /\ \A key \in DOMAIN env \ {"outputs"} : args[key][2] = env[key]
                       /\ args.args = <<"list", d.args>>
                       /\ args.outputs[1] = "list"
                       /\ ToSet(args.outputs[2]) = {o[1] : o \in ToSet(d.outputs)}
  BY DEF RebuildKeepsFields
<1> DEFINE env == Meaning(d).env
           own == {"name", "builder", "system", "args", "outputs"}
<1>1. drv = Meaning(d)
  BY FinishedIsMeant
<1>2. /\ drv.platform = d.platform /\ drv.builder = d.builder /\ drv.args = d.args
      /\ drv.env = env /\ MapsTo(env, d.env, 2)
      /\ DOMAIN drv.outputs = {o[1] : o \in ToSet(d.outputs)} /\ IsFiniteSet(DOMAIN drv.outputs)
  BY <1>1, MeantFields
<1>3. PICK outputs \in SetToSeqs(DOMAIN drv.outputs) : args = Arguments(drv, outputs)
  BY DEF Converted, IsConverted
<1>4. ToSet(outputs) = {o[1] : o \in ToSet(d.outputs)}
  BY <1>2, SeqsOfSet
<1> DEFINE f == [name    |-> <<"string", DrvName>>,
                 builder |-> <<"path", d.builder>>,
                 system  |-> <<"string", d.platform>>,
                 args    |-> <<"list", d.args>>,
                 outputs |-> <<"list", outputs>>]
           g == [key \in DOMAIN env |-> <<"string", env[key]>>]
<1>5. args = Over(f, g)
  BY <1>2, <1>3 DEF Arguments
<1> HIDE DEF env
<1>6. /\ DOMAIN f = own /\ DOMAIN g = DOMAIN env
      /\ f.name = <<"string", DrvName>> /\ f.builder = <<"path", d.builder>>
      /\ f.system = <<"string", d.platform>> /\ f.args = <<"list", d.args>>
      /\ f.outputs = <<"list", outputs>> /\ \A key \in DOMAIN env : g[key] = <<"string", env[key]>>
  OBVIOUS
<1> HIDE DEF f, g
<1>7. /\ DOMAIN args = DOMAIN env \cup own
      /\ \A key \in own : args[key] = f[key]
      /\ \A key \in DOMAIN env \ own : args[key] = <<"string", env[key]>>
  BY <1>5, <1>6 DEF Over
<1>8. args.args = <<"list", d.args>> /\ args.outputs = <<"list", outputs>>
  BY <1>6, <1>7
<1>9. ASSUME NEW key \in DOMAIN env \ {"outputs"} PROVE args[key][2] = env[key]
  <2>1. PICK j \in 1..Len(d.env) : d.env[j][1] = key /\ env[key] = d.env[j][2]
    BY <1>2, <1>9 DEF MapsTo
  <2>2. j \in DOMAIN d.env
    BY FieldSeqs, EmptyOrNot
  <2>3. /\ key # "args" /\ (key = "name" => env[key] = DrvName)
        /\ (key = "builder" => env[key] = d.builder) /\ (key = "system" => env[key] = d.platform)
    BY <2>1, <2>2, EnvAgrees
  <2>4. CASE key \in own
    BY <1>6, <1>7, <2>3, <2>4
  <2>5. CASE key \notin own
    BY <1>7, <2>5
  <2> QED
    BY <2>4, <2>5
<1> QED
  BY <1>4, <1>7, <1>8, <1>9 DEF env

----------------------------------------------------------------------------
(* The theorems.                                                           *)

\* The inductive invariant.
Inductive ==
  Kept /\ Begun /\ Clean /\ Dynamics /\ Panics /\ Accounted /\ Tracked /\ Converted

\* It holds throughout.
LEMMA Invariants == Spec => []Inductive
<1>1. Init => Inductive
  <2> SUFFICES ASSUME Init PROVE Inductive
    OBVIOUS
  <2>1. text \in Seq(Tokens) /\ Len(text) \in Nat
    BY TextsType DEF Init
  <2>2. <<>> \in Seq({}) /\ Len(<<>>) = 0
    OBVIOUS
  <2>3. (\A i \in 1..Len(<<>>) : FALSE) /\ (\A i \in 1..Len(<<>>) - 1 : FALSE)
    BY <2>2
  <2>4. Nested(<<>>, pos, version)
    BY <2>2, <2>3 DEF Nested, IsSeq
  <2>5. Kept
    BY <2>1, <2>4 DEF Init, Kept, Busy
  <2>6. Begun /\ Clean /\ Dynamics /\ Panics
    BY DEF Init, Begun, Clean, Dynamics, Panics
  <2>7. Accounted /\ Tracked /\ Converted
    BY DEF Init, Accounted, Busy, Finished, Tracked, OnTrack, Converted
  <2> QED
    BY <2>5, <2>6, <2>7 DEF Inductive
<1>2. Inductive /\ [Next]_vars => Inductive'
  BY KeptStep, CleanStep, DynamicStep, AccountedStep, TrackedStep, ConvertedStep DEF Inductive
<1> QED
  BY <1>1, <1>2, PTL DEF Spec

\* Whatever the text, the parser stays within it, and every parser under way is one
\* that the grammar has where it stands and began no later than it is now.
THEOREM TypeCorrect == Spec => []TypeOK
<1>1. Kept => TypeOK
  <2> SUFFICES ASSUME Kept PROVE TypeOK
    OBVIOUS
  <2>1. \A i \in 1..Len(frames) : Parser(frames[i], i, version) /\ frames[i].saved <= pos
    BY DEF Kept, Nested
  <2>2. DOMAIN frames = 1..Len(frames)
    BY DEF Kept, Nested, IsSeq
  <2>3. \A i \in DOMAIN frames :
          /\ frames[i].kind \in {"derivation", "output", "input", "string", "pair"}
          /\ (i = 1) = (frames[i].kind = "derivation")
          /\ frames[i].saved <= pos
    BY <2>1, <2>2 DEF Parser, Parsers, Kinds
  <2> QED
    BY <2>3 DEF Kept, Busy, TypeOK
<1> QED
  BY <1>1, Invariants, PTL DEF Inductive

\* No Derivation is returned with an error in store.ctx: where the store refuses
\* the path of an output, the parsers around it fail too, up to the first.
THEOREM ResultsAreClean == Spec => []DoneIsClean
<1>1. Kept /\ Clean => DoneIsClean
  BY DEF Kept, Clean, DoneIsClean, Finished
<1> QED
  BY <1>1, Invariants, PTL DEF Inductive

\* The todo!() for the inputs of dynamic derivations is not reached by any file
\* that begins as one which nix wrote.
THEOREM PanicsAreMalformed == Spec => []PanicIsMalformed
<1>1. Kept /\ Dynamics /\ Panics => PanicIsMalformed
  <2> SUFFICES ASSUME Kept, Dynamics, Panics, pc = "panic", NEW d \in Drvs, Written(d)
               PROVE  FALSE
    BY DEF PanicIsMalformed
  <2>1. At(1) = Tag("DrvWithVersion(") /\ At(3) = Tag("[")
    BY DEF Dynamics, Panics
  <2>2. At(3) = Tag(",")
    BY <2>1, DynamicRendering DEF Kept
  <2>3. Tag(",") # Tag("[")
    BY DEF Tag
  <2> QED
    BY <2>1, <2>2, <2>3
<1> QED
  BY <1>1, Invariants, PTL DEF Inductive

\* What parse_derivation returns accounts, in order, for every token from the version
\* to where it stopped: nothing that was read is lost where an element of a list
\* failed and the list ended before it.
THEOREM NothingIsLost == Spec => []NothingLost
<1>1. Inductive => NothingLost
  BY AccountedFor DEF Inductive
<1> QED
  BY <1>1, Invariants, PTL

\* A traditional derivation that nix wrote, of whatever length and with whatever comes
\* after it, is parsed, and to what nix meant by it.
THEOREM GrammarIsAccepted == Spec => []GrammarAccepted
<1>1. Inductive => GrammarAccepted
  BY TrackedAccepts DEF Inductive
<1> QED
  BY <1>1, Invariants, PTL

\* to_nix passes on every field of a derivation that nix wrote, whatever it has: all
\* of the environment, its own arguments, and the names of its outputs.
THEOREM FieldsAreKept == Spec => []RebuildKeepsFields
<1>1. Inductive => RebuildKeepsFields
  BY KeepsFields DEF Inductive
<1> QED
  BY <1>1, Invariants, PTL
=============================================================================
