---------------------------- MODULE Derivations ----------------------------
(***************************************************************************)
(* NixStore::parse_derivation of derivation.rs, and the conversion of what *)
(* it returns to the arguments of builtins.derivation.                     *)
(*                                                                         *)
(* The text of a .drv file is a sequence of tokens: tags, and quoted       *)
(* strings, whose escapes are abstracted to Content.  The parser is made   *)
(* of nom's combinators.  A parser that fails gives its input back, and    *)
(* only separated_list0 makes something of that: a list ends before the    *)
(* element that failed, and before the comma in front of it.  So a frame   *)
(* remembers where the list that it stands for would end.                  *)
(*                                                                         *)
(* The outputs of a derivation go through store.ctx of the store, whose    *)
(* error outlives the parser.                                              *)
(***************************************************************************)
EXTENDS Integers, SequencesExt

CONSTANTS
  Content,     \* Content[l]: the string that the literal l stands for
  Broken,      \* literals with an escape that is none, or without an end
  Algorithms,  \* hash_algo fields with a known method and algorithm
  StorePaths,  \* paths that store_parse_path accepts
  Texts,       \* files to parse
  DrvName,     \* their name in the store
  Drvs         \* derivations that nix may have written

Tag(t) == <<"tag", t>>
Quoted(l) == <<"str", l>>

Strings == {Quoted(l) : l \in DOMAIN Content}

Tokens == {Tag(t) : t \in {"Derive(", "DrvWithVersion(", "[", "]", "(", ")", ","}}
          \cup Strings \cup {Quoted(l) : l \in Broken}

ASSUME BrokenHaveNoContent == Broken \cap DOMAIN Content = {}
ASSUME TextsType == Texts \subseteq Seq(Tokens)
ASSUME NoAlgorithmIsEmpty == "" \notin Algorithms /\ "" \notin StorePaths

VARIABLES
  text,     \* the content of the file
  pc,       \* where parse_derivation is
  pos,      \* the position of the next token
  version,  \* DerivationVersion
  frames,   \* the parsers under way, the innermost last
  ctx,      \* the error in store.ctx, or "ok"
  drv,      \* the Derivation that was returned
  args      \* what it was converted to

vars == <<text, pc, pos, version, frames, ctx, drv, args>>

None == [none |-> TRUE]

Init ==
  /\ text \in Texts
  /\ pc = "open"
  /\ pos = 1
  /\ version = "none"
  /\ frames = <<>>
  /\ ctx = "ok"
  /\ drv = None
  /\ args = None

----------------------------------------------------------------------------
(* What nix writes: Derivation::unparse of libstore.                       *)

Comma(tokens, part) == IF tokens = <<>> THEN part ELSE tokens \o <<Tag(",")>> \o part

Between(open, parts, close) == <<Tag(open)>> \o FoldLeft(Comma, <<>>, parts) \o <<Tag(close)>>

ListOf(Written(_), parts) == Between("[", [i \in DOMAIN parts |-> Written(parts[i])], "]")
Word(s) == <<Quoted(s)>>
Words(ss) == ListOf(Word, ss)
Pair(p) == Between("(", <<Word(p[1]), Word(p[2])>>, ")")
Output(o) == Between("(", <<Word(o[1]), Word(o[2]), Word(o[3]), Word(o[4])>>, ")")
Child(c) == Between("(", <<Word(c[1]), Words(c[2])>>, ")")

\* The outputs wanted of an input, and of the derivations that they are.
Input(i) ==
  LET wanted == IF i[3] = <<>> THEN Words(i[2])
                ELSE Between("(", <<Words(i[2]), ListOf(Child, i[3])>>, ")")
  IN Between("(", <<Word(i[1]), wanted>>, ")")

Body(d) ==
  Tail(Between("", <<ListOf(Output, d.outputs), ListOf(Input, d.inputs), Words(d.srcs),
                     Word(d.platform), Word(d.builder), Words(d.args), ListOf(Pair, d.env)>>,
               ")"))

IsDynamic(d) == \E i \in DOMAIN d.inputs : d.inputs[i][3] # <<>>

Rendering(d) ==
  (IF IsDynamic(d) THEN <<Tag("DrvWithVersion("), Quoted("xp-dyn-drv"), Tag(",")>>
   ELSE <<Tag("Derive(")>>) \o Body(d)

\* The fields of a derivation.
ASSUME DrvsType ==
  \A d \in Drvs :
    /\ d.outputs \in Seq(STRING \X STRING \X STRING \X STRING \X STRING)
    /\ d.inputs \in Seq(STRING \X Seq(STRING) \X Seq(STRING \X Seq(STRING)))
    /\ d.srcs \in Seq(STRING) /\ d.args \in Seq(STRING)
    /\ d.platform \in STRING /\ d.builder \in STRING
    /\ d.env \in Seq(STRING \X STRING)

\* The path, method and algorithm, and hash of each kind of output.
ASSUME OutputsAreKnown ==
  \A d \in Drvs : \A i \in DOMAIN d.outputs :
    LET path == d.outputs[i][2]
        algo == d.outputs[i][3]
        hash == d.outputs[i][4]
        kind == d.outputs[i][5]
    IN \/ kind = "InputAddressed" /\ path \in StorePaths /\ algo = "" /\ hash = ""
       \/ kind = "CAFixed" /\ path \in StorePaths /\ algo \in Algorithms /\ hash \notin {"", "impure"}
       \/ kind = "CAFloating" /\ path = "" /\ algo \in Algorithms /\ hash = ""
       \/ kind = "Impure" /\ path = "" /\ algo \in Algorithms /\ hash = "impure"
       \/ kind = "Deferred" /\ path = "" /\ algo = "" /\ hash = ""

\* derivationStrict copies the attributes of a derivation into its environment, except
\* for the arguments: the name, builder and system there are its own.
ASSUME EnvAgrees ==
  \A d \in Drvs : \A i \in DOMAIN d.env :
    LET key == d.env[i][1]
        value == d.env[i][2]
    IN /\ key # "args"
       /\ key = "name" => value = DrvName
       /\ key = "builder" => value = d.builder
       /\ key = "system" => value = d.platform

----------------------------------------------------------------------------
(* The grammar: what each parser goes through.                             *)

Str == <<"string", "">>
List(kind) == <<"list", kind>>
Make == <<"new", "">>
Unfinished == <<"todo", "">>

\* parse_derivation, after the version.
Fields ==
  <<List("output"), Tag(","), List("input"), Tag(","), List("string"), Tag(","), Str, Tag(","),
    Str, Tag(","), List("string"), Tag(","), List("pair"), Tag(")")>>

\* InputDrv::parse of a dynamic derivation is todo!().
InputDrv == IF version = "Dynamic" THEN Unfinished ELSE List("string")

\* parse_drv_output, parse_input, string, parse_pair
Element(kind) ==
  CASE kind = "output" -> <<Tag("("), Str, Tag(","), Str, Tag(","), Str, Tag(","), Str,
                            Tag(")"), Make>>
    [] kind = "input"  -> <<Tag("("), Str, Tag(","), InputDrv, Tag(")")>>
    [] kind = "string" -> <<Str>>
    [] kind = "pair"   -> <<Tag("("), Str, Tag(","), Str, Tag(")")>>

\* A mutant: any hash is a fixed one.
OutputKindsFixed(path, algo, hash) ==
  {kind \in {"CAFixed", "CAFloating", "Deferred", "InputAddressed"} :
    \/ kind = "CAFixed" /\ algo \in Algorithms /\ hash # ""
    \/ kind = "CAFloating" /\ algo \in Algorithms /\ hash = "" /\ path = ""
    \/ kind = "Deferred" /\ algo = "" /\ path = ""
    \/ kind = "InputAddressed" /\ algo = "" /\ path \in StorePaths}

\* DerivationOutput::new, which returns an error if none of these applies.
OutputKinds(path, algo, hash) ==
  {kind \in {"Impure", "CAFixed", "CAFloating", "Deferred", "InputAddressed"} :
    \/ kind = "Impure" /\ algo \in Algorithms /\ hash = "impure" /\ path = ""
    \/ kind = "CAFixed" /\ algo \in Algorithms /\ hash \notin {"", "impure"}
    \/ kind = "CAFloating" /\ algo \in Algorithms /\ hash = "" /\ path = ""
    \/ kind = "Deferred" /\ algo = "" /\ path = ""
    \/ kind = "InputAddressed" /\ algo = "" /\ path \in StorePaths}

----------------------------------------------------------------------------
(* The parsers under way.                                                  *)

\* A parser, or the list of them that is being parsed: the position where the
\* list ends if its current element fails, its elements so far, and of the
\* current element the parts that are parsed and the steps to come.
Frame(kind, saved, todo) ==
  [kind |-> kind, saved |-> saved, items |-> <<>>, parts |-> <<>>, todo |-> todo]

Top == Last(frames)
Below == Front(frames)
Goal == Head(Top.todo)
InElement == pc = "parse" /\ Top.todo # <<>>
AfterElement == pc = "parse" /\ Top.todo = <<>> /\ Below # <<>>

At(i) == IF i \in 1..Len(text) THEN text[i] ELSE <<"end", "">>
Peek == At(pos)

Item(kind, parts) == IF kind = "string" THEN parts[1] ELSE parts
Items == Append(Top.items, Item(Top.kind, Top.parts))

\* The step is done, and takes and yields so much.
Advance(taken, parts) ==
  /\ frames' = Append(Below, [Top EXCEPT !.todo = Tail(@), !.parts = @ \o parts])
  /\ pos' = pos + taken
  /\ UNCHANGED <<text, pc, version, drv, args>>

\* The list ends here, with these elements.
EndList(items, here) ==
  /\ frames' = Append(Front(Below), [Last(Below) EXCEPT !.todo = Tail(@),
                                                         !.parts = Append(@, items)])
  /\ pos' = here + 1
  /\ pc' = "parse"

Fail ==
  /\ pc' = "unwind"
  /\ UNCHANGED <<text, pos, version, frames, drv, args>>

Stop(place) ==
  /\ pc' = place
  /\ frames' = <<>>
  /\ UNCHANGED <<text, pos, version, drv, args>>

----------------------------------------------------------------------------
(* The parser.                                                             *)

\* parse_path, read_to_string, name and strip_suffix: only the error of the
\* first is one of store.ctx.
Open ==
  /\ pc = "open"
  /\ pc' = "version"
  /\ UNCHANGED <<text, pos, version, frames, ctx, drv, args>>

Refuse ==
  /\ pc = "open"
  /\ Stop("refused")
  /\ ctx' \in {"ok", "nix"}

\* A mutant: it does.
HeaderWithComma(v, taken) ==
  \/ v = "Traditional" /\ taken = 1 /\ At(1) = Tag("Derive(")
  \/ /\ v = "Dynamic" /\ taken = 3
     /\ At(1) = Tag("DrvWithVersion(") /\ At(3) = Tag(",")
     /\ At(2) \in Strings /\ Content[At(2)[2]] = "xp-dyn-drv"

\* Nothing takes the comma after the version of a dynamic derivation.
Header(v, taken) ==
  \/ v = "Traditional" /\ taken = 1 /\ At(1) = Tag("Derive(")
  \/ /\ v = "Dynamic" /\ taken = 2
     /\ At(1) = Tag("DrvWithVersion(")
     /\ At(2) \in Strings /\ Content[At(2)[2]] = "xp-dyn-drv"

ParseVersion ==
  /\ pc = "version"
  /\ \E v \in {"Traditional", "Dynamic"}, taken \in 1..3 :
       /\ Header(v, taken)
       /\ version' = v
       /\ pos' = taken + 1
  /\ pc' = "parse"
  /\ frames' = <<Frame("derivation", 1, Fields)>>
  /\ UNCHANGED <<text, ctx, drv, args>>

NoVersion ==
  /\ pc = "version"
  /\ \A v \in {"Traditional", "Dynamic"}, taken \in 1..3 : ~Header(v, taken)
  /\ Stop("err")
  /\ UNCHANGED ctx

\* A mutant: any token will do.
ParseTagBlindly ==
  /\ InElement /\ Goal[1] = "tag"
  /\ Advance(1, <<>>)
  /\ UNCHANGED ctx

ParseTag ==
  /\ InElement /\ Goal[1] = "tag" /\ Peek = Goal
  /\ Advance(1, <<>>)
  /\ UNCHANGED ctx

ParseString ==
  /\ InElement /\ Goal = Str /\ Peek \in Strings
  /\ Advance(1, <<Content[Peek[2]]>>)
  /\ UNCHANGED ctx

\* delimited and separated_list0, of list
OpenList ==
  /\ InElement /\ Goal[1] = "list" /\ Peek = Tag("[")
  /\ frames' = Append(frames, Frame(Goal[2], pos + 1, Element(Goal[2])))
  /\ pos' = pos + 1
  /\ UNCHANGED <<text, pc, version, ctx, drv, args>>

NextElement ==
  /\ AfterElement /\ Peek = Tag(",")
  /\ frames' = Append(Below, [Frame(Top.kind, pos, Element(Top.kind)) EXCEPT !.items = Items])
  /\ pos' = pos + 1
  /\ UNCHANGED <<text, pc, version, ctx, drv, args>>

CloseList ==
  /\ AfterElement /\ Peek = Tag("]")
  /\ EndList(Items, pos)
  /\ UNCHANGED <<text, version, ctx, drv, args>>

\* A mutant: a path that the store refuses is one that is not known yet.
MakeOutputAnyway ==
  /\ InElement /\ Goal = Make
  /\ LET path == Top.parts[2]
         algo == Top.parts[3]
         hash == Top.parts[4]
         kinds == OutputKinds(path, algo, hash)
     IN /\ \/ \E kind \in kinds : Advance(0, <<kind>>)
           \/ kinds = {} /\ Advance(0, <<"Deferred">>)
        /\ ctx' = IF algo # "" \/ path = "" THEN ctx
                  ELSE IF kinds = {} THEN "nix" ELSE "ok"

\* DerivationOutput::new asks the store for the path of an output with nothing else.
MakeOutput ==
  /\ InElement /\ Goal = Make
  /\ LET path == Top.parts[2]
         algo == Top.parts[3]
         hash == Top.parts[4]
         kinds == OutputKinds(path, algo, hash)
     IN /\ \/ \E kind \in kinds : Advance(0, <<kind>>)
           \/ kinds = {} /\ Fail
        /\ ctx' = IF algo # "" \/ path = "" THEN ctx
                  ELSE IF kinds = {} THEN "nix" ELSE "ok"

\* todo!()
UnfinishedPanics ==
  /\ InElement /\ Goal = Unfinished
  /\ Stop("panic")
  /\ UNCHANGED ctx

\* The next token is none that the parser can take.
Mismatch ==
  /\ \/ InElement /\ Goal[1] = "tag" /\ Peek # Goal
     \/ InElement /\ Goal = Str /\ Peek \notin Strings
     \/ InElement /\ Goal[1] = "list" /\ Peek # Tag("[")
     \/ AfterElement /\ Peek \notin {Tag(","), Tag("]")}
  /\ Fail
  /\ UNCHANGED ctx

\* A mutant: the list ends behind what failed.
UnwindBehind ==
  /\ pc = "unwind" /\ Below # <<>>
  /\ IF At(pos) = Tag("]")
     THEN EndList(Top.items, pos)
     ELSE frames' = Below /\ UNCHANGED <<pc, pos>>
  /\ UNCHANGED <<text, version, ctx, drv, args>>

\* A failed element: the list ends before it, if there is a bracket, and fails
\* like all other parsers if there is none.
Unwind ==
  /\ pc = "unwind" /\ Below # <<>>
  /\ IF At(Top.saved) = Tag("]")
     THEN EndList(Top.items, Top.saved)
     ELSE frames' = Below /\ UNCHANGED <<pc, pos>>
  /\ UNCHANGED <<text, version, ctx, drv, args>>

NoDerivation ==
  /\ pc = "unwind" /\ Below = <<>>
  /\ Stop("err")
  /\ UNCHANGED ctx

\* The last pair with a key wins.
AsMap(pairs, place) ==
  [key \in {pair[1] : pair \in ToSet(pairs)} |->
     pairs[SelectLastInSeq(pairs, LAMBDA pair : pair[1] = key)][place]]

\* The Derivation of the parts of parse_derivation.  What follows in the text is
\* ignored.
Derivation(parts) ==
  [outputs    |-> AsMap([i \in DOMAIN parts[1] |-> <<parts[1][i][1], parts[1][i][5]>>], 2),
   input_drvs |-> AsMap([i \in DOMAIN parts[2] |->
                           <<parts[2][i][1], ToSet(parts[2][i][2])>>], 2),
   input_srcs |-> ToSet(parts[3]),
   platform   |-> parts[4],
   builder    |-> parts[5],
   args       |-> parts[6],
   env        |-> AsMap(parts[7], 2)]

Accept ==
  /\ pc = "parse" /\ Below = <<>> /\ Top.todo = <<>>
  /\ pc' = "done"
  /\ drv' = Derivation(Top.parts)
  /\ UNCHANGED <<text, pos, version, frames, ctx, args>>

----------------------------------------------------------------------------
(* Derivation::to_nix: the arguments of builtins.derivation.               *)

\* f, and g where f is not defined (@@, of which the provers know nothing).
Over(f, g) ==
  [key \in DOMAIN f \cup DOMAIN g |-> IF key \in DOMAIN f THEN f[key] ELSE g[key]]

\* A mutant: the environment has the last word.
ConvertEnvLast ==
  /\ pc = "done"
  /\ \E outputs \in SetToSeqs(DOMAIN drv.outputs) :
       args' = Over([key \in DOMAIN drv.env |-> <<"string", drv.env[key]>>],
                    [name    |-> <<"string", DrvName>>,
                     builder |-> <<"path", drv.builder>>,
                     system  |-> <<"string", drv.platform>>,
                     args    |-> <<"list", drv.args>>,
                     outputs |-> <<"list", outputs>>])
  /\ pc' = "converted"
  /\ UNCHANGED <<text, pos, version, frames, ctx, drv>>

\* The keys of a HashMap come in any order.
Convert ==
  /\ pc = "done"
  /\ \E outputs \in SetToSeqs(DOMAIN drv.outputs) :
       args' = Over([name    |-> <<"string", DrvName>>,
                     builder |-> <<"path", drv.builder>>,
                     system  |-> <<"string", drv.platform>>,
                     args    |-> <<"list", drv.args>>,
                     outputs |-> <<"list", outputs>>],
                    [key \in DOMAIN drv.env |-> <<"string", drv.env[key]>>])
  /\ pc' = "converted"
  /\ UNCHANGED <<text, pos, version, frames, ctx, drv>>

Stopped == pc \in {"refused", "err", "panic", "converted"}

Next ==
  \/ Open \/ Refuse \/ ParseVersion \/ NoVersion
  \/ ParseTag \/ ParseString \/ OpenList \/ NextElement \/ CloseList
  \/ MakeOutput \/ UnfinishedPanics \/ Mismatch \/ Unwind \/ NoDerivation
  \/ Accept \/ Convert
  \/ Stopped /\ UNCHANGED vars

Spec == Init /\ [][Next]_vars

----------------------------------------------------------------------------
(* Properties.                                                             *)

\* A derivation of these fields, as it reads once it is parsed.
Meaning(d) ==
  Derivation(<<d.outputs, [i \in DOMAIN d.inputs |-> <<d.inputs[i][1], d.inputs[i][2]>>],
               d.srcs, d.platform, d.builder, d.args, d.env>>)

\* A token, a string by its content.
ReadAs(token) ==
  IF token[1] = "tag" THEN token
  ELSE IF token \in Strings THEN Quoted(Content[token[2]])
  ELSE <<"broken", token[2]>>

Reads(tokens) == [i \in DOMAIN tokens |-> ReadAs(tokens[i])]

Renderings == [d \in Drvs |-> Rendering(d)]
Written(d) == IsPrefix(Renderings[d], Reads(text))

Finished == pc \in {"done", "converted"}

\* The type invariant: no step leaves the states of the parser, the tokens of
\* the text, or the parsers that the grammar has.
TypeOK ==
  /\ pc \in {"open", "version", "parse", "unwind", "done"} \/ Stopped
  /\ pos \in 1..Len(text) + 1
  /\ version \in {"none", "Traditional", "Dynamic"}
  /\ ctx \in {"ok", "nix"}
  /\ pc \in {"parse", "unwind"} => frames # <<>>
  /\ \A i \in DOMAIN frames :
       /\ frames[i].kind \in {"derivation", "output", "input", "string", "pair"}
       /\ (i = 1) = (frames[i].kind = "derivation")
       /\ frames[i].saved <= pos

\* The parser of parse_derivation takes back what it read when an element of a
\* list fails (separated_list0): what it returns accounts, in order, for every
\* token up to where it stopped, and nothing is dropped on the way.
NothingLost ==
  Finished =>
    LET parts == frames[1].parts
        first == IF version = "Traditional" THEN 2 ELSE 3
    IN Reads(SubSeq(text, first, pos - 1))
         = Body([outputs |-> parts[1],
                 inputs |-> [i \in DOMAIN parts[2] |-> Append(parts[2][i], <<>>)],
                 srcs |-> parts[3], platform |-> parts[4], builder |-> parts[5],
                 args |-> parts[6], env |-> parts[7]])

\* A traditional derivation that nix wrote, with whatever escapes and whatever
\* comes after it, is parsed, and to what nix meant by it.
GrammarAccepted ==
  Finished \/ pc \in {"err", "panic"} =>
    \A d \in Drvs : ~IsDynamic(d) /\ Written(d) => Finished /\ drv = Meaning(d)

\* The todo!() for the inputs of dynamic derivations is not reached by any file
\* that nix wrote: the comma that parse_version leaves behind stops the parser.
PanicIsMalformed ==
  pc = "panic" => \A d \in Drvs : ~Written(d)

\* An output whose path the store refuses is not dropped from the list: the
\* whole parser fails, so that no Derivation comes with an error in store.ctx.
DoneIsClean ==
  Finished => ctx = "ok"

\* Of a derivation that nix wrote, to_nix passes on every field: the environment
\* as it was, under the fields that nix had put into it too, and the name, the
\* system, the builder, the arguments and the outputs of the derivation itself.
RebuildKeepsFields ==
  pc = "converted" =>
    \A d \in Drvs : Written(d) =>
      LET env == Meaning(d).env
          own == {"name", "builder", "system", "args", "outputs"}
      IN /\ DOMAIN args = DOMAIN env \cup own
         /\ \A key \in DOMAIN env \ {"outputs"} : args[key][2] = env[key]
         /\ args.args = <<"list", d.args>>
         /\ args.outputs[1] = "list"
         /\ ToSet(args.outputs[2]) = {o[1] : o \in ToSet(d.outputs)}
=============================================================================
