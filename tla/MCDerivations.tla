--------------------------- MODULE MCDerivations ---------------------------
(* Instances of Derivations for TLC: a few derivations, as nix writes them,*)
(* and all texts that are one token away from one of those.                *)
EXTENDS Derivations

TheContent ==
  ("a\\tb" :> "a\tb") @@ ("a\tb" :> "a\tb")
  @@ [l \in {"", "out", "dev", "p1", "p2", "r:sha256", "h", "impure", "xp-dyn-drv", "x.drv",
             "name", "x", "builder", "/sh", "system", "linux", "outputs", "out dev"} |-> l]
TheBroken == {"a\\q"}

Env(outputs) ==
  <<<<"builder", "/sh">>, <<"name", "x">>, <<"out", "p1">>, <<"outputs", outputs>>,
    <<"system", "linux">>>>

Drv(outputs, inputs, srcs, arguments, env) ==
  [outputs |-> outputs, inputs |-> inputs, srcs |-> srcs, platform |-> "linux",
   builder |-> "/sh", args |-> arguments, env |-> env]

\* With outputs whose paths depend on the inputs.
Plain == Drv(<<<<"dev", "p2", "", "", "InputAddressed">>, <<"out", "p1", "", "", "InputAddressed">>>>,
             <<<<"x.drv", <<"dev", "out">>, <<>>>>>>, <<>>, <<"a\tb">>, Env("out dev"))

\* One output, of each other kind.
OneOutput(path, algo, hash, kind) ==
  Drv(<<<<"out", path, algo, hash, kind>>>>, <<>>, <<"x">>, <<>>, <<<<"name", "x">>>>)
Others == {OneOutput("p1", "r:sha256", "h", "CAFixed"), OneOutput("", "r:sha256", "", "CAFloating"),
           OneOutput("", "r:sha256", "impure", "Impure"), OneOutput("", "", "", "Deferred")}

Dynamic == Drv(<<<<"out", "p1", "", "", "InputAddressed">>>>,
               <<<<"x.drv", <<>>, <<<<"out", <<"dev">>>>>>>>>>, <<>>, <<>>, <<<<"name", "x">>>>)

TheDrvs == {Plain, Dynamic} \cup Others

\* Literals for the contents.
Spelled(tokens, tab) ==
  [i \in DOMAIN tokens |-> IF tokens[i] = Quoted("a\tb") THEN Quoted(tab) ELSE tokens[i]]

Inserted == {Tag(t) : t \in {"[", "]", "(", ")", ",", "DrvWithVersion("}}
            \cup {Quoted(l) : l \in {"", "out", "p1", "h", "a\\q"}}

Edits(tokens) ==
  {tokens} \cup {Append(tokens, t) : t \in Inserted}
  \cup UNION {{SubSeq(tokens, 1, i - 1), RemoveAt(tokens, i)}
              \cup {InsertAt(tokens, i, t) : t \in Inserted}
              \cup {ReplaceAt(tokens, i, t) : t \in Inserted} : i \in DOMAIN tokens}

TheTexts ==
  UNION {Edits(Spelled(Rendering(d), "a\tb")) : d \in TheDrvs} \cup {Spelled(Rendering(Plain), "a\\tb")}
=============================================================================
