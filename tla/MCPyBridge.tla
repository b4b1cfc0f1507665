----------------------------- MODULE MCPyBridge -----------------------------
(* Instances of PyBridge for TLC: two wrappers of the same function, two   *)
(* stores, and one wrapper of each other kind.                             *)
EXTENDS PyBridge

TheObjects == {"f", "g", "list", "attrs", "state", "store", "cache", "it", "names", "str"}

TheKinds ==
  [f |-> "function", g |-> "function", list |-> "list", attrs |-> "attrset",
   state |-> "evaluator", store |-> "store", cache |-> "store",
   it |-> "listiter", names |-> "iter", str |-> "realised"]

\* An attribute that is read twice is wrapped twice.
ThePointers == [o \in TheObjects |-> IF o = "g" THEN "f" ELSE o]

One(item) == [is |-> "item", items |-> <<item>>]
List(items) == [is |-> "list", items |-> items]
Dict(items) == [is |-> "dict", items |-> items]

TheArguments ==
  {<<>>, <<One("custom")>>, <<One("plain"), One("custom")>>, <<One("nul")>>, <<One("f")>>, <<One("list")>>,
   <<List(<<"custom", "list">>)>>, <<Dict(<<"custom", "foreign">>)>>, <<Dict(<<"custom", "plain">>)>>, <<One("g"), One("plain")>>}

CallbackOnly == {<<One("custom")>>}
=============================================================================
