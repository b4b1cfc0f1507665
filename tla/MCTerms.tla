------------------------------ MODULE MCTerms ------------------------------
(* Instances of Terms for TLC: an attrset that is its own attribute, with  *)
(* one that throws; lists, an empty one, one without errors, and one with  *)
(* a string that is not UTF-8 and an element that throws; a function; and  *)
(* a number.                                                               *)
EXTENDS Terms

TheValues == {"set", "list", "mixed", "empty", "fn", "bad", "int", "raw"}

TheKinds ==
  [set |-> "attrs", list |-> "list", mixed |-> "list", empty |-> "list", fn |-> "function",
   bad |-> "scalar", int |-> "scalar", raw |-> "scalar"]

TheElems ==
  [v \in TheValues |->
     CASE v = "set" -> <<"list", "bad", "fn", "set", "mixed">>
       [] v = "list" -> <<"fn", "int">>
       [] v = "mixed" -> <<"raw", "bad">>
       [] OTHER -> <<>>]

\* The function throws on lists, returns itself for itself, and else a list.
TheApply ==
  [f \in TheValues |-> [v \in TheValues |->
     CASE TheKinds[v] = "list" -> "bad"
       [] v = "fn" -> "fn"
       [] v = "set" -> "int"
       [] OTHER -> "empty"]]
=============================================================================
