---------------------------- MODULE MCEvaluators ----------------------------
(* Instances of Evaluators for TLC: the stack limit, the feature setting    *)
(* that FlakeSettings::new writes too, and one more setting.               *)
EXTENDS Evaluators

TheKeys == {"stack", "features", "other"}
TheValues == {"none", "flakes", "garbage", "off", "64M", "8G", "unlimited"}

\* The hard limit is 8G.
TheCaps == [v \in TheValues |-> IF v = "unlimited" THEN "8G" ELSE v]

Empty == [k \in {"stack"} |-> "64M"]
Two == [k \in TheKeys |-> IF k = "stack" THEN "unlimited" ELSE "off"]

\* The default, which is an empty one, and one with settings.
TheAsks == {Empty, Two}

Bound(f, c, l, e) ==
  [d \in Creations |-> CASE d = "flakes" -> f [] d = "clone" -> c [] d = "lockflags" -> l
                         [] d = "evaluator" -> e]

\* One thread locks a flake, with clones, or two build evaluators side by side.
TheBounds == {<<Bound(1, 1, 1, 1), Bound(0, 0, 0, 0)>>, <<Bound(1, 0, 0, 1), Bound(0, 0, 0, 1)>>}

TwoEvaluators == {<<Bound(0, 0, 0, 2)>>}
=============================================================================
