---------------------------- MODULE MCEvalCache ----------------------------
(* Instances of EvalCache for TLC: paths 1 (the main file), 2 and 3.       *)
EXTENDS EvalCache

CONSTANTS p1, p2, a1, a2

\* Contents: "a" imports the next path, "b" imports nothing, and "x" throws.
A == <<"a">>
B == <<"b">>
X == <<"x">>

TwoContents == {A, B}
ThreeContents == {A, B, X}

TheBroken == {X}

\* a1 follows the imports of A, a2 also asks for path 3.
TheImports ==
  [a \in Attrs |-> [b \in Bytes |->
     IF b = A THEN {2} \cap Files
     ELSE IF b = B /\ a = a2 THEN {3} \cap Files ELSE {}]]

TheOrder == [S \in SUBSET Files |-> SetToSortSeq(S, <)]

\* Path 3 is in the Nix store.
TheClasses == [f \in Files |-> IF f = 3 THEN "nix" ELSE "other"]

\* The contents in the order in which a file may take them, never going back.
Age(c) == CASE c = A -> 1 [] c = B -> 2 [] c = X -> 3 [] c = Absent -> 4

Forward(f) == {e \in {f} \X Content \X Content : Age(e[2]) < Age(e[3])}

\* The main file moves forward at any time; path 2 goes back and forth, but not
\* while somebody evaluates.
QuietDepEdits == Forward(1) \cup {<<2, A, B>>, <<2, B, A>>, <<2, A, Absent>>}

\* Everything moves forward.
ForwardEdits == Forward(1) \cup Forward(2)

ASSUME ContentsTellApart == CollisionFree

\* Both files exist at the start: edits take them away.
InitFromA == Init /\ fs = [f \in Files |-> A]

SpecFromA == InitFromA /\ [][Next]_vars

ProcSymmetry == Permutations(Procs)
=============================================================================
