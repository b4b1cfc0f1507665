----------------------------- MODULE FreshEval -----------------------------
(***************************************************************************)
(* What eval_attr_from_file promises its callers, whatever it keeps in a   *)
(* cache: a call that succeeds returns the value of the attribute for      *)
(* contents that each file had at some time during that very call.         *)
(***************************************************************************)
CONSTANTS Procs, Files, Mains, Attrs, Bytes, Absent, Imports

VARIABLES
  fs,      \* fs[f]: the content of path f
  busy,    \* busy[p]: a call of p is under way
  asked,   \* asked[p]: the main file and the attribute of p's last call
  result,  \* result[p]: what p's last call returned
  seen     \* seen[p][f]: the contents that f had during p's last call

vars == <<fs, busy, asked, result, seen>>

NoView == [f \in {} |-> Absent]
Nothing == [main |-> Absent, attr |-> Absent]
None == [status |-> "none", view |-> NoView, newline |-> FALSE]
Err == [status |-> "err", view |-> NoView, newline |-> FALSE]

\* v is a run of the evaluator: it has read the main file and what the files
\* read import, and nothing else.
Closed(m, a, v) == DOMAIN v = {m} \cup UNION {Imports[a][v[f]] : f \in DOMAIN v}

\* Runs of the evaluator in which every content read is in the given history.
FreshViews(m, a, history) ==
  {v \in UNION {[S -> Bytes] : S \in SUBSET Files} :
     Closed(m, a, v) /\ \A f \in DOMAIN v : v[f] \in history[f]}

Init ==
  /\ fs \in [Files -> Bytes \cup {Absent}]
  /\ busy = [p \in Procs |-> FALSE]
  /\ asked = [p \in Procs |-> Nothing]
  /\ result = [p \in Procs |-> None]
  /\ seen = [p \in Procs |-> [f \in Files |-> {}]]

Ask(p, m, a) ==
  /\ ~busy[p]
  /\ asked' = [asked EXCEPT ![p] = [main |-> m, attr |-> a]]
  /\ seen' = [seen EXCEPT ![p] = [f \in Files |-> {fs[f]}]]

Begin(p, m, a) ==
  /\ Ask(p, m, a)
  /\ busy' = [busy EXCEPT ![p] = TRUE]
  /\ result' = [result EXCEPT ![p] = None]
  /\ UNCHANGED fs

\* Without a main file the call fails at once.
Reject(p, m, a) ==
  /\ fs[m] = Absent
  /\ Ask(p, m, a)
  /\ result' = [result EXCEPT ![p] = Err]
  /\ UNCHANGED <<fs, busy>>

End(p, r) ==
  /\ busy[p]
  /\ busy' = [busy EXCEPT ![p] = FALSE]
  /\ result' = [result EXCEPT ![p] = r]
  /\ UNCHANGED <<fs, asked, seen>>

Succeed(p) ==
  /\ busy[p]
  /\ \E v \in FreshViews(asked[p].main, asked[p].attr, seen[p]), nl \in BOOLEAN :
       End(p, [status |-> "ok", view |-> v, newline |-> nl])

Fail(p) == End(p, Err)

Crash(p) == End(p, None)

Edit(f, c) ==
  /\ fs' = [fs EXCEPT ![f] = c]
  /\ seen' = [p \in Procs |->
                IF busy[p] THEN [seen[p] EXCEPT ![f] = @ \cup {c}] ELSE seen[p]]
  /\ UNCHANGED <<busy, asked, result>>

Next ==
  \/ \E p \in Procs, m \in Mains, a \in Attrs : Begin(p, m, a) \/ Reject(p, m, a)
  \/ \E p \in Procs : Succeed(p) \/ Fail(p) \/ Crash(p)
  \/ \E f \in Files, c \in Bytes \cup {Absent} : Edit(f, c)

Spec == Init /\ [][Next]_vars
=============================================================================
