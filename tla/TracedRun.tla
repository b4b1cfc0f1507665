------------------------------ MODULE TracedRun ------------------------------
(***************************************************************************)
(* What a traced evaluation promises to the cache that runs it: if it      *)
(* answers, the inputs that it hands over are the tracked paths that were  *)
(* read: no fewer, and no more unless the child has read from something    *)
(* without a path, which may be taken for a file.  Tracer implements it    *)
(* system call by system call; the evaluations of EvalCache are such runs. *)
(***************************************************************************)
CONSTANTS
  Procs,    \* processes that run evaluations
  Files,    \* paths
  Nameless, \* what else is read: sockets, pipes
  Watched   \* the paths for which should_track_file holds

VARIABLES
  phase,  \* phase[p]: "off", "running", or "answered"
  read,   \* read[p]: the paths that p's child has read from
  inputs  \* inputs[p]: the input files that watch has returned

vars == <<phase, read, inputs>>

\* A process is met before its evaluation or in it.
Init ==
  /\ phase \in [Procs -> {"off", "running"}]
  /\ read = [p \in Procs |-> {}]
  /\ inputs = [p \in Procs |-> {}]

Become(p, next, paths, recorded) ==
  /\ phase' = [phase EXCEPT ![p] = next]
  /\ read' = [read EXCEPT ![p] = paths]
  /\ inputs' = [inputs EXCEPT ![p] = recorded]

Fork(p) == phase[p] # "running" /\ Become(p, "running", {}, {})

Read(p, f) == phase[p] = "running" /\ Become(p, "running", read[p] \cup {f}, {})

Answer(p) ==
  /\ phase[p] = "running"
  /\ \E recorded \in SUBSET Watched :
       /\ read[p] \cap Watched \subseteq recorded
       /\ read[p] \cap Nameless = {} => recorded = read[p] \cap Watched
       /\ Become(p, "answered", read[p], recorded)

\* The run fails, or its answer has been used.
Stop(p) == Become(p, "off", {}, {})

Next == \E p \in Procs : Fork(p) \/ (\E f \in Files \cup Nameless : Read(p, f)) \/ Answer(p) \/ Stop(p)

Spec == Init /\ [][Next]_vars
=============================================================================
